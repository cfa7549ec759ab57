---------------------------- MODULE XmlRoundTrip ----------------------------
(***************************************************************************)
(* round_trip_xml of tools/document_roundtrip.py: xml.dom.minidom          *)
(* parseString, canonicalise_dom, and toprettyxml(indent="  ",             *)
(* encoding="utf-8").                                                      *)
(*                                                                         *)
(* A text is a sequence of tokens: the XML declaration, a start tag        *)
(* `<t>`, an end tag `</t>`, an empty-element tag `<t/>`, and character    *)
(* tokens: W for a run of non-blank characters, IND for the two spaces of  *)
(* one indentation step, NL for a line break.  Attributes are left out.    *)
(* The parser (expat under minidom) keeps every character inside the root  *)
(* element as text, adjacent character data merged into one text node,    *)
(* and drops the whitespace outside it.                                    *)
(***************************************************************************)
EXTENDS Integers, Sequences, SequencesExt, FiniteSetsExt

CONSTANT Tags  \* element names

Tok(k, v) == [k |-> k, v |-> v]
Open(t)   == Tok("open", t)
Close(t)  == Tok("close", t)
Empty(t)  == Tok("empty", t)
W   == Tok("char", "w")
IND == Tok("char", "  ")
NL  == Tok("char", "\n")
DECL == Tok("decl", "")

Blank == {IND, NL}

Node(k, t, d) == [kind |-> k, tag |-> t, children |-> <<>>, data |-> d]

(* An empty Document node, the parser's only open node                     *)
EmptyDom == [nodes |-> <<Node("document", "", <<>>)>>, stack |-> <<1>>, ok |-> TRUE]

AtTop(P)  == Len(P.stack) = 1
Top(P)    == P.nodes[Last(P.stack)]
Fail(P)   == [P EXCEPT !.ok = FALSE]

AppendChild(P, n) ==
  LET id == Len(P.nodes) + 1 IN
  [P EXCEPT !.nodes = [Append(@, n) EXCEPT ![Last(P.stack)].children = Append(@, id)]]

(* A second element at the top is "junk after document element".          *)
OnOpen(P, t) ==
  IF AtTop(P) /\ P.nodes[1].children # <<>> THEN Fail(P)
  ELSE LET Q == AppendChild(P, Node("element", t, <<>>)) IN
       [Q EXCEPT !.stack = Append(@, Len(Q.nodes))]

(* An end tag must close the innermost open element: "mismatched tag".     *)
OnClose(P, t) ==
  IF AtTop(P) \/ Top(P).tag # t THEN Fail(P)
  ELSE [P EXCEPT !.stack = Front(@)]

(* Character data joins a text node that is the last child, else starts   *)
(* one; outside the root only whitespace is allowed, and it is dropped.    *)
OnChar(P, c) ==
  IF AtTop(P) THEN (IF c \in Blank THEN P ELSE Fail(P))
  ELSE LET kids == Top(P).children IN
       IF kids # <<>> /\ P.nodes[Last(kids)].kind = "text"
       THEN [P EXCEPT !.nodes[Last(kids)].data = Append(@, c)]
       ELSE AppendChild(P, Node("text", "", <<c>>))

Feed(P, x) ==
  IF ~P.ok THEN P
  ELSE CASE x.k = "open"  -> OnOpen(P, x.v)
         [] x.k = "close" -> OnClose(P, x.v)
         [] x.k = "empty" -> OnClose(OnOpen(P, x.v), x.v)
         [] x.k = "char"  -> OnChar(P, x)
         [] x.k = "decl"  -> Fail(P)

(* parseString: the declaration may only open the text; the text must end *)
(* with exactly one element closed.  A failed parse raises ExpatError.      *)
parseString(text) ==
  LET body == IF text # <<>> /\ Head(text) = DECL THEN Tail(text) ELSE text
      P == FoldLeft(Feed, EmptyDom, body)
  IN [P EXCEPT !.ok = @ /\ AtTop(P) /\ Len(P.nodes[1].children) = 1]

(* data.strip(): the text without its leading and trailing whitespace      *)
Strip(d) ==
  LET keep == {i \in DOMAIN d : d[i] \notin Blank} IN
  IF keep = {} THEN <<>> ELSE SubSeq(d, Min(keep), Max(keep))

(* canonicalise_dom strips the text nodes among dom.childNodes, the        *)
(* Document's own children, and no others.                                 *)
canonicalise_dom(P) ==
  [P EXCEPT !.nodes = [i \in DOMAIN P.nodes |->
      IF i \in ToSet(P.nodes[1].children) /\ P.nodes[i].kind = "text"
      THEN [P.nodes[i] EXCEPT !.data = Strip(@)] ELSE P.nodes[i]]]

(* Element.writexml and Text.writexml with addindent "  " and newl "\n": a *)
(* text is written on a line of its own after the indentation; a lone text *)
(* child is written inline between the tags.                               *)
RECURSIVE writexml(_, _, _)
writexml(ns, id, indent) ==
  LET n == ns[id] IN
  CASE n.kind = "text" -> indent \o n.data \o <<NL>>
    [] n.children = <<>> -> indent \o <<Empty(n.tag), NL>>
    [] Len(n.children) = 1 /\ ns[n.children[1]].kind = "text" ->
         indent \o <<Open(n.tag)>> \o ns[n.children[1]].data \o <<Close(n.tag), NL>>
    [] OTHER ->
         indent \o <<Open(n.tag), NL>>
         \o FlattenSeq([k \in DOMAIN n.children |->
                          writexml(ns, n.children[k], indent \o <<IND>>)])
         \o indent \o <<Close(n.tag), NL>>

(* Document.toprettyxml: the declaration line, then each child             *)
toprettyxml(P) ==
  <<DECL, NL>> \o FlattenSeq([k \in DOMAIN P.nodes[1].children |->
                                writexml(P.nodes, P.nodes[1].children[k], <<>>)])

(* round_trip_xml: ok is FALSE when parseString raises                     *)
round_trip_xml(text) ==
  LET P == parseString(text) IN
  [ok |-> P.ok, text |-> IF P.ok THEN toprettyxml(canonicalise_dom(P)) ELSE <<>>]
=============================================================================
