--------------------------- MODULE HtmlTreeBuilder ---------------------------
(***************************************************************************)
(* CanonicalHtmlParser and serialize_html_node of                          *)
(* tools/document_roundtrip.py.                                            *)
(*                                                                         *)
(* html.parser reports a document as a stream of handler calls; the        *)
(* builder keeps the created nodes and a stack of open elements whose      *)
(* bottom is the #document root.  round_trip_html serialises the root's    *)
(* children one node per line.  A serialised text is re-read by           *)
(* html.parser as the handler calls it produces, so the serialiser is      *)
(* modelled by the events of its output: this is what a second parse of    *)
(* the canonical text sees.                                                *)
(*                                                                         *)
(* Text is a sequence of atoms: "w" for a word, or a literal that the      *)
(* document wrote as character references and html.parser decoded          *)
(* (convert_charrefs=True), such as `&lt;b&gt;`, decoded to `<b>`.          *)
(* Whitespace is not an atom: data that is only whitespace is <<>>, and    *)
(* data.strip() is the identity on atoms.  Attributes are sorted and       *)
(* escaped on output and are left out.                                     *)
(***************************************************************************)
EXTENDS Integers, Sequences, SequencesExt, FiniteSetsExt

CONSTANTS
  Tags,      \* element names
  Datas,     \* data the parser may report, as atom sequences
  Literals,  \* Literals[a]: the tag whose start a decoded literal atom spells
  MaxNodes   \* bound on the nodes one document creates

Element(t, closing) ==
  [kind |-> "element", tag |-> t, self_closing |-> closing, children |-> <<>>, text |-> <<>>]
TextNode(d)  == [kind |-> "text", tag |-> "", self_closing |-> FALSE, children |-> <<>>, text |-> d]
LeafNode(k)  == [kind |-> k, tag |-> "", self_closing |-> FALSE, children |-> <<>>, text |-> <<>>]

(* __init__: the #document root, alone on the stack                        *)
EmptyParser == [nodes |-> <<Element("#document", FALSE)>>, stack |-> <<1>>]

(* self._stack[-1].children.append(node)                                   *)
AppendChild(P, node) ==
  LET id == Len(P.nodes) + 1 IN
  [nodes |-> [Append(P.nodes, node) EXCEPT ![Last(P.stack)].children = Append(@, id)],
   stack |-> P.stack]

handle_starttag(P, t) ==
  LET Q == AppendChild(P, Element(t, FALSE)) IN [Q EXCEPT !.stack = Append(@, Len(Q.nodes))]

(* Mutant: del self._stack[index - 1:] also closes the element's parent.  *)
EndTagClosingParent(P, t) ==
  LET hits == {i \in 2 .. Len(P.stack) : P.nodes[P.stack[i]].tag = t} IN
  IF hits = {} THEN P ELSE [P EXCEPT !.stack = SubSeq(@, 1, Max(hits) - 2)]

(* the innermost open element named t, never the root, is closed with all *)
(* elements above it; an end tag matching nothing is ignored.              *)
handle_endtag(P, t) ==
  LET hits == {i \in 2 .. Len(P.stack) : P.nodes[P.stack[i]].tag = t} IN
  IF hits = {} THEN P ELSE [P EXCEPT !.stack = SubSeq(@, 1, Max(hits) - 1)]

handle_startendtag(P, t) == AppendChild(P, Element(t, TRUE))

handle_data(P, d) == IF d = <<>> THEN P ELSE AppendChild(P, TextNode(d))

handle_comment(P) == AppendChild(P, LeafNode("comment"))

handle_decl(P) == AppendChild(P, LeafNode("decl"))

(* The parser's handler calls                                              *)
Start(t)    == [kind |-> "start", tag |-> t, data |-> <<>>]
End(t)      == [kind |-> "end", tag |-> t, data |-> <<>>]
StartEnd(t) == [kind |-> "startend", tag |-> t, data |-> <<>>]
Data(d)     == [kind |-> "data", tag |-> "", data |-> d]
Mark(k)     == [kind |-> k, tag |-> "", data |-> <<>>]

Handle(P, e) ==
  CASE e.kind = "start"    -> handle_starttag(P, e.tag)
    [] e.kind = "end"      -> handle_endtag(P, e.tag)
    [] e.kind = "startend" -> handle_startendtag(P, e.tag)
    [] e.kind = "data"     -> handle_data(P, e.data)
    [] e.kind = "comment"  -> handle_comment(P)
    [] e.kind = "decl"     -> handle_decl(P)

(* parser.feed(text)                                                       *)
Parse(events) == FoldLeft(Handle, EmptyParser, events)

(* A text written unescaped: words are data, a decoded literal is markup.  *)
RECURSIVE TextEvents(_)
TextEvents(d) ==
  IF d = <<>> THEN <<>>
  ELSE IF Head(d) \in DOMAIN Literals
  THEN <<Start(Literals[Head(d)])>> \o TextEvents(Tail(d))
  ELSE LET r == TextEvents(Tail(d)) IN
       IF r # <<>> /\ r[1].kind = "data"
       THEN <<Data(<<Head(d)>> \o r[1].data)>> \o Tail(r)
       ELSE <<Data(<<Head(d)>>)>> \o r

(* Mutant: an element without children is written as `<tag />`.           *)
RECURSIVE SerializeEmptyAsSelfClosing(_, _)
SerializeEmptyAsSelfClosing(nodes, id) ==
  LET n == nodes[id] IN
  CASE n.kind = "text" -> TextEvents(n.text)
    [] n.kind \in {"comment", "decl"} -> <<Mark(n.kind)>>
    [] n.self_closing \/ n.children = <<>> -> <<StartEnd(n.tag)>>
    [] OTHER -> <<Start(n.tag)>>
                \o FlattenSeq([k \in DOMAIN n.children |->
                                 SerializeEmptyAsSelfClosing(nodes, n.children[k])])
                \o <<End(n.tag)>>

(* serialize_html_node, as the events a parser reads back from its output *)
RECURSIVE serialize_html_node(_, _)
serialize_html_node(nodes, id) ==
  LET n == nodes[id] IN
  CASE n.kind = "text" -> TextEvents(n.text)
    [] n.kind \in {"comment", "decl"} -> <<Mark(n.kind)>>
    [] n.self_closing -> <<StartEnd(n.tag)>>
    [] n.children = <<>> -> <<Start(n.tag), End(n.tag)>>
    [] OTHER -> <<Start(n.tag)>>
                \o FlattenSeq([k \in DOMAIN n.children |->
                                 serialize_html_node(nodes, n.children[k])])
                \o <<End(n.tag)>>

(* round_trip_html: the root's children, serialised in order               *)
round_trip_html(P) ==
  FlattenSeq([k \in DOMAIN P.nodes[1].children |->
                serialize_html_node(P.nodes, P.nodes[1].children[k])])

-----------------------------------------------------------------------------
VARIABLES
  nodes,  \* the created nodes; nodes[1] is self._root
  stack   \* self._stack, as node indices

vars == <<nodes, stack>>

Parser == [nodes |-> nodes, stack |-> stack]

Init == nodes = EmptyParser.nodes /\ stack = EmptyParser.stack

Apply(Q) == nodes' = Q.nodes /\ stack' = Q.stack

Room == Len(nodes) < MaxNodes

StartTag(t)    == Room /\ Apply(handle_starttag(Parser, t))
EndTag(t)      == Apply(handle_endtag(Parser, t))
StartEndTag(t) == Room /\ Apply(handle_startendtag(Parser, t))
HandleData(d)  == Room /\ Apply(handle_data(Parser, d))
Comment        == Room /\ Apply(handle_comment(Parser))
Decl           == Room /\ Apply(handle_decl(Parser))

Next ==
  \/ \E t \in Tags : StartTag(t) \/ EndTag(t) \/ StartEndTag(t)
  \/ \E d \in Datas : HandleData(d)
  \/ Comment \/ Decl

Spec == Init /\ [][Next]_vars

-----------------------------------------------------------------------------
TypeOK ==
  /\ Len(nodes) \in 1 .. MaxNodes
  /\ stack \in Seq(DOMAIN nodes)
  /\ stack # <<>> /\ stack[1] = 1

(* Adjacent texts are one text of the document: the serialiser writes them *)
(* on consecutive lines, which a parser reads back as one data run.        *)
RECURSIVE MergeTexts(_)
MergeTexts(s) ==
  IF Len(s) <= 1 THEN s
  ELSE IF s[1].kind = "text" /\ s[2].kind = "text"
  THEN MergeTexts(<<[s[1] EXCEPT !.text = @ \o s[2].text]>> \o Tail(Tail(s)))
  ELSE <<s[1]>> \o MergeTexts(Tail(s))

(* The document below node id as nested records                            *)
RECURSIVE Tree(_, _)
Tree(ns, id) ==
  [ns[id] EXCEPT !.children =
     MergeTexts([k \in DOMAIN ns[id].children |-> Tree(ns, ns[id].children[k])])]

Document(P) == Tree(P.nodes, 1).children

(***************************************************************************)
(* The module docstring: the tool serialises a document "back into a       *)
(* canonical representation" and can write it back in place of the        *)
(* original.  Parsing the canonical text gives the document that was       *)
(* parsed: same elements, nesting, texts, comments and declarations, and   *)
(* the same self-closing marks, whatever tags the original left unclosed   *)
(* or closed without opening.                                              *)
(***************************************************************************)
CanonicalTextReparsesToSameTree ==
  Document(Parse(round_trip_html(Parser))) = Document(Parser)
=============================================================================
