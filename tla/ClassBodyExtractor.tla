------------------------- MODULE ClassBodyExtractor -------------------------
(***************************************************************************)
(* find_class_bodies and collect_inline_constructors of                    *)
(* tools/build_signature_catalog.py, with the second loop of scan_file     *)
(* that adds what they find to the catalog.                                *)
(*                                                                         *)
(* find_class_bodies is a generator: it searches for a class/struct header *)
(* from `index`, walks the braces from the header's `{` one character per  *)
(* step, yields (class_name, body) and resumes the search at `cursor`.     *)
(* scan_file consumes each yielded body before the generator resumes.      *)
(***************************************************************************)
EXTENDS Integers, Sequences, SequencesExt, FiniteSetsExt, DeclarationClassifier

CONSTANT Texts  \* comment-free file texts, as token sequences

VARIABLES
  text,         \* the text being scanned
  index,        \* where the next header search starts
  cursor,       \* the brace walk's position
  brace_depth,  \* the brace walk's depth
  class_name,   \* group 2 of the header match being walked
  body_start,   \* match.end() - 1: the `{` of that header
  phase,        \* "search", "walk" or "done"
  bodies,       \* the (class_name, body) pairs yielded, as index ranges
  signatures    \* the constructors and destructors scan_file records

vars == <<text, index, cursor, brace_depth, class_name, body_start, phase,
          bodies, signatures>>

(***************************************************************************)
(* The header pattern                                                      *)
(*   \b(class|struct)\s+(ident)(?:\s{0,}<[^>]{0,}>)?(?:\s{0,}[^;{]+)?\{     *)
(* matched at token p: the index of the `{` that ends the match, or 0.     *)
(***************************************************************************)
FirstStop(t, from) ==
  LET js == {j \in from .. Len(t) : t[j] \in {";", "{"}}
  IN IF js = {} THEN 0 ELSE Min(js)

HeaderBrace(t, p) ==
  LET r == p + 2
      a == SkipWs(t, r + 1)
      gs == {j \in a + 1 .. Len(t) : t[j] = ">"}
      viaTemplate == IF a <= Len(t) /\ t[a] = "<" /\ gs # {}
                     THEN FirstStop(t, Min(gs) + 1) ELSE 0
      plain == FirstStop(t, r + 1)
  IN IF ~(/\ t[p] \in {"class", "struct"}
          /\ p = 1 \/ ~IsIdent(t[p - 1])
          /\ r <= Len(t) /\ t[p + 1] = WS /\ IsIdent(t[r]))
     THEN 0
     ELSE IF viaTemplate # 0 /\ t[viaTemplate] = "{" THEN viaTemplate
     ELSE IF plain # 0 /\ t[plain] = "{" THEN plain
     ELSE 0

(* pattern.search(text, index): the leftmost header at or after `from`.   *)
HeaderStarts(t, from) == {p \in from .. Len(t) : HeaderBrace(t, p) # 0}

(***************************************************************************)
(* collect_inline_constructors: finditer of                                *)
(*   \b(~?Name)\s{0,}\([^;{}]{0,}\)[^;{}]{0,}[;{}]                          *)
(* over the body.  \b before `~` needs a word character before it, so a    *)
(* `~` preceded by whitespace is skipped and the match starts at Name.     *)
(***************************************************************************)
InlineMatchEnd(b, i, name) ==
  LET tilde == b[i] = "~"
      n == IF tilde THEN i + 1 ELSE i
      boundary == IF tilde THEN i > 1 /\ IsIdent(b[i - 1])
                  ELSE i = 1 \/ ~IsIdent(b[i - 1])
      a == SkipWs(b, n + 1)
      stops == {j \in a + 1 .. Len(b) : b[j] \in {";", "{", "}"}}
  IN IF /\ boundary /\ n <= Len(b) /\ b[n] = name
        /\ a <= Len(b) /\ b[a] = "("
        /\ stops # {}
        /\ \E j \in a + 1 .. Min(stops) - 1 : b[j] = ")"
     THEN Min(stops) ELSE 0

RECURSIVE FindAll(_, _, _)
FindAll(b, i, name) ==
  IF i > Len(b) THEN <<>>
  ELSE IF InlineMatchEnd(b, i, name) # 0
  THEN <<SubSeq(b, i, InlineMatchEnd(b, i, name))>>
         \o FindAll(b, InlineMatchEnd(b, i, name) + 1, name)
  ELSE FindAll(b, i + 1, name)

collect_inline_constructors(name, body) ==
  LET found == {collapse_whitespace(m) : m \in ToSet(FindAll(body, 1, name))}
  IN [constructors |-> {s \in found : s[1] = name /\ "~" \notin Toks(prefix(s))},
      destructors  |-> {s \in found : Len(s) >= 2 /\ s[1] = "~" /\ s[2] = name}]

-----------------------------------------------------------------------------
Init ==
  /\ text \in Texts
  /\ index = 1
  /\ cursor = 1
  /\ brace_depth = 0
  /\ class_name = ""
  /\ body_start = 0
  /\ phase = "search"
  /\ bodies = {}
  /\ signatures = [constructors |-> {}, destructors |-> {}]

(* match = pattern.search(text, index); body_start = match.end() - 1;     *)
(* brace_depth = 1; cursor = body_start -- or `break` when nothing matches *)
Search ==
  /\ phase = "search"
  /\ IF HeaderStarts(text, index) = {}
     THEN /\ phase' = "done"
          /\ UNCHANGED <<cursor, brace_depth, class_name, body_start>>
     ELSE LET p == Min(HeaderStarts(text, index)) IN
          /\ class_name' = text[p + 2]
          /\ body_start' = HeaderBrace(text, p)
          /\ cursor' = HeaderBrace(text, p)
          /\ brace_depth' = 1
          /\ phase' = "walk"
  /\ UNCHANGED <<text, index, bodies, signatures>>

(* one iteration of: while cursor < len(text) and brace_depth > 0          *)
WalkStep ==
  /\ phase = "walk"
  /\ cursor <= Len(text) /\ brace_depth > 0
  /\ brace_depth' = CASE text[cursor] = "{" -> brace_depth + 1
                      [] text[cursor] = "}" -> brace_depth - 1
                      [] OTHER -> brace_depth
  /\ cursor' = cursor + 1
  /\ UNCHANGED <<text, index, class_name, body_start, phase, bodies, signatures>>

(* scan_file's second loop: signatures["constructors"].update(...) and    *)
(* signatures["destructors"].update(...) for one class body.              *)
AddInline(found) == [k \in DOMAIN signatures |-> signatures[k] \cup found[k]]

(* body = text[body_start:cursor]; yield; scan_file updates its sets;      *)
(* index = cursor                                                          *)
Yield ==
  /\ phase = "walk"
  /\ cursor > Len(text) \/ brace_depth = 0
  /\ LET found == collect_inline_constructors(class_name,
                                              SubSeq(text, body_start, cursor - 1))
     IN signatures' = AddInline(found)
  /\ bodies' = bodies \cup {[name |-> class_name, start |-> body_start, end |-> cursor - 1]}
  /\ index' = cursor
  /\ phase' = "search"
  /\ UNCHANGED <<text, cursor, brace_depth, class_name, body_start>>

Next == Search \/ WalkStep \/ Yield

Spec == Init /\ [][Next]_vars

-----------------------------------------------------------------------------
TypeOK ==
  /\ text \in Texts
  /\ index \in 1 .. Len(text) + 1
  /\ cursor \in 1 .. Len(text) + 1
  /\ phase \in {"search", "walk", "done"}
  /\ \A b \in bodies : 1 <= b.start /\ b.start <= b.end /\ b.end <= Len(text)

(* The `}` that closes the `{` at s: the first j where the braces of       *)
(* text[s..j] balance, or the end of an unterminated text.                 *)
Balance(t, s, j) ==
  Cardinality({k \in s .. j : t[k] = "{"}) - Cardinality({k \in s .. j : t[k] = "}"})

MatchingClose(t, s) ==
  IF {j \in s .. Len(t) : Balance(t, s, j) = 0} = {} THEN Len(t)
  ELSE Min({j \in s .. Len(t) : Balance(t, s, j) = 0})

(***************************************************************************)
(* Spec 4.3: from the header's `{` the extractor walks the braces (depth   *)
(* starting at 1) to the matching `}`; each yielded body is exactly the    *)
(* brace-matched class body.                                               *)
(***************************************************************************)
BodyIsBraceMatched ==
  \A b \in bodies : b.end = MatchingClose(text, b.start)

(***************************************************************************)
(* Spec 4.4: a member whose head is ~className(...) inside an extracted    *)
(* body is recorded as a destructor.                                       *)
(***************************************************************************)
InlineDestructorRecorded ==
  \A b \in bodies :
    (\E i \in b.start .. b.end - 2 :
        text[i] = "~" /\ text[i + 1] = b.name /\ text[i + 2] = "(")
    => \E d \in signatures.destructors : d[2] = b.name
=============================================================================
