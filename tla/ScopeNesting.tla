---------------------------- MODULE ScopeNesting ----------------------------
(***************************************************************************)
(* What the top-level scan promises, stated over the nesting of the        *)
(* braces themselves: `scopes` holds one tag per `{` not yet closed.       *)
(*   - a scope opened by a class/struct/union/namespace header is "class", *)
(*     one opened by a function-definition-looking header is "function",   *)
(*     any other (extern "C", enum, initializer) is "plain";               *)
(*   - the text before a `{` is catalogued when at most one scope is open  *)
(*     and no class scope is;                                             *)
(*   - the text before a `;` is catalogued when at most one scope is open  *)
(*     and it is plain.                                                    *)
(* ScopeScanner, which encodes the nesting as a depth counter and two      *)
(* stacks of closing depths, implements this specification.                *)
(***************************************************************************)
EXTENDS Integers, Sequences, SequencesExt, FiniteSetsExt, DeclarationClassifier

CONSTANTS Snippets, MaxDepth

VARIABLES scopes, signatures

Kind(c) ==
  IF IsClassHeader(c) \/ IsNamespaceHeader(c) THEN "class"
  ELSE IF is_function_definition(c) THEN "function"
  ELSE "plain"

Catalogue(snippet) ==
  IF Classify(snippet) = None
  THEN UNCHANGED signatures
  ELSE signatures' = [signatures EXCEPT ![Classify(snippet)] = @ \cup {snippet}]

Init ==
  /\ scopes = <<>>
  /\ signatures = [c \in Categories |-> {}]

Open(text) ==
  LET c == Strip(text) IN
  /\ Len(scopes) < MaxDepth
  /\ IF c # <<>> /\ Len(scopes) <= 1 /\ "class" \notin ToSet(scopes)
     THEN Catalogue(c) ELSE UNCHANGED signatures
  /\ scopes' = Append(scopes, Kind(c))

Terminate(text) ==
  LET c == Strip(text) IN
  /\ IF c # <<>> /\ Len(scopes) <= 1 /\ ToSet(scopes) \subseteq {"plain"}
     THEN Catalogue(c) ELSE UNCHANGED signatures
  /\ UNCHANGED scopes

Close ==
  /\ scopes # <<>>
  /\ scopes' = Front(scopes)
  /\ UNCHANGED signatures

Next ==
  \/ \E text \in Snippets : Open(text) \/ Terminate(text)
  \/ Close

Spec == Init /\ [][Next]_<<scopes, signatures>>
=============================================================================
