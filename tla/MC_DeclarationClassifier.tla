----------------------- MODULE MC_DeclarationClassifier -----------------------
(***************************************************************************)
(* The classification of scan_file applied to every snippet built from a   *)
(* leading part (return type, statement head, directive), a qualifier, a   *)
(* member name and a parameter list with what may follow it.               *)
(***************************************************************************)
EXTENDS DeclarationClassifier

VARIABLE snippet

Leads == {
  <<>>,
  <<"void", WS>>,
  <<"std", "::", "string", WS>>,
  <<"#include", WS, "\"a.hpp\"", WS, "int", WS>>,
  <<"int", WS, "total", WS, "=", WS>>,
  <<"this", "->">>,
  <<"if", WS>>,
  <<"class", WS>>}

Qualifiers == {<<>>, <<"Foo", "::">>, <<"ft", "::", "Foo", "::">>, <<"Foo", WS, "::", WS>>}

Members == {<<"Foo">>, <<"~", "Foo">>, <<"name">>, <<"operator", "==">>, <<"static_assert">>}

Tails == {<<"(", ")">>,
          <<"(", ")", WS, "const">>,
          <<"(", ")", WS, ":", WS, "_x", "(", "0", ")">>}

Inputs == {l \o q \o m \o t : l \in Leads, q \in Qualifiers, m \in Members, t \in Tails}

Init == snippet \in Inputs
Next == UNCHANGED snippet

(***************************************************************************)
(* Spec 4.5 step 7: a qualified member that is neither the constructor nor *)
(* the destructor is a function exactly when the text before the first     *)
(* qualifier segment of the matched name contains whitespace (a return     *)
(* type is present), e.g. "std::string Foo::name() const".                 *)
(***************************************************************************)
ReturnTypeGateAsSpecified ==
  LET qm == qualified_match(snippet) IN
  (/\ ~Rejected(snippet)
   /\ Toks(snippet) \cap OperatorTokens = {}
   /\ qm # NoMatch
   /\ qm.member # qm.base)
  => (Classify(snippet) = "functions"
        <=> WS \in Toks(SubSeq(snippet, 1, qm.start - 1)))
=============================================================================
