---------------------------- MODULE ScopeScanner ----------------------------
(***************************************************************************)
(* iter_top_level_candidates of tools/build_signature_catalog.py, composed *)
(* with the loop of scan_file that consumes what it yields.                *)
(*                                                                         *)
(* The generator walks the comment-free text character by character.  The *)
(* characters other than `{`, `;` and `}` only accumulate in `buffer`, so  *)
(* a step reads the text since the last delimiter together with the        *)
(* delimiter that ends it.  The generator is suspended at each `yield`    *)
(* while scan_file classifies the candidate, so classifying and recording  *)
(* it is part of the same step.                                            *)
(***************************************************************************)
EXTENDS Integers, Sequences, SequencesExt, FiniteSetsExt, DeclarationClassifier

CONSTANTS
  Snippets,  \* texts that can stand between two delimiters
  MinDepth,  \* lowest brace depth explored (negative: stray `}`)
  MaxDepth   \* highest brace depth explored

ASSUME MinDepth <= 0 /\ MaxDepth >= 1

VARIABLES
  depth,                 \* depth
  class_scope_depths,    \* class_scope_depths: closing depths of class/namespace bodies
  function_scope_depths, \* function_scope_depths: closing depths of function bodies
  signatures             \* scan_file's signatures: category -> set of snippets

vars == <<depth, class_scope_depths, function_scope_depths, signatures>>

Init ==
  /\ depth = 0
  /\ class_scope_depths = <<>>
  /\ function_scope_depths = <<>>
  /\ signatures = [c \in Categories |-> {}]

(* not (stack and depth >= stack[-1])                                      *)
Covers(stack) == stack # <<>> /\ depth >= Last(stack)

(* yield snippet, and scan_file's loop body for it                         *)
Record(snippet) ==
  IF Classify(snippet) = None
  THEN UNCHANGED signatures
  ELSE signatures' = [signatures EXCEPT ![Classify(snippet)] = @ \cup {snippet}]

(* Mutant: the pop loop also drops the scope that closes at the new depth. *)
RECURSIVE PopClosedAtDepth(_, _)
PopClosedAtDepth(stack, d) ==
  IF stack # <<>> /\ d <= Last(stack) THEN PopClosedAtDepth(Front(stack), d) ELSE stack

(* while stack and depth < stack[-1]: stack.pop()                          *)
RECURSIVE PopClosed(_, _)
PopClosed(stack, d) ==
  IF stack # <<>> /\ d < Last(stack) THEN PopClosed(Front(stack), d) ELSE stack

(* character == "{", with `text` the buffer before it                      *)
OpenBrace(text) ==
  LET candidate == Strip(text) IN
  /\ depth < MaxDepth
  /\ IF candidate # <<>> /\ depth <= 1 /\ ~Covers(class_scope_depths)
     THEN Record(collapse_whitespace(candidate))
     ELSE UNCHANGED signatures
  /\ IF IsClassHeader(candidate) \/ IsNamespaceHeader(candidate)
     THEN /\ class_scope_depths' = Append(class_scope_depths, depth + 1)
          /\ UNCHANGED function_scope_depths
     ELSE IF is_function_definition(candidate)
     THEN /\ function_scope_depths' = Append(function_scope_depths, depth + 1)
          /\ UNCHANGED class_scope_depths
     ELSE UNCHANGED <<class_scope_depths, function_scope_depths>>
  /\ depth' = depth + 1

(* character == ";"                                                        *)
Semicolon(text) ==
  LET candidate == Strip(text) IN
  /\ IF /\ depth <= 1
        /\ ~Covers(class_scope_depths)
        /\ ~Covers(function_scope_depths)
        /\ candidate # <<>>
     THEN Record(collapse_whitespace(candidate))
     ELSE UNCHANGED signatures
  /\ UNCHANGED <<depth, class_scope_depths, function_scope_depths>>

(* Mutant: the `}` branch forgets to pop the function scopes.             *)
CloseBraceKeepingFunctions ==
  /\ depth > MinDepth
  /\ depth' = depth - 1
  /\ class_scope_depths' = PopClosed(class_scope_depths, depth - 1)
  /\ UNCHANGED <<function_scope_depths, signatures>>

(* character == "}": the text before it is discarded with the buffer       *)
CloseBrace ==
  /\ depth > MinDepth
  /\ depth' = depth - 1
  /\ class_scope_depths' = PopClosed(class_scope_depths, depth - 1)
  /\ function_scope_depths' = PopClosed(function_scope_depths, depth - 1)
  /\ UNCHANGED signatures

Next ==
  \/ \E text \in Snippets : OpenBrace(text)
  \/ \E text \in Snippets : Semicolon(text)
  \/ CloseBrace

Spec == Init /\ [][Next]_vars

-----------------------------------------------------------------------------
TypeOK ==
  /\ depth \in MinDepth .. MaxDepth
  /\ class_scope_depths \in Seq(MinDepth + 1 .. MaxDepth)
  /\ function_scope_depths \in Seq(MinDepth + 1 .. MaxDepth)
  /\ signatures \in [Categories -> SUBSET Snippets]

(* A step of scan_file that adds a new catalog entry.                      *)
CatalogGrows == \E c \in Categories : signatures'[c] \ signatures[c] # {}

(***************************************************************************)
(* The scope stacks describe exactly the braces still open: after any     *)
(* sequence of `{` and `}` (down to depth MinDepth, 0 in the checked run), *)
(* each stack is strictly increasing, every recorded closing depth is at   *)
(* most the current depth (the pop loops of the `}` branch removed every   *)
(* closed scope), and no brace opened both a class and a function scope.   *)
(***************************************************************************)
ScopeStacksConsistent ==
  /\ \A s \in {class_scope_depths, function_scope_depths} :
       /\ \A i \in 1 .. Len(s) - 1 : s[i] < s[i + 1]
       /\ \A i \in DOMAIN s : s[i] <= depth
  /\ ToSet(class_scope_depths) \cap ToSet(function_scope_depths) = {}

(***************************************************************************)
(* Spec 8, nested-scope exclusion: statements inside a function body never *)
(* surface as catalog entries, since the enclosing FunctionBody frame      *)
(* suppresses candidates (spec 4.2 step 2 names every open frame).         *)
(***************************************************************************)
NoEntryFromFunctionBody ==
  [][CatalogGrows => ~Covers(function_scope_depths)]_vars
=============================================================================
