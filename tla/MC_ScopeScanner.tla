--------------------------- MODULE MC_ScopeScanner ---------------------------
(***************************************************************************)
(* Model of the top-level scan over texts drawn from a small set of        *)
(* headers and statements that between them open every kind of scope and   *)
(* reach every category of the catalog.                                    *)
(***************************************************************************)
EXTENDS ScopeScanner

MC_Snippets == {
  <<"void", WS, "Foo", "::", "Foo", "(", ")">>,       \* out-of-line constructor
  <<"int", WS, "compute", "(", ")">>,                 \* free function
  <<"class", WS, "Foo">>,                             \* class header
  <<"template", WS, "<", "typename", WS, "T", ">", WS, "struct", WS, "Box">>,
  <<"namespace", WS, "ft">>,                          \* namespace header
  <<"extern", WS, "\"C\"">>,                          \* plain scope
  <<"if", WS, "(", "ready", ")">>,                    \* control statement
  <<WS>>                                              \* whitespace only
}

(* A constructor definition and the statements of its body, among them a  *)
(* local object constructed with a lambda argument, cut at the lambda's   *)
(* `{`: the text a scan of "Foo::Foo() { ft_thread worker([&]() { ... });  *)
(* }" reaches.                                                             *)
MC_BodySnippets == {
  <<"void", WS, "Foo", "::", "Foo", "(", ")">>,
  <<"ft_thread", WS, "worker", "(", "[", "&", "]", "(", ")">>,
  <<"if", WS, "(", "ready", ")">>,
  <<WS>>
}

(* The scope tags the scanner's depth and stacks stand for.                *)
ScopeTags ==
  [i \in 1 .. depth |->
     IF i \in ToSet(class_scope_depths) THEN "class"
     ELSE IF i \in ToSet(function_scope_depths) THEN "function"
     ELSE "plain"]

Abstract == INSTANCE ScopeNesting WITH scopes <- ScopeTags, signatures <- signatures

(* ScopeScanner implements ScopeNesting under the mapping ScopeTags.       *)
ImplementsScopeNesting == Abstract!Spec
=============================================================================
