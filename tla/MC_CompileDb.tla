---------------------------- MODULE MC_CompileDb ----------------------------
(***************************************************************************)
(* One build of four compiler invocations: a.cpp in the release and in the *)
(* debug configuration (one key, two commands), b.cpp in a subdirectory    *)
(* with -o before -c, and a link step that names no source.  An earlier    *)
(* build may have left an entry for a.cpp and one for a since removed      *)
(* old.cpp.                                                                *)
(***************************************************************************)
EXTENDS CompileDb

CONSTANTS j1, j2, j3, j4

MC_Jobs == {j1, j2, j3, j4}

MC_Args ==
  (j1 :> <<"-c", "a.cpp", "-o", "a.o">>) @@
  (j2 :> <<"-g", "-c", "a.cpp", "-o", "a_d.o">>) @@
  (j3 :> <<"-o", "b.o", "-c", "b.cpp">>) @@
  (j4 :> <<"-o", "prog", "a.o", "b.o">>)

(* The same invocations with the output option written before the source. *)
MC_ArgsOutputFirst == [MC_Args EXCEPT ![j1] = <<"-c", "-o", "a.o", "a.cpp">>]

MC_Cwd == [j \in MC_Jobs |-> IF j = j3 THEN "src/sub" ELSE "src"]

MC_SourceFiles == {"a.cpp", "b.cpp", "old.cpp"}

MC_Uuids == 1 .. 5

MC_StaleFiles ==
  {[id |-> 2, entry |-> [directory |-> "src", command |-> <<"-O0", "-c", "a.cpp">>,
                         file |-> <<"src", "a.cpp">>]],
   [id |-> 5, entry |-> [directory |-> "src", command |-> <<"-c", "old.cpp">>,
                         file |-> <<"src", "old.cpp">>]]}
=============================================================================
