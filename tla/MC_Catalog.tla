------------------------------ MODULE MC_Catalog ------------------------------
(***************************************************************************)
(* A checkout at /home/libft or at /home/tools/libft.  The tree under src  *)
(* holds a header, a source, an upper-case .H header, a generated header   *)
(* under tools/, a Markdown file under Docs/, and possibly a legacy C file *)
(* in Latin-1.  The snippets s1 .. s5 stand for catalog entries.          *)
(***************************************************************************)
EXTENDS Catalog

Result(f, c, o) ==
  [functions |-> f, constructors |-> c, destructors |-> {}, operators |-> o]

File(rel, suffix, utf8, result) ==
  [rel |-> rel, dir |-> FALSE, suffix |-> suffix, utf8 |-> utf8, result |-> result]

Dir(rel) == [rel |-> rel, dir |-> TRUE, suffix |-> "", utf8 |-> TRUE,
             result |-> Result({}, {}, {})]

CleanTree == {
  Dir(<<"Lib">>), Dir(<<"tools">>), Dir(<<"Docs">>),
  File(<<"Lib", "a.hpp">>, ".hpp", TRUE, Result({"s1"}, {}, {})),
  File(<<"Lib", "b.cpp">>, ".cpp", TRUE, Result({}, {"s2"}, {})),
  File(<<"Lib", "C.H">>, ".H", TRUE, Result({}, {}, {"s3"})),
  File(<<"tools", "gen.hpp">>, ".hpp", TRUE, Result({"s4"}, {}, {})),
  File(<<"Docs", "notes.md">>, ".md", TRUE, Result({}, {}, {}))}

Legacy == File(<<"Lib", "old.c">>, ".c", FALSE, Result({"s5"}, {}, {}))

MC_Trees == {CleanTree, CleanTree \cup {Legacy}}

MC_Roots == {<<"/", "home", "libft", "src">>, <<"/", "home", "tools", "libft", "src">>}

(* Python compares strings by code point: upper case before lower case.   *)
MC_Rank == [n \in {"C.H", "Docs", "Lib", "a.hpp", "b.cpp", "gen.hpp", "notes.md",
                   "old.c", "tools"} |->
              CASE n = "C.H" -> 1 [] n = "Docs" -> 2 [] n = "Lib" -> 3
                [] n = "a.hpp" -> 4 [] n = "b.cpp" -> 5 [] n = "gen.hpp" -> 6
                [] n = "notes.md" -> 7 [] n = "old.c" -> 8 [] n = "tools" -> 9]

MC_Lower == [s \in {".H"} |-> ".h"]
=============================================================================
