-------------------------- MODULE DocumentRoundTrip --------------------------
(***************************************************************************)
(* main and process_paths of tools/document_roundtrip.py, run over the     *)
(* same files several times: each invocation walks its paths in order,     *)
(* reports a missing path, a directory or a failed round trip on stderr    *)
(* (exit status 2), prints the diff of a file that is not in canonical     *)
(* form, writes the canonical text back under --write, and otherwise says  *)
(* "no changes".                                                           *)
(*                                                                         *)
(* Every file holds an XML text of XmlRoundTrip.  A forced --format other  *)
(* than xml is json, whose json.loads raises on such a text; the html and  *)
(* yaml round trips are not applied to these files.  Messages and the      *)
(* diff text are left out: a printed line is the path and what was said.   *)
(***************************************************************************)
EXTENDS XmlRoundTrip

CONSTANTS
  Paths,        \* the paths named on command lines
  Files,        \* Files[p]: [kind: "missing"|"dir"|"file", suffix, text]
  Lower,        \* Lower[s]: suffix s in lower case, for the suffixes that change
  Invocations,  \* the command lines, in order: [paths, format, write, fail_on_diff]
  ReadOnly      \* the files whose write_text raises OSError

None == "None"

(* The texts are XML texts, on which only the xml and json round trips are *)
(* modelled: json.loads raises on every one of them.                       *)
ASSUME \A i \in DOMAIN Invocations : Invocations[i].format \in {None, "xml", "json"}

(* detect_format's mapping from lower-cased suffix to format               *)
Mapping == [s \in {".json", ".yaml", ".yml", ".xml", ".html", ".htm"} |->
              CASE s = ".json" -> "json"
                [] s \in {".yaml", ".yml"} -> "yaml"
                [] s = ".xml" -> "xml"
                [] OTHER -> "html"]

ROUND_TRIPPERS == {"json", "yaml", "xml", "html"}

lower(s) == IF s \in DOMAIN Lower THEN Lower[s] ELSE s

(* The format, or None when detect_format raises ValueError                *)
detect_format(f, forced) ==
  IF forced # None THEN forced
  ELSE IF lower(f.suffix) \in DOMAIN Mapping THEN Mapping[lower(f.suffix)]
  ELSE None

(* str.splitlines: the lines between line breaks, a final break ending the *)
(* last line rather than starting an empty one                             *)
RECURSIVE splitlines(_)
splitlines(t) ==
  IF t = <<>> THEN <<>>
  ELSE LET i == SelectInSeq(t, LAMBDA x : x = NL) IN
       IF i = 0 THEN <<t>>
       ELSE <<SubSeq(t, 1, i - 1)>> \o splitlines(SubSeq(t, i + 1, Len(t)))

(* build_diff is empty exactly when the two texts have the same lines.     *)
build_diff(original, canonical) == splitlines(original) # splitlines(canonical)

(* round_trip_path: ok is FALSE when it raises (detect_format, an          *)
(* unsupported format, or the round trip itself); diff says build_diff is  *)
(* not empty.                                                              *)
round_trip_path(f, forced) ==
  LET fmt == detect_format(f, forced)
      r == round_trip_xml(f.text)
  IN IF fmt # None /\ fmt \in ROUND_TRIPPERS /\ fmt = "xml" /\ r.ok
     THEN [ok |-> TRUE, canonical |-> r.text, diff |-> build_diff(f.text, r.text)]
     ELSE [ok |-> FALSE, canonical |-> <<>>, diff |-> FALSE]

VARIABLES
  files,      \* what is on disk at each path
  run,        \* the invocation under way, 0 before the first
  todo,       \* the paths it has still to process
  exit_code,  \* process_paths' exit_code
  out,        \* what it has said, one [path, said] line per path
  pc,         \* "loop", "exited", or "crashed" (traceback, status 1)
  statuses,   \* the exit status of each finished invocation
  written     \* the paths whose text was last written by --write

vars == <<files, run, todo, exit_code, out, pc, statuses, written>>

Args == Invocations[run]

Init ==
  /\ files = Files
  /\ run = 0
  /\ todo = <<>>
  /\ exit_code = 0
  /\ out = <<>>
  /\ pc = "exited"
  /\ statuses = <<>>
  /\ written = {}

(* main(argv): parse_arguments, then process_paths from exit_code 0; a    *)
(* command line runs after the previous one exited or died.                *)
Main ==
  /\ pc \in {"exited", "crashed"}
  /\ run < Len(Invocations)
  /\ run' = run + 1
  /\ todo' = Invocations[run + 1].paths
  /\ exit_code' = 0
  /\ out' = <<>>
  /\ pc' = "loop"
  /\ UNCHANGED <<files, statuses, written>>

Say(p, what) == out' = Append(out, [path |-> p, said |-> what])

(* not path.exists() or path.is_dir(): an error, status 2, continue        *)
Unreadable ==
  /\ pc = "loop" /\ todo # <<>>
  /\ LET p == Head(todo) IN
       /\ files[p].kind \in {"missing", "dir"}
       /\ Say(p, files[p].kind)
  /\ exit_code' = 2
  /\ todo' = Tail(todo)
  /\ UNCHANGED <<files, run, pc, statuses, written>>

(* round_trip_path raised: the error is printed, status 2, continue        *)
RoundTripFails ==
  /\ pc = "loop" /\ todo # <<>>
  /\ LET p == Head(todo) IN
       /\ files[p].kind = "file"
       /\ ~round_trip_path(files[p], Args.format).ok
       /\ Say(p, "error")
  /\ exit_code' = 2
  /\ todo' = Tail(todo)
  /\ UNCHANGED <<files, run, pc, statuses, written>>

(* the diff is empty: "no changes for path"                                *)
NoChanges ==
  /\ pc = "loop" /\ todo # <<>>
  /\ LET p == Head(todo)
         r == round_trip_path(files[p], Args.format)
     IN /\ files[p].kind = "file"
        /\ r.ok /\ ~r.diff
        /\ Say(p, "no changes")
  /\ todo' = Tail(todo)
  /\ UNCHANGED <<files, run, exit_code, pc, statuses, written>>

(* the diff is printed; under --write the canonical text replaces the     *)
(* file, outside the try, so an OSError there ends the run with a          *)
(* traceback; --fail-on-diff raises the status to 1 when it is still 0.    *)
Diff ==
  /\ pc = "loop" /\ todo # <<>>
  /\ LET p == Head(todo)
         r == round_trip_path(files[p], Args.format)
     IN /\ files[p].kind = "file"
        /\ r.ok /\ r.diff
        /\ Say(p, "diff")
        /\ IF Args.write /\ p \in ReadOnly
           THEN /\ pc' = "crashed"
                /\ statuses' = Append(statuses, 1)
                /\ UNCHANGED <<files, written, todo, exit_code>>
           ELSE /\ files' = IF Args.write THEN [files EXCEPT ![p].text = r.canonical] ELSE files
                /\ written' = IF Args.write THEN written \cup {p} ELSE written
                /\ exit_code' = IF Args.fail_on_diff /\ exit_code = 0 THEN 1 ELSE exit_code
                /\ todo' = Tail(todo)
                /\ UNCHANGED <<pc, statuses>>
  /\ UNCHANGED run

(* return exit_code; sys.exit(main())                                      *)
Exit ==
  /\ pc = "loop" /\ todo = <<>>
  /\ pc' = "exited"
  /\ statuses' = Append(statuses, exit_code)
  /\ UNCHANGED <<files, run, todo, exit_code, out, written>>

Next == Main \/ Unreadable \/ RoundTripFails \/ NoChanges \/ Diff \/ Exit

Spec == Init /\ [][Next]_vars

-----------------------------------------------------------------------------
(***************************************************************************)
(* The module docstring: the tool serialises documents "back into a        *)
(* canonical representation" and --write writes "the canonical form back". *)
(* So a file whose text the tool itself wrote is in canonical form: no     *)
(* later path of any command line is printed with a diff for it.           *)
(***************************************************************************)
CanonicalFormIsStable ==
  [][\A p \in written :
       Len(out') > Len(out) /\ Last(out').path = p => Last(out').said # "diff"]_vars
=============================================================================
