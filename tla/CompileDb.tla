------------------------------ MODULE CompileDb ------------------------------
(***************************************************************************)
(* The compile-database tools of src/Tools over one build:                 *)
(*   reset_compile_commands_dir.py  removes and recreates the staging dir; *)
(*   compile_db_wrapper.py          one process per compiler invocation,   *)
(*                                  run concurrently by `make -j`: it runs *)
(*                                  the compiler and, on success, writes   *)
(*                                  entry-<uuid4>.json into the staging    *)
(*                                  directory;                             *)
(*   merge_compile_commands.py      reads the entries in sorted file-name  *)
(*                                  order, keeps the last one per          *)
(*                                  (directory, file) key, writes output.  *)
(* The build runs them in that order: the wrappers start after the reset,  *)
(* and the merge starts when every wrapper has exited.                     *)
(***************************************************************************)
EXTENDS Integers, Sequences, SequencesExt, FiniteSets, FiniteSetsExt, Functions

CONSTANTS
  Jobs,         \* compiler invocations of the build
  Args,         \* Args[j]: the compiler arguments of invocation j
  Cwd,          \* Cwd[j]: its working directory
  SourceFiles,  \* the arguments that end in .c, .cc or .cpp
  Uuids,        \* uuid4 hex names, ordered as the names sort
  StaleFiles    \* entry files a previous build may have left behind

None == "none"

(* _detect_source: the argument after -c, else the first source file.      *)
RECURSIVE DetectFrom(_, _, _)
DetectFrom(args, i, next_is_source) ==
  IF i > Len(args) THEN None
  ELSE IF next_is_source THEN args[i]
  ELSE IF args[i] = "-c" THEN DetectFrom(args, i + 1, TRUE)
  ELSE IF args[i] \in SourceFiles THEN args[i]
  ELSE DetectFrom(args, i + 1, FALSE)

_detect_source(args) == DetectFrom(args, 1, FALSE)

(* The entry _write_entry builds: the file is the source resolved against  *)
(* the working directory.                                                  *)
EntryOf(j) ==
  [directory |-> Cwd[j], command |-> Args[j],
   file |-> <<Cwd[j], _detect_source(Args[j])>>]

Key(e) == <<e.directory, e.file>>

VARIABLES
  env,        \* FT_GENERATE_COMPILE_DB = "1" and FT_COMPILE_DB_DIR set
  dir_exists, \* the staging directory exists
  staging,    \* the entry files in it: [id, entry]
  reset_pc,   \* reset_compile_commands_dir.py: "rmtree", "mkdir", "done",
              \* or "failed" (exit status 1)
  pc,         \* pc[j]: "run", "ran", "write", "done"
  rc,         \* rc[j]: the compiler's return code
  merge_pc,   \* merge_compile_commands.py: "idle", "read", "done"
  to_read,    \* the sorted glob it iterates over
  entries,    \* _load_entries' dict: key -> entry
  output      \* the merged list written to the output, as key -> entry

vars == <<env, dir_exists, staging, reset_pc, pc, rc, merge_pc, to_read,
          entries, output>>

Init ==
  /\ env \in BOOLEAN
  /\ dir_exists \in BOOLEAN
  /\ staging \in IF dir_exists THEN SUBSET StaleFiles ELSE {{}}
  /\ reset_pc = "rmtree"
  /\ pc = [j \in Jobs |-> "run"]
  /\ rc = [j \in Jobs |-> 0]
  /\ merge_pc = "idle"
  /\ to_read = <<>>
  /\ entries = << >>
  /\ output = << >>

wrapper_vars == <<pc, rc>>
merge_vars   == <<merge_pc, to_read, entries, output>>

(* shutil.rmtree(target, ignore_errors=True): every error is ignored, so   *)
(* any entry files may survive (one it could not unlink, a permission on   *)
(* the directory), and the directory stays while it is not empty.          *)
ResetRemove ==
  /\ reset_pc = "rmtree"
  /\ \E kept \in SUBSET staging :
       /\ staging' = kept
       /\ dir_exists' \in IF kept # {} THEN {TRUE} ELSE {FALSE, dir_exists}
  /\ reset_pc' = "mkdir"
  /\ UNCHANGED <<env, wrapper_vars, merge_vars>>

(* target.mkdir(parents=True, exist_ok=True); an OSError (a file in the    *)
(* way, no permission) is reported and the script exits 1, which stops the *)
(* build: no wrapper and no merge runs.                                    *)
ResetMkdir ==
  /\ reset_pc = "mkdir"
  /\ \/ dir_exists' = TRUE /\ reset_pc' = "done"
     \/ UNCHANGED dir_exists /\ reset_pc' = "failed"
  /\ UNCHANGED <<env, staging, wrapper_vars, merge_vars>>

(* process = subprocess.run(command): the compiler succeeds or fails.      *)
Compile(j) ==
  /\ reset_pc = "done"
  /\ pc[j] = "run"
  /\ \E code \in {0, 1} : rc' = [rc EXCEPT ![j] = code]
  /\ pc' = [pc EXCEPT ![j] = "ran"]
  /\ UNCHANGED <<env, dir_exists, staging, reset_pc, merge_vars>>

(* if returncode == 0 and FT_GENERATE_COMPILE_DB == "1" and a source is    *)
(* detected: _write_entry, whose path.mkdir(parents=True, exist_ok=True)   *)
(* comes first; an OSError there returns without an entry.                 *)
DecideWrite(j) ==
  /\ pc[j] = "ran"
  /\ IF rc[j] = 0 /\ env /\ _detect_source(Args[j]) # None
     THEN \/ /\ dir_exists' = TRUE
             /\ pc' = [pc EXCEPT ![j] = "write"]
          \/ /\ pc' = [pc EXCEPT ![j] = "done"]
             /\ UNCHANGED dir_exists
     ELSE /\ pc' = [pc EXCEPT ![j] = "done"]
          /\ UNCHANGED dir_exists
  /\ UNCHANGED <<env, staging, reset_pc, rc, merge_vars>>

(* target.write_text(json.dumps(entry)) under a fresh uuid4 name; an       *)
(* OSError (no space, no permission) is swallowed and no entry is left.    *)
WriteEntry(j) ==
  /\ pc[j] = "write"
  /\ \/ \E u \in Uuids \ {f.id : f \in staging} :
          staging' = staging \cup {[id |-> u, entry |-> EntryOf(j)]}
     \/ UNCHANGED staging
  /\ pc' = [pc EXCEPT ![j] = "done"]
  /\ UNCHANGED <<env, dir_exists, reset_pc, rc, merge_vars>>

(* _load_entries: an absent staging directory gives []; else the sorted   *)
(* glob of entry files.  That the merge starts once every wrapper has      *)
(* exited is the build order assumed above, not code of the script.        *)
MergeStart ==
  /\ merge_pc = "idle"
  /\ \A j \in Jobs : pc[j] = "done"
  /\ to_read' = SetToSortSeq({f.id : f \in staging}, <)
  /\ merge_pc' = IF dir_exists THEN "read" ELSE "done"
  /\ UNCHANGED <<env, dir_exists, staging, reset_pc, wrapper_vars, entries, output>>

(* one file: json.loads, then entries[key] = entry when both parts of the *)
(* key are non-empty (the wrapper always writes both).                     *)
MergeRead ==
  /\ merge_pc = "read"
  /\ to_read # <<>>
  /\ LET e == (CHOOSE f \in staging : f.id = Head(to_read)).entry
     IN entries' = (Key(e) :> e) @@ entries
  /\ to_read' = Tail(to_read)
  /\ UNCHANGED <<env, dir_exists, staging, reset_pc, wrapper_vars, merge_pc, output>>

(* output.write_text(json.dumps(entries sorted by key))                    *)
MergeWrite ==
  /\ merge_pc = "read"
  /\ to_read = <<>>
  /\ output' = entries
  /\ merge_pc' = "done"
  /\ UNCHANGED <<env, dir_exists, staging, reset_pc, wrapper_vars, to_read, entries>>

Next ==
  \/ ResetRemove \/ ResetMkdir
  \/ \E j \in Jobs : Compile(j) \/ DecideWrite(j) \/ WriteEntry(j)
  \/ MergeStart \/ MergeRead \/ MergeWrite

Spec == Init /\ [][Next]_vars

-----------------------------------------------------------------------------
Done == merge_pc = "done"

(***************************************************************************)
(* The reset script's docstring: it resets the staging directory, and it   *)
(* exits 0 only when it did.  So a build whose reset succeeded writes a    *)
(* compile_commands that holds commands of this build only: no entry that *)
(* an earlier build left in the staging directory.                         *)
(***************************************************************************)
CompileDbFromThisBuild ==
  Done => \A k \in DOMAIN output : \E j \in Jobs : output[k] = EntryOf(j)

(***************************************************************************)
(* The docstring of _detect_source: it returns the translation unit path  *)
(* of the compiler arguments, so every merged entry names a source file.  *)
(***************************************************************************)
EntryNamesTranslationUnit ==
  Done => \A k \in DOMAIN output : output[k].file[2] \in SourceFiles
=============================================================================
