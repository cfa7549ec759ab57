------------------------------- MODULE Catalog -------------------------------
(***************************************************************************)
(* main of tools/build_signature_catalog.py: collect_source_files under    *)
(* repo_root, scan_file on each file in sorted order (the file is read as  *)
(* UTF-8), the any() filter, and build_document.                           *)
(*                                                                         *)
(* A path is its parts.  An entry of the tree under repo_root is a record: *)
(* rel (path.relative_to(root).parts), dir, suffix (as written), utf8 (the *)
(* bytes decode) and result (what scan_file returns for it, category ->    *)
(* snippets).  The scan itself is modelled by the scanner modules; here    *)
(* its result is given.  Titles, headings and Markdown layout are left out: *)
(* a section is the files it lists, with their snippets, or the           *)
(* placeholder.                                                            *)
(***************************************************************************)
EXTENDS Integers, Sequences, SequencesExt, FiniteSets

CONSTANTS
  Roots,  \* the absolute paths, as parts, at which a checkout puts repo_root
  Trees,  \* the sets of entries rglob("*") may find under repo_root
  Rank,   \* Rank[n]: the position of the name n in Python's string order
  Lower   \* Lower[s]: suffix s in lower case, for the suffixes that change

SOURCE_EXTENSIONS == {".c", ".cc", ".cpp", ".cxx", ".hh", ".hpp", ".h", ".ipp"}

EXCLUDED_DIRS == {"Docs", "tools", ".git"}

(* build_document's sections, in their fixed order                         *)
Sections == <<"functions", "constructors", "destructors", "operators">>

lower(s) == IF s \in DOMAIN Lower THEN Lower[s] ELSE s

(* Path ordering: the parts compared in turn, a proper prefix first.       *)
RECURSIVE PathLess(_, _)
PathLess(p, q) ==
  IF q = <<>> THEN FALSE
  ELSE IF p = <<>> THEN TRUE
  ELSE IF Head(p) = Head(q) THEN PathLess(Tail(p), Tail(q))
  ELSE Rank[Head(p)] < Rank[Head(q)]

SortedByPath(S) == SetToSortSeq(S, LAMBDA a, b : PathLess(a.rel, b.rel))

(* path.parts of the absolute path is the root's parts and then rel.       *)
collect_source_files(root, tree) ==
  SortedByPath({e \in tree : /\ ~e.dir
                             /\ lower(e.suffix) \in SOURCE_EXTENSIONS
                             /\ EXCLUDED_DIRS \cap ToSet(root \o e.rel) = {}})

any(result) == \E c \in DOMAIN result : result[c] # {}

(* For each section, the files with entries in that category, in sorted   *)
(* path order, each with its snippets; no such file gives the placeholder. *)
build_document(scanned) ==
  [k \in DOMAIN Sections |->
     LET listed == {e \in scanned : e.result[Sections[k]] # {}} IN
     [placeholder |-> listed = {},
      files |-> [i \in DOMAIN SortedByPath(listed) |->
                   <<SortedByPath(listed)[i].rel, SortedByPath(listed)[i].result[Sections[k]]>>]]]

VARIABLES
  root,          \* repo_root's parts
  tree,          \* the entries under it
  pc,            \* "collect", "scan", "written", or "crashed" (traceback, exit 1)
  source_files,  \* the files main has still to scan, in order
  scanned,       \* the scanned dict, as the set of entries kept in it
  document       \* the document written to --output

vars == <<root, tree, pc, source_files, scanned, document>>

Init ==
  /\ root \in Roots
  /\ tree \in Trees
  /\ pc = "collect"
  /\ source_files = <<>>
  /\ scanned = {}
  /\ document = <<>>

Collect ==
  /\ pc = "collect"
  /\ source_files' = collect_source_files(root, tree)
  /\ pc' = "scan"
  /\ UNCHANGED <<root, tree, scanned, document>>

(* result = scan_file(source): read_text(encoding="utf-8") raises          *)
(* UnicodeDecodeError on bytes that do not decode, and nothing catches it; *)
(* else the file is kept when any category is non-empty.                   *)
ScanFile ==
  /\ pc = "scan"
  /\ source_files # <<>>
  /\ LET e == Head(source_files) IN
     IF e.utf8
     THEN /\ scanned' = IF any(e.result) THEN scanned \cup {e} ELSE scanned
          /\ source_files' = Tail(source_files)
          /\ UNCHANGED pc
     ELSE /\ pc' = "crashed"
          /\ UNCHANGED <<source_files, scanned>>
  /\ UNCHANGED <<root, tree, document>>

(* doc_text = build_document(...); args.output.write_text(doc_text)        *)
Write ==
  /\ pc = "scan"
  /\ source_files = <<>>
  /\ document' = build_document(scanned)
  /\ pc' = "written"
  /\ UNCHANGED <<root, tree, source_files, scanned>>

Next == Collect \/ ScanFile \/ Write

(* main is one single-threaded loop: an enabled step is taken.             *)
Spec == Init /\ [][Next]_vars /\ WF_vars(Next)

-----------------------------------------------------------------------------
(* The files spec 6's input contract selects: regular files with a source  *)
(* or header extension, in no excluded directory of the scanned tree.      *)
Selected ==
  {e \in tree : /\ ~e.dir
                /\ lower(e.suffix) \in SOURCE_EXTENSIONS
                /\ EXCLUDED_DIRS \cap ToSet(e.rel) = {}}

Listed(k) == {document[k].files[i][1] : i \in DOMAIN document[k].files}

(***************************************************************************)
(* Spec 6 and 7: every selected file is read, undecodable bytes are       *)
(* substituted or skipped rather than aborting, and the document lists    *)
(* each file under every category it has entries in.  So the run          *)
(* eventually writes a catalog that lists every selected file with         *)
(* declarations, wherever the repository is checked out.                   *)
(***************************************************************************)
CatalogListsEverySource ==
  <>(/\ pc = "written"
     /\ \A e \in Selected, k \in DOMAIN Sections :
          e.result[Sections[k]] # {} => e.rel \in Listed(k))
=============================================================================
