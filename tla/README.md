# TLA+ models of the Libft developer tools

The repository's Python tools (`src/tools`, `src/Tools`) support the C++ library:
they catalog declarations, record compile commands, scaffold modules and tests,
round-trip documents and run narrow test builds. The core, and the subject of
`spec.md`, is the **signature catalog scanner**
(`src/tools/build_signature_catalog.py`). It is a heuristic scanner that finds
top-level functions, constructors, destructors and operator overloads in C/C++
text using brace counting and regular expressions.

This directory holds TLA+ modules that model the tools' control flow. It also
holds the TLC configurations that check them and `PROJECT.json`. That file maps
every definition to the lines it models and lists the runs, mutants, findings
and hazards.

## 1. Inventory

### 1.1 Signature catalog scanner (`build_signature_catalog.py`)

| Part (spec name) | Code | State | Operations |
|---|---|---|---|
| CommentStripper | `strip_comments` 45-48 | `CommentStripper` (pure) | two regex substitutions, block comments first |
| ScopeScanner | `iter_top_level_candidates` 120-168 | `depth`, `buffer`, `class_scope_depths`, `function_scope_depths` | one branch each for `{`, `;` and `}`; any other character only appends to `buffer` |
| DeclarationClassifier | first loop of `scan_file` 175-211, `is_control_structure` 68-73 | none (pure) | a chain of `continue` rejections, then operator, the qualified-name regex, ctor/dtor/return-type gate |
| ClassBodyExtractor | `find_class_bodies` 76-99 | `index`, `cursor`, `brace_depth` | header regex search, brace walk, `yield`, resume at `cursor` |
| InlineMemberScanner | `collect_inline_constructors` 102-117 | none (pure) | `finditer` of the `~?Name(...)` pattern |
| FileScanner | `scan_file` 171-218 | `signatures`: category → set | runs both generators over one text and unions their results |
| Catalog/document | `main` 264-287, `collect_source_files` 55-65, `build_document` 221-261 | `scanned` | filters files by suffix and excluded directory, scans them in path order, drops files with no entries, renders four sections |

How the parts interact: `scan_file` pulls candidates from the
`iter_top_level_candidates` generator. The generator is suspended at each
`yield` while `scan_file` classifies the candidate and records it. Then
`scan_file` pulls `(name, body)` pairs from the `find_class_bodies` generator in
the same way, and hands each body to `collect_inline_constructors`. The shared
state is the `signatures` map of `scan_file`. Nothing is concurrent. What makes
this code hard is its control flow: the interplay of the depth counter with two
stacks, the order of the rejection rules, regex backtracking (leftmost start,
greedy groups, `\b`), and off-by-one positions in the brace walk.

Properties that make it correct, from `spec.md`:
- A candidate never comes from inside a class, namespace or function body (spec 3 and 8).
- The scope stacks record exactly the open scopes.
- Classification follows the decision sequence of spec 4.5.
- Each extracted class body is brace-matched (4.3).
- An inline `~Name(...)` is a destructor (4.4).
- The scan terminates on every input, unbalanced braces included (5).

### 1.2 Compile database tools (`src/Tools`)

- `compile_db_wrapper.py` is run once per compiler invocation, and `make -j` runs
  many of them concurrently. Each one runs the compiler. On success, and when
  `FT_GENERATE_COMPILE_DB=1`, it finds the translation unit (`_detect_source`)
  and writes `entry-<uuid4>.json` into the staging directory. The directory is
  shared state.
- `reset_compile_commands_dir.py` removes the staging directory with
  `rmtree(ignore_errors=True)` and recreates it with `mkdir(exist_ok=True)`.
- `merge_compile_commands.py` reads the entries in sorted file-name order. It
  skips unreadable or partially written ones. It keeps the last entry per
  `(directory, file)` key and writes the merged list.
- Hard behaviours:
  - processes interleave on the staging directory;
  - an entry's write is not atomic: a wrapper killed mid-write leaves a
    truncated entry, which the merge skips without a message;
  - when a file is compiled twice, the winning duplicate is decided by random
    uuid order, not by which compile ran last;
  - `_detect_source` returns whatever follows `-c`, which can be `-o`.

### 1.3 Other tools

- `test_prototype.py` sorts positional targets into files and test names. It
  indexes `FT_TEST` names to their files (cached with `lru_cache`), resolves
  them (an ambiguous name is an error) and then runs `make` and the test binary.
- `generate_scaffold.py` writes a header and a source file; `--force` decides
  whether it overwrites. If one of the two files exists, the other is still
  written and the exit code is 1.
- `document_roundtrip.py` canonicalises JSON, YAML, XML and HTML. The HTML tree
  builder keeps a stack of open elements, and an unmatched end tag is ignored.
  XML goes through `minidom`: `canonicalise_dom` strips the document's own
  text nodes and `toprettyxml` indents the rest. `process_paths` walks its
  paths in order, prints a diff or "no changes", writes the canonical text
  back under `--write` (outside its `try`), and accumulates an exit code
  (2 beats 1).
- `generate_full_libft.py` builds a header from a manifest (deduplicated and
  sorted) and, with `--check`, compares it with the existing file.
- `check_error_mapping.py` runs a regex scan with path-prefix allow lists.
- `run_doxygen.py` checks that paths exist and runs doxygen. It is pure I/O.

## 2. Modules

| Module | Models | State (code variable) | Actions |
|---|---|---|---|
| `CommentStripper` | `strip_comments`: one RECURSIVE operator per `re.sub`, applied in the code's order | none | `RemoveBlocks`, `RemoveLines`, `strip_comments` |
| `DeclarationClassifier` | the regexes and string tests of the scanner and of `scan_file`'s first loop, as operators over token sequences | none | `Classify`, `qualified_match`, `is_function_definition`, `IsClassHeader`, ... |
| `ScopeScanner` | `iter_top_level_candidates` composed with `scan_file`'s first loop | `depth`, `class_scope_depths`, `function_scope_depths`, `signatures` | `OpenBrace(text)`, `Semicolon(text)`, `CloseBrace` |
| `ScopeNesting` | the abstract promise of the scanner: one tag per open brace | `scopes`, `signatures` | `Open`, `Terminate`, `Close` |
| `ClassBodyExtractor` | `find_class_bodies` with `collect_inline_constructors` and `scan_file`'s second loop | `text`, `index`, `cursor`, `brace_depth`, `class_name`, `body_start`, `bodies`, `signatures` | `Search`, `WalkStep`, `Yield` |
| `CompileDb` | one build of the compile-database tools: reset, concurrent `compile_db_wrapper.py` processes, then `merge_compile_commands.py` | `dir_exists`, `staging` (entry files: uuid name and content), `reset_pc`, `pc`/`rc` per wrapper, `merge_pc`, `to_read` (the sorted glob), `entries` (the key dict), `output` | `ResetRemove` (any part of the directory may survive), `ResetMkdir` (success, or an OSError that exits 1 and stops the build), `Compile(j)`, `DecideWrite(j)` (return code, env, `_detect_source`, mkdir, whose OSError is swallowed), `WriteEntry(j)` (written, or an OSError swallowed), `MergeStart`, `MergeRead`, `MergeWrite` |
| `Catalog` | `main` with `collect_source_files` and `build_document`; the result of `scan_file` for each file is given, and a file that does not decode as UTF-8 makes the step raise | `root` (repo_root's parts), `tree` (entries under it), `pc`, `source_files`, `scanned`, `document` | `Collect`, `ScanFile`, `Write` |
| `HtmlTreeBuilder` | `CanonicalHtmlParser` (every handler) and `serialize_html_node`/`round_trip_html` of `document_roundtrip.py` | `nodes` (the node table; `nodes[1]` is `_root`), `stack` (`_stack`, as node indices) | `StartTag(t)`, `EndTag(t)`, `StartEndTag(t)`, `HandleData(d)`, `Comment`, `Decl` |
| `XmlRoundTrip` | `round_trip_xml`: `minidom.parseString` as a fold over tokens, `canonicalise_dom`, and `toprettyxml` (the `Element` and `Text` writers) as a RECURSIVE operator | none (pure) | `parseString`, `canonicalise_dom`, `writexml`, `toprettyxml`, `round_trip_xml` |
| `DocumentRoundTrip` | `main`, `process_paths`, `round_trip_path`, `detect_format` and `build_diff` over several command lines on one file table | `files`, `run` (the command line), `todo` (its remaining paths), `exit_code`, `out` (one line per path), `pc`, `statuses` (exit status of each command line), `written` (paths the tool wrote) | `Main`, `Unreadable` (missing path or directory), `RoundTripFails`, `NoChanges`, `Diff` (with `--write`, whose OSError is a traceback, and `--fail-on-diff`), `Exit` |
| `MC_*` | the model-checking instances: the input texts and the refinement mapping | | |

**Text abstraction.** A text is a sequence of tokens: identifiers, punctuation,
and `WS`. `WS` stands for a whole run of whitespace, which is why
`collapse_whitespace` reduces to a strip. Each regex is translated by what it
matches on tokens:
- `re.search` takes the leftmost start, and its greedy group keeps the longest
  qualifier chain that still lets the rest match;
- `\b` is a test on the previous token;
- `[^;{]+` means "up to the first `;` or `{`".
Substring tests (`"operator" in`, `"=" in`, `"." in`) are membership in token
classes (`OperatorTokens`, `EqualsTokens`, `DotTokens`). The classes include
tokens such as `operator_count` and `"a.hpp"` that contain the characters.

**HTML documents.** The handlers are operators over a parser record, and the
actions apply them to the variables. The serialiser is modelled by the handler
calls that `html.parser` makes when it reads the serialised text back. The same
handlers fold over those calls, so "parse the canonical text" is an operator.
Text is a sequence of atoms: `"w"` for a word, and decoded character-reference
literals such as `"<b>"`. Whitespace-only data is the empty sequence.
Attributes are sorted and escaped by the code and are not modelled.

**XML documents.** A text is a sequence of tokens: the declaration, start,
end and empty-element tags, and character tokens `W` (non-blank characters),
`IND` (the two spaces of one indentation step) and `NL`. The parser keeps
every character inside the root element as text, merges adjacent character
data, and drops whitespace outside the root; a mismatched end tag, a second
root or an unclosed element makes it raise. The writer follows
`Element.writexml` and `Text.writexml`: a lone text child is written inline,
any other text on its own indented line. On three documents the model's
canonical texts are character for character what Python produces. Build
diffs compare `splitlines()`, so a diff is empty exactly when the lines agree.

**Steps.** Characters other than `{`, `;` and `}` only append to `buffer`. So a
step of `ScopeScanner` reads the whole text up to a delimiter together with the
delimiter. The text before a `}` is discarded with the buffer, so `CloseBrace`
takes no text. The brace walk of `find_class_bodies` is one character per step.

## 3. Runs

| Run | Expect | What it shows |
|---|---|---|
| `scanner_refines_nesting` | pass | `ScopeScanner` implements `ScopeNesting` under the mapping `ScopeTags`. Position `i` of the open-brace stack is "class" or "function" when `i` is on that stack, "plain" otherwise. So the counter, the two stacks and their pop loops track nesting exactly. Catalogue decisions and contents are included. The same run checks `ScopeStacksConsistent`: the stacks stay strictly increasing and hold no closed scope, and no brace is on both stacks. |
| `comment_strip_line_marker` | violation | Over every text of up to five tokens (`/*`, `*/`, `//`, a line break, a code token), `strip_comments` is compared with a left-to-right reading of comments. `// /* NL */` differs: the block pass runs first and removes the line break and what follows it. |
| `scanner_function_body_leak` | violation | `Foo::Foo() { ft_thread worker([&]() {`: the text before the lambda's `{` is catalogued as a function. Spec 8 says body statements never surface. |
| `classifier_return_type_gate` | violation | Over 480 composed snippets, the return-type gate disagrees with spec 4.5 step 7 (see findings). |
| `extractor_brace_matching` | violation | `class A { };`: the body runs past `}` to the end of the text. |
| `extractor_inline_destructor` | violation | `class A { ~A(); ...`: no destructor is recorded. |
| `compiledb_reset_keeps_entries` | violation | An earlier build left an entry for `a.cpp` with `-O0`; the reset's `rmtree` cannot remove it, `mkdir` succeeds on the existing directory and the reset exits 0. The merge writes the old command into `compile_commands` (`CompileDbFromThisBuild`). |
| `compiledb_detect_source` | violation | `c++ -c -o a.o a.cpp` is recorded with file `-o`. |
| `html_reparse_plain` | pass | Over every sequence of handler calls that builds up to five nodes over tags `p` and `b`, the canonical text parses back to the same document. The sequences include stray end tags, mismatched end tags and unclosed elements. Adjacent texts are compared as one text. The root is never popped. |
| `html_reparse_entity` | violation | `<p>a &lt;b&gt; c</p>`: the decoded `<b>` is written back unescaped and parses as an element. |
| `xml_write_not_canonical` | violation | `<a><b>x</b></a>` is printed with a diff and rewritten by `--write`; the next command line prints a diff for the file the tool just wrote (`CanonicalFormIsStable`, an action property). |
| `catalog_lists_every_source` | violation | Checkouts at `/home/libft` and `/home/tools/libft`, each with a tree with or without a Latin-1 `old.c`. Only the first checkout without the Latin-1 file writes a catalog listing every selected source. Under `tools/` nothing is listed; with `old.c` the run crashes before writing. |

**Bounds.**
- `MC_CommentStripper` enumerates every text of up to five tokens. That is
  enough for a marker inside a comment of the other kind, followed by code.
- `MaxDepth = 3` is one level above the `depth <= 1` window, which is enough to
  nest a plain block, a function and a class.
- The snippet set of `MC_ScopeScanner` opens every kind of scope and reaches
  every category.
- The extractor runs use every text of up to 4 fragments drawn from 8 fragments: class and struct headers, a forward declaration,
  an inline constructor and destructor, an inline constructor with a body, a
  namespace and `};`.
- These bounds cover two classes in a row, a class inside a namespace, and
  unbalanced files.

- `MC_CompileDb` has four invocations. This covers a duplicate key, two
  directories, a non-source link step and `-o` before `-c`. It has two
  possible stale entries: one with a live key and one for a removed file. The
  uuid names come from `1..5`, so every relative order of stale and new
  entries in the sorted glob occurs.

- `MC_DocumentRoundTrip` has seven paths: a compact XML file, one already
  canonical (suffix `.XML`, so `lower()` matters), one that does not parse,
  an XML text under `.txt`, a read-only XML file, a directory and a missing
  path. Three command lines run in turn: `--write --fail-on-diff`, a plain
  check, and `--format xml --write`. That reaches every branch of the loop,
  the exit-status rule, and a rerun over a file the tool wrote.

- `MC_HtmlTreeBuilder_plain` allows five nodes, enough for an element in an
  element beside a sibling, each with content. The entity run needs only a
  text node.

**Build order.** No build driver for the compile-database tools is part of the
repository. `CompileDb` assumes the order a build imposes: the reset runs
first, the wrappers run concurrently after it, and the merge starts once every
wrapper has exited. So no merge reads an entry while it is being written; an
entry truncated by a wrapper that died mid-write is listed as a hazard.

**Faults.** `CompileDb` models the OS errors the scripts meet and handle:
`rmtree(ignore_errors=True)` may remove any part of the staging directory,
the reset's `mkdir` may raise (exit 1, the build stops), and a wrapper's
`mkdir` or entry write may raise `OSError`, which it swallows. A wrapper
killed mid-write and a failed output write of the merge are not modelled.

**Fairness.** Weak fairness is assumed only in `Catalog`'s `Next`: `main` is
a single-threaded loop, so an enabled step is always taken. The termination
of the compile-database scripts is not checked: they are straight-line
scripts, and under per-process fairness the property would hold whatever
they do. `ScopeScanner` has no liveness property, because
its steps are driven by input. `DocumentRoundTrip` is checked for a safety
property only and assumes no fairness.

## 4. Findings

1. **Function-body leak (line 142).** The `{` branch checks only the class
   stack, so statements inside a function body reach the catalog.
2. **Return-type gate (line 201).** The gate looks before the first `::`
   instead of before the qualified name:
   - `std::string Foo::name() const` is dropped;
   - `Foo :: name()` is accepted.
3. **Brace walk off by one (lines 87-90).** The walk counts the class's own
   `{`. The body overruns it, and later classes in the same file are skipped.
4. **Inline destructors (line 108).** The `\b` before the optional `~` means
   inline destructors are recorded as constructors (`Foo();`).
5. **Functions after `#include` (line 182).** Directive lines have no `;`, so
   they are glued to the first function's header and rejected with it. The
   spec's own rules (4.2 and 4.5 step 4) produce this, against spec 2's
   "locate every top-level function". It is a spec gap. Its run was retired
   to make room for finding 11; `PROJECT.json` keeps it as a hazard.

6. **HTML text is not escaped (document_roundtrip.py line 156).** Decoded
   character references are written back as markup. The canonical form then
   changes the document, and `--write` would store the change.
7. **`_detect_source` (compile_db_wrapper.py line 22).** It returns the
   argument after `-c` even when that argument is `-o`. The docstring promises
   the translation unit path.

8. **`/*` inside a line comment (line 46).** The block-comment pass runs
   over the whole text before the line-comment pass, so a `/*` written in a
   `//` comment removes the code up to the next `*/`. A header with
   `// see /* below`, two declarations, then `/* old */` contributes nothing
   to the catalog. Spec 4.1 removes only `/* ... */` spans and `//` spans to
   the end of their line.

9. **Excluded directories above the root (line 62).** `collect_source_files`
   intersects `EXCLUDED_DIRS` with every part of the absolute path. A
   checkout under a directory named `tools`, `Docs` or `.git` gives a catalog
   with `_None yet recorded._` in every section.
10. **Undecodable files (line 171).** `read_text(encoding="utf-8")` is not
   guarded. One Latin-1 byte in any source ends the run with a traceback, and
   no catalog is written. Spec 6 and 7 call for substituting or skipping
   invalid bytes.

11. **XML canonical form is not canonical (document_roundtrip.py line 76).**
   `canonicalise_dom` strips only the text nodes that are children of the
   Document, which `minidom` never creates. The indentation `toprettyxml`
   writes is read back as text inside the elements and written again on lines
   of its own. `<a><b>x</b></a>` becomes `<a>\n  <b>x</b>\n</a>`, and every
   later round trip adds blank indented lines. Under `--write` a file never
   converges, and `--fail-on-diff` fails on the tool's own output. The
   module docstring promises a "canonical representation".

12. **The reset keeps entries it could not remove (reset_compile_commands_dir.py
   line 19).** `rmtree(target, ignore_errors=True)` ignores every error, and
   `mkdir(exist_ok=True)` then succeeds on the surviving directory, so the
   script exits 0 with old entries in place. The merge reads them: an old
   command, or an entry for a deleted source, reaches `compile_commands.json`.
   Checked in Python with an `os.unlink` that refuses one entry file.

Each was confirmed by running the script on the corresponding input.

## 5. Not modelled (yet) and why

- String literals in `strip_comments`: they are not tokens of
  `CommentStripper`. Spec 9 names this blindness a non-goal, and it is listed
  as a hazard. The scanner modules take texts that are already stripped.
- Stray `}` that drive the depth below zero: below zero the scanner no longer
  refines `ScopeNesting`, because a frame pushed at depth -1 closes at 0. The
  refinement run therefore starts at depth 0, and the stray-brace hazard has
  no run.
- The Markdown wording of `build_document` and the CLI parsing are formatting.
  `Catalog` keeps the sections, their order and the placeholder. `scan_file`'s
  two loops over one text are not composed: `Catalog` takes each file's
  result as given.
- Termination of `find_class_bodies` (spec 5) has no run. The search always
  resumes at the cursor, which lies past the header it walked.
- `run_doxygen.py` is path checks and a subprocess call.
- The JSON and YAML round trips of `document_roundtrip.py` are library
  dumps (`json.dumps` with sorted keys, `yaml.safe_dump`). `DocumentRoundTrip`
  holds XML texts only, on which a forced `json` format raises. The exit
  status rule (2 beats 1, and a write OSError ends the run with status 1)
  is modelled but has no passing run: the run slots hold the findings.
- `generate_scaffold.py` makes two sequential `write_file` calls with a
  `--force` guard. A unit test with a temporary directory reaches every path.
  The include-guard collision (`a-b` and `a_b`) and a write error between the
  two files are listed as hazards.
- `test_prototype.py`, `generate_full_libft.py` and `check_error_mapping.py`
  are sequential selection and text-processing scripts. Their hazards are
  listed in `PROJECT.json`.

## 6. Plan

In order of importance:
1. Done: `DeclarationClassifier`, `ScopeScanner` with the abstract
   `ScopeNesting` and its refinement, and `ClassBodyExtractor`.
2. `FileScanner`: the `#include` glue was checked on `ScopeScanner` and its
   run retired for finding 11. Still open: one text driving both phases of
   `scan_file`. Spec 7's "no snippet in two categories" holds by the shape of
   the snippets: inline ones end in `;`, `{` or `}`, and top-level ones never
   do. `struct X *f()` needs a reference classification of the text before a
   brace.
3. Done: `CompileDb`, with its OS errors. Still open: a passing property for
   the concurrent wrappers, and a merge concurrent with compiles, if a build
   driver that does this is added.
4. Done: `HtmlTreeBuilder`, `XmlRoundTrip` and `DocumentRoundTrip`. Still
   open: a passing run for the exit-status rule of `process_paths`.
5. `ScaffoldWriter`: not modelled (see section 5).
6. `TestSelection`, `ManifestHeader` and `ErrorMappingScan`: not modelled
   (see section 5). Their hazards are in `PROJECT.json`: a false ambiguity for
   a test name written twice in one file, `--file` tests that are built but
   not run, and undecodable files skipped silently.
7. Done: `CommentStripper` (the order of its two passes). Open: a merge that
   overlaps the compiles, and `strip_comments` on string literals.
