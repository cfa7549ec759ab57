--------------------------- MODULE CommentStripper ---------------------------
(***************************************************************************)
(* strip_comments of tools/build_signature_catalog.py: two regular         *)
(* expression substitutions, applied one after the other to the whole    *)
(* text:                                                                   *)
(*   re.sub(r"/\*.*?\*/", "", text, flags=re.DOTALL)                       *)
(*   re.sub(r"//.*", "", text)                                             *)
(* A text is a sequence of tokens: the markers "/*", "*/" and "//", the    *)
(* line break NL, and code tokens.  Markers are atomic, so overlapping     *)
(* spellings such as "/*/" are left out.                                   *)
(***************************************************************************)
EXTENDS Integers, Sequences, SequencesExt

CONSTANT Code  \* the code tokens

NL == "NL"
Markers == {"/*", "*/", "//"}
Tokens == Markers \cup {NL} \cup Code

(* The first index at or after i holding token x, or 0.                    *)
IndexFrom(t, x, i) ==
  LET hits == {k \in i .. Len(t) : t[k] = x} IN
  IF hits = {} THEN 0 ELSE Min(hits)

(* First substitution: re.sub scans left to right; at a "/*" the lazy .*?  *)
(* with DOTALL reaches the first later "*/", line breaks included, and the *)
(* span is removed; a "/*" with no "*/" after it is no match and is kept.  *)
RECURSIVE RemoveBlocks(_)
RemoveBlocks(t) ==
  IF t = <<>> THEN <<>>
  ELSE LET close == IndexFrom(t, "*/", 2) IN
       IF Head(t) = "/*" /\ close # 0
       THEN RemoveBlocks(SubSeq(t, close + 1, Len(t)))
       ELSE <<Head(t)>> \o RemoveBlocks(Tail(t))

(* Second substitution: at a "//", .* (no DOTALL) runs to the line break,  *)
(* which stays.                                                            *)
RECURSIVE RemoveLines(_)
RemoveLines(t) ==
  IF t = <<>> THEN <<>>
  ELSE IF Head(t) = "//"
  THEN LET nl == IndexFrom(t, NL, 1) IN
       IF nl = 0 THEN <<>> ELSE RemoveLines(SubSeq(t, nl, Len(t)))
  ELSE <<Head(t)>> \o RemoveLines(Tail(t))

strip_comments(t) == RemoveLines(RemoveBlocks(t))
=============================================================================
