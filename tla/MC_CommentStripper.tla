------------------------- MODULE MC_CommentStripper -------------------------
(***************************************************************************)
(* strip_comments applied to every text of up to five tokens: the three   *)
(* markers, a line break and one code token.                               *)
(***************************************************************************)
EXTENDS CommentStripper

VARIABLE text

MaxLen == 5

Texts == UNION {[1 .. n -> Tokens] : n \in 0 .. MaxLen}

Init == text \in Texts
Next == UNCHANGED text

(* Spec 4.1 read left to right, as a C lexer reads comments: the first     *)
(* marker met opens a comment, and a marker inside a comment is comment   *)
(* text.  An unterminated "/*" is kept, as the code keeps it.              *)
RECURSIVE LexStrip(_)
LexStrip(t) ==
  IF t = <<>> THEN <<>>
  ELSE LET close == IndexFrom(t, "*/", 2)
           nl    == IndexFrom(t, NL, 1) IN
       CASE Head(t) = "/*" /\ close # 0 -> LexStrip(SubSeq(t, close + 1, Len(t)))
         [] Head(t) = "//" /\ nl = 0    -> <<>>
         [] Head(t) = "//"              -> LexStrip(SubSeq(t, nl, Len(t)))
         [] OTHER                       -> <<Head(t)>> \o LexStrip(Tail(t))

(***************************************************************************)
(* Spec 4.1: strip_comments removes the /* ... */ spans and the // spans   *)
(* to the end of their line, and nothing else: the code after a line      *)
(* comment's line break survives whatever markers the comment contains.   *)
(***************************************************************************)
StripRemovesOnlyComments == strip_comments(text) = LexStrip(text)
=============================================================================
