------------------------ MODULE DeclarationClassifier ------------------------
(***************************************************************************)
(* The text predicates of tools/build_signature_catalog.py: comment-free   *)
(* source text is a sequence of TOKENS, and each regular expression and    *)
(* string test of the script is an operator over token sequences.          *)
(*                                                                         *)
(* A token is an identifier, a punctuation mark, or WS, which stands for a *)
(* maximal run of whitespace characters.  Texts never hold two adjacent WS *)
(* tokens nor two adjacent identifiers (those would be one identifier).    *)
(***************************************************************************)
EXTENDS Integers, Sequences, SequencesExt, FiniteSetsExt

WS == " "

(* Tokens that are not identifiers ([A-Za-z_]\w{0,} in the script's regexes). *)
Punct == {WS, "(", ")", "::", "~", "=", "==", "->", ".", "<", ">", "&",
          "*", "[", "]", ",", ":", "0", "{", "}", ";",
          "#include", "\"a.hpp\"", "\"C\""}

IsIdent(t) == t \notin Punct

(* Tokens containing the characters the substring tests look for.         *)
EqualsTokens    == {"=", "=="}
DotTokens       == {".", "\"a.hpp\""}
ArrowTokens     == {"->"}
OperatorTokens  == {"operator", "operator_count"}  \* contain "operator"
DirectiveTokens == {"#include"}                    \* start with "#"

CONTROL_KEYWORDS == {"if", "for", "while", "switch", "catch", "return", "else",
                     "sizeof", "throw", "do", "static_assert", "using",
                     "typedef", "namespace"}

Toks(s) == ToSet(s)

(* Index of the first occurrence of token t in s, 0 when absent.          *)
FirstIndex(s, t) == SelectInSeq(s, LAMBDA x : x = t)

(* str.strip / str.lstrip on whitespace.                                  *)
NonWs(s) == {i \in DOMAIN s : s[i] # WS}
Strip(s) == IF NonWs(s) = {} THEN <<>> ELSE SubSeq(s, Min(NonWs(s)), Max(NonWs(s)))
LStrip(s) == IF NonWs(s) = {} THEN <<>> ELSE SubSeq(s, Min(NonWs(s)), Len(s))

(* collapse_whitespace: strip, then every whitespace run becomes one      *)
(* space.  A run is already the single token WS, so only the strip shows. *)
collapse_whitespace(s) == Strip(s)

(* is_control_structure: the first identifier of the stripped text is a  *)
(* control keyword (re.match fails when the text starts with punctuation). *)
is_control_structure(s) ==
  LET t == Strip(s) IN t # <<>> /\ t[1] \in CONTROL_KEYWORDS

(* snippet.startswith(("class ", ...)) on a text whose first token is kw. *)
StartsWithKeyword(s, kws) == Len(s) >= 2 /\ s[1] \in kws /\ s[2] = WS

(***************************************************************************)
(* class_header_pattern / namespace_pattern .match(candidate):             *)
(*   (?:template\s{0,}<[^>]+>\s{0,})?(kw)\b                                     *)
(* AfterTemplate(s) is where kw must start: past a leading template        *)
(* parameter list when one matches, else 1.                                *)
(***************************************************************************)
AfterTemplate(s) ==
  IF Len(s) >= 2 /\ s[1] = "template"
  THEN LET a      == IF s[2] = WS THEN 3 ELSE 2
           closes == {j \in a + 1 .. Len(s) : s[j] = ">"}
       IN IF a <= Len(s) /\ s[a] = "<" /\ closes # {} /\ Min(closes) >= a + 2
          THEN IF Min(closes) + 1 <= Len(s) /\ s[Min(closes) + 1] = WS
               THEN Min(closes) + 2 ELSE Min(closes) + 1
          ELSE 1
  ELSE 1

HeaderMatch(s, kws) == AfterTemplate(s) <= Len(s) /\ s[AfterTemplate(s)] \in kws

IsClassHeader(c)     == HeaderMatch(c, {"class", "struct", "union"})
IsNamespaceHeader(c) == HeaderMatch(c, {"namespace"})

(* is_function_definition, nested in iter_top_level_candidates.            *)
is_function_definition(c) ==
  LET stripped == LStrip(c)
  IN /\ "(" \in Toks(stripped)
     /\ ~is_control_structure(stripped)
     /\ ~StartsWithKeyword(stripped, {"class", "struct", "union", "namespace"})

(***************************************************************************)
(* The qualified-name search of scan_file:                                 *)
(*   ([A-Za-z_]\w{0,}(?:::[A-Za-z_]\w{0,}){0,})\s{0,}::\s{0,}(~?[A-Za-z_]\w{0,})\s{0,}\(        *)
(* re.search takes the leftmost start; group 1 is greedy, so of the        *)
(* chains starting there the longest one that lets the rest match wins.    *)
(***************************************************************************)
NoMatch == [start |-> 0, base |-> "", member |-> "", tilde |-> FALSE]

SkipWs(s, i) == IF i <= Len(s) /\ s[i] = WS THEN i + 1 ELSE i

(* ident(::ident)* from p to e, no whitespace inside                       *)
ChainEnds(s, p) ==
  {e \in p .. Len(s) :
     /\ (e - p) % 2 = 0
     /\ \A j \in p .. e : IF (j - p) % 2 = 0 THEN IsIdent(s[j]) ELSE s[j] = "::"}

(* \s{0,}::\s{0,}(~?ident)\s{0,}\( from index i: the member, or NoMatch            *)
MemberAt(s, i) ==
  LET a == SkipWs(s, i)
      b == SkipWs(s, a + 1)
      tilde == b <= Len(s) /\ s[b] = "~"
      m == IF tilde THEN b + 1 ELSE b
  IN IF /\ a <= Len(s) /\ s[a] = "::"
        /\ m <= Len(s) /\ IsIdent(s[m])
        /\ SkipWs(s, m + 1) <= Len(s) /\ s[SkipWs(s, m + 1)] = "("
     THEN [start |-> 0, base |-> "", member |-> s[m], tilde |-> tilde]
     ELSE NoMatch

MatchEnds(s, p) == {e \in ChainEnds(s, p) : MemberAt(s, e + 1) # NoMatch}

qualified_match(s) ==
  LET starts == {p \in DOMAIN s : IsIdent(s[p]) /\ MatchEnds(s, p) # {}}
  IN IF starts = {} THEN NoMatch
     ELSE LET p == Min(starts)
              e == Max(MatchEnds(s, p))
          IN [MemberAt(s, e + 1) EXCEPT !.start = p, !.base = s[e]]

(***************************************************************************)
(* The body of scan_file's loop over top-level candidates: the category a *)
(* (collapsed) snippet is added to, or None when a `continue` drops it.    *)
(***************************************************************************)
None == "none"

prefix(s) == IF FirstIndex(s, "(") = 0 THEN s ELSE SubSeq(s, 1, FirstIndex(s, "(") - 1)

Rejected(s) ==
  LET pre == prefix(s)
      unqualified == "::" \notin Toks(pre)
  IN \/ "(" \notin Toks(s)
     \/ StartsWithKeyword(LStrip(s), {"class", "struct", "union"})
     \/ is_control_structure(s)
     \/ "static_assert" \in Toks(s)
     \/ (s # <<>> /\ s[1] \in DirectiveTokens)
     \/ unqualified /\ Toks(pre) \cap EqualsTokens # {}
     \/ unqualified /\ Toks(pre) \cap (ArrowTokens \cup DotTokens) # {}
     \/ unqualified /\ WS \notin Toks(pre)

(* prefix.split("::", 1)[0] contains whitespace                            *)
has_return_type(s) ==
  LET pre == prefix(s)
      q   == FirstIndex(pre, "::")
  IN WS \in Toks(IF q = 0 THEN pre ELSE SubSeq(pre, 1, q - 1))

Classify(s) ==
  LET qm == qualified_match(s)
  IN IF Rejected(s) THEN None
     ELSE IF Toks(s) \cap OperatorTokens # {} THEN "operators"
     ELSE IF qm # NoMatch /\ ~qm.tilde /\ qm.member = qm.base THEN "constructors"
     ELSE IF qm # NoMatch /\ qm.tilde /\ qm.member = qm.base THEN "destructors"
     ELSE IF qm # NoMatch /\ ~has_return_type(s) THEN None
     ELSE "functions"

Categories == {"functions", "constructors", "destructors", "operators"}
=============================================================================
