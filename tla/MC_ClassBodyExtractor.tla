------------------------ MODULE MC_ClassBodyExtractor ------------------------
(***************************************************************************)
(* Texts of up to MaxFragments fragments of a header file: class and       *)
(* struct headers, forward declarations, inline constructor and destructor *)
(* declarations, a namespace and closing braces (balanced or not).         *)
(***************************************************************************)
EXTENDS ClassBodyExtractor

Fragments == {
  <<"class", WS, "A", WS, "{", WS>>,
  <<"struct", WS, "B", WS, "{", WS>>,
  <<"class", WS, "A", ";", WS>>,
  <<"A", "(", ")", ";", WS>>,
  <<"~", "A", "(", ")", ";", WS>>,
  <<"B", "(", "int", WS, "x", ")", WS, "{", "}", WS>>,
  <<"namespace", WS, "ft", WS, "{", WS>>,
  <<"}", ";", WS>>}

CONSTANT MaxFragments  \* fragments per text

MC_Texts == {FlattenSeq(f) : f \in BoundedSeq(Fragments, MaxFragments)}
=============================================================================
