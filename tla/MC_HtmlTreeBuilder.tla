------------------------- MODULE MC_HtmlTreeBuilder -------------------------
(***************************************************************************)
(* Documents of up to MaxNodes nodes over two element names.  The plain    *)
(* data set has a word and whitespace; the entity data set adds a text     *)
(* that wrote `&lt;b&gt;` as character references.                          *)
(***************************************************************************)
EXTENDS HtmlTreeBuilder

MC_Tags == {"p", "b"}

MC_PlainDatas == {<<>>, <<"w">>}

MC_EntityDatas == {<<>>, <<"w">>, <<"w", "<b>">>}

MC_Literals == [a \in {"<b>"} |-> "b"]
=============================================================================
