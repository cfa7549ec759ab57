----------------------- MODULE MC_DocumentRoundTrip -----------------------
(***************************************************************************)
(* A directory with a compact XML file, a one-element file already in      *)
(* canonical form, a file that does not parse, a text file, a read-only    *)
(* file, a subdirectory and a missing path, under two command lines: the   *)
(* first writes the canonical forms back, the second checks them.          *)
(***************************************************************************)
EXTENDS DocumentRoundTrip

MC_Tags == {"a", "b"}

File(sfx, t) == [kind |-> "file", suffix |-> sfx, text |-> t]
NoFile(k) == [kind |-> k, suffix |-> "", text |-> <<>>]

(* <a><b>x</b></a>                                                         *)
Compact == <<Open("a"), Open("b"), W, Close("b"), Close("a")>>

(* <?xml ...?> <a>x</a>, as toprettyxml writes it                          *)
Single == <<DECL, NL, Open("a"), W, Close("a"), NL>>

(* <a>x                                                                    *)
Unclosed == <<Open("a"), W>>

MC_Paths == {"doc.xml", "one.XML", "bad.xml", "notes.txt", "ro.xml", "sub", "gone.xml"}

MC_Files ==
  [p \in MC_Paths |->
     CASE p = "doc.xml"   -> File(".xml", Compact)
       [] p = "one.XML"   -> File(".XML", Single)
       [] p = "bad.xml"   -> File(".xml", Unclosed)
       [] p = "notes.txt" -> File(".txt", Compact)
       [] p = "ro.xml"    -> File(".xml", Compact)
       [] p = "sub"       -> NoFile("dir")
       [] OTHER           -> NoFile("missing")]

MC_Lower == [s \in {".XML"} |-> ".xml"]

MC_ReadOnly == {"ro.xml"}

Cmd(ps, fmt, w, f) == [paths |-> ps, format |-> fmt, write |-> w, fail_on_diff |-> f]

MC_Invocations ==
  <<Cmd(<<"doc.xml", "one.XML", "bad.xml", "sub">>, None, TRUE, TRUE),
    Cmd(<<"notes.txt", "gone.xml", "doc.xml">>, None, FALSE, TRUE),
    Cmd(<<"notes.txt", "doc.xml", "ro.xml">>, "xml", TRUE, FALSE)>>
=============================================================================
