----------------------------- MODULE MCMessages -----------------------------
(* Values of the constants of Messages for TLC.                            *)
EXTENDS Messages, TLC

CONSTANTS tx1, tx2, tx3, form1, form2

Clients == {tx1, tx2, tx3}
Forms == {form1, form2}
Symmetries == Permutations(Clients) \union Permutations(Forms)

\* Two principals, the first a teacher of the child too; the other may teach
\* after them, a third colleague may become vice principal.
School == {<<1, "teacher">>, <<1, "principal">>, <<2, "principal">>}
Ending == {<<1, "teacher">>, <<2, "principal">>}
NewOffice == {<<2, "teacher">>, <<3, "vice_principal">>}
=============================================================================
