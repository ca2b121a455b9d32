------------------------------ MODULE MCScreen ------------------------------
(***************************************************************************)
(* Screen on a monitor of two rows and columns.                            *)
(***************************************************************************)
EXTENDS Screen

\* Three characters wrap and scroll within one write.
SmallTexts == {<<"a", NUL, "a", "a">>}
=============================================================================
