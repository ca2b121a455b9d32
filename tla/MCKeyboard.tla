----------------------------- MODULE MCKeyboard -----------------------------
(***************************************************************************)
(* Instances of Keyboard for TLC.                                          *)
(***************************************************************************)
EXTENDS Keyboard

\* A function key, its release and those of its neighbours, the release of a
\* letter, and the prefix of the extended keys.
SomeCodes == {F1_PRESSED - 128, F1_PRESSED, F1_PRESSED + 1, F1_PRESSED + 2, 158, 224}
=============================================================================
