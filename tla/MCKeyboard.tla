----------------------------- MODULE MCKeyboard -----------------------------
(***************************************************************************)
(* Instances of the keyboard driver with one task and with several.        *)
(***************************************************************************)
EXTENDS Keyboard, TLC

CONSTANTS T1, T2

MCOne == {T1}
MCTwo == {T1, T2}
Symmetry == Permutations(MCTwo)
=============================================================================
