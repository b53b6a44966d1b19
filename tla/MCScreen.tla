------------------------------ MODULE MCScreen ------------------------------
(* Instances of Screen: two columns and rows and a tab of two, so that a tab    *)
(* reaches the right edge, the next goes past it and the one after takes the    *)
(* column past its largest number, to a negative one.                           *)
EXTENDS Screen
=============================================================================
