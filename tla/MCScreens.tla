----------------------------- MODULE MCScreens -----------------------------
(* The screens for TLC; the configurations give the bounds. *)
EXTENDS Screens

CONSTANTS k1, k2
=============================================================================
