----------------------------- MODULE MCSessions -----------------------------
(* The adapters of one objective for TLC; the configuration bounds them. *)
EXTENDS Sessions, TLC

CONSTANTS c1, c2, c3

MCSymmetry == Permutations({c1, c2, c3} \cap Callers)
=============================================================================
