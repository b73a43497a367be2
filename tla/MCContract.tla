----------------------------- MODULE MCContract -----------------------------
(* A result and its evidence in one block or in two, and a value   *)
(* that is not JSON: enough for a block to be the missing one, the dangling  *)
(* one and the swallowed one, in messages of two segments.                   *)
EXTENDS Contract

MCValues == {"result", "both", "junk"}
=============================================================================
