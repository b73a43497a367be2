---------------------------- MODULE MCLifecycle ----------------------------
(* The life of an objective for TLC; the configurations give the bounds. *)
EXTENDS Lifecycle

CONSTANTS h1, h2
==============================================================================
