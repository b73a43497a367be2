----------------------------- MODULE MCGitConsole -----------------------------
(* One console request at a time, against one objective with one task.        *)
EXTENDS GitConsole

CONSTANTS h1, t1
==============================================================================
