------------------------------ MODULE Evidence ------------------------------
(***************************************************************************)
(* The verdict every gate of the workflow reads: is this set of evidence   *)
(* items complete for the objective's verification spec?  A translation of *)
(* packages/core/src/machine/guards.ts.                                    *)
(*                                                                         *)
(* The reader of a set looks up the first item for each command id and     *)
(* each check id (check items are told apart by their kind), so a set of   *)
(* items is the function from ids to that item's status.                   *)
(***************************************************************************)
EXTENDS Integers, FiniteSets

CONSTANTS
    Commands,    \* ids of the spec's *required* verify commands
    Checks,      \* ids of its acceptance checks (normalizeChecks)
    AllowWarn    \* the required commands that carry allowWarn

(* Ids are unique per kind: the schema refuses duplicate command ids, and   *)
(* check ids are positional.                                                *)
ASSUME EvidenceAssumption ==
    /\ AllowWarn \subseteq Commands
    /\ Commands \cap Checks = {}

Status == {"pass", "fail", "warn", "info"}
Missing == "missing"

Ids == Commands \cup Checks
Items == [Ids -> Status \cup {Missing}]
NoItems == [i \in Ids |-> Missing]

CommandSatisfied(items, exempt, c) ==
    \/ items[c] = "pass"
    \/ items[c] = "warn" /\ c \in AllowWarn
    \/ items[c] = "fail" /\ c \in exempt

(* A null spec and a spec that requires nothing are the same answer: never  *)
(* complete.  `exempt` is the current task's expectFailing; the strict      *)
(* callers pass the empty set.                                              *)
EvidenceComplete(items, exempt) ==
    /\ Ids # {}
    /\ \A c \in Commands : CommandSatisfied(items, exempt, c)
    /\ \A k \in Checks : items[k] = "pass"
=============================================================================
