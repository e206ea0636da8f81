---------------------------- MODULE MCHubUplink ----------------------------
(***************************************************************************)
(* Bounds for model-checking HubUplink: one run trades events, changes of  *)
(* the browser count, sessions and hub runs against each other.            *)
(***************************************************************************)
EXTENDS HubUplink

CONSTANT MaxWork   \* events, count changes, sessions and hub runs together

Bounded == busSeq + gen + sess + hubRun <= MaxWork
=============================================================================
