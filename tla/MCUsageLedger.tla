--------------------------- MODULE MCUsageLedger ---------------------------
(* A turn that names a model for part of its tokens, and one that names none. *)
EXTENDS UsageLedger

MCUsage == <<[tokens |-> 3, by |-> [model \in Models |-> 2]], [tokens |-> 1, by |-> <<>>]>>
=============================================================================
