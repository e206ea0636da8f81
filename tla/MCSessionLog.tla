---------------------------- MODULE MCSessionLog ----------------------------
(* Two calls of one family with different arguments. *)
EXTENDS SessionLog, TLC

CONSTANTS a, b

MCShapes == {[name |-> a, family |-> "read"], [name |-> b, family |-> "read"]}
MCTexts == UNION {[1..n -> {a, b}] : n \in 0..3}
Names == Permutations({a, b})
=============================================================================
