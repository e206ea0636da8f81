--------------------------- MODULE MCSessionViews ---------------------------
EXTENDS SessionViews, TLC

MCOffers == [m \in Models |-> IF m \in Builtin THEN {"high", "low"} ELSE {"low"}]
Alike == Permutations(Calls) \cup Permutations(Jobs)
=============================================================================
