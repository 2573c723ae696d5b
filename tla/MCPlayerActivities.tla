------------------------- MODULE MCPlayerActivities -------------------------
EXTENDS PlayerActivities, TLC
\* The transactions are interchangeable.
TxnSymmetry == Permutations(Txns)
=============================================================================
