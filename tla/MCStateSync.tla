----------------------------- MODULE MCStateSync -----------------------------
EXTENDS StateSync

\* Two entities; one of them is a settlement's summary.
Ranks == [k \in Key |-> IF k \in SettlementKey THEN 2 ELSE 1]

\* A change is announced by its event, by its settlement's, or only by the
\* answer to its command.
AllWays == {{"evt"}, {"fan"}, {"cmd"}}
=============================================================================
