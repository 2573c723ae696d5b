------------------------- MODULE MCDurableSchedule -------------------------
EXTENDS DurableSchedule, TLC

CONSTANTS a1, a2, r1, r2, w1, w2

\* The second replica's clock runs one unit ahead.
TwoSkews == (r1 :> 0) @@ (r2 :> 1)
=============================================================================
