----------------------------- MODULE MCAuctions -----------------------------
(***************************************************************************)
(* Instances of Auctions.                                                  *)
(***************************************************************************)
EXTENDS Auctions, Sequences

CONSTANTS
    ann, ben, cat   \* players

MCSeller == [a \in Auction |-> IF a = "a2" THEN cat ELSE ann]
MCPieceOf == [a \in Auction |-> CASE a = "a1" -> "sword" [] a = "a2" -> "ring" [] a = "a3" -> "bow"]

Of(b, a, p, n) == [bidder |-> b, auction |-> a, purse |-> p, amount |-> n]

\* Ben bids on ann's auction, ben and ann on cat's.
MCOffer ==
    {Of(ben, "a1", "cash", 2), Of(ben, "a2", "cash", 1), Of(ann, "a2", "bank", 2),
     Of(ben, "a2", "cash", 3)}

\* One auction, and a third bid between the other two.
BestOffer ==
    {Of(ben, "a1", "cash", 2), Of(cat, "a1", "bank", 1)}

MCAccount == ({"cash", "bank", "escrow"} \X Player) \cup {Sink}
MCMayOwe == {Sink}
MCStart == [l \in Account |-> IF l \in {<<"bank", cat>>, <<"bank", ann>>} THEN 2 ELSE IF l = <<"cash", ben>> THEN 3 ELSE 0]
MCLock == Account \cup {Row(a) : a \in Auction} \cup {Goods(p) : p \in Player}

PlaceOf(p) == IF p = ann THEN 0 ELSE IF p = ben THEN 1 ELSE 2
KindOf(k) == CASE k = "cash" -> 0 [] k = "escrow" -> 1 [] k = "bank" -> 2 [] k = "items" -> 3
                [] k = "auction" -> 4 [] k = "sink" -> 5
MCIdOf ==
    [l \in Lock |->
        IF l[1] = "auction" THEN IF l[2] = "a1" THEN 30 ELSE IF l[2] = "a2" THEN 31 ELSE 32
        ELSE IF l = Sink THEN 40
        ELSE 8 * KindOf(l[1]) + PlaceOf(l[2])]
=============================================================================
