---------------------------- MODULE AuctionHouse ----------------------------
(***************************************************************************)
(* What the auction house promises: each command is one step that changes  *)
(* the money, the bids, the auction and the piece together.  A bid takes   *)
(* the bidder's money and gives the beaten bidder theirs; a sale gives the *)
(* seller the price less the fee and the winner the piece.                 *)
(*                                                                         *)
(* It promises nothing about which bid is accepted or whether an auction   *)
(* with a bid is sold: see HighestBidWins of Auctions.                     *)
(***************************************************************************)
EXTENDS Integers

CONSTANTS Player, Auction, Seller, PieceOf, Offer, NoOffer, Account, Reserve, FeeBPS

VARIABLES balance, status, high, bid, owner, holding

vars == <<balance, status, high, bid, owner, holding>>

Moved(from, to, amount, b) ==
    [b EXCEPT ![from] = @ - amount, ![to] = @ + amount]

Escrow(p) == <<"escrow", p>>
Purse(o) == <<o.purse, o.bidder>>

\* The fee is rounded up.
Fee(price) == CHOOSE fee \in 0..price :
    fee * 10000 >= price * FeeBPS /\ (fee - 1) * 10000 < price * FeeBPS

Init ==
    /\ balance \in [Account -> Nat]
    /\ status = [a \in Auction |-> "none"]
    /\ high = [a \in Auction |-> NoOffer]
    /\ bid = [o \in Offer |-> "none"]
    /\ owner \in [{PieceOf[a] : a \in Auction} -> Player]
    /\ holding = [x \in DOMAIN owner |-> "carried"]

Open(a) ==
    /\ status[a] = "none"
    /\ owner[PieceOf[a]] = Seller[a] /\ holding[PieceOf[a]] = "carried"
    /\ status' = [status EXCEPT ![a] = "open"]
    /\ holding' = [holding EXCEPT ![PieceOf[a]] = "escrow"]
    /\ UNCHANGED <<balance, high, bid, owner>>

Bid(o) ==
    LET beaten == high[o.auction]
        paid == Moved(Purse(o), Escrow(o.bidder), o.amount, balance) IN
    /\ status[o.auction] = "open" /\ bid[o] = "none"
    /\ o.bidder # Seller[o.auction] /\ o.amount >= Reserve
    /\ balance[Purse(o)] >= o.amount
    /\ high' = [high EXCEPT ![o.auction] = o]
    /\ \/ /\ beaten = NoOffer
          /\ balance' = paid
          /\ bid' = [bid EXCEPT ![o] = "standing"]
       \/ /\ beaten # NoOffer
          /\ balance' = Moved(Escrow(beaten.bidder), Purse(beaten), beaten.amount, paid)
          /\ bid' = [bid EXCEPT ![o] = "standing", ![beaten] = "outbid"]
    /\ UNCHANGED <<status, owner, holding>>

Sell(a) ==
    LET o == high[a]
        fee == Fee(o.amount)
        sold == Moved(Escrow(o.bidder), <<"bank", Seller[a]>>, o.amount - fee, balance) IN
    /\ status[a] = "open" /\ o # NoOffer
    /\ status' = [status EXCEPT ![a] = "sold"]
    /\ bid' = [bid EXCEPT ![o] = "won"]
    /\ balance' = Moved(Escrow(o.bidder), <<"sink", "system">>, fee, sold)
    /\ owner' = [owner EXCEPT ![PieceOf[a]] = o.bidder]
    /\ holding' = [holding EXCEPT ![PieceOf[a]] = "carried"]
    /\ UNCHANGED high

Return(a) ==
    /\ status[a] = "open"
    /\ status' = [status EXCEPT ![a] = "unsold"]
    /\ holding' = [holding EXCEPT ![PieceOf[a]] = "carried"]
    /\ UNCHANGED <<balance, high, bid, owner>>

Next ==
    \/ \E a \in Auction : Open(a) \/ Sell(a) \/ Return(a)
    \/ \E o \in Offer : Bid(o)

Spec == Init /\ [][Next]_vars
=============================================================================
