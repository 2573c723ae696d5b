-------------------------- MODULE Auctions_proofs --------------------------
(***************************************************************************)
(* Proofs about Auctions: types, bids, pieces, the limit, the books, the   *)
(* order of locks, that the auction house implements AuctionHouse, and     *)
(* what it takes for the highest bid to win.                               *)
(*                                                                         *)
(* The argument is about locks.  A transaction that works on an auction    *)
(* holds its row, one that has moved an account's money holds the account, *)
(* one that is about to open holds the seller's goods; so nobody changes   *)
(* what it goes by before it commits.                                      *)
(***************************************************************************)
EXTENDS Auctions, FiniteSums

\* What a transaction has posted, as its stage tells.
PayLegs(o) == Legs(AccountOf(o.purse, o.bidder), AccountOf("escrow", o.bidder), o.amount)
RefundLegs(o) == Legs(AccountOf("escrow", o.bidder), AccountOf(o.purse, o.bidder), o.amount)
SaleLegs(o) ==
    Legs(AccountOf("escrow", o.bidder), AccountOf("bank", Seller[o.auction]), o.amount - Fee(o.amount))
FeeLegs(o) == Legs(AccountOf("escrow", o.bidder), Sink, Fee(o.amount))

Posted(t) ==
    LET c == task[t] IN
    CASE stage[t] = "refund" -> PayLegs(c.offer)
      [] stage[t] = "fee"    -> SaleLegs(saw[t])
      [] stage[t] = "commit" /\ c.kind = "close" -> Sum(SaleLegs(saw[t]), FeeLegs(saw[t]))
      [] stage[t] = "commit" /\ c.kind = "bid" ->
           IF high[c.auction] = NoOffer THEN PayLegs(c.offer)
           ELSE Sum(PayLegs(c.offer), RefundLegs(high[c.auction]))
      [] OTHER -> Nothing

\* The types, but for what an account may not owe.
Shape ==
    /\ balance \in [Account -> Int]
    /\ moved \in [Txns -> [Account -> Int]]
    /\ holder \in [Lock -> Txns \cup {NoTxn}]
    /\ status \in [Auction -> {"none", "open", "sold", "unsold"}]
    /\ high \in [Auction -> Offer \cup {NoOffer}]
    /\ bid \in [Offer -> {"none", "standing", "outbid", "won"}]
    /\ owner \in [Piece -> Player]
    /\ holding \in [Piece -> {"carried", "escrow"}]
    /\ keys \in SUBSET Command
    /\ task \in [Txns -> Command \cup {NoTask}]
    /\ stage \in [Txns -> Stage]
    /\ saw \in [Txns -> Offer \cup {NoOffer}]
    /\ ended \in SUBSET Auction
    /\ faults \in 0..MaxFaults

StagesOf(kind) ==
    CASE kind = "new" -> {"owners", "commit"}
      [] kind = "bid" -> {"reading", "locking", "wallet", "pay", "refund", "commit"}
      [] kind = "close" -> {"reading", "locking", "owners", "sale", "fee", "commit"}

(* What holds of a transaction.                                            *)

Working(t, kind) == task[t] # NoTask /\ task[t].kind = kind

StageFits(t) ==
    /\ task[t] = NoTask <=> stage[t] = "idle"
    /\ task[t] # NoTask => stage[t] \in StagesOf(task[t].kind)
    /\ stage[t] = "idle" => saw[t] = NoOffer

\* A command that is under way is not done, and its auction not closed.
TaskFits(t) ==
    /\ task[t] \notin keys
    /\ Working(t, "close") => status[task[t].auction] = "open"

\* Past the read it holds the row, and goes by what is in it.
AtRow(t) == task[t] # NoTask /\ task[t].kind # "new" /\ stage[t] \notin {"reading", "locking"}
RowFits(t) ==
    AtRow(t) =>
        /\ holder[Row(task[t].auction)] = t
        /\ status[task[t].auction] = "open"
        /\ saw[t] \in {NoOffer, high[task[t].auction]}

\* What a command has found out still holds.
BidFits(t) ==
    AtRow(t) /\ Working(t, "bid") =>
        /\ task[t].offer.bidder # Seller[task[t].auction]
        /\ task[t].offer.amount >= Reserve
        /\ stage[t] = "refund" => high[task[t].auction] # NoOffer
SaleFits(t) ==
    Working(t, "close") /\ stage[t] \in {"sale", "fee", "commit"} => saw[t] # NoOffer

\* It holds the accounts whose money it has moved, and they cover it.
MoneyFits(t) ==
    /\ moved[t] = Posted(t)
    /\ \A x \in Account :
         /\ moved[t][x] # 0 => holder[x] = t
         /\ x \notin MayOwe => balance[x] + moved[t][x] >= 0
PurseFits(t) ==
    Working(t, "bid") /\ stage[t] \in {"refund", "commit"} =>
        LET purse == AccountOf(task[t].offer.purse, task[t].offer.bidder) IN
        holder[purse] = t /\ balance[purse] >= task[t].offer.amount

Local(t) ==
    /\ StageFits(t) /\ TaskFits(t) /\ RowFits(t) /\ BidFits(t) /\ SaleFits(t)
    /\ MoneyFits(t) /\ PurseFits(t)

(* What holds of the house.                                                *)

\* Nobody runs the same command twice at once.
Apart == \A t, u \in Txns : task[t] # NoTask /\ task[t] = task[u] => t = u

KeysFit ==
    /\ \A o \in Offer : bid[o] # "none" => Bidding(o) \in keys
    /\ \A a \in Auction : status[a] # "none" => Opening(a) \in keys

HighFits ==
    \A a \in Auction :
        /\ high[a] # NoOffer =>
             high[a].auction = a /\ bid[high[a]] # "none" /\ high[a].amount >= Reserve
        /\ status[a] = "none" =>
             high[a] = NoOffer /\ \A o \in Offer : o.auction = a => bid[o] = "none"

Covers == \A x \in Account \ MayOwe : balance[x] >= 0

HouseInv ==
    Shape /\ (\A t \in Txns : Local(t)) /\ Apart /\ KeysFit /\ HighFits /\ Covers

----------------------------------------------------------------------------
(* The constants.                                                          *)

LEMMA CommandFacts ==
    ASSUME NEW c \in Command
    PROVE  /\ c.kind \in {"new", "bid", "close"} /\ c.auction \in Auction
           /\ c.kind = "new" => c = Opening(c.auction)
           /\ c.kind = "close" => c = Closing(c.auction)
           /\ c.kind = "bid" =>
                c.offer \in Offer /\ c = Bidding(c.offer) /\ c.auction = c.offer.auction
           /\ c # NoTask
BY AuctionConstants DEF Command, Opening, Closing, Bidding

LEMMA OfferFacts ==
    ASSUME NEW o \in Offer
    PROVE  /\ o.bidder \in Player /\ o.auction \in Auction /\ o.purse \in Purse
           /\ o.amount \in Nat /\ o.amount > 0
           /\ o # NoOffer /\ Bidding(o) \in Command
           /\ Seller[o.auction] \in Player
BY AuctionConstants DEF Command

LEMMA AuctionFacts ==
    ASSUME NEW a \in Auction
    PROVE  /\ Seller[a] \in Player /\ PieceOf[a] \in Piece /\ Row(a) \in Lock
           /\ Goods(Seller[a]) \in Lock
           /\ Opening(a) \in Command /\ Closing(a) \in Command
BY AuctionConstants DEF Command, Piece

LEMMA AccountFacts ==
    ASSUME NEW p \in Player, NEW k \in Purse
    PROVE  /\ AccountOf(k, p) \in Account /\ AccountOf("escrow", p) \in Account /\ Sink \in Account
           /\ AccountOf("bank", p) \in Account
           /\ AccountOf(k, p) \notin MayOwe
           /\ \A q \in Player : AccountOf(k, p) # AccountOf("escrow", q)
           /\ AccountOf("escrow", p) # Sink
BY AuctionConstants DEF AccountOf, Sink, Purse

LEMMA NumberFacts ==
    /\ Reserve \in Nat /\ MinStep \in Nat /\ MaxOpen \in Nat /\ MaxFaults \in Nat
    /\ StepBPS \in Nat /\ FeeBPS \in Nat /\ FeeBPS <= 10000
<1>1. {Reserve, MinStep, MaxOpen} \subseteq Nat \ {0} /\ {StepBPS, FeeBPS} \subseteq 0..BPS
      /\ MaxFaults \in Nat
  BY AuctionConstants
<1>2. Reserve \in Nat \ {0} /\ MinStep \in Nat \ {0} /\ MaxOpen \in Nat \ {0}
  BY <1>1
<1>3. StepBPS \in 0..10000 /\ FeeBPS \in 0..10000
  BY <1>1 DEF BPS
<1> QED BY <1>1, <1>2, <1>3

LEMMA LegsType ==
    ASSUME NEW x, NEW y, NEW n \in Int
    PROVE  Legs(x, y, n) \in [Account -> Int]
BY DEF Legs

LEMMA SumType ==
    ASSUME NEW f \in [Account -> Int], NEW g \in [Account -> Int]
    PROVE  /\ Sum(f, g) \in [Account -> Int]
           /\ \A x \in Account : Sum(f, g)[x] = f[x] + g[x]
BY DEF Sum

\* The fee is rounded up, and no more than the price.
LEMMA FeeRoundsUp ==
    ASSUME NEW price \in Nat
    PROVE  /\ Fee(price) \in 0..price
           /\ Fee(price) * 10000 >= price * FeeBPS
           /\ (Fee(price) - 1) * 10000 < price * FeeBPS
<1> DEFINE k == price * FeeBPS
<1>0. FeeBPS \in Nat /\ FeeBPS <= 10000
  BY NumberFacts
<1>1. k \in Nat /\ k <= price * 10000
  BY <1>0
<1> HIDE DEF k
<1> DEFINE q == (k + 10000 - 1) \div 10000
<1>2. q \in Nat /\ q * 10000 >= k /\ (q - 1) * 10000 < k
  BY <1>1
<1>3. q <= price
  BY <1>1, <1>2
<1>4. Fee(price) = q
  BY <1>2, <1>3 DEF Fee, Smaller, BPS, k
<1> QED BY <1>1, <1>2, <1>3, <1>4 DEF k

LEMMA StepOverIsNatural ==
    ASSUME NEW n \in Nat
    PROVE  StepOver(n) \in Int /\ StepOver(n) >= 0
<1> DEFINE k == n * StepBPS
<1>1. MinStep \in Nat /\ StepBPS \in Nat
  BY NumberFacts
<1>2. k \in Nat
  BY <1>1
<1> HIDE DEF k
<1>3. (k + 10000 - 1) \div 10000 \in Int
  BY <1>2
<1>4. StepOver(n) = Larger((k + 10000 - 1) \div 10000, MinStep)
  BY DEF StepOver, BPS, k
<1> QED BY <1>1, <1>3, <1>4 DEF Larger

----------------------------------------------------------------------------
(* What a step leaves alone.                                               *)

\* The other transactions and their locks.
Others(t) ==
    \A u \in Txns \ {t} :
        /\ task'[u] = task[u] /\ stage'[u] = stage[u] /\ saw'[u] = saw[u] /\ moved'[u] = moved[u]
        /\ \A l \in Lock : holder'[l] = u <=> holder[l] = u

\* The outcomes of the steps that have two.
BidLocks(t) ==
    LET c == task[t] IN
    /\ stage[t] = "locking" /\ c.kind = "bid"
    /\ status[c.auction] = "open" /\ Beats(c.offer, Joined(t))
    /\ Take(t, Row(c.auction))
    /\ saw' = [saw EXCEPT ![t] = Joined(t)]
    /\ Goto(t, "wallet")
    /\ UNCHANGED <<houseVars, task, ended, faults>>
Affords(t) ==
    /\ stage[t] = "wallet" /\ Goto(t, "pay")
    /\ UNCHANGED <<ledgerVars, houseVars, task, saw, ended, faults>>
Asked(t) ==
    /\ stage[t] = "owners" /\ task[t].kind = "new"
    /\ Ready(t, Needs(t)) /\ MayOpen(task[t].auction)
    /\ Goto(t, "commit")
    /\ UNCHANGED <<ledgerVars, houseVars, task, saw, ended, faults>>
Opens(t) ==
    LET a == task[t].auction IN
    /\ stage[t] = "commit" /\ task[t].kind = "new" /\ Held(a, "carried")
    /\ status' = [status EXCEPT ![a] = "open"]
    /\ holding' = [holding EXCEPT ![PieceOf[a]] = "escrow"]
    /\ Commit(t)
    /\ UNCHANGED <<high, bid, owner, ended, faults>>
Quits(t) == Rollback(t) /\ UNCHANGED ended /\ faults' \in {faults, faults + 1} /\ faults' <= MaxFaults

Advances(t) ==
    \/ ReadAuction(t) \/ BidLocks(t) \/ LockClose(t) \/ Acquire(t)
    \/ Affords(t) \/ PostLegs(t) \/ Asked(t) \/ Sell(t)
Commits(t) == PlaceBid(t) \/ Opens(t) \/ Return(t) \/ HandOver(t)

\* Every step of a transaction has one of these outcomes.
LEMMA Outcomes ==
    ASSUME Shape, NEW t \in Txns,
           Steps(t) \/ EndDeadlock(t) \/ Fail(t) \/ \E c \in Command : Begin(t, c)
    PROVE  Advances(t) \/ Commits(t) \/ Quits(t) \/ \E c \in Command : Begin(t, c)
<1>0. faults \in Int /\ faults <= MaxFaults /\ MaxFaults \in Nat
  BY AuctionConstants DEF Shape
<1>1. CASE LockBid(t)
  BY <1>0, <1>1 DEF LockBid, Advances, BidLocks, Quits
<1>2. CASE OpenWallet(t)
  BY <1>0, <1>2 DEF OpenWallet, Advances, Affords, Quits
<1>3. CASE Declined(t)
  BY <1>0, <1>3 DEF Declined, Quits
<1>4. CASE AskToOpen(t)
  BY <1>0, <1>4 DEF AskToOpen, Advances, Asked, Quits
<1>5. CASE Open(t)
  BY <1>0, <1>5 DEF Open, Commits, Opens, Quits
<1>6. CASE EndDeadlock(t)
  BY <1>0, <1>6 DEF EndDeadlock, Quits
<1>7. CASE Fail(t)
  BY <1>0, <1>7 DEF Fail, Fault, Quits
<1> QED BY <1>1, <1>2, <1>3, <1>4, <1>5, <1>6, <1>7 DEF Steps, Advances, Commits

\* A lock that is taken was free, and a transaction lets go of its own only.
LEMMA TakeFacts ==
    ASSUME Shape, NEW t \in Txns, NEW l, holder[l] = NoTxn, holder' = [holder EXCEPT ![l] = t]
    PROVE  /\ holder' \in [Lock -> Txns \cup {NoTxn}]
           /\ \A k \in Lock : holder[k] = t => holder'[k] = t
           /\ l \in Lock => holder'[l] = t
           /\ \A u \in Txns \ {t}, k \in Lock : holder'[k] = u <=> holder[k] = u
BY LedgerConstants DEF Shape

LEMMA ReleaseFacts ==
    ASSUME Shape, NEW t \in Txns, holder' = Released(t)
    PROVE  /\ holder' \in [Lock -> Txns \cup {NoTxn}]
           /\ \A u \in Txns \ {t}, k \in Lock : holder'[k] = u <=> holder[k] = u
BY LedgerConstants DEF Shape, Released

\* What another transaction goes by is kept.
Undisturbed(u) ==
    /\ task[u] \notin keys'
    /\ Working(u, "close") => status'[task[u].auction] = "open"
    /\ AtRow(u) => /\ status'[task[u].auction] = status[task[u].auction]
                   /\ high'[task[u].auction] = high[task[u].auction]
    /\ \A x \in Account : holder[x] = u => balance'[x] = balance[x]

LEMMA OthersKept ==
    ASSUME HouseInv, Shape', Covers', NEW t \in Txns, Others(t), NEW u \in Txns \ {t}, Undisturbed(u)
    PROVE  Local(u)'
<1> USE DEF HouseInv
<1>0. Local(u) /\ u \in Txns
  OBVIOUS
<1>1. /\ task'[u] = task[u] /\ stage'[u] = stage[u] /\ saw'[u] = saw[u] /\ moved'[u] = moved[u]
      /\ \A l \in Lock : holder'[l] = u <=> holder[l] = u
  BY DEF Others
<1>2. ASSUME task[u] # NoTask
      PROVE  /\ task[u] \in Command /\ Row(task[u].auction) \in Lock
             /\ Working(u, "bid") => AccountOf(task[u].offer.purse, task[u].offer.bidder) \in Account
  <2>1. task[u] \in Command
    BY <1>2 DEF Shape
  <2> QED BY <2>1, CommandFacts, AuctionFacts, OfferFacts, AccountFacts DEF Working
<1>3. AtRow(u)' <=> AtRow(u)
  BY <1>1 DEF AtRow
<1>4. \A k : Working(u, k)' <=> Working(u, k)
  BY <1>1 DEF Working
<1>5. StageFits(u)'
  BY <1>0, <1>1 DEF Local, StageFits
<1>6. TaskFits(u)'
  BY <1>0, <1>1, <1>4 DEF TaskFits, Undisturbed
<1>7. RowFits(u)'
  BY <1>0, <1>1, <1>2, <1>3 DEF Local, RowFits, Undisturbed, AtRow
<1>8. BidFits(u)'
  BY <1>0, <1>1, <1>3, <1>4 DEF Local, BidFits, Undisturbed
<1>9. SaleFits(u)'
  BY <1>0, <1>1, <1>4 DEF Local, SaleFits
<1>10. MoneyFits(u)'
  <2>1. Posted(u)' = Posted(u)
    BY <1>0, <1>1 DEF Posted, Undisturbed, AtRow, Local, StageFits
  <2>2. ASSUME NEW x \in Account
        PROVE  /\ moved'[u][x] # 0 => holder'[x] = u
               /\ x \notin MayOwe => balance'[x] + moved'[u][x] >= 0
    <3>1. x \in Lock
      BY LedgerConstants
    <3>2. moved[u][x] \in Int /\ balance'[x] \in Int
      BY DEF Shape
    <3>3. moved[u][x] = 0 /\ x \notin MayOwe => balance'[x] + moved[u][x] >= 0
      BY <3>2 DEF Covers
    <3> QED BY <1>0, <1>1, <3>1, <3>3 DEF Local, MoneyFits, Undisturbed
  <2> QED BY <1>0, <1>1, <2>1, <2>2 DEF Local, MoneyFits
<1>11. PurseFits(u)'
  <2> SUFFICES ASSUME PurseFits(u), Working(u, "bid"), stage[u] \in {"refund", "commit"}
      PROVE  LET purse == AccountOf(task[u].offer.purse, task[u].offer.bidder) IN
             holder'[purse] = u /\ balance'[purse] >= task[u].offer.amount
    BY <1>0, <1>1, <1>4 DEF Local, PurseFits
  <2>1. AccountOf(task[u].offer.purse, task[u].offer.bidder) \in Account \cap Lock
    BY <1>2, LedgerConstants DEF Working
  <2> QED BY <1>1, <2>1 DEF PurseFits, Undisturbed
<1> QED BY <1>5, <1>6, <1>7, <1>8, <1>9, <1>10, <1>11 DEF Local

\* A transaction that has ended.
LEMMA EndedFits ==
    ASSUME HouseInv, Shape', Covers', NEW t \in Txns,
           task'[t] = NoTask, stage'[t] = "idle", saw'[t] = NoOffer, moved'[t] = Nothing
    PROVE  Local(t)'
<1>1. StageFits(t)' /\ RowFits(t)' /\ BidFits(t)' /\ SaleFits(t)' /\ PurseFits(t)'
  BY DEF StageFits, RowFits, BidFits, SaleFits, PurseFits, AtRow, Working
<1>2. TaskFits(t)'
  BY AuctionConstants DEF TaskFits, Working, Shape
<1>3. Posted(t)' = Nothing
  BY DEF Posted
<1>4. \A x \in Account : moved'[t][x] = 0
  BY DEF Nothing
<1>5. MoneyFits(t)'
  BY <1>3, <1>4 DEF MoneyFits, Covers, Shape
<1> QED BY <1>1, <1>2, <1>5 DEF Local

\* A step that changes nothing of the house.
HouseSame == UNCHANGED <<houseVars, balance>>
Alone(t) == \A u \in Txns \ {t} : task'[t] # NoTask => task'[t] # task[u]

LEMMA SameHouse ==
    ASSUME HouseInv, Shape', HouseSame, NEW t \in Txns, Others(t), Alone(t), Local(t)'
    PROVE  HouseInv'
<1> USE DEF HouseInv, HouseSame, houseVars
<1>1. KeysFit' /\ HighFits' /\ Covers'
  BY DEF KeysFit, HighFits, Covers
<1>2. Apart'
  BY DEF Apart, Alone, Others
<1>3. ASSUME NEW u \in Txns \ {t}
      PROVE  Local(u)'
  <2>1. Undisturbed(u)
    BY DEF Undisturbed, Local, TaskFits
  <2> QED BY <1>1, <2>1, OthersKept
<1> QED BY <1>1, <1>2, <1>3

----------------------------------------------------------------------------
(* The steps that leave the house as it is.                                *)

LEMMA TaskType ==
    ASSUME HouseInv, NEW t \in Txns, stage[t] # "idle"
    PROVE  /\ task[t] # NoTask /\ task[t] \in Command /\ task[t].auction \in Auction
           /\ Row(task[t].auction) \in Lock
           /\ task[t].kind \in {"new", "bid", "close"} /\ stage[t] \in StagesOf(task[t].kind)
           /\ stage[t] \in {"wallet", "pay", "refund"} => task[t].kind = "bid"
           /\ stage[t] \in {"sale", "fee"} => task[t].kind = "close"
<1>1. task[t] # NoTask /\ task[t] \in Command /\ stage[t] \in StagesOf(task[t].kind)
  BY DEF HouseInv, Local, StageFits, Shape
<1>2. task[t].kind \in {"new", "bid", "close"} /\ task[t].auction \in Auction
  BY <1>1, CommandFacts
<1>3. CASE task[t].kind = "new"
  BY <1>1, <1>2, <1>3, AuctionFacts DEF StagesOf
<1>4. CASE task[t].kind = "bid"
  BY <1>1, <1>2, <1>4, AuctionFacts DEF StagesOf
<1>5. CASE task[t].kind = "close"
  BY <1>1, <1>2, <1>5, AuctionFacts DEF StagesOf
<1> QED BY <1>2, <1>3, <1>4, <1>5

LEMMA QuitsKeeps ==
    ASSUME HouseInv, NEW t \in Txns, Quits(t)
    PROVE  HouseInv'
<1> USE DEF HouseInv, Quits, Rollback, DropMoves, Leave, Goto, houseVars
<1>1. Shape'
  <2>1. holder' \in [Lock -> Txns \cup {NoTxn}]
    BY ReleaseFacts
  <2>2. Nothing \in [Account -> Int]
    BY DEF Nothing
  <2>3. faults' \in 0..MaxFaults
    BY AuctionConstants DEF Shape
  <2> QED BY <2>1, <2>2, <2>3 DEF Shape, Stage
<1>2. Others(t)
  BY ReleaseFacts DEF Others, Shape
<1>3. Alone(t) /\ HouseSame
  BY DEF Alone, HouseSame, Shape
<1>4. Covers'
  BY DEF Covers
<1>5. Local(t)'
  BY <1>1, <1>4, EndedFits DEF Shape
<1> QED BY <1>1, <1>2, <1>3, <1>5, SameHouse

LEMMA BeginKeeps ==
    ASSUME HouseInv, NEW t \in Txns, NEW c \in Command, Begin(t, c)
    PROVE  HouseInv'
<1> USE DEF HouseInv, Begin, Goto, houseVars, ledgerVars
<1>0. /\ task'[t] = c /\ saw'[t] = NoOffer /\ moved'[t] = moved[t]
      /\ stage'[t] = IF c.kind = "new" THEN "owners" ELSE "reading"
      /\ stage[t] = "idle" /\ task[t] = NoTask
  BY DEF Shape, Local, StageFits
<1>1. Shape'
  BY DEF Shape, Stage
<1>2. Others(t)
  BY DEF Others, Shape
<1>3. Alone(t) /\ HouseSame
  BY <1>0 DEF Alone, HouseSame
<1>4. c.kind \in {"new", "bid", "close"} /\ c # NoTask
  BY CommandFacts
<1>5. StageFits(t)' /\ RowFits(t)' /\ BidFits(t)' /\ SaleFits(t)' /\ PurseFits(t)'
  BY <1>0, <1>4 DEF StageFits, StagesOf, RowFits, BidFits, SaleFits, PurseFits, AtRow, Working
<1>6. TaskFits(t)'
  <2>1. c.kind = "close" => status[c.auction] = "open"
    BY DEF Worthwhile
  <2> QED BY <1>0, <2>1 DEF TaskFits, Working
<1>7. Posted(t)' = Posted(t)
  BY <1>0 DEF Posted
<1>8. MoneyFits(t)'
  BY <1>0, <1>7 DEF MoneyFits, Local
<1>9. Local(t)'
  BY <1>5, <1>6, <1>8 DEF Local
<1> QED BY <1>1, <1>2, <1>3, <1>9, SameHouse

LEMMA ReadAuctionKeeps ==
    ASSUME HouseInv, NEW t \in Txns, ReadAuction(t)
    PROVE  HouseInv'
<1> USE DEF HouseInv, ReadAuction, Goto, houseVars, ledgerVars
<1>0. /\ task'[t] = task[t] /\ moved'[t] = moved[t]
      /\ stage'[t] = "locking" /\ stage[t] = "reading"
      /\ task[t] # NoTask /\ task[t] \in Command /\ task[t].auction \in Auction
  BY TaskType DEF Shape
<1>1. Shape'
  BY <1>0 DEF Shape, Stage
<1>2. Others(t)
  BY DEF Others, Shape
<1>3. Alone(t) /\ HouseSame
  BY <1>0 DEF Alone, HouseSame, Apart
<1>4. task[t].kind \in {"bid", "close"}
  BY <1>0, CommandFacts DEF Local, StageFits, StagesOf
<1>5. StageFits(t)' /\ RowFits(t)' /\ BidFits(t)' /\ SaleFits(t)' /\ PurseFits(t)'
  BY <1>0, <1>4 DEF StageFits, StagesOf, RowFits, BidFits, SaleFits, PurseFits, AtRow, Working
<1>6. TaskFits(t)'
  BY <1>0 DEF TaskFits, Working, Local
<1>7. Posted(t)' = Posted(t)
  BY <1>0 DEF Posted
<1>8. MoneyFits(t)'
  BY <1>0, <1>7 DEF MoneyFits, Local
<1>9. Local(t)'
  BY <1>5, <1>6, <1>8 DEF Local
<1> QED BY <1>1, <1>2, <1>3, <1>9, SameHouse

\* A transaction that goes on with its command.
LEMMA GoesOn ==
    ASSUME HouseInv, Shape', HouseSame, NEW t \in Txns, Others(t),
           stage[t] # "idle", task' = task, saw'[t] \in Offer \cup {NoOffer},
           stage'[t] \in StagesOf(task[t].kind), stage'[t] # "idle",
           RowFits(t)', BidFits(t)', SaleFits(t)', MoneyFits(t)', PurseFits(t)'
    PROVE  HouseInv'
<1> USE DEF HouseInv, HouseSame, houseVars
<1>1. Alone(t)
  BY DEF Alone, Apart
<1>2. StageFits(t)' /\ TaskFits(t)'
  BY TaskType DEF StageFits, TaskFits, Working, Local
<1>3. Local(t)'
  BY <1>2 DEF Local
<1> QED BY <1>1, <1>3, SameHouse

\* It has the row, and finds the standing bid or none.
LEMMA LockBidKeeps ==
    ASSUME HouseInv, NEW t \in Txns, BidLocks(t)
    PROVE  HouseInv'
<1> DEFINE a == task[t].auction  o == task[t].offer
<1> USE DEF HouseInv, BidLocks, Goto, houseVars
<1>0. /\ task'[t] = task[t] /\ moved'[t] = moved[t] /\ saw'[t] = Joined(t)
      /\ stage'[t] = "wallet" /\ stage[t] = "locking"
      /\ task[t] # NoTask /\ task[t] \in Command /\ a \in Auction /\ Row(a) \in Lock
      /\ balance' = balance /\ moved' = moved /\ status' = status /\ high' = high
  BY TaskType DEF Shape, Take
<1>1. Joined(t) \in {NoOffer, high[a]} /\ high[a] \in Offer \cup {NoOffer}
  BY <1>0 DEF Joined, Shape
<1>2. /\ holder' \in [Lock -> Txns \cup {NoTxn}]
      /\ holder'[Row(a)] = t
      /\ \A k \in Lock : holder[k] = t => holder'[k] = t
      /\ \A u \in Txns \ {t}, k \in Lock : holder'[k] = u <=> holder[k] = u
  BY <1>0, TakeFacts DEF Take
<1>3. Shape'
  BY <1>0, <1>1, <1>2 DEF Shape, Stage
<1>4. Others(t) /\ HouseSame
  BY <1>0, <1>2 DEF Others, Shape, HouseSame
<1>5. o \in Offer /\ o.amount \in Nat
  BY <1>0, CommandFacts, OfferFacts
<1>6. o.bidder # Seller[a] /\ o.amount >= Reserve
  <2>1. o.auction = a
    BY <1>0, CommandFacts
  <2>2. CASE Joined(t) = NoOffer
    BY <2>1, <2>2 DEF Beats, MinNext
  <2>3. CASE Joined(t) # NoOffer
    <3>1. Joined(t) = high[a] /\ high[a] \in Offer /\ high[a] # NoOffer
      BY <1>1, <2>3
    <3>2. high[a].amount \in Nat /\ high[a].amount >= Reserve
      BY <1>0, <3>1, <2>3, OfferFacts DEF HighFits
    <3>3. StepOver(high[a].amount) \in Int /\ StepOver(high[a].amount) >= 0
      BY <3>2, StepOverIsNatural
    <3>4. Reserve \in Nat
      BY NumberFacts
    <3>5. o.amount >= high[a].amount + StepOver(high[a].amount) /\ o.bidder # Seller[a]
      <4>1. Beats(o, Joined(t))
        OBVIOUS
      <4>2. o.amount >= MinNext(Joined(t)) /\ o.bidder # Seller[a]
        BY <2>1, <4>1 DEF Beats
      <4> QED BY <2>3, <3>1, <4>2 DEF MinNext
    <3> QED BY <1>5, <3>2, <3>3, <3>4, <3>5
  <2> QED BY <2>2, <2>3
<1>7. RowFits(t)' /\ BidFits(t)' /\ SaleFits(t)' /\ PurseFits(t)'
  BY <1>0, <1>1, <1>2, <1>6 DEF RowFits, BidFits, SaleFits, PurseFits, AtRow, Working
<1>8. MoneyFits(t)'
  <2>1. Posted(t)' = Posted(t)
    BY <1>0 DEF Posted
  <2> QED BY <1>0, <1>2, <2>1, LedgerConstants DEF MoneyFits, Local
<1>9. stage'[t] \in StagesOf(task[t].kind)
  BY <1>0 DEF StagesOf
<1> QED BY <1>0, <1>1, <1>3, <1>4, <1>7, <1>8, <1>9, GoesOn DEF Shape

LEMMA LockCloseKeeps ==
    ASSUME HouseInv, NEW t \in Txns, LockClose(t)
    PROVE  HouseInv'
<1> DEFINE a == task[t].auction
<1> USE DEF HouseInv, LockClose, Goto, houseVars
<1>0. /\ task'[t] = task[t] /\ moved'[t] = moved[t] /\ saw'[t] = Joined(t)
      /\ stage'[t] = "owners" /\ stage[t] = "locking"
      /\ task[t] # NoTask /\ task[t] \in Command /\ a \in Auction /\ Row(a) \in Lock
      /\ balance' = balance /\ moved' = moved /\ status' = status /\ high' = high
  BY TaskType DEF Shape, Take
<1>1. Joined(t) \in {NoOffer, high[a]} /\ high[a] \in Offer \cup {NoOffer}
  BY <1>0 DEF Joined, Shape
<1>2. /\ holder' \in [Lock -> Txns \cup {NoTxn}]
      /\ holder'[Row(a)] = t
      /\ \A k \in Lock : holder[k] = t => holder'[k] = t
      /\ \A u \in Txns \ {t}, k \in Lock : holder'[k] = u <=> holder[k] = u
  BY <1>0, TakeFacts DEF Take
<1>3. Shape'
  BY <1>0, <1>1, <1>2 DEF Shape, Stage
<1>4. Others(t) /\ HouseSame
  BY <1>0, <1>2 DEF Others, Shape, HouseSame
<1>5. status[a] = "open"
  BY <1>0 DEF Local, TaskFits, Working
<1>7. RowFits(t)' /\ BidFits(t)' /\ SaleFits(t)' /\ PurseFits(t)'
  BY <1>0, <1>1, <1>2, <1>5 DEF RowFits, BidFits, SaleFits, PurseFits, AtRow, Working
<1>8. MoneyFits(t)'
  <2>1. Posted(t)' = Posted(t)
    BY <1>0 DEF Posted
  <2> QED BY <1>0, <1>2, <2>1, LedgerConstants DEF MoneyFits, Local
<1>9. stage'[t] \in StagesOf(task[t].kind)
  BY <1>0 DEF StagesOf
<1> QED BY <1>0, <1>1, <1>3, <1>4, <1>7, <1>8, <1>9, GoesOn DEF Shape

LEMMA AcquireKeeps ==
    ASSUME HouseInv, NEW t \in Txns, Acquire(t)
    PROVE  HouseInv'
<1> DEFINE l == FirstOf(Missing(t, Needs(t)))
<1> USE DEF HouseInv, Acquire, TakeFirst, houseVars, txnVars
<1>0. /\ task' = task /\ stage' = stage /\ saw' = saw /\ moved' = moved
      /\ balance' = balance /\ status' = status /\ high' = high
  BY DEF Take
<1>1. stage[t] # "idle"
  <2>1. SUFFICES ASSUME stage[t] = "idle" PROVE FALSE
    OBVIOUS
  <2>2. Needs(t) = {}
    BY <2>1 DEF Needs, PostOf, Touched, Nothing
  <2> QED BY <2>2 DEF Ready, Missing
<1>2. /\ holder' \in [Lock -> Txns \cup {NoTxn}]
      /\ \A k \in Lock : holder[k] = t => holder'[k] = t
      /\ \A u \in Txns \ {t}, k \in Lock : holder'[k] = u <=> holder[k] = u
  BY TakeFacts DEF Take
<1>3. Shape'
  BY <1>0, <1>2 DEF Shape, Stage
<1>4. Others(t) /\ HouseSame
  BY <1>0, <1>2 DEF Others, HouseSame
<1>5. /\ task[t] # NoTask /\ task[t] \in Command /\ Row(task[t].auction) \in Lock
      /\ stage[t] \in StagesOf(task[t].kind)
  BY <1>1, TaskType DEF Local, StageFits
<1>6. RowFits(t)' /\ BidFits(t)' /\ SaleFits(t)'
  BY <1>0, <1>2, <1>5 DEF Local, RowFits, BidFits, SaleFits, AtRow, Working
<1>7. PurseFits(t)'
  <2>1. Working(t, "bid") => AccountOf(task[t].offer.purse, task[t].offer.bidder) \in Lock
    BY <1>5, CommandFacts, OfferFacts, AccountFacts, LedgerConstants DEF Working
  <2> QED BY <1>0, <1>2, <2>1 DEF Local, PurseFits, Working
<1>8. MoneyFits(t)'
  <2>1. Posted(t)' = Posted(t)
    BY <1>0 DEF Posted
  <2> QED BY <1>0, <1>2, <2>1, LedgerConstants DEF MoneyFits, Local
<1>9. saw'[t] \in Offer \cup {NoOffer}
  BY <1>0 DEF Shape
<1> QED BY <1>0, <1>1, <1>3, <1>4, <1>5, <1>6, <1>7, <1>8, <1>9, GoesOn

LEMMA AffordsKeeps ==
    ASSUME HouseInv, NEW t \in Txns, Affords(t)
    PROVE  HouseInv'
<1> USE DEF HouseInv, Affords, Goto, houseVars, ledgerVars
<1>0. /\ task' = task /\ stage'[t] = "pay" /\ stage[t] = "wallet" /\ saw' = saw /\ moved' = moved
      /\ balance' = balance /\ status' = status /\ high' = high /\ holder' = holder
      /\ stage'[t] \in StagesOf(task[t].kind) /\ task[t].kind = "bid" /\ task[t] # NoTask
  BY TaskType DEF Shape, StagesOf
<1>1. Shape'
  BY <1>0 DEF Shape, Stage
<1>2. Others(t) /\ HouseSame
  BY <1>0 DEF Others, HouseSame, Shape
<1>4. RowFits(t)' /\ BidFits(t)' /\ SaleFits(t)' /\ PurseFits(t)'
  BY <1>0 DEF Local, RowFits, BidFits, SaleFits, PurseFits, AtRow, Working
<1>5. MoneyFits(t)'
  <2>1. Posted(t)' = Posted(t)
    BY <1>0 DEF Posted
  <2> QED BY <1>0, <2>1 DEF MoneyFits, Local
<1>6. saw'[t] \in Offer \cup {NoOffer}
  BY <1>0 DEF Shape
<1> QED BY <1>0, <1>1, <1>2, <1>4, <1>5, <1>6, GoesOn

LEMMA AskedKeeps ==
    ASSUME HouseInv, NEW t \in Txns, Asked(t)
    PROVE  HouseInv'
<1> USE DEF HouseInv, Asked, Goto, houseVars, ledgerVars
<1>0. /\ task' = task /\ stage'[t] = "commit" /\ stage[t] = "owners" /\ saw' = saw /\ moved' = moved
      /\ balance' = balance /\ status' = status /\ high' = high /\ holder' = holder
      /\ stage'[t] \in StagesOf(task[t].kind) /\ task[t].kind = "new"
  BY DEF Shape, Local, StageFits, StagesOf
<1>1. Shape'
  BY <1>0 DEF Shape, Stage
<1>2. Others(t) /\ HouseSame
  BY <1>0 DEF Others, HouseSame, Shape
<1>3. RowFits(t)' /\ BidFits(t)' /\ SaleFits(t)' /\ PurseFits(t)'
  BY <1>0 DEF RowFits, BidFits, SaleFits, PurseFits, AtRow, Working
<1>4. MoneyFits(t)'
  <2>1. Posted(t)' = Posted(t)
    BY <1>0 DEF Posted
  <2> QED BY <1>0, <2>1 DEF MoneyFits, Local
<1>5. saw'[t] \in Offer \cup {NoOffer}
  BY <1>0 DEF Shape
<1> QED BY <1>0, <1>1, <1>2, <1>3, <1>4, <1>5, GoesOn

LEMMA SellKeeps ==
    ASSUME HouseInv, NEW t \in Txns, Sell(t)
    PROVE  HouseInv'
<1> USE DEF HouseInv, Sell, Goto, houseVars, ledgerVars
<1>0. /\ task' = task /\ stage'[t] = "sale" /\ stage[t] = "owners" /\ saw' = saw /\ moved' = moved
      /\ balance' = balance /\ status' = status /\ high' = high /\ holder' = holder
      /\ stage'[t] \in StagesOf(task[t].kind) /\ task[t].kind = "close" /\ task[t] # NoTask
  BY TaskType DEF Shape, Local, StageFits, StagesOf
<1>1. Shape'
  BY <1>0 DEF Shape, Stage
<1>2. Others(t) /\ HouseSame
  BY <1>0 DEF Others, HouseSame, Shape
<1>3. RowFits(t)' /\ BidFits(t)' /\ SaleFits(t)' /\ PurseFits(t)'
  BY <1>0 DEF Local, RowFits, BidFits, SaleFits, PurseFits, AtRow, Working
<1>4. MoneyFits(t)'
  <2>1. Posted(t)' = Posted(t)
    BY <1>0 DEF Posted
  <2> QED BY <1>0, <2>1 DEF MoneyFits, Local
<1>5. saw'[t] \in Offer \cup {NoOffer}
  BY <1>0 DEF Shape
<1> QED BY <1>0, <1>1, <1>2, <1>3, <1>4, <1>5, GoesOn

----------------------------------------------------------------------------
(* A post.                                                                 *)

LEMMA AddToNothing ==
    ASSUME NEW f \in [Account -> Int]
    PROVE  Sum(Nothing, f) = f
BY DEF Sum, Nothing

\* Its legs are on accounts, in whole amounts.
LEMMA PostedLegs ==
    ASSUME HouseInv, NEW t \in Txns, stage[t] \in {"pay", "refund", "sale", "fee"}
    PROVE  /\ PostOf(t) \in [Account -> Int] /\ moved[t] \in [Account -> Int]
           /\ /\ moved'[t] = Sum(moved[t], PostOf(t)) /\ stage'[t] = After(t)
              /\ task'[t] = task[t] /\ saw'[t] = saw[t] /\ high' = high
              => moved'[t] = Posted(t)'
<1> USE DEF HouseInv
<1>0. /\ task[t] # NoTask /\ task[t] \in Command /\ task[t].auction \in Auction
      /\ stage[t] \in {"pay", "refund"} => task[t].kind = "bid"
      /\ stage[t] \in {"sale", "fee"} => task[t].kind = "close"
      /\ moved[t] = Posted(t) /\ moved[t] \in [Account -> Int]
  BY TaskType DEF Local, MoneyFits, Shape
<1>1. CASE stage[t] = "pay"
  <2>1. task[t].kind = "bid" /\ task[t].offer \in Offer /\ task[t].offer.amount \in Int
    BY <1>0, <1>1, CommandFacts, OfferFacts
  <2>2. moved[t] = Nothing
    BY <1>0, <1>1 DEF Posted
  <2>3. PostOf(t) = PayLegs(task[t].offer) /\ PostOf(t) \in [Account -> Int]
    BY <1>1, <2>1, LegsType DEF PostOf, PayLegs
  <2>4. Sum(moved[t], PostOf(t)) = PayLegs(task[t].offer)
    BY <2>2, <2>3, AddToNothing
  <2>5. After(t) = IF high[task[t].auction] = NoOffer THEN "commit" ELSE "refund"
    BY <1>1 DEF After
  <2> QED BY <1>0, <2>1, <2>3, <2>4, <2>5 DEF Posted
<1>2. CASE stage[t] = "refund"
  <2>1. task[t].kind = "bid" /\ high[task[t].auction] \in Offer /\ high[task[t].auction].amount \in Int
        /\ high[task[t].auction] # NoOffer
    BY <1>0, <1>2, OfferFacts DEF Local, BidFits, AtRow, Working, Shape
  <2>2. moved[t] = PayLegs(task[t].offer)
    BY <1>0, <1>2 DEF Posted
  <2>3. PostOf(t) = RefundLegs(high[task[t].auction]) /\ PostOf(t) \in [Account -> Int]
    BY <1>2, <2>1, LegsType DEF PostOf, RefundLegs
  <2>5. After(t) = "commit"
    BY <1>2 DEF After
  <2> QED BY <1>0, <2>1, <2>2, <2>3, <2>5 DEF Posted
<1>3. ASSUME stage[t] \in {"sale", "fee"}
      PROVE  /\ task[t].kind = "close" /\ saw[t] \in Offer /\ saw[t].auction = task[t].auction
             /\ saw[t].amount \in Int /\ Fee(saw[t].amount) \in Int
  <2>1. task[t].kind = "close" /\ saw[t] # NoOffer /\ saw[t] = high[task[t].auction]
    BY <1>0, <1>3 DEF Local, SaleFits, RowFits, AtRow, Working
  <2>2. saw[t] \in Offer /\ saw[t].auction = task[t].auction
    BY <1>0, <2>1 DEF HighFits, Shape
  <2> QED BY <2>1, <2>2, OfferFacts, FeeRoundsUp
<1>4. CASE stage[t] = "sale"
  <2>2. moved[t] = Nothing
    BY <1>0, <1>4 DEF Posted
  <2>3. PostOf(t) = SaleLegs(saw[t]) /\ PostOf(t) \in [Account -> Int]
    BY <1>3, <1>4, LegsType DEF PostOf, SaleLegs
  <2>4. Sum(moved[t], PostOf(t)) = SaleLegs(saw[t])
    BY <2>2, <2>3, AddToNothing
  <2>5. After(t) = "fee"
    BY <1>4 DEF After
  <2> QED BY <1>0, <2>3, <2>4, <2>5 DEF Posted
<1>5. CASE stage[t] = "fee"
  <2>2. moved[t] = SaleLegs(saw[t])
    BY <1>0, <1>5 DEF Posted
  <2>3. PostOf(t) = FeeLegs(saw[t]) /\ PostOf(t) \in [Account -> Int]
    BY <1>3, <1>5, LegsType DEF PostOf, FeeLegs
  <2>5. After(t) = "commit"
    BY <1>5 DEF After
  <2> QED BY <1>0, <1>3, <1>5, <2>2, <2>3, <2>5 DEF Posted
<1> QED BY <1>1, <1>2, <1>4, <1>5

\* The accounts are its own, and cover what it takes.
LEMMA PostLegsKeeps ==
    ASSUME HouseInv, NEW t \in Txns, PostLegs(t)
    PROVE  HouseInv'
<1> USE DEF HouseInv, PostLegs, Post, Goto, houseVars
<1>0. /\ task' = task /\ stage'[t] = After(t) /\ saw' = saw /\ holder' = holder
      /\ balance' = balance /\ status' = status /\ high' = high
      /\ moved'[t] = Sum(moved[t], PostOf(t))
      /\ task[t] # NoTask /\ task[t] \in Command
      /\ \/ stage[t] \in {"pay", "refund"} /\ task[t].kind = "bid"
         \/ stage[t] \in {"sale", "fee"} /\ task[t].kind = "close"
  <2>1. stage[t] # "idle"
    OBVIOUS
  <2>2. /\ task[t] # NoTask /\ task[t] \in Command
        /\ stage[t] \in {"pay", "refund"} => task[t].kind = "bid"
        /\ stage[t] \in {"sale", "fee"} => task[t].kind = "close"
    BY <2>1, TaskType
  <2>3. /\ task' = task /\ stage'[t] = After(t) /\ saw' = saw /\ holder' = holder
        /\ balance' = balance /\ status' = status /\ high' = high
        /\ moved'[t] = Sum(moved[t], PostOf(t))
    BY DEF Shape
  <2> QED BY <2>2, <2>3
<1>1. /\ PostOf(t) \in [Account -> Int] /\ moved[t] \in [Account -> Int]
      /\ moved'[t] = Posted(t)' /\ moved'[t] \in [Account -> Int]
      /\ \A x \in Account : moved'[t][x] = moved[t][x] + PostOf(t)[x]
  BY <1>0, PostedLegs, SumType
<1>2. stage'[t] \in StagesOf(task[t].kind) /\ stage'[t] \in {"refund", "fee", "commit"}
  BY <1>0 DEF After, StagesOf
<1>3. Shape'
  BY <1>0, <1>1, <1>2 DEF Shape, Stage
<1>4. Others(t) /\ HouseSame
  BY <1>0 DEF Others, HouseSame, Shape
<1>5. RowFits(t)' /\ SaleFits(t)'
  BY <1>0, <1>2 DEF Local, RowFits, SaleFits, AtRow, Working
<1>6. BidFits(t)'
  <2>1. Working(t, "bid") /\ stage'[t] = "refund" => high[task[t].auction] # NoOffer
    BY <1>0 DEF After
  <2> QED BY <1>0, <1>2, <2>1 DEF Local, BidFits, AtRow, Working
<1>7. MoneyFits(t)'
  <2>1. ASSUME NEW x \in Account
        PROVE  /\ moved'[t][x] # 0 => holder'[x] = t
               /\ x \notin MayOwe => balance'[x] + moved'[t][x] >= 0
    <3>1. moved[t][x] \in Int /\ PostOf(t)[x] \in Int /\ balance[x] \in Int
      BY <1>1 DEF Shape
    <3>2. PostOf(t)[x] # 0 => holder[x] = t
      BY DEF Ready, Missing, Touched
    <3>3. PostOf(t)[x] # 0 /\ x \notin MayOwe => balance[x] + moved[t][x] + PostOf(t)[x] >= 0
      BY DEF Covered, Touched
    <3> QED BY <1>0, <1>1, <3>1, <3>2, <3>3 DEF Local, MoneyFits
  <2> QED BY <1>1, <2>1 DEF MoneyFits
<1>8. PurseFits(t)'
  <2> DEFINE o == task[t].offer  x == AccountOf(o.purse, o.bidder)
  <2>1. SUFFICES ASSUME task[t].kind = "bid" PROVE holder[x] = t /\ balance[x] >= o.amount
    BY <1>0 DEF PurseFits, Working
  <2>2. /\ o \in Offer /\ o.amount \in Nat /\ o.amount > 0
        /\ x \in Account /\ x \notin MayOwe /\ x # AccountOf("escrow", o.bidder)
    BY <1>0, <2>1, CommandFacts, OfferFacts, AccountFacts
  <2>3. CASE stage[t] = "refund"
    BY <1>0, <2>1, <2>3 DEF Local, PurseFits, Working
  <2>4. CASE stage[t] = "pay"
    <3>1. moved[t][x] = 0
      BY <2>2, <2>4 DEF Local, MoneyFits, Posted, Nothing
    <3>2. PostOf(t)[x] = -o.amount
      BY <2>1, <2>2, <2>4 DEF PostOf, Legs
    <3>3. holder[x] = t
      BY <2>2, <3>2 DEF Ready, Missing, Touched
    <3>4. balance[x] \in Int /\ balance[x] + moved[t][x] + PostOf(t)[x] >= 0
      BY <2>2, <3>2 DEF Covered, Touched, Shape
    <3> QED BY <2>2, <3>1, <3>2, <3>3, <3>4
  <2> QED BY <1>0, <2>1, <2>3, <2>4
<1>9. saw'[t] \in Offer \cup {NoOffer} /\ stage[t] # "idle" /\ stage'[t] # "idle"
  BY <1>0, <1>2 DEF Shape
<1> QED BY <1>0, <1>2, <1>3, <1>4, <1>5, <1>6, <1>7, <1>8, <1>9, GoesOn

LEMMA AdvanceKeeps ==
    ASSUME HouseInv, NEW t \in Txns, Advances(t)
    PROVE  HouseInv'
BY ReadAuctionKeeps, LockBidKeeps, LockCloseKeeps, AcquireKeeps, AffordsKeeps, PostLegsKeeps,
   AskedKeeps, SellKeeps DEF Advances

----------------------------------------------------------------------------
(* The steps that change the house.                                        *)

\* A commit lets the others be, if it writes to an auction whose row it has
\* or whose row nobody can have.
LEMMA CommitKeeps ==
    ASSUME HouseInv, NEW t \in Txns, stage[t] # "idle", Commit(t), UNCHANGED <<ended, faults>>,
           status' \in [Auction -> {"none", "open", "sold", "unsold"}],
           high' \in [Auction -> Offer \cup {NoOffer}],
           bid' \in [Offer -> {"none", "standing", "outbid", "won"}],
           owner' \in [Piece -> Player], holding' \in [Piece -> {"carried", "escrow"}],
           \A b \in Auction \ {task[t].auction} : status'[b] = status[b] /\ high'[b] = high[b],
           task[t].kind = "new" => status'[task[t].auction] = "open" /\ high' = high,
           task[t].kind # "new" => AtRow(t),
           task[t].kind = "bid" => status' = status,
           KeysFit', HighFits'
    PROVE  HouseInv'
<1> DEFINE a == task[t].auction
<1> USE DEF HouseInv, Commit, CommitMoves, Leave, Goto
<1>0. /\ task[t] # NoTask /\ task[t] \in Command /\ a \in Auction /\ Row(a) \in Lock
      /\ task[t].kind \in {"new", "bid", "close"}
  BY TaskType
<1>1. /\ balance' \in [Account -> Int]
      /\ \A x \in Account : balance'[x] = balance[x] + moved[t][x]
  <2>1. balance \in [Account -> Int] /\ moved[t] \in [Account -> Int]
    BY DEF Shape
  <2>2. balance' = Sum(balance, moved[t])
    OBVIOUS
  <2> QED BY <2>1, <2>2, SumType
<1>2. Shape'
  <2>1. holder' \in [Lock -> Txns \cup {NoTxn}]
    BY ReleaseFacts
  <2>2. Nothing \in [Account -> Int]
    BY DEF Nothing
  <2>3. keys' \in SUBSET Command
    BY <1>0 DEF Shape
  <2> QED BY <1>1, <2>1, <2>2, <2>3 DEF Shape, Stage
<1>3. Others(t)
  BY ReleaseFacts DEF Others, Shape
<1>4. Covers'
  BY <1>1 DEF Covers, Local, MoneyFits
<1>5. Apart'
  BY DEF Apart, Shape
<1>6. Local(t)'
  BY <1>2, <1>4, EndedFits DEF Shape
<1>7. ASSUME NEW u \in Txns \ {t}
      PROVE  Local(u)'
  <2>1. task[u] # NoTask => task[u] # task[t]
    BY <1>0 DEF Apart
  <2>2. NoTask \notin Command
    BY AuctionConstants
  <2>3. task[u] \notin keys'
    BY <1>0, <2>1, <2>2 DEF Local, TaskFits
  <2>4. ASSUME Working(u, "close")
        PROVE  status'[task[u].auction] = "open"
    <3>1. task[u] \in Command /\ task[u] = Closing(task[u].auction) /\ task[u].auction \in Auction
      BY <2>4, CommandFacts DEF Working, Shape
    <3>2. task[t].kind = "close" => task[t] = Closing(a)
      BY <1>0, CommandFacts
    <3>3. task[t].kind = "close" => task[u].auction # a
      BY <2>1, <2>4, <3>1, <3>2 DEF Working
    <3>4. status[task[u].auction] = "open"
      BY <2>4 DEF Local, TaskFits
    <3>5. CASE task[u].auction = a
      <4>1. task[t].kind = "new" \/ task[t].kind = "bid"
        BY <1>0, <3>3, <3>5
      <4> QED BY <3>4, <3>5, <4>1
    <3>6. CASE task[u].auction # a
      BY <3>1, <3>4, <3>6
    <3> QED BY <3>5, <3>6
  <2>5. ASSUME AtRow(u)
        PROVE  /\ status'[task[u].auction] = status[task[u].auction]
               /\ high'[task[u].auction] = high[task[u].auction]
    <3>1. task[u] \in Command /\ task[u].auction \in Auction
      BY <2>5, CommandFacts DEF AtRow, Shape
    <3>2. AtRow(t) => task[u].auction # a
      BY <2>5 DEF Local, RowFits
    <3>3. status[task[u].auction] = "open"
      BY <2>5 DEF Local, RowFits
    <3> QED BY <1>0, <3>1, <3>2, <3>3
  <2>6. ASSUME NEW x \in Account, holder[x] = u
        PROVE  balance'[x] = balance[x]
    <3>1. moved[t][x] = 0
      BY <2>6 DEF Local, MoneyFits
    <3> QED BY <1>1, <3>1 DEF Shape
  <2>7. Undisturbed(u)
    BY <2>3, <2>4, <2>5, <2>6 DEF Undisturbed
  <2> QED BY <1>2, <1>3, <1>4, <2>7, OthersKept
<1> QED BY <1>2, <1>4, <1>5, <1>6, <1>7

LEMMA PlaceBidKeeps ==
    ASSUME HouseInv, NEW t \in Txns, PlaceBid(t)
    PROVE  HouseInv'
<1> DEFINE o == task[t].offer  a == task[t].auction
<1> USE DEF HouseInv, PlaceBid
<1>0. /\ task[t] # NoTask /\ task[t] \in Command /\ a \in Auction
      /\ task[t] = Bidding(o) /\ o.auction = a /\ o \in Offer
  BY TaskType, CommandFacts
<1>1. AtRow(t) /\ o.amount >= Reserve /\ status[a] = "open"
  BY <1>0 DEF AtRow, Local, BidFits, RowFits, Working
<1>2. /\ high' = [high EXCEPT ![a] = o]
      /\ bid'[o] = "standing"
      /\ \A x \in Offer \ {o} : bid'[x] = bid[x] \/ (bid'[x] = "outbid" /\ bid[x] = "standing")
      /\ \A x \in Offer \ {o} : x # high[a] => bid'[x] = bid[x]
      /\ bid' \in [Offer -> {"none", "standing", "outbid", "won"}]
  BY <1>0 DEF Shape
<1>3. high' \in [Auction -> Offer \cup {NoOffer}]
  BY <1>0, <1>2 DEF Shape
<1>4. KeysFit'
  BY <1>0, <1>2 DEF KeysFit, Commit
<1>5. HighFits'
  <2>1. ASSUME NEW b \in Auction, high'[b] # NoOffer
        PROVE  high'[b].auction = b /\ bid'[high'[b]] # "none" /\ high'[b].amount >= Reserve
    <3>1. CASE b = a
      <4>1. high'[b] = o
        BY <1>2, <3>1 DEF Shape
      <4> QED BY <1>0, <1>1, <1>2, <3>1, <4>1
    <3>2. CASE b # a
      <4>1. high'[b] = high[b] /\ high[b] \in Offer
        BY <1>2, <2>1, <3>2 DEF Shape
      <4> QED BY <1>2, <2>1, <4>1 DEF HighFits
    <3> QED BY <3>1, <3>2
  <2>2. ASSUME NEW b \in Auction, status[b] = "none"
        PROVE  high'[b] = NoOffer /\ \A x \in Offer : x.auction = b => bid'[x] = "none"
    <3>1. b # a
      BY <1>1, <2>2
    <3>2. high'[b] = NoOffer
      BY <1>2, <2>2, <3>1 DEF HighFits, Shape
    <3>3. ASSUME NEW x \in Offer, x.auction = b
          PROVE  bid'[x] = "none"
      BY <1>0, <1>2, <2>2, <3>1, <3>3 DEF HighFits
    <3> QED BY <3>2, <3>3
  <2> QED BY <2>1, <2>2 DEF HighFits
<1> QED BY <1>0, <1>1, <1>2, <1>3, <1>4, <1>5, CommitKeeps DEF Shape

LEMMA OpensKeeps ==
    ASSUME HouseInv, NEW t \in Txns, Opens(t)
    PROVE  HouseInv'
<1> DEFINE a == task[t].auction
<1> USE DEF HouseInv, Opens
<1>0. /\ task[t] # NoTask /\ task[t] \in Command /\ a \in Auction
      /\ task[t] = Opening(a) /\ PieceOf[a] \in Piece
  BY TaskType, CommandFacts, AuctionFacts
<1>1. /\ status' \in [Auction -> {"none", "open", "sold", "unsold"}]
      /\ holding' \in [Piece -> {"carried", "escrow"}]
      /\ status'[a] = "open"
      /\ \A b \in Auction \ {a} : status'[b] = status[b] /\ high'[b] = high[b]
  BY <1>0 DEF Shape
<1>2. KeysFit'
  BY <1>0, <1>1 DEF KeysFit, Commit
<1>3. HighFits'
  BY <1>0, <1>1 DEF HighFits
<1> QED BY <1>0, <1>1, <1>2, <1>3, CommitKeeps DEF Shape

LEMMA ReturnKeeps ==
    ASSUME HouseInv, NEW t \in Txns, Return(t)
    PROVE  HouseInv'
<1> DEFINE a == task[t].auction
<1> USE DEF HouseInv, Return
<1>0. /\ task[t] # NoTask /\ task[t] \in Command /\ a \in Auction
      /\ PieceOf[a] \in Piece /\ AtRow(t)
  BY TaskType, AuctionFacts DEF AtRow
<1>1. /\ status' \in [Auction -> {"none", "open", "sold", "unsold"}]
      /\ holding' \in [Piece -> {"carried", "escrow"}]
      /\ status'[a] = "unsold" /\ status[a] = "open"
      /\ \A b \in Auction \ {a} : status'[b] = status[b] /\ high'[b] = high[b]
  BY <1>0 DEF Shape, Local, RowFits
<1>2. KeysFit'
  BY <1>0, <1>1 DEF KeysFit, Commit
<1>3. HighFits'
  BY <1>0, <1>1 DEF HighFits
<1> QED BY <1>0, <1>1, <1>2, <1>3, CommitKeeps DEF Shape

LEMMA HandOverKeeps ==
    ASSUME HouseInv, NEW t \in Txns, HandOver(t)
    PROVE  HouseInv'
<1> DEFINE a == task[t].auction
<1> USE DEF HouseInv, HandOver
<1>0. /\ task[t] # NoTask /\ task[t] \in Command /\ a \in Auction
      /\ PieceOf[a] \in Piece /\ AtRow(t)
  BY TaskType, AuctionFacts DEF AtRow
<1>1. saw[t] = high[a] /\ high[a] \in Offer /\ high[a] # NoOffer /\ status[a] = "open"
  BY <1>0 DEF Local, RowFits, SaleFits, Working, Shape
<1>2. high[a].bidder \in Player
  BY <1>1, OfferFacts
<1>3. /\ status' \in [Auction -> {"none", "open", "sold", "unsold"}]
      /\ holding' \in [Piece -> {"carried", "escrow"}]
      /\ owner' \in [Piece -> Player]
      /\ bid' \in [Offer -> {"none", "standing", "outbid", "won"}]
      /\ status'[a] = "sold"
      /\ \A b \in Auction \ {a} : status'[b] = status[b] /\ high'[b] = high[b]
      /\ \A x \in Offer : x # high[a] => bid'[x] = bid[x]
      /\ bid'[high[a]] = "won"
  BY <1>0, <1>1, <1>2 DEF Shape
<1>4. KeysFit'
  BY <1>0, <1>1, <1>3 DEF KeysFit, Commit, HighFits
<1>5. HighFits'
  BY <1>0, <1>1, <1>3 DEF HighFits, Shape
<1> QED BY <1>0, <1>1, <1>3, <1>4, <1>5, CommitKeeps DEF Shape

LEMMA InvStep == HouseInv /\ [Next]_vars => HouseInv'
<1> SUFFICES ASSUME HouseInv, [Next]_vars PROVE HouseInv'
  OBVIOUS
<1>1. CASE UNCHANGED vars
  <2> USE <1>1 DEF vars, ledgerVars, houseVars, txnVars
  <2>1. Shape' /\ Apart' /\ KeysFit' /\ HighFits' /\ Covers'
    BY DEF HouseInv, Shape, Apart, KeysFit, HighFits, Covers
  <2>2. ASSUME NEW t \in Txns PROVE Local(t)'
    BY DEF HouseInv, Local, StageFits, TaskFits, RowFits, BidFits, SaleFits, MoneyFits, PurseFits,
       AtRow, Working, Posted
  <2> QED BY <2>1, <2>2 DEF HouseInv
<1>2. CASE \E a \in Auction : EndPasses(a)
  <2> PICK a \in Auction : EndPasses(a)
    BY <1>2
  <2> USE DEF EndPasses, ledgerVars, houseVars, txnVars
  <2>1. Shape' /\ Apart' /\ KeysFit' /\ HighFits' /\ Covers'
    BY DEF HouseInv, Shape, Apart, KeysFit, HighFits, Covers
  <2>2. ASSUME NEW t \in Txns PROVE Local(t)'
    BY DEF HouseInv, Local, StageFits, TaskFits, RowFits, BidFits, SaleFits, MoneyFits, PurseFits,
       AtRow, Working, Posted
  <2> QED BY <2>1, <2>2 DEF HouseInv
<1>3. ASSUME NEW t \in Txns, Steps(t) \/ EndDeadlock(t) \/ Fail(t) \/ \E c \in Command : Begin(t, c)
      PROVE  HouseInv'
  <2>1. Advances(t) \/ Commits(t) \/ Quits(t) \/ \E c \in Command : Begin(t, c)
    BY <1>3, Outcomes DEF HouseInv
  <2> QED BY <2>1, AdvanceKeeps, PlaceBidKeeps, OpensKeeps, ReturnKeeps, HandOverKeeps,
             QuitsKeeps, BeginKeeps DEF Commits
<1> QED BY <1>1, <1>2, <1>3 DEF Next

LEMMA InvInit == Init => HouseInv
<1> SUFFICES ASSUME Init PROVE HouseInv
  OBVIOUS
<1> USE DEF Init, LedgerInit
<1>1. Shape
  <2>1. Nothing \in [Account -> Int] /\ Start \in [Account -> Int]
    BY LedgerConstants DEF Nothing
  <2>2. faults \in 0..MaxFaults
    BY NumberFacts
  <2> QED BY <2>1, <2>2 DEF Shape, Stage
<1>2. ASSUME NEW t \in Txns PROVE Local(t)
  <2>1. task[t] = NoTask /\ stage[t] = "idle" /\ saw[t] = NoOffer /\ moved[t] = Nothing
    OBVIOUS
  <2>2. Posted(t) = Nothing
    BY <2>1 DEF Posted
  <2>3. MoneyFits(t)
    BY <2>1, <2>2, LedgerConstants DEF MoneyFits, Nothing
  <2> QED BY <2>1, <2>3 DEF Local, StageFits, TaskFits, RowFits, BidFits, SaleFits, PurseFits,
             AtRow, Working
<1>3. Apart /\ KeysFit /\ HighFits
  BY DEF Apart, KeysFit, HighFits
<1>4. Covers
  BY LedgerConstants DEF Covers
<1> QED BY <1>1, <1>2, <1>3, <1>4 DEF HouseInv

LEMMA InvAlways == Spec => []HouseInv
BY InvInit, InvStep, PTL DEF Spec

\* The house changes with a commit only.
LEMMA HouseSteps ==
    ASSUME HouseInv, [Next]_vars
    PROVE  HouseSame \/ \E t \in Txns : Commits(t)
<1>1. CASE UNCHANGED vars
  BY <1>1 DEF vars, ledgerVars, houseVars, HouseSame
<1>2. CASE \E a \in Auction : EndPasses(a)
  BY <1>2 DEF EndPasses, ledgerVars, houseVars, HouseSame
<1>3. ASSUME NEW t \in Txns, Steps(t) \/ EndDeadlock(t) \/ Fail(t) \/ \E c \in Command : Begin(t, c)
      PROVE  HouseSame \/ Commits(t)
  <2>1. Advances(t) \/ Commits(t) \/ Quits(t) \/ \E c \in Command : Begin(t, c)
    BY <1>3, Outcomes DEF HouseInv
  <2>2. CASE Advances(t)
    BY <2>2 DEF Advances, ReadAuction, BidLocks, LockClose, Acquire, TakeFirst, Take, Affords,
       PostLegs, Post, Asked, Sell, ledgerVars, houseVars, HouseSame
  <2>3. CASE Quits(t)
    BY <2>3 DEF Quits, Rollback, DropMoves, houseVars, HouseSame
  <2>4. CASE \E c \in Command : Begin(t, c)
    BY <2>4 DEF Begin, ledgerVars, houseVars, HouseSame
  <2> QED BY <2>1, <2>2, <2>3, <2>4
<1> QED BY <1>1, <1>2, <1>3 DEF Next

\* Types hold, and no account goes below zero that may not owe: whatever
\* posts run beside each other, each is checked against money nobody else
\* can take (ledger.go, PostLegs; accounts_balance_non_negative_check).
THEOREM TypeCorrect == Spec => []TypeOK
<1>1. HouseInv => TypeOK
  BY DEF HouseInv, Shape, Covers, TypeOK, LedgerTypeOK
<1> QED BY <1>1, InvAlways, PTL

----------------------------------------------------------------------------
(* Which bid stands.                                                       *)

\* What a commit finds and does, by command.
LEMMA BidFacts ==
    ASSUME HouseInv, NEW t \in Txns, PlaceBid(t)
    PROVE  \E o \in Offer :
             /\ o = task[t].offer /\ o.auction = task[t].auction /\ o.auction \in Auction
             /\ status[o.auction] = "open" /\ bid[o] = "none"
             /\ o.bidder # Seller[o.auction] /\ o.amount >= Reserve
             /\ high' = [high EXCEPT ![o.auction] = o]
             /\ bid' = [x \in Offer |->
                  CASE x = o -> "standing"
                    [] x = high[o.auction] /\ x # o /\ bid[x] = "standing" -> "outbid"
                    [] OTHER -> bid[x]]
             /\ UNCHANGED <<status, owner, holding>>
<1> DEFINE o == task[t].offer
<1> USE DEF HouseInv, PlaceBid
<1>1. /\ task[t] # NoTask /\ task[t] \in Command /\ o.auction = task[t].auction
      /\ task[t] = Bidding(o) /\ o \in Offer /\ o.auction \in Auction
  BY TaskType, CommandFacts
<1>2. AtRow(t) /\ Working(t, "bid")
  BY <1>1 DEF AtRow, Working
<1>3. status[o.auction] = "open" /\ o.bidder # Seller[o.auction] /\ o.amount >= Reserve
  BY <1>1, <1>2 DEF Local, BidFits, RowFits
<1>4. bid[o] = "none"
  BY <1>1 DEF Local, TaskFits, KeysFit
<1> QED BY <1>1, <1>3, <1>4

LEMMA OpenFacts ==
    ASSUME HouseInv, NEW t \in Txns, Opens(t)
    PROVE  \E a \in Auction :
             /\ a = task[t].auction /\ PieceOf[a] \in Piece /\ Seller[a] \in Player
             /\ status[a] = "none" /\ high[a] = NoOffer
             /\ \A o \in Offer : o.auction = a => bid[o] = "none"
             /\ owner[PieceOf[a]] = Seller[a] /\ holding[PieceOf[a]] = "carried"
             /\ status' = [status EXCEPT ![a] = "open"]
             /\ holding' = [holding EXCEPT ![PieceOf[a]] = "escrow"]
             /\ UNCHANGED <<high, bid, owner>>
<1> DEFINE a == task[t].auction
<1> USE DEF HouseInv, Opens
<1>1. /\ task[t] # NoTask /\ a \in Auction /\ task[t] = Opening(a)
      /\ PieceOf[a] \in Piece /\ Seller[a] \in Player
  BY TaskType, CommandFacts, AuctionFacts
<1>2. status[a] = "none"
  BY <1>1 DEF Local, TaskFits, KeysFit
<1>3. high[a] = NoOffer /\ \A o \in Offer : o.auction = a => bid[o] = "none"
  BY <1>1, <1>2 DEF HighFits
<1> QED BY <1>1, <1>2, <1>3 DEF Held

LEMMA ReturnFacts ==
    ASSUME HouseInv, NEW t \in Txns, Return(t)
    PROVE  \E a \in Auction :
             /\ a = task[t].auction /\ PieceOf[a] \in Piece /\ Seller[a] \in Player
             /\ status[a] = "open" /\ holding[PieceOf[a]] = "escrow"
             /\ status' = [status EXCEPT ![a] = "unsold"]
             /\ holding' = [holding EXCEPT ![PieceOf[a]] = "carried"]
             /\ UNCHANGED <<high, bid, owner>>
<1> DEFINE a == task[t].auction
<1> USE DEF HouseInv, Return
<1>1. task[t] # NoTask /\ a \in Auction /\ PieceOf[a] \in Piece /\ Seller[a] \in Player
  BY TaskType, AuctionFacts
<1>2. status[a] = "open"
  BY <1>1 DEF Local, TaskFits, Working
<1> QED BY <1>1, <1>2 DEF Held

LEMMA HandOverFacts ==
    ASSUME HouseInv, NEW t \in Txns, HandOver(t)
    PROVE  \E a \in Auction :
             /\ a = task[t].auction /\ PieceOf[a] \in Piece /\ Seller[a] \in Player
             /\ status[a] = "open" /\ saw[t] = high[a]
             /\ high[a] \in Offer /\ high[a] # NoOffer /\ high[a].auction = a
             /\ holding[PieceOf[a]] = "escrow"
             /\ status' = [status EXCEPT ![a] = "sold"]
             /\ owner' = [owner EXCEPT ![PieceOf[a]] = high[a].bidder]
             /\ holding' = [holding EXCEPT ![PieceOf[a]] = "carried"]
             /\ bid' = [bid EXCEPT ![high[a]] = "won"]
             /\ UNCHANGED high
<1> DEFINE a == task[t].auction
<1> USE DEF HouseInv, HandOver
<1>1. task[t] # NoTask /\ a \in Auction /\ PieceOf[a] \in Piece /\ Seller[a] \in Player
  BY TaskType, AuctionFacts
<1>2. status[a] = "open" /\ saw[t] = high[a] /\ high[a] \in Offer /\ high[a] # NoOffer
  BY <1>1 DEF Local, RowFits, SaleFits, AtRow, Working, Shape
<1>3. high[a].auction = a
  BY <1>1, <1>2 DEF HighFits
<1> QED BY <1>1, <1>2, <1>3 DEF Held

LEMMA BidsStep == HouseInv /\ OneBidStands /\ [Next]_vars => OneBidStands'
<1> SUFFICES ASSUME HouseInv, OneBidStands, [Next]_vars PROVE OneBidStands'
  OBVIOUS
<1>0. Shape
  BY DEF HouseInv
<1>1. CASE HouseSame
  BY <1>1 DEF HouseSame, houseVars, OneBidStands, Standing, Won
<1>2. ASSUME NEW t \in Txns, PlaceBid(t) PROVE OneBidStands'
  <2> PICK o \in Offer :
        /\ o.auction \in Auction
        /\ status[o.auction] = "open" /\ bid[o] = "none"
        /\ high' = [high EXCEPT ![o.auction] = o]
        /\ bid' = [x \in Offer |->
             CASE x = o -> "standing"
               [] x = high[o.auction] /\ x # o /\ bid[x] = "standing" -> "outbid"
               [] OTHER -> bid[x]]
        /\ status' = status
    BY <1>2, BidFacts
  <2>1. bid'[o] = "standing" /\ o # NoOffer
    BY OfferFacts
  <2>2. \A x \in Offer : x.auction = o.auction /\ x # o => bid'[x] # "standing" /\ bid'[x] # "won"
    BY DEF OneBidStands, Standing, Won, The
  <2>3. ASSUME NEW x \in Offer, x.auction # o.auction
        PROVE  bid'[x] = bid[x]
    <3>1. x # high[o.auction]
      BY <2>3, OfferFacts DEF HouseInv, HighFits
    <3> QED BY <2>3, <3>1
  <2>4. ASSUME NEW b \in Auction, b # o.auction
        PROVE  Standing(b)' = Standing(b) /\ Won(b)' = Won(b) /\ high'[b] = high[b]
    BY <1>0, <2>3, <2>4 DEF Standing, Won, Shape
  <2>5. Standing(o.auction)' = {o} /\ Won(o.auction)' = {} /\ high'[o.auction] = o
    BY <1>0, <2>1, <2>2 DEF Standing, Won, Shape
  <2> QED BY <2>1, <2>4, <2>5 DEF OneBidStands, The
<1>3. ASSUME NEW t \in Txns, Opens(t) PROVE OneBidStands'
  <2> PICK a \in Auction :
        /\ status[a] = "none" /\ high[a] = NoOffer
        /\ \A o \in Offer : o.auction = a => bid[o] = "none"
        /\ status' = [status EXCEPT ![a] = "open"]
        /\ UNCHANGED <<high, bid>>
    BY <1>3, OpenFacts
  <2>1. \A b \in Auction : Standing(b)' = Standing(b) /\ Won(b)' = Won(b)
    BY DEF Standing, Won
  <2>2. Standing(a) = {} /\ Won(a) = {}
    BY DEF Standing, Won
  <2> QED BY <1>0, <2>1, <2>2 DEF OneBidStands, The, Shape
<1>4. ASSUME NEW t \in Txns, Return(t) PROVE OneBidStands'
  <2> PICK a \in Auction :
        /\ status[a] = "open" /\ status' = [status EXCEPT ![a] = "unsold"]
        /\ UNCHANGED <<high, bid>>
    BY <1>4, ReturnFacts
  <2>1. \A b \in Auction : Standing(b)' = Standing(b) /\ Won(b)' = Won(b)
    BY DEF Standing, Won
  <2> QED BY <1>0, <2>1 DEF OneBidStands, The, Shape
<1>5. ASSUME NEW t \in Txns, HandOver(t) PROVE OneBidStands'
  <2> PICK a \in Auction :
        /\ status[a] = "open" /\ high[a] \in Offer /\ high[a] # NoOffer /\ high[a].auction = a
        /\ status' = [status EXCEPT ![a] = "sold"]
        /\ bid' = [bid EXCEPT ![high[a]] = "won"]
        /\ high' = high
    BY <1>5, HandOverFacts
  <2>1. ASSUME NEW b \in Auction, b # a
        PROVE  Standing(b)' = Standing(b) /\ Won(b)' = Won(b)
    BY <1>0, <2>1 DEF Standing, Won, Shape
  <2>2. Standing(a) = {high[a]} /\ Won(a) = {}
    BY DEF OneBidStands, The
  <2>3. Standing(a)' = {} /\ Won(a)' = {high[a]}
    BY <1>0, <2>2 DEF Standing, Won, Shape
  <2> QED BY <1>0, <2>1, <2>3 DEF OneBidStands, Shape
<1> QED BY <1>1, <1>2, <1>3, <1>4, <1>5, HouseSteps DEF Commits

\* One bid of an auction stands, the high one, and it is the one that wins.
THEOREM BidsCorrect == Spec => []OneBidStands
<1>1. Init => OneBidStands
  BY DEF Init, OneBidStands, Standing, Won
<1> QED BY <1>1, InvAlways, BidsStep, PTL DEF Spec

----------------------------------------------------------------------------
(* Where the pieces are.                                                   *)

LEMMA PiecesStep == HouseInv /\ PiecesFollow /\ [Next]_vars => PiecesFollow'
<1> SUFFICES ASSUME HouseInv, PiecesFollow, [Next]_vars PROVE PiecesFollow'
  OBVIOUS
<1> DEFINE Up(x) == {a \in Auction : PieceOf[a] = x /\ status[a] = "open"}
<1>0. Shape
  BY DEF HouseInv
<1>1. CASE HouseSame \/ \E t \in Txns : PlaceBid(t)
  <2>1. UNCHANGED <<status, owner, holding>>
    BY <1>1 DEF HouseSame, houseVars, PlaceBid
  <2> QED BY <2>1 DEF PiecesFollow
<1>2. ASSUME NEW t \in Txns, Opens(t) PROVE PiecesFollow'
  <2> PICK a \in Auction :
        /\ PieceOf[a] \in Piece
        /\ owner[PieceOf[a]] = Seller[a] /\ holding[PieceOf[a]] = "carried"
        /\ status' = [status EXCEPT ![a] = "open"]
        /\ holding' = [holding EXCEPT ![PieceOf[a]] = "escrow"]
        /\ owner' = owner
    BY <1>2, OpenFacts
  <2>1. Up(PieceOf[a]) = {}
    BY DEF PiecesFollow
  <2>2. Up(PieceOf[a])' = {a}
    BY <1>0, <2>1 DEF Shape
  <2>3. ASSUME NEW x \in Piece, x # PieceOf[a]
        PROVE  Up(x)' = Up(x) /\ holding'[x] = holding[x]
    BY <1>0, <2>3 DEF Shape
  <2>4. holding'[PieceOf[a]] = "escrow"
    BY <1>0 DEF Shape
  <2> QED BY <2>2, <2>3, <2>4 DEF PiecesFollow
<1>3. ASSUME NEW t \in Txns, NEW a \in Auction, NEW s \in {"sold", "unsold"},
             PieceOf[a] \in Piece, status[a] = "open", holding[PieceOf[a]] = "escrow",
             status' = [status EXCEPT ![a] = s],
             holding' = [holding EXCEPT ![PieceOf[a]] = "carried"],
             \A x \in Piece : x # PieceOf[a] => owner'[x] = owner[x]
      PROVE  PiecesFollow'
  <2>1. a \in Up(PieceOf[a]) /\ Up(PieceOf[a]) = {a}
    BY <1>3 DEF PiecesFollow
  <2>2. Up(PieceOf[a])' = {}
    BY <1>0, <1>3, <2>1 DEF Shape
  <2>3. ASSUME NEW x \in Piece, x # PieceOf[a]
        PROVE  Up(x)' = Up(x) /\ holding'[x] = holding[x]
    BY <1>0, <1>3, <2>3 DEF Shape
  <2>4. holding'[PieceOf[a]] = "carried"
    BY <1>0, <1>3 DEF Shape
  <2> QED BY <1>3, <2>2, <2>3, <2>4 DEF PiecesFollow
<1>4. ASSUME NEW t \in Txns, Return(t) PROVE PiecesFollow'
  BY <1>3, <1>4, ReturnFacts
<1>5. ASSUME NEW t \in Txns, HandOver(t) PROVE PiecesFollow'
  BY <1>0, <1>3, <1>5, HandOverFacts DEF Shape
<1> QED BY <1>1, <1>2, <1>4, <1>5, HouseSteps DEF Commits

\* A piece in escrow is up in exactly one auction, its owner's, however many
\* auctions of it are asked for.
THEOREM PiecesCorrect == Spec => []PiecesFollow
<1>1. Init => PiecesFollow
  BY DEF Init, PiecesFollow
<1> QED BY <1>1, InvAlways, PiecesStep, PTL DEF Spec

----------------------------------------------------------------------------
(* How many are open.                                                      *)

\* One that is about to open has the seller's goods, and has counted.
NewFits ==
    \A t \in Txns, p \in Player :
        Working(t, "new") /\ stage[t] = "commit" /\ p = Seller[task[t].auction] =>
            holder[Goods(p)] = t /\ CountOpen(p) < MaxOpen

LimitInv == LimitKept /\ NewFits

OpenOf(p) == {a \in Auction : Seller[a] = p /\ status[a] = "open"}

LEMMA OpenOfFinite ==
    ASSUME NEW p
    PROVE  IsFiniteSet(OpenOf(p)) /\ CountOpen(p) = Cardinality(OpenOf(p)) /\ CountOpen(p) \in Nat
<1>1. IsFiniteSet(OpenOf(p))
  BY AuctionConstants, FS_Subset DEF OpenOf
<1> QED BY <1>1, FS_CardinalityType DEF OpenOf, CountOpen

LEMMA OthersAlone ==
    ASSUME HouseInv, NEW t \in Txns,
           Advances(t) \/ Commits(t) \/ Quits(t) \/ \E c \in Command : Begin(t, c)
    PROVE  Others(t)
<1>0. Shape
  BY DEF HouseInv
<1> USE DEF Shape
<1>1. CASE Commits(t) \/ Quits(t)
  <2>1. holder' = Released(t)
    BY <1>1 DEF Commits, PlaceBid, Opens, Return, HandOver, Commit, CommitMoves, Quits, Rollback, DropMoves
  <2>2. \A u \in Txns \ {t}, k \in Lock : holder'[k] = u <=> holder[k] = u
    BY <1>0, <2>1, ReleaseFacts
  <2>3. \A u \in Txns \ {t} :
           task'[u] = task[u] /\ stage'[u] = stage[u] /\ saw'[u] = saw[u] /\ moved'[u] = moved[u]
    BY <1>0, <1>1 DEF Commits, PlaceBid, Opens, Return, HandOver, Commit, CommitMoves, Quits,
       Rollback, DropMoves, Leave, Goto
  <2> QED BY <2>2, <2>3 DEF Others
<1>2. CASE BidLocks(t) \/ LockClose(t) \/ Acquire(t)
  <2>1. PICK l : holder[l] = NoTxn /\ holder' = [holder EXCEPT ![l] = t]
    BY <1>2 DEF BidLocks, LockClose, Acquire, TakeFirst, Take
  <2>2. \A u \in Txns \ {t}, k \in Lock : holder'[k] = u <=> holder[k] = u
    BY <1>0, <2>1, TakeFacts
  <2>3. \A u \in Txns \ {t} :
           task'[u] = task[u] /\ stage'[u] = stage[u] /\ saw'[u] = saw[u] /\ moved'[u] = moved[u]
    BY <1>0, <1>2 DEF BidLocks, LockClose, Acquire, TakeFirst, Take, Goto, txnVars
  <2> QED BY <2>2, <2>3 DEF Others
<1>3. CASE ReadAuction(t) \/ Affords(t) \/ PostLegs(t) \/ Asked(t) \/ Sell(t) \/ \E c \in Command : Begin(t, c)
  BY <1>0, <1>3 DEF ReadAuction, Affords, PostLegs, Post, Asked, Sell, Begin, Goto, Others, ledgerVars
<1> QED BY <1>1, <1>2, <1>3 DEF Advances

\* A transaction that gets to the commit of an opening has asked, or had.
LEMMA WillOpen ==
    ASSUME HouseInv, NewFits, NEW t \in Txns,
           Advances(t) \/ Commits(t) \/ Quits(t) \/ \E c \in Command : Begin(t, c),
           Working(t, "new")', stage'[t] = "commit",
           NEW p \in Player, p = Seller[task'[t].auction]
    PROVE  HouseSame /\ holder'[Goods(p)] = t /\ CountOpen(p) < MaxOpen
<1>0. Shape
  BY DEF HouseInv
<1>1. ~Commits(t) /\ ~Quits(t)
  BY <1>0 DEF Commits, PlaceBid, Opens, Return, HandOver, Commit, Quits, Rollback, Leave, Goto, Shape, Working
<1>2. ~ReadAuction(t) /\ ~BidLocks(t) /\ ~LockClose(t) /\ ~Affords(t) /\ ~Sell(t)
      /\ ~(\E c \in Command : Begin(t, c))
  BY <1>0 DEF ReadAuction, BidLocks, LockClose, Affords, Sell, Begin, Goto, Shape
<1>3. ~PostLegs(t)
  <2>1. SUFFICES ASSUME PostLegs(t) PROVE FALSE
    OBVIOUS
  <2>2. stage[t] # "idle" /\ stage[t] \in {"pay", "refund", "sale", "fee"} /\ task' = task
    BY <2>1 DEF PostLegs
  <2>3. task[t].kind \in {"bid", "close"}
    BY <2>2, TaskType
  <2> QED BY <2>2, <2>3 DEF Working
<1>4. CASE Asked(t)
  <2>1. task' = task /\ holder' = holder /\ HouseSame
    BY <1>4 DEF Asked, ledgerVars, houseVars, HouseSame
  <2>2. Goods(p) \in Needs(t) /\ CountOpen(p) < MaxOpen
    BY <1>4, <2>1 DEF Asked, Needs, Owners, MayOpen
  <2> QED BY <1>4, <2>1, <2>2 DEF Asked, Ready, Missing
<1>5. CASE Acquire(t)
  <2>1. task' = task /\ stage' = stage /\ HouseSame
    BY <1>5 DEF Acquire, TakeFirst, Take, txnVars, HouseSame, houseVars
  <2>2. holder[Goods(p)] = t /\ CountOpen(p) < MaxOpen
    BY <2>1 DEF NewFits, Working
  <2>3. Goods(p) \in Lock
    BY <2>1, TaskType, AuctionFacts
  <2>4. PICK l : holder[l] = NoTxn /\ holder' = [holder EXCEPT ![l] = t]
    BY <1>5 DEF Acquire, TakeFirst, Take
  <2> QED BY <1>0, <2>1, <2>2, <2>3, <2>4, TakeFacts
<1> QED BY <1>1, <1>2, <1>3, <1>4, <1>5 DEF Advances

LEMMA SameCount ==
    ASSUME status' = status
    PROVE  \A p : CountOpen(p)' = CountOpen(p)
BY DEF CountOpen

\* A close makes it less.
LEMMA FewerOpen ==
    ASSUME Shape, NEW a \in Auction, NEW s \in {"sold", "unsold"}, status' = [status EXCEPT ![a] = s]
    PROVE  \A p : CountOpen(p)' <= CountOpen(p)
<1> SUFFICES ASSUME NEW p PROVE CountOpen(p)' <= CountOpen(p)
  OBVIOUS
<1>1. OpenOf(p)' \subseteq OpenOf(p)
  BY DEF OpenOf, Shape
<1>2. CountOpen(p)' = Cardinality(OpenOf(p)')
  BY DEF CountOpen, OpenOf
<1> QED BY <1>1, <1>2, OpenOfFinite, FS_Subset

\* An opening makes it one more, of the seller's.
LEMMA OneMoreOpen ==
    ASSUME Shape, NEW a \in Auction, status[a] = "none", status' = [status EXCEPT ![a] = "open"]
    PROVE  \A p : CountOpen(p)' = IF p = Seller[a] THEN CountOpen(p) + 1 ELSE CountOpen(p)
<1> SUFFICES ASSUME NEW p
    PROVE  CountOpen(p)' = IF p = Seller[a] THEN CountOpen(p) + 1 ELSE CountOpen(p)
  OBVIOUS
<1>1. CountOpen(p)' = Cardinality(OpenOf(p)')
  BY DEF CountOpen, OpenOf
<1>2. CASE p = Seller[a]
  <2>1. OpenOf(p)' = OpenOf(p) \cup {a} /\ a \notin OpenOf(p)
    BY <1>2 DEF OpenOf, Shape
  <2>2. IsFiniteSet(OpenOf(p)) /\ CountOpen(p) = Cardinality(OpenOf(p))
    BY OpenOfFinite
  <2>3. Cardinality(OpenOf(p) \cup {a}) = Cardinality(OpenOf(p)) + 1
    BY <2>1, <2>2, FS_AddElement
  <2> QED BY <1>1, <1>2, <2>1, <2>2, <2>3
<1>3. CASE p # Seller[a]
  <2>1. OpenOf(p)' = OpenOf(p)
    BY <1>3 DEF OpenOf, Shape
  <2> QED BY <1>1, <1>3, <2>1, OpenOfFinite
<1> QED BY <1>2, <1>3

LEMMA LimitStep == HouseInv /\ LimitInv /\ [Next]_vars => LimitInv'
<1> SUFFICES ASSUME HouseInv, LimitInv, [Next]_vars PROVE LimitInv'
  OBVIOUS
<1>0. Shape /\ MaxOpen \in Nat
  BY NumberFacts DEF HouseInv
<1>1. CASE UNCHANGED vars \/ \E a \in Auction : EndPasses(a)
  <2>1. status' = status /\ task' = task /\ stage' = stage /\ holder' = holder
    BY <1>1 DEF vars, EndPasses, ledgerVars, houseVars, txnVars
  <2> QED BY <2>1 DEF LimitInv, LimitKept, NewFits, CountOpen, Working
<1>2. ASSUME NEW t \in Txns,
             Advances(t) \/ Commits(t) \/ Quits(t) \/ \E c \in Command : Begin(t, c),
             NEW u \in Txns, Working(u, "new")', stage'[u] = "commit",
             NEW p \in Player, p = Seller[task'[u].auction]
      PROVE  /\ holder'[Goods(p)] = u /\ CountOpen(p) < MaxOpen
             /\ u = t => HouseSame
             /\ u # t => holder[Goods(p)] = u
  <2>1. CASE u = t
    BY <1>2, <2>1, WillOpen DEF LimitInv
  <2>2. CASE u # t
    <3>1. Others(t)
      BY <1>2, OthersAlone
    <3>2. task'[u] = task[u] /\ stage[u] = "commit" /\ Working(u, "new")
      BY <1>2, <2>2, <3>1 DEF Others, Working
    <3>3. Goods(p) \in Lock
      BY <1>2, <3>2, TaskType, AuctionFacts
    <3> QED BY <1>2, <2>2, <3>1, <3>2, <3>3 DEF Others, LimitInv, NewFits
  <2> QED BY <2>1, <2>2
<1>3. ASSUME NEW t \in Txns,
             Advances(t) \/ Commits(t) \/ Quits(t) \/ \E c \in Command : Begin(t, c),
             \A p : CountOpen(p)' \in Nat /\ CountOpen(p)' <= CountOpen(p)
      PROVE  LimitInv'
  <2>1. \A p : CountOpen(p) \in Nat
    BY OpenOfFinite
  <2>2. LimitKept'
    BY <1>0, <1>3, <2>1 DEF LimitInv, LimitKept
  <2>3. ASSUME NEW u \in Txns, Working(u, "new")', stage'[u] = "commit",
               NEW p \in Player, p = Seller[task'[u].auction]
        PROVE  holder'[Goods(p)] = u /\ CountOpen(p)' < MaxOpen
    BY <1>0, <1>2, <1>3, <2>1, <2>3
  <2>4. NewFits'
    BY <2>3 DEF NewFits
  <2> QED BY <2>2, <2>4 DEF LimitInv
<1>4. ASSUME NEW t \in Txns, Opens(t)
      PROVE  LimitInv'
  <2>1. PICK a \in Auction :
          /\ a = task[t].auction /\ Seller[a] \in Player
          /\ status[a] = "none" /\ status' = [status EXCEPT ![a] = "open"]
    BY <1>4, OpenFacts
  <2>2. \A p : CountOpen(p)' = IF p = Seller[a] THEN CountOpen(p) + 1 ELSE CountOpen(p)
    BY <1>0, <2>1, OneMoreOpen
  <2>3. Working(t, "new") /\ stage[t] = "commit"
    BY <1>4, TaskType DEF Opens, Working
  <2>4. holder[Goods(Seller[a])] = t /\ CountOpen(Seller[a]) < MaxOpen
    BY <2>1, <2>3 DEF LimitInv, NewFits
  <2>5. ASSUME NEW p \in Player
        PROVE  CountOpen(p)' <= MaxOpen
    <3>1. CountOpen(p) <= MaxOpen /\ CountOpen(p) \in Nat
      BY OpenOfFinite DEF LimitInv, LimitKept
    <3> QED BY <1>0, <2>2, <2>4, <3>1
  <2>6. ASSUME NEW u \in Txns, Working(u, "new")', stage'[u] = "commit",
               NEW p \in Player, p = Seller[task'[u].auction]
        PROVE  holder'[Goods(p)] = u /\ CountOpen(p)' < MaxOpen
    <3>1. u # t
      BY <1>0, <1>2, <1>4, <2>1, <2>6 DEF Commits, HouseSame, houseVars, Shape
    <3>2. p # Seller[a]
      BY <1>2, <1>4, <2>4, <2>6, <3>1 DEF Commits
    <3> QED BY <1>2, <1>4, <2>2, <2>6, <3>2 DEF Commits
  <2>7. LimitKept' /\ NewFits'
    BY <2>5, <2>6 DEF LimitKept, NewFits
  <2> QED BY <2>7 DEF LimitInv
<1>5. ASSUME NEW t \in Txns, Return(t) \/ HandOver(t)
      PROVE  LimitInv'
  <2>1. \E a \in Auction, s \in {"sold", "unsold"} : status' = [status EXCEPT ![a] = s]
    BY <1>5, ReturnFacts, HandOverFacts
  <2>2. \A p : CountOpen(p)' <= CountOpen(p) /\ CountOpen(p)' \in Nat
    <3>1. ASSUME NEW p PROVE CountOpen(p)' \in Nat
      <4>1. IsFiniteSet(OpenOf(p)')
        BY AuctionConstants, FS_Subset DEF OpenOf
      <4> QED BY <4>1, FS_CardinalityType DEF OpenOf, CountOpen
    <3> QED BY <1>0, <2>1, <3>1, FewerOpen
  <2> QED BY <1>3, <1>5, <2>2 DEF Commits
<1>6. ASSUME NEW t \in Txns, PlaceBid(t) \/ Advances(t) \/ Quits(t) \/ \E c \in Command : Begin(t, c)
      PROVE  LimitInv'
  <2>1. status' = status
    BY <1>6 DEF PlaceBid, Advances, ReadAuction, BidLocks, LockClose, Acquire, Affords, PostLegs,
       Asked, Sell, Quits, Rollback, Begin, houseVars
  <2>2. \A p : CountOpen(p)' = CountOpen(p) /\ CountOpen(p) \in Nat
    BY <2>1, SameCount, OpenOfFinite
  <2>3. \A p : CountOpen(p)' \in Nat /\ CountOpen(p)' <= CountOpen(p)
    BY <2>2
  <2> QED BY <1>3, <1>6, <2>1, <2>3 DEF Commits
<1>7. ASSUME NEW t \in Txns, Steps(t) \/ EndDeadlock(t) \/ Fail(t) \/ \E c \in Command : Begin(t, c)
      PROVE  LimitInv'
  BY <1>0, <1>4, <1>5, <1>6, <1>7, Outcomes DEF Commits
<1> QED BY <1>1, <1>7 DEF Next

\* No seller gets past the limit, however many openings run at once.
THEOREM LimitCorrect == Spec => []LimitKept
<1>1. Init => LimitInv
  <2> SUFFICES ASSUME Init PROVE LimitInv
    OBVIOUS
  <2>1. ASSUME NEW p PROVE CountOpen(p) <= MaxOpen
    <3>1. OpenOf(p) = {}
      BY DEF Init, OpenOf
    <3>2. CountOpen(p) = 0
      BY <3>1, OpenOfFinite, FS_EmptySet
    <3> QED BY <3>2, NumberFacts
  <2> QED BY <2>1 DEF Init, LimitInv, LimitKept, NewFits, Working
<1>2. LimitInv => LimitKept
  BY DEF LimitInv
<1> QED BY <1>1, <1>2, InvAlways, LimitStep, PTL DEF Spec

----------------------------------------------------------------------------
(* The auction house acts at once.                                         *)

LEMMA SumOfSum ==
    ASSUME NEW b \in [Account -> Int], NEW f \in [Account -> Int], NEW g \in [Account -> Int]
    PROVE  Sum(b, Sum(f, g)) = Sum(Sum(b, f), g)
BY DEF Sum

LEMMA MovedIsSum ==
    ASSUME NEW b \in [Account -> Int], NEW x \in Account, NEW y \in Account, x # y, NEW n \in Int
    PROVE  /\ House!Moved(x, y, n, b) = Sum(b, Legs(x, y, n))
           /\ House!Moved(x, y, n, b) \in [Account -> Int]
<1> DEFINE f == House!Moved(x, y, n, b)  g == Sum(b, Legs(x, y, n))
<1>0. b[x] \in Int /\ b[y] \in Int
  OBVIOUS
<1>1. f \in [Account -> Int] /\ f[x] = b[x] - n /\ f[y] = b[y] + n
      /\ \A z \in Account : z # x /\ z # y => f[z] = b[z]
  <2>1. f = [b EXCEPT ![x] = b[x] - n, ![y] = b[y] + n]
    BY DEF House!Moved
  <2>2. b[x] - n \in Int /\ b[y] + n \in Int
    BY <1>0
  <2> HIDE DEF f
  <2> QED BY <2>1, <2>2
<1>2. g \in [Account -> Int] /\ \A z \in Account : g[z] = b[z] + Legs(x, y, n)[z]
  BY LegsType, SumType
<1>3. /\ Legs(x, y, n)[x] = -n /\ Legs(x, y, n)[y] = n
      /\ \A z \in Account : z # x /\ z # y => Legs(x, y, n)[z] = 0
  BY DEF Legs
<1>4. \A z \in Account : f[z] = g[z]
  BY <1>1, <1>2, <1>3
<1> HIDE DEF f, g
<1>5. f = g
  BY <1>1, <1>2, <1>4
<1> QED BY <1>1, <1>5 DEF f, g

LEMMA TwoMoves ==
    ASSUME NEW b \in [Account -> Int],
           NEW x \in Account, NEW y \in Account, x # y, NEW m \in Int,
           NEW v \in Account, NEW w \in Account, v # w, NEW n \in Int
    PROVE  Sum(b, Sum(Legs(x, y, m), Legs(v, w, n))) = House!Moved(v, w, n, House!Moved(x, y, m, b))
<1>1. Legs(x, y, m) \in [Account -> Int] /\ Legs(v, w, n) \in [Account -> Int]
  BY LegsType
<1>2. Sum(b, Legs(x, y, m)) = House!Moved(x, y, m, b) /\ House!Moved(x, y, m, b) \in [Account -> Int]
  BY MovedIsSum
<1>3. PICK c \in [Account -> Int] : c = House!Moved(x, y, m, b)
  BY <1>2
<1>4. Sum(c, Legs(v, w, n)) = House!Moved(v, w, n, c)
  BY MovedIsSum
<1>5. Sum(b, Sum(Legs(x, y, m), Legs(v, w, n))) = Sum(c, Legs(v, w, n))
  BY <1>1, <1>2, <1>3, SumOfSum
<1> QED BY <1>3, <1>4, <1>5

LEMMA FeeIsFee ==
    ASSUME NEW price \in Nat
    PROVE  House!Fee(price) = Fee(price)
<1> DEFINE k == price * FeeBPS
           Right(fee) == fee * 10000 >= k /\ (fee - 1) * 10000 < k
<1>1. Fee(price) \in 0..price /\ Right(Fee(price))
  BY FeeRoundsUp
<1>2. k \in Nat
  BY NumberFacts
<1> HIDE DEF k
<1>3. \A m, n \in 0..price : Right(m) /\ Right(n) => m = n
  BY <1>2
<1>4. House!Fee(price) = CHOOSE fee \in 0..price : Right(fee)
  BY DEF House!Fee, k
<1> HIDE DEF Right
<1> QED BY <1>1, <1>3, <1>4

LEMMA HouseInit == Init => House!Init
BY LedgerConstants DEF Init, LedgerInit, House!Init, Piece

LEMMA HouseStep == HouseInv /\ OneBidStands /\ [Next]_vars => [House!Next]_House!vars
<1> SUFFICES ASSUME HouseInv, OneBidStands, [Next]_vars PROVE [House!Next]_House!vars
  OBVIOUS
<1>0. Shape
  BY DEF HouseInv
<1>1. CASE HouseSame
  BY <1>1 DEF HouseSame, houseVars, House!vars
<1>2. ASSUME NEW t \in Txns, Opens(t)
      PROVE  \E a \in Auction : House!Open(a)
  <2>1. task[t].kind = "new" /\ stage[t] = "commit" /\ balance' = Sum(balance, moved[t])
    BY <1>2 DEF Opens, Commit, CommitMoves
  <2>2. moved[t] = Nothing
    BY <2>1 DEF HouseInv, Local, MoneyFits, Posted
  <2>3. balance' = balance
    BY <1>0, <2>1, <2>2 DEF Sum, Nothing, Shape
  <2> QED BY <1>2, <2>3, OpenFacts DEF House!Open
<1>3. ASSUME NEW t \in Txns, Return(t)
      PROVE  \E a \in Auction : House!Return(a)
  <2>1. task[t].kind = "close" /\ stage[t] = "owners" /\ balance' = Sum(balance, moved[t])
    BY <1>3 DEF Return, Commit, CommitMoves
  <2>2. moved[t] = Nothing
    BY <2>1 DEF HouseInv, Local, MoneyFits, Posted
  <2>3. balance' = balance
    BY <1>0, <2>1, <2>2 DEF Sum, Nothing, Shape
  <2> QED BY <1>3, <2>3, ReturnFacts DEF House!Return
<1>4. ASSUME NEW t \in Txns, HandOver(t)
      PROVE  \E a \in Auction : House!Sell(a)
  <2>1. task[t].kind = "close" /\ stage[t] = "commit" /\ balance' = Sum(balance, moved[t])
    BY <1>4 DEF HandOver, Commit, CommitMoves
  <2> PICK a \in Auction :
        /\ Seller[a] \in Player
        /\ status[a] = "open" /\ saw[t] = high[a]
        /\ high[a] \in Offer /\ high[a] # NoOffer /\ high[a].auction = a
        /\ status' = [status EXCEPT ![a] = "sold"]
        /\ owner' = [owner EXCEPT ![PieceOf[a]] = high[a].bidder]
        /\ holding' = [holding EXCEPT ![PieceOf[a]] = "carried"]
        /\ bid' = [bid EXCEPT ![high[a]] = "won"]
        /\ high' = high
    BY <1>4, HandOverFacts
  <2> DEFINE o == high[a]  fee == Fee(o.amount)
             x == AccountOf("escrow", o.bidder)  y == AccountOf("bank", Seller[a])
  <2>2. o.bidder \in Player /\ o.amount \in Nat /\ fee \in Int /\ House!Fee(o.amount) = fee
    BY OfferFacts, FeeRoundsUp, FeeIsFee
  <2>3. x \in Account /\ y \in Account /\ Sink \in Account /\ x # y /\ x # Sink
    BY <2>2, AccountFacts DEF Purse
  <2>4. moved[t] = Sum(Legs(x, y, o.amount - fee), Legs(x, Sink, fee))
    BY <2>1 DEF HouseInv, Local, MoneyFits, Posted, SaleLegs, FeeLegs
  <2>5. balance' = House!Moved(x, Sink, fee, House!Moved(x, y, o.amount - fee, balance))
    <3>1. balance \in [Account -> Int] /\ o.amount - fee \in Int
      BY <1>0, <2>2 DEF Shape
    <3> HIDE DEF x, y, fee, o
    <3> QED BY <2>1, <2>2, <2>3, <2>4, <3>1, TwoMoves
  <2> QED BY <2>2, <2>5 DEF House!Sell, House!Escrow, AccountOf, Sink
<1>5. ASSUME NEW t \in Txns, PlaceBid(t)
      PROVE  \E o \in Offer : House!Bid(o)
  <2>1. task[t].kind = "bid" /\ stage[t] = "commit" /\ balance' = Sum(balance, moved[t])
    BY <1>5 DEF PlaceBid, Commit, CommitMoves
  <2> PICK o \in Offer :
        /\ o = task[t].offer /\ o.auction = task[t].auction /\ o.auction \in Auction
        /\ status[o.auction] = "open" /\ bid[o] = "none"
        /\ o.bidder # Seller[o.auction] /\ o.amount >= Reserve
        /\ high' = [high EXCEPT ![o.auction] = o]
        /\ bid' = [z \in Offer |->
             CASE z = o -> "standing"
               [] z = high[o.auction] /\ z # o /\ bid[z] = "standing" -> "outbid"
               [] OTHER -> bid[z]]
        /\ UNCHANGED <<status, owner, holding>>
    BY <1>5, BidFacts
  <2> DEFINE beaten == high[o.auction]
             x == AccountOf(o.purse, o.bidder)  y == AccountOf("escrow", o.bidder)
  <2>2. o.bidder \in Player /\ o.purse \in Purse /\ o.amount \in Nat
        /\ x \in Account /\ y \in Account /\ x # y
    BY OfferFacts, AccountFacts
  <2>3. balance[x] >= o.amount
    <3>1. task[t] # NoTask
      BY <2>1, TaskType
    <3> QED BY <2>1, <3>1 DEF HouseInv, Local, PurseFits, Working
  <2>4. CASE beaten = NoOffer
    <3>1. moved[t] = Legs(x, y, o.amount)
      BY <2>1, <2>4 DEF HouseInv, Local, MoneyFits, Posted, PayLegs
    <3>2. balance' = House!Moved(x, y, o.amount, balance)
      <4>1. balance \in [Account -> Int] /\ o.amount \in Int
        BY <1>0, <2>2 DEF Shape
      <4> HIDE DEF x, y
      <4> QED BY <2>1, <2>2, <3>1, <4>1, MovedIsSum
    <3>3. bid' = [bid EXCEPT ![o] = "standing"]
      BY <1>0, <2>4, OfferFacts DEF Shape
    <3>4. House!Bid(o)
      BY <2>3, <2>4, <3>2, <3>3 DEF House!Bid, House!Escrow, House!Purse, AccountOf
    <3> QED BY <3>4
  <2>5. CASE beaten # NoOffer
    <3> DEFINE v == AccountOf(beaten.purse, beaten.bidder)  w == AccountOf("escrow", beaten.bidder)
    <3>0. beaten \in Offer
      BY <1>0, <2>5 DEF Shape
    <3>1. v \in Account /\ w \in Account /\ w # v /\ beaten.amount \in Int
      BY <3>0, OfferFacts, AccountFacts
    <3>2. moved[t] = Sum(Legs(x, y, o.amount), Legs(w, v, beaten.amount))
      BY <2>1, <2>5 DEF HouseInv, Local, MoneyFits, Posted, PayLegs, RefundLegs
    <3>4. balance' = House!Moved(w, v, beaten.amount, House!Moved(x, y, o.amount, balance))
      <4>1. balance \in [Account -> Int] /\ o.amount \in Int
        BY <1>0, <2>2 DEF Shape
      <4> HIDE DEF x, y, v, w, beaten
      <4> QED BY <2>1, <2>2, <3>1, <3>2, <4>1, TwoMoves
    <3>5. bid[beaten] = "standing"
      <4>1. beaten \in Standing(o.auction)
        BY <2>5 DEF OneBidStands, The
      <4> QED BY <4>1 DEF Standing
    <3>6. bid' = [bid EXCEPT ![o] = "standing", ![beaten] = "outbid"]
      BY <1>0, <3>0, <3>5 DEF Shape
    <3>7. House!Bid(o)
      BY <2>3, <2>5, <3>4, <3>6 DEF House!Bid, House!Escrow, House!Purse, AccountOf
    <3> QED BY <3>7
  <2> QED BY <2>4, <2>5
<1> QED BY <1>1, <1>2, <1>3, <1>4, <1>5, HouseSteps DEF Commits, House!Next

\* Money, bid, auction and piece change together, in one step of what the
\* auction house promises; what a transaction did before it fails is unseen.
THEOREM HouseImplemented == Spec => ActsAtOnce
<1>1. Init => OneBidStands
  BY DEF Init, OneBidStands, Standing, Won
<1> QED BY <1>1, HouseInit, HouseStep, InvAlways, BidsStep, PTL DEF Spec, ActsAtOnce, House!Spec

----------------------------------------------------------------------------
(* The books.                                                              *)

\* What a command's legs put on each account.
LEMMA LegsAt ==
    ASSUME NEW o \in Offer, NEW p \in Player, NEW k \in Purse
    PROVE  LET escrow == AccountOf("escrow", p)  purse == AccountOf(k, p) IN
           /\ PayLegs(o)[escrow] = IF o.bidder = p THEN o.amount ELSE 0
           /\ PayLegs(o)[purse] = IF o.bidder = p /\ o.purse = k THEN -o.amount ELSE 0
           /\ PayLegs(o)[Sink] = 0
           /\ RefundLegs(o)[escrow] = IF o.bidder = p THEN -o.amount ELSE 0
           /\ RefundLegs(o)[purse] = IF o.bidder = p /\ o.purse = k THEN o.amount ELSE 0
           /\ RefundLegs(o)[Sink] = 0
           /\ SaleLegs(o)[escrow] = IF o.bidder = p THEN -(o.amount - Fee(o.amount)) ELSE 0
           /\ SaleLegs(o)[purse] =
                IF k = "bank" /\ Seller[o.auction] = p THEN o.amount - Fee(o.amount) ELSE 0
           /\ SaleLegs(o)[Sink] = 0
           /\ FeeLegs(o)[escrow] = IF o.bidder = p THEN -Fee(o.amount) ELSE 0
           /\ FeeLegs(o)[purse] = 0
           /\ FeeLegs(o)[Sink] = Fee(o.amount)
<1>1. /\ AccountOf("escrow", p) \in Account /\ AccountOf(k, p) \in Account /\ Sink \in Account
  BY AccountFacts
<1>2. /\ o.bidder \in Player /\ o.purse \in Purse /\ o.amount \in Int /\ Seller[o.auction] \in Player
      /\ Fee(o.amount) \in Int
  BY OfferFacts, FeeRoundsUp
<1>3. \A q \in Player :
        /\ AccountOf("escrow", p) = AccountOf("escrow", q) <=> p = q
        /\ \A l \in Purse : AccountOf(k, p) = AccountOf(l, q) <=> k = l /\ p = q
        /\ \A l \in Purse : AccountOf("escrow", p) # AccountOf(l, q) /\ AccountOf(k, p) # AccountOf("escrow", q)
        /\ AccountOf("escrow", q) # Sink /\ \A l \in Purse : AccountOf(l, q) # Sink
        /\ AccountOf("bank", q) = AccountOf(k, p) <=> k = "bank" /\ p = q
        /\ AccountOf("bank", q) # Sink /\ AccountOf("bank", q) # AccountOf("escrow", p)
  BY DEF AccountOf, Sink, Purse
<1> QED
  BY <1>1, <1>2, <1>3 DEF PayLegs, RefundLegs, SaleLegs, FeeLegs, Legs

\* A commit moves what was posted.
LEMMA MoneyOfBid ==
    ASSUME HouseInv, NEW t \in Txns, PlaceBid(t)
    PROVE  LET o == task[t].offer  b == high[task[t].auction] IN
           \A x \in Account :
               balance'[x] = balance[x] + PayLegs(o)[x] + (IF b = NoOffer THEN 0 ELSE RefundLegs(b)[x])
<1> DEFINE o == task[t].offer  b == high[task[t].auction]
<1>1. task[t].kind = "bid" /\ stage[t] = "commit" /\ balance' = Sum(balance, moved[t])
  BY DEF PlaceBid, Commit, CommitMoves
<1>2. moved[t] = IF b = NoOffer THEN PayLegs(o) ELSE Sum(PayLegs(o), RefundLegs(b))
  BY <1>1 DEF HouseInv, Local, MoneyFits, Posted
<1>3. balance \in [Account -> Int] /\ o \in Offer /\ b \in Offer \cup {NoOffer}
  BY <1>1, TaskType, CommandFacts DEF HouseInv, Shape
<1>4. \A z \in Offer : PayLegs(z) \in [Account -> Int] /\ RefundLegs(z) \in [Account -> Int]
  BY OfferFacts, LegsType DEF PayLegs, RefundLegs
<1> HIDE DEF o, b
<1> SUFFICES ASSUME NEW x \in Account
    PROVE  balance'[x] = balance[x] + PayLegs(o)[x] + (IF b = NoOffer THEN 0 ELSE RefundLegs(b)[x])
  BY DEF o, b
<1>5. balance[x] \in Int /\ PayLegs(o)[x] \in Int /\ (b # NoOffer => RefundLegs(b)[x] \in Int)
  BY <1>3, <1>4
<1>6. balance'[x] = balance[x] + moved[t][x]
  BY <1>1 DEF Sum
<1>7. moved[t][x] = PayLegs(o)[x] + (IF b = NoOffer THEN 0 ELSE RefundLegs(b)[x])
  BY <1>2, <1>5 DEF Sum
<1> QED BY <1>5, <1>6, <1>7

LEMMA MoneyOfSale ==
    ASSUME HouseInv, NEW t \in Txns, HandOver(t)
    PROVE  \A x \in Account : balance'[x] = balance[x] + SaleLegs(saw[t])[x] + FeeLegs(saw[t])[x]
<1> DEFINE o == saw[t]
<1>1. task[t].kind = "close" /\ stage[t] = "commit" /\ balance' = Sum(balance, moved[t])
  BY DEF HandOver, Commit, CommitMoves
<1>2. moved[t] = Sum(SaleLegs(o), FeeLegs(o))
  BY <1>1 DEF HouseInv, Local, MoneyFits, Posted
<1>3. balance \in [Account -> Int] /\ o \in Offer
  BY HandOverFacts DEF HouseInv, Shape
<1>4. SaleLegs(o) \in [Account -> Int] /\ FeeLegs(o) \in [Account -> Int]
  <2>1. Fee(o.amount) \in Int /\ o.amount \in Int
    BY <1>3, OfferFacts, FeeRoundsUp
  <2> QED BY <2>1, LegsType DEF SaleLegs, FeeLegs
<1> HIDE DEF o
<1> SUFFICES ASSUME NEW x \in Account
    PROVE  balance'[x] = balance[x] + SaleLegs(o)[x] + FeeLegs(o)[x]
  BY DEF o
<1>5. balance[x] \in Int /\ SaleLegs(o)[x] \in Int /\ FeeLegs(o)[x] \in Int
  BY <1>3, <1>4
<1>6. balance'[x] = balance[x] + (SaleLegs(o)[x] + FeeLegs(o)[x])
  BY <1>1, <1>2 DEF Sum
<1> QED BY <1>5, <1>6

\* An opening and a return move nothing.
LEMMA MoneyOfNothing ==
    ASSUME HouseInv, NEW t \in Txns, Opens(t) \/ Return(t)
    PROVE  balance' = balance
<1>1. /\ (stage[t] = "commit" /\ task[t].kind = "new") \/ stage[t] = "owners"
      /\ balance' = Sum(balance, moved[t])
  BY DEF Opens, Return, Commit, CommitMoves
<1>2. moved[t] = Nothing
  BY <1>1 DEF HouseInv, Local, MoneyFits, Posted
<1> QED BY <1>1, <1>2 DEF Sum, Nothing, HouseInv, Shape

LEMMA StakesType ==
    ASSUME NEW S \in SUBSET Offer
    PROVE  /\ IsFiniteSet(S) /\ Stakes(S) \in Int
           /\ \A o \in S : [x \in Offer |-> x.amount][o] = o.amount /\ o.amount \in Int
<1>1. IsFiniteSet(S)
  BY AuctionConstants, FS_Subset
<1>2. \A o \in S : [x \in Offer |-> x.amount][o] = o.amount /\ o.amount \in Int
  BY OfferFacts
<1> QED BY <1>1, <1>2, SumIsInt DEF Stakes

\* A sum of stakes when two bids change.
LEMMA StakesChange ==
    ASSUME NEW S \in SUBSET Offer, NEW T \in SUBSET Offer, NEW o \in Offer, S \ {o} = T \ {o}
    PROVE  Stakes(T) = Stakes(S) + (IF o \in T THEN o.amount ELSE 0) - (IF o \in S THEN o.amount ELSE 0)
<1> DEFINE f == [x \in Offer |-> x.amount]
<1>1. IsFiniteSet(S) /\ IsFiniteSet(T) /\ \A x \in S \cup T : f[x] \in Int
  BY StakesType
<1>2. f[o] = o.amount
  OBVIOUS
<1> HIDE DEF f
<1>3. SumFunctionOnSet(f, T) = SumFunctionOnSet(f, S) + (IF o \in T THEN f[o] ELSE 0) - (IF o \in S THEN f[o] ELSE 0)
  BY <1>1, SumDiffers
<1> QED BY <1>2, <1>3 DEF Stakes, f

LEMMA StakesSwap ==
    ASSUME NEW S \in SUBSET Offer, NEW T \in SUBSET Offer, NEW o \in Offer, NEW b \in Offer, o # b,
           S \ {o, b} = T \ {o, b}, o \notin S, b \notin T
    PROVE  Stakes(T) = Stakes(S) + (IF o \in T THEN o.amount ELSE 0) - (IF b \in S THEN b.amount ELSE 0)
<1> DEFINE M == S \ {b}
<1>1. M \in SUBSET Offer /\ S \ {b} = M \ {b} /\ M \ {o} = T \ {o} /\ b \notin M /\ o \notin M
  OBVIOUS
<1> HIDE DEF M
<1>2. Stakes(M) = Stakes(S) + 0 - (IF b \in S THEN b.amount ELSE 0)
  BY <1>1, StakesChange
<1>3. Stakes(T) = Stakes(M) + (IF o \in T THEN o.amount ELSE 0) - 0
  BY <1>1, StakesChange
<1>4. Stakes(S) \in Int /\ Stakes(M) \in Int /\ o.amount \in Int /\ b.amount \in Int
  BY <1>1, StakesType, OfferFacts
<1> QED BY <1>2, <1>3, <1>4

\* What is sold, by a step that sells nothing or one thing.
LEMMA SalesType ==
    ASSUME Shape, NEW S \in SUBSET Auction
    PROVE  /\ IsFiniteSet(S)
           /\ \A a \in S : Fees[a] = Fee(Price(a)) /\ Proceeds[a] = Price(a) - Fee(Price(a))
           /\ \A a \in S : Fees[a] \in Int /\ Proceeds[a] \in Int
           /\ SumFunctionOnSet(Fees, S) \in Int /\ SumFunctionOnSet(Proceeds, S) \in Int
<1>1. IsFiniteSet(S)
  BY AuctionConstants, FS_Subset
<1>2. \A a \in S : Fees[a] = Fee(Price(a)) /\ Proceeds[a] = Price(a) - Fee(Price(a))
  BY DEF Fees, Proceeds
<1>3. ASSUME NEW a \in S
      PROVE  Fees[a] \in Int /\ Proceeds[a] \in Int
  <2>1. Price(a) \in Nat
    BY OfferFacts DEF Price, Shape
  <2>2. Fee(Price(a)) \in Int
    BY <2>1, FeeRoundsUp
  <2> QED BY <1>2, <2>1, <2>2
<1> QED BY <1>1, <1>2, <1>3, SumIsInt

LEMMA NothingSold ==
    ASSUME Shape, Shape', Sold' = Sold, \A a \in Sold : high'[a] = high[a]
    PROVE  /\ SumFunctionOnSet(Fees, Sold)' = SumFunctionOnSet(Fees, Sold)
           /\ \A p : SumFunctionOnSet(Proceeds, SoldBy(p))' = SumFunctionOnSet(Proceeds, SoldBy(p))
<1>1. Sold \in SUBSET Auction /\ \A p : SoldBy(p) \in SUBSET Sold /\ SoldBy(p)' = SoldBy(p)
  BY DEF Sold, SoldBy
<1>2. \A a \in Sold : Fees'[a] = Fees[a] /\ Proceeds'[a] = Proceeds[a]
  BY <1>1 DEF Fees, Proceeds, Price
<1>3. IsFiniteSet(Sold) /\ \A p : IsFiniteSet(SoldBy(p))
  BY <1>1, SalesType
<1>4. SumFunctionOnSet(Fees', Sold) = SumFunctionOnSet(Fees, Sold)
  BY <1>2, <1>3, SumSame
<1>5. \A p : SumFunctionOnSet(Proceeds', SoldBy(p)) = SumFunctionOnSet(Proceeds, SoldBy(p))
  <2> SUFFICES ASSUME NEW p
      PROVE  SumFunctionOnSet(Proceeds', SoldBy(p)) = SumFunctionOnSet(Proceeds, SoldBy(p))
    OBVIOUS
  <2>1. IsFiniteSet(SoldBy(p)) /\ \A a \in SoldBy(p) : Proceeds'[a] = Proceeds[a]
    BY <1>1, <1>2, <1>3
  <2> QED BY <2>1, SumSame
<1> QED BY <1>1, <1>4, <1>5

LEMMA OneSold ==
    ASSUME Shape, Shape', NEW a \in Auction, status[a] # "sold",
           status' = [status EXCEPT ![a] = "sold"], high' = high
    PROVE  /\ SumFunctionOnSet(Fees, Sold)' = SumFunctionOnSet(Fees, Sold) + Fee(Price(a))
           /\ \A p : SumFunctionOnSet(Proceeds, SoldBy(p))' =
                SumFunctionOnSet(Proceeds, SoldBy(p))
                  + (IF p = Seller[a] THEN Price(a) - Fee(Price(a)) ELSE 0)
<1>1. /\ Sold' = Sold \cup {a} /\ a \notin Sold /\ Sold \in SUBSET Auction
      /\ Fees' = Fees /\ Proceeds' = Proceeds
  BY DEF Sold, Shape, Fees, Proceeds, Price
<1>2. /\ IsFiniteSet(Sold) /\ \A b \in Sold \cup {a} : Fees[b] \in Int /\ Proceeds[b] \in Int
      /\ Fees[a] = Fee(Price(a)) /\ Proceeds[a] = Price(a) - Fee(Price(a))
  BY <1>1, SalesType
<1>3. SumFunctionOnSet(Fees, Sold \cup {a}) = SumFunctionOnSet(Fees, Sold) + Fees[a]
  BY <1>1, <1>2, SumAdd
<1>4. ASSUME NEW p
      PROVE  SumFunctionOnSet(Proceeds, SoldBy(p)') =
                SumFunctionOnSet(Proceeds, SoldBy(p))
                  + (IF p = Seller[a] THEN Price(a) - Fee(Price(a)) ELSE 0)
  <2>1. /\ SoldBy(p) \in SUBSET Auction /\ a \notin SoldBy(p)
        /\ SoldBy(p)' = IF p = Seller[a] THEN SoldBy(p) \cup {a} ELSE SoldBy(p)
    BY <1>1 DEF SoldBy
  <2>2. /\ IsFiniteSet(SoldBy(p)) /\ \A b \in SoldBy(p) \cup {a} : Proceeds[b] \in Int
        /\ SumFunctionOnSet(Proceeds, SoldBy(p)) \in Int
    BY <1>2, <2>1, SalesType
  <2>3. CASE p = Seller[a]
    <3>1. SumFunctionOnSet(Proceeds, SoldBy(p) \cup {a}) = SumFunctionOnSet(Proceeds, SoldBy(p)) + Proceeds[a]
      BY <2>1, <2>2, SumAdd
    <3> QED BY <1>2, <2>1, <2>3, <3>1
  <2>4. CASE p # Seller[a]
    BY <2>1, <2>2, <2>4
  <2> QED BY <2>3, <2>4
<1> QED BY <1>1, <1>2, <1>3, <1>4

\* With the bids and the sales as they were, so are the books.
LEMMA SameBooks ==
    ASSUME Shape, Shape', BooksMatch, balance' = balance, bid' = bid,
           Sold' = Sold, \A a \in Sold : high'[a] = high[a]
    PROVE  BooksMatch'
<1>1. \A p, S : BidsBy(p, S)' = BidsBy(p, S)
  BY DEF BidsBy
<1> QED BY <1>1, NothingSold, Zenon DEF BooksMatch, EscrowMatches, PurseMatches, FeesMatch, Stakes

LEMMA BooksByBid ==
    ASSUME HouseInv, HouseInv', OneBidStands, BooksMatch, NEW t \in Txns, PlaceBid(t)
    PROVE  BooksMatch'
<1> DEFINE o == task[t].offer  b == high[o.auction]
<1>0. Shape /\ Shape'
  BY DEF HouseInv
<1>1. /\ o \in Offer /\ o.auction \in Auction /\ o.auction = task[t].auction
      /\ status[o.auction] = "open" /\ bid[o] = "none"
      /\ high' = [high EXCEPT ![o.auction] = o]
      /\ bid' = [x \in Offer |->
           CASE x = o -> "standing"
             [] x = b /\ x # o /\ bid[x] = "standing" -> "outbid"
             [] OTHER -> bid[x]]
      /\ status' = status
  BY BidFacts
<1>2. b \in Offer \cup {NoOffer} /\ (b # NoOffer => bid[b] = "standing" /\ b # o)
  <2>1. b # NoOffer => b \in Standing(o.auction)
    BY <1>1 DEF OneBidStands, The
  <2> QED BY <1>0, <1>1, <2>1 DEF Standing, Shape
<1>3. /\ bid'[o] = "standing" /\ (b # NoOffer => bid'[b] = "outbid")
      /\ \A x \in Offer \ {o, b} : bid'[x] = bid[x]
  BY <1>1, <1>2
<1>4. Sold' = Sold /\ \A a \in Sold : high'[a] = high[a]
  BY <1>0, <1>1 DEF Sold, Shape
<1>5. \A x \in Account :
         balance'[x] = balance[x] + PayLegs(o)[x] + (IF b = NoOffer THEN 0 ELSE RefundLegs(b)[x])
  BY <1>1, MoneyOfBid
<1>6. ASSUME NEW x \in Account
      PROVE  balance[x] \in Int /\ Start[x] \in Int
  BY <1>0, LedgerConstants DEF Shape
<1> HIDE DEF o, b
\* A set of bids that o may join and b may leave.
<1>7. ASSUME NEW S \in SUBSET Offer, NEW T \in SUBSET Offer, o \notin S,
             S \ {o, b} = T \ {o, b}, b \notin T
      PROVE  /\ Stakes(T) = Stakes(S) + (IF o \in T THEN o.amount ELSE 0) - (IF b \in S THEN b.amount ELSE 0)
             /\ Stakes(S) \in Int
  <2>1. CASE b \in Offer
    BY <1>1, <1>2, <1>7, <2>1, StakesSwap, StakesType, OfferFacts
  <2>2. CASE b = NoOffer
    <3>1. b \notin S /\ S \ {o} = T \ {o}
      BY <1>7, <2>2, AuctionConstants
    <3>2. Stakes(T) = Stakes(S) + (IF o \in T THEN o.amount ELSE 0) - 0
      BY <1>1, <1>7, <3>1, StakesChange
    <3>3. Stakes(S) \in Int /\ o.amount \in Int
      BY <1>1, <1>7, StakesType, OfferFacts
    <3> QED BY <3>1, <3>2, <3>3
  <2> QED BY <1>2, <2>1, <2>2
<1>8. ASSUME NEW p \in Player
      PROVE  EscrowMatches(p)'
  <2> DEFINE x == AccountOf("escrow", p)
             S == BidsBy(p, {"standing"})
             T == {z \in Offer : z.bidder = p /\ bid'[z] \in {"standing"}}
  <2>1. S \in SUBSET Offer /\ T \in SUBSET Offer /\ o \notin S /\ b \notin T /\ S \ {o, b} = T \ {o, b}
    BY <1>1, <1>2, <1>3, AuctionConstants DEF BidsBy
  <2>2. (o \in T <=> o.bidder = p) /\ (b \in S <=> b # NoOffer /\ b.bidder = p)
    BY <1>1, <1>2, <1>3, AuctionConstants DEF BidsBy
  <2> HIDE DEF S, T
  <2>3. /\ Stakes(T) = Stakes(S) + (IF o \in T THEN o.amount ELSE 0) - (IF b \in S THEN b.amount ELSE 0)
        /\ Stakes(S) \in Int
    BY <1>7, <2>1
  <2>4. /\ x \in Account /\ o.amount \in Int /\ (b # NoOffer => b.amount \in Int)
        /\ PayLegs(o)[x] = IF o.bidder = p THEN o.amount ELSE 0
        /\ b # NoOffer => RefundLegs(b)[x] = IF b.bidder = p THEN -b.amount ELSE 0
    BY <1>1, <1>2, LegsAt, AccountFacts, OfferFacts DEF Purse
  <2>5. balance[x] = Start[x] + Stakes(S)
    BY DEF BooksMatch, EscrowMatches, S
  <2>6. balance'[x] = Start[x] + Stakes(T)
    <3> HIDE DEF x
    <3> QED BY <1>5, <1>6, <2>2, <2>3, <2>4, <2>5
  <2> QED BY <2>6 DEF EscrowMatches, BidsBy, T, Stakes
<1>9. ASSUME NEW p \in Player, NEW k \in Purse
      PROVE  PurseMatches(k, p)'
  <2> DEFINE x == AccountOf(k, p)
             K == {"standing", "won"}
             S == {z \in BidsBy(p, K) : z.purse = k}
             T == {z \in {y \in Offer : y.bidder = p /\ bid'[y] \in K} : z.purse = k}
             sales == IF k = "bank" THEN SumFunctionOnSet(Proceeds, SoldBy(p)) ELSE 0
  <2>1. S \in SUBSET Offer /\ T \in SUBSET Offer /\ o \notin S /\ b \notin T /\ S \ {o, b} = T \ {o, b}
    BY <1>1, <1>2, <1>3, AuctionConstants DEF BidsBy
  <2>2. /\ o \in T <=> o.bidder = p /\ o.purse = k
        /\ b \in S <=> b # NoOffer /\ b.bidder = p /\ b.purse = k
    BY <1>1, <1>2, <1>3, AuctionConstants DEF BidsBy
  <2> HIDE DEF S, T
  <2>3. /\ Stakes(T) = Stakes(S) + (IF o \in T THEN o.amount ELSE 0) - (IF b \in S THEN b.amount ELSE 0)
        /\ Stakes(S) \in Int
    BY <1>7, <2>1
  <2>4. /\ x \in Account /\ o.amount \in Int /\ (b # NoOffer => b.amount \in Int)
        /\ PayLegs(o)[x] = IF o.bidder = p /\ o.purse = k THEN -o.amount ELSE 0
        /\ b # NoOffer => RefundLegs(b)[x] = IF b.bidder = p /\ b.purse = k THEN b.amount ELSE 0
    BY <1>1, <1>2, LegsAt, AccountFacts, OfferFacts
  <2>5. sales \in Int /\ sales' = sales
    <3>1. SoldBy(p) \in SUBSET Auction
      BY DEF Sold, SoldBy
    <3> QED BY <1>0, <1>4, <3>1, NothingSold, SalesType
  <2>6. balance[x] = Start[x] - Stakes(S) + sales
    BY DEF BooksMatch, PurseMatches, S
  <2>7. balance'[x] = Start[x] - Stakes(T) + sales
    <3> HIDE DEF x, sales
    <3> QED BY <1>5, <1>6, <2>2, <2>3, <2>4, <2>5, <2>6
  <2> QED BY <2>5, <2>7 DEF PurseMatches, BidsBy, T, Stakes
<1>10. FeesMatch'
  <2>1. \A z \in Offer : PayLegs(z)[Sink] = 0 /\ RefundLegs(z)[Sink] = 0
    <3> SUFFICES ASSUME NEW z \in Offer PROVE PayLegs(z)[Sink] = 0 /\ RefundLegs(z)[Sink] = 0
      OBVIOUS
    <3>1. z.bidder \in Player /\ z.purse \in Purse
      BY OfferFacts
    <3> QED BY <3>1, LegsAt
  <2>2. Sink \in Account
    BY AuctionConstants
  <2>3. balance'[Sink] = balance[Sink]
    BY <1>1, <1>2, <1>5, <1>6, <2>1, <2>2
  <2>4. SumFunctionOnSet(Fees, Sold)' = SumFunctionOnSet(Fees, Sold)
    BY <1>0, <1>4, NothingSold
  <2> QED BY <2>3, <2>4 DEF BooksMatch, FeesMatch
<1> QED BY <1>8, <1>9, <1>10 DEF BooksMatch

LEMMA BooksBySale ==
    ASSUME HouseInv, HouseInv', OneBidStands, BooksMatch, NEW t \in Txns, HandOver(t)
    PROVE  BooksMatch'
<1>0. Shape /\ Shape'
  BY DEF HouseInv
<1> PICK a \in Auction :
      /\ status[a] = "open" /\ saw[t] = high[a]
      /\ high[a] \in Offer /\ high[a] # NoOffer /\ high[a].auction = a
      /\ status' = [status EXCEPT ![a] = "sold"]
      /\ bid' = [bid EXCEPT ![high[a]] = "won"]
      /\ high' = high
  BY HandOverFacts
<1> DEFINE o == high[a]  fee == Fee(o.amount)
<1>1. o \in Offer /\ o.auction = a /\ bid[o] = "standing" /\ Price(a) = o.amount
  <2>1. o \in Standing(a)
    BY DEF OneBidStands, The
  <2> QED BY <2>1 DEF Standing, Price
<1>2. \A z \in Offer : bid'[z] = IF z = o THEN "won" ELSE bid[z]
  BY <1>0 DEF Shape
<1>3. \A x \in Account : balance'[x] = balance[x] + SaleLegs(o)[x] + FeeLegs(o)[x]
  BY MoneyOfSale
<1>4. ASSUME NEW x \in Account
      PROVE  balance[x] \in Int /\ Start[x] \in Int
  BY <1>0, LedgerConstants DEF Shape
<1>5. o.amount \in Int /\ fee \in Int
  BY <1>1, OfferFacts, FeeRoundsUp
<1>6. /\ SumFunctionOnSet(Fees, Sold)' = SumFunctionOnSet(Fees, Sold) + fee
      /\ \A p : SumFunctionOnSet(Proceeds, SoldBy(p))' =
           SumFunctionOnSet(Proceeds, SoldBy(p)) + (IF p = Seller[a] THEN o.amount - fee ELSE 0)
  BY <1>0, <1>1, OneSold
<1> HIDE DEF o, fee
<1>7. ASSUME NEW p \in Player
      PROVE  EscrowMatches(p)'
  <2> DEFINE x == AccountOf("escrow", p)
             S == BidsBy(p, {"standing"})
             T == {z \in Offer : z.bidder = p /\ bid'[z] \in {"standing"}}
  <2>1. S \in SUBSET Offer /\ T \in SUBSET Offer /\ S \ {o} = T \ {o} /\ o \notin T /\ (o \in S <=> o.bidder = p)
    BY <1>1, <1>2 DEF BidsBy
  <2> HIDE DEF S, T
  <2>2. Stakes(T) = Stakes(S) + 0 - (IF o \in S THEN o.amount ELSE 0) /\ Stakes(S) \in Int
    BY <1>1, <2>1, StakesChange, StakesType
  <2>3. /\ x \in Account
        /\ SaleLegs(o)[x] = IF o.bidder = p THEN -(o.amount - fee) ELSE 0
        /\ FeeLegs(o)[x] = IF o.bidder = p THEN -fee ELSE 0
    BY <1>1, LegsAt, AccountFacts DEF Purse, fee
  <2>4. balance[x] = Start[x] + Stakes(S)
    BY DEF BooksMatch, EscrowMatches, S
  <2>5. balance'[x] = Start[x] + Stakes(T)
    <3> HIDE DEF x
    <3> QED BY <1>3, <1>4, <1>5, <2>1, <2>2, <2>3, <2>4
  <2> QED BY <2>5 DEF EscrowMatches, BidsBy, T, Stakes
<1>8. ASSUME NEW p \in Player, NEW k \in Purse
      PROVE  PurseMatches(k, p)'
  <2> DEFINE x == AccountOf(k, p)
             S == {z \in BidsBy(p, {"standing", "won"}) : z.purse = k}
             sold == SumFunctionOnSet(Proceeds, SoldBy(p))
  <2>1. BidsBy(p, {"standing", "won"})' = BidsBy(p, {"standing", "won"})
    BY <1>1, <1>2 DEF BidsBy
  <2>2. S \in SUBSET Offer /\ SoldBy(p) \in SUBSET Auction
    BY DEF BidsBy, Sold, SoldBy
  <2>3. Stakes(S) \in Int /\ sold \in Int
    BY <1>0, <2>2, StakesType, SalesType
  <2>4. /\ x \in Account
        /\ SaleLegs(o)[x] = IF k = "bank" /\ Seller[a] = p THEN o.amount - fee ELSE 0
        /\ FeeLegs(o)[x] = 0
    BY <1>1, LegsAt, AccountFacts DEF fee
  <2>5. sold' = sold + (IF p = Seller[a] THEN o.amount - fee ELSE 0)
    BY <1>6
  <2>6. balance[x] = Start[x] - Stakes(S) + (IF k = "bank" THEN sold ELSE 0)
    BY DEF BooksMatch, PurseMatches
  <2>7. balance'[x] = Start[x] - Stakes(S) + (IF k = "bank" THEN sold' ELSE 0)
    <3> HIDE DEF x, S, sold
    <3> QED BY <1>3, <1>4, <1>5, <2>3, <2>4, <2>5, <2>6
  <2> QED BY <2>1, <2>7 DEF PurseMatches, Stakes
<1>9. FeesMatch'
  <2>1. SaleLegs(o)[Sink] = 0 /\ FeeLegs(o)[Sink] = fee /\ Sink \in Account
    <3>1. o.bidder \in Player /\ o.purse \in Purse
      BY <1>1, OfferFacts
    <3> QED BY <1>1, <3>1, LegsAt, AccountFacts DEF fee
  <2>2. SumFunctionOnSet(Fees, Sold) \in Int
    <3>1. Sold \in SUBSET Auction
      BY DEF Sold
    <3> QED BY <1>0, <3>1, SalesType
  <2> QED BY <1>3, <1>4, <1>5, <1>6, <2>1, <2>2 DEF BooksMatch, FeesMatch
<1> QED BY <1>7, <1>8, <1>9 DEF BooksMatch

LEMMA BooksStep == HouseInv /\ HouseInv' /\ OneBidStands /\ BooksMatch /\ [Next]_vars => BooksMatch'
<1> SUFFICES ASSUME HouseInv, HouseInv', OneBidStands, BooksMatch, [Next]_vars PROVE BooksMatch'
  OBVIOUS
<1>0. Shape /\ Shape'
  BY DEF HouseInv
<1>1. CASE HouseSame
  BY <1>0, <1>1, SameBooks DEF HouseSame, houseVars, Sold
<1>2. ASSUME NEW t \in Txns, Opens(t) PROVE BooksMatch'
  <2>1. balance' = balance /\ bid' = bid /\ high' = high
    BY <1>2, MoneyOfNothing DEF Opens
  <2>2. Sold' = Sold
    BY <1>0, <1>2, OpenFacts DEF Sold, Shape
  <2> QED BY <1>0, <2>1, <2>2, SameBooks
<1>3. ASSUME NEW t \in Txns, Return(t) PROVE BooksMatch'
  <2>1. balance' = balance /\ bid' = bid /\ high' = high
    BY <1>3, MoneyOfNothing DEF Return
  <2>2. Sold' = Sold
    BY <1>0, <1>3, ReturnFacts DEF Sold, Shape
  <2> QED BY <1>0, <2>1, <2>2, SameBooks
<1> QED BY <1>1, <1>2, <1>3, BooksByBid, BooksBySale, HouseSteps DEF Commits

LEMMA BooksInit == Init => BooksMatch
<1> SUFFICES ASSUME Init PROVE BooksMatch
  OBVIOUS
<1>1. \A p, S : "none" \notin S => BidsBy(p, S) = {}
  BY DEF Init, BidsBy
<1>2. Sold = {} /\ \A p : SoldBy(p) = {}
  BY DEF Init, Sold, SoldBy
<1>3. Stakes({}) = 0 /\ \A f : SumFunctionOnSet(f, {}) = 0
  BY SumEmpty DEF Stakes
<1>4. balance = Start /\ \A x \in Account : Start[x] \in Int
  BY LedgerConstants DEF Init, LedgerInit
<1>5. ASSUME NEW p \in Player PROVE EscrowMatches(p)
  <2>1. AccountOf("escrow", p) \in Account
    BY AccountFacts DEF Purse
  <2>2. Stakes(BidsBy(p, {"standing"})) = 0
    BY <1>1, <1>3
  <2> QED BY <1>4, <2>1, <2>2 DEF EscrowMatches
<1>6. ASSUME NEW p \in Player, NEW k \in Purse PROVE PurseMatches(k, p)
  <2>1. AccountOf(k, p) \in Account
    BY AccountFacts
  <2>2. {o \in BidsBy(p, {"standing", "won"}) : o.purse = k} = {}
    BY <1>1
  <2>3. Stakes({o \in BidsBy(p, {"standing", "won"}) : o.purse = k}) = 0
    BY <1>3, <2>2
  <2>4. SumFunctionOnSet(Proceeds, SoldBy(p)) = 0
    BY <1>2, <1>3
  <2> QED BY <1>4, <2>1, <2>3, <2>4 DEF PurseMatches
<1>7. FeesMatch
  <2>1. SumFunctionOnSet(Fees, Sold) = 0 /\ Sink \in Account
    BY <1>2, <1>3, AuctionConstants
  <2> QED BY <1>4, <2>1 DEF FeesMatch
<1> QED BY <1>5, <1>6, <1>7 DEF BooksMatch

\* Every player's escrow holds their standing bids and nothing else, every
\* purse and the system's account what the bids and the sales leave in it.
THEOREM BooksCorrect == Spec => []BooksMatch
<1>1. Init => OneBidStands
  BY DEF Init, OneBidStands, Standing, Won
<1> QED BY <1>1, InvAlways, BidsStep, BooksInit, BooksStep, PTL DEF Spec

----------------------------------------------------------------------------
(* The order of the locks: rows of auctions, then goods, then accounts by  *)
(* id.                                                                     *)

Group(l) == CASE l[1] = "auction" -> 0 [] l[1] = "items" -> 1 [] OTHER -> 2
Before(l, m) == Group(l) < Group(m) \/ (Group(l) = Group(m) /\ IdOf[l] < IdOf[m])

Holds(t) == {l \in Lock : holder[l] = t}
FirstPost == {"owners", "pay", "sale"}

\* What a transaction holds comes before what it still needs.
OrderFits(t) ==
    /\ stage[t] \in {"idle", "reading", "locking"} => Holds(t) = {}
    /\ stage[t] = "wallet" => \A l \in Holds(t) : Group(l) = 0
    /\ stage[t] = "owners" => \A l \in Holds(t) : Group(l) < 2
    /\ stage[t] \in FirstPost =>
         \A l \in Holds(t), m \in Missing(t, Needs(t)) : Before(l, m)
LocksInOrder == \A t \in Txns : OrderFits(t)

LEMMA GroupFacts ==
    /\ \A a \in Auction : Row(a) \in Lock /\ Group(Row(a)) = 0
    /\ \A p \in Player : Goods(p) \in Lock /\ Group(Goods(p)) = 1
    /\ \A x \in Account : x \in Lock /\ Group(x) = 2
    /\ \A l \in Lock : Group(l) \in 0..2 /\ IdOf[l] \in Nat
<1>1. \A a \in Auction : Row(a) \in Lock /\ Group(Row(a)) = 0
  BY AuctionConstants DEF Row, Group
<1>2. \A p \in Player : Goods(p) \in Lock /\ Group(Goods(p)) = 1
  BY AuctionConstants DEF Goods, Group
<1>3. ASSUME NEW x \in Account PROVE x \in Lock /\ Group(x) = 2
  <2>1. x[1] \in {"cash", "bank", "escrow", "sink"}
    BY AuctionConstants DEF Purse, Sink
  <2> QED BY <2>1, LedgerConstants DEF Group
<1>4. \A l \in Lock : Group(l) \in 0..2 /\ IdOf[l] \in Nat
  BY LedgerConstants DEF Group
<1> QED BY <1>1, <1>2, <1>3, <1>4

LEMMA LocksFinite == IsFiniteSet(Lock)
<1>1. IsFiniteSet({"auction"}) /\ IsFiniteSet({"items"}) /\ IsFiniteSet({Sink})
      /\ IsFiniteSet({"cash"}) /\ IsFiniteSet({"bank"}) /\ IsFiniteSet({"escrow"})
  BY FS_Singleton
<1>2. IsFiniteSet(({"cash"} \cup {"bank"}) \cup {"escrow"})
  BY <1>1, FS_Union
<1>3. IsFiniteSet(Player) /\ IsFiniteSet(Auction)
  BY AuctionConstants
<1>4. IsFiniteSet(Account)
  <2>1. Account = ((({"cash"} \cup {"bank"}) \cup {"escrow"}) \X Player) \cup {Sink}
    BY AuctionConstants DEF Purse
  <2> QED BY <1>1, <1>2, <1>3, <2>1, FS_Product, FS_Union
<1>5. IsFiniteSet(({"auction"} \X Auction) \cup ({"items"} \X Player))
  BY <1>1, <1>3, FS_Product, FS_Union
<1>6. IsFiniteSet(Account \cup (({"auction"} \X Auction) \cup ({"items"} \X Player)))
  BY <1>4, <1>5, FS_Union
<1>7. {Row(a) : a \in Auction} \subseteq {"auction"} \X Auction
      /\ {Goods(p) : p \in Player} \subseteq {"items"} \X Player
  BY DEF Row, Goods
<1>8. Lock \subseteq Account \cup (({"auction"} \X Auction) \cup ({"items"} \X Player))
  BY <1>7, AuctionConstants
<1> QED BY <1>6, <1>8, FS_Subset

\* Of some locks that are missing there is a first, and it comes before the
\* others.
LEMMA FirstIsLeast ==
    ASSUME NEW S \in SUBSET Lock, S # {}
    PROVE  FirstOf(S) \in S /\ \A k \in S \ {FirstOf(S)} : IdOf[FirstOf(S)] < IdOf[k]
<1> DEFINE Ids == {IdOf[l] : l \in S}
<1>0. \A l \in S : l \in Lock /\ IdOf[l] \in Nat
  BY LedgerConstants
<1>1. IsWellFoundedOn(OpToRel(<,Nat), Nat)
  BY NatLessThanWellFounded
<1>2. Ids \subseteq Nat /\ Ids # {}
  BY <1>0
<1>3. \E i \in Ids : \A j \in Ids : ~ (<<j, i>> \in OpToRel(<,Nat))
  <2> HIDE DEF Ids
  <2> QED BY <1>1, <1>2, WFMin
<1>4. \A i \in Ids, j \in Ids : ~ (<<j, i>> \in OpToRel(<,Nat)) => i <= j
  <2> HIDE DEF Ids
  <2> QED BY <1>2, SMT DEF OpToRel
<1>5. \E l \in S : \A k \in S : IdOf[l] <= IdOf[k]
  <2>1. PICK i \in Ids : \A j \in Ids : i <= j
    BY <1>3, <1>4
  <2>2. PICK l \in S : i = IdOf[l]
    OBVIOUS
  <2> QED BY <2>1, <2>2
<1>6. FirstOf(S) \in S /\ \A k \in S : IdOf[FirstOf(S)] <= IdOf[k]
  BY <1>5 DEF FirstOf
<1>7. \A k \in S : IdOf[FirstOf(S)] = IdOf[k] => FirstOf(S) = k
  BY <1>0, <1>6, LedgerConstants
<1>8. \A k \in S : IdOf[FirstOf(S)] \in Nat /\ IdOf[k] \in Nat
  BY <1>0, <1>6
<1> QED BY <1>6, <1>7, <1>8

\* What is needed at a time is of one group.
NeededGroup(t) == IF stage[t] = "owners" THEN 1 ELSE 2
NeedsFit ==
    \A t \in Txns :
        Needs(t) \subseteq Lock /\ \A m \in Needs(t) : Group(m) = NeededGroup(t)

LEMMA NeedsFacts == HouseInv => NeedsFit
<1> SUFFICES ASSUME HouseInv, NEW t \in Txns
             PROVE  Needs(t) \subseteq Lock /\ \A m \in Needs(t) : Group(m) = NeededGroup(t)
  BY DEF NeedsFit
<1>1. CASE stage[t] = "owners"
  <2>1. task[t].auction \in Auction
    BY <1>1, TaskType
  <2>2. saw[t] # NoOffer => saw[t] \in Offer
    BY DEF HouseInv, Shape
  <2>3. Owners(t) \subseteq Player
    BY <2>1, <2>2, AuctionFacts, OfferFacts DEF Owners
  <2>4. Needs(t) = {Goods(p) : p \in Owners(t)}
    BY <1>1 DEF Needs
  <2> QED BY <1>1, <2>3, <2>4, GroupFacts DEF NeededGroup
<1>2. CASE stage[t] # "owners"
  <2>1. Needs(t) \subseteq Account
    BY <1>2 DEF Needs, Touched
  <2> QED BY <1>2, <2>1, GroupFacts DEF NeededGroup
<1> QED BY <1>1, <1>2

LEMMA NeedsFactsAfter == (HouseInv => NeedsFit)'
BY NeedsFacts, PTL

\* A transaction that takes no part in a step, or has ended.
LEMMA OrderKept ==
    ASSUME HouseInv, LocksInOrder, NEW t \in Txns, Others(t), NEW u \in Txns \ {t}
    PROVE  OrderFits(u)'
<1>0. OrderFits(u) /\ u \in Txns
  BY DEF LocksInOrder
<1>1. task'[u] = task[u] /\ stage'[u] = stage[u] /\ saw'[u] = saw[u]
  BY DEF Others
<1>2. Holds(u)' = Holds(u)
  BY DEF Others, Holds
<1>3. ASSUME stage[u] \in FirstPost PROVE Missing(u, Needs(u))' = Missing(u, Needs(u))
  <2>1. Needs(u)' = Needs(u)
    BY <1>1, <1>3 DEF FirstPost, Needs, Owners, PostOf
  <2>2. \A l \in Needs(u) : holder'[l] # u <=> holder[l] # u
    BY NeedsFacts DEF NeedsFit, Others
  <2> QED BY <2>1, <2>2 DEF Missing
<1> QED BY <1>0, <1>1, <1>2, <1>3 DEF OrderFits

LEMMA EndedHoldsNothing ==
    ASSUME HouseInv, NEW t \in Txns, stage'[t] = "idle", holder' = Released(t)
    PROVE  OrderFits(t)'
<1>1. Holds(t)' = {}
  BY LedgerConstants DEF Holds, Released
<1> QED BY <1>1 DEF OrderFits, FirstPost

LEMMA AcquireInOrder ==
    ASSUME HouseInv, NEW t \in Txns, OrderFits(t), Acquire(t)
    PROVE  OrderFits(t)'
<1> DEFINE S == Missing(t, Needs(t))  l == FirstOf(S)
<1>0. /\ task' = task /\ stage' = stage /\ saw' = saw /\ high' = high
      /\ S # {} /\ holder[l] = NoTxn /\ holder' = [holder EXCEPT ![l] = t]
  BY DEF Acquire, TakeFirst, Take, Ready, txnVars, houseVars
<1>1. S \subseteq Needs(t) /\ S \subseteq Lock
  BY NeedsFacts DEF NeedsFit, Missing
<1>2. l \in S /\ \A k \in S \ {l} : IdOf[l] < IdOf[k]
  BY <1>0, <1>1, FirstIsLeast
<1> HIDE DEF l
<1>3. Holds(t)' = Holds(t) \cup {l}
  BY <1>0, <1>1, <1>2 DEF Holds, HouseInv, Shape
<1>4. Group(l) = NeededGroup(t)
  BY <1>1, <1>2, NeedsFacts DEF NeedsFit
<1>5. stage[t] \notin {"idle", "reading", "locking", "wallet"}
  <2>1. SUFFICES ASSUME stage[t] \in {"idle", "reading", "locking", "wallet"} PROVE FALSE
    OBVIOUS
  <2>2. Needs(t) = {}
    BY <2>1 DEF Needs, PostOf, Touched, Nothing
  <2> QED BY <1>0, <2>2 DEF Missing
<1>6. ASSUME stage[t] \in FirstPost, NEW k \in Holds(t) \cup {l}, NEW m \in Missing(t, Needs(t))'
      PROVE  Before(k, m)
  <2>1. Needs(t)' = Needs(t)
    BY <1>0 DEF Needs, Owners, PostOf
  <2>2. m \in S \ {l}
    BY <1>0, <1>1, <1>2, <2>1 DEF Missing, HouseInv, Shape
  <2>3. k \in Holds(t) => Before(k, m)
    BY <1>6, <2>2 DEF OrderFits
  <2>4. Group(m) = Group(l) /\ IdOf[l] < IdOf[m]
    BY <1>1, <1>2, <1>4, <2>2, NeedsFacts DEF NeedsFit
  <2> QED BY <2>3, <2>4 DEF Before
<1> QED BY <1>0, <1>3, <1>4, <1>5, <1>6 DEF OrderFits, NeededGroup

LEMMA OrderStep == HouseInv /\ HouseInv' /\ LocksInOrder /\ [Next]_vars => LocksInOrder'
<1> SUFFICES ASSUME HouseInv, HouseInv', LocksInOrder, [Next]_vars PROVE LocksInOrder'
  OBVIOUS
<1>0. Shape /\ Shape'
  BY DEF HouseInv
<1>1. ASSUME NEW t \in Txns,
             Advances(t) \/ Commits(t) \/ Quits(t) \/ \E c \in Command : Begin(t, c)
      PROVE  LocksInOrder'
  <2>0. OrderFits(t)
    BY DEF LocksInOrder
  <2> SUFFICES OrderFits(t)'
    BY <1>1, OthersAlone, OrderKept DEF LocksInOrder
  <2>1. CASE Commits(t) \/ Quits(t)
    <3>1. holder' = Released(t)
      BY <2>1 DEF Commits, PlaceBid, Opens, Return, HandOver, Commit, CommitMoves, Quits, Rollback, DropMoves
    <3>2. stage'[t] = "idle"
      BY <1>0, <2>1 DEF Commits, PlaceBid, Opens, Return, HandOver, Commit, Quits,
         Rollback, Leave, Goto, Shape
    <3> QED BY <3>1, <3>2, EndedHoldsNothing
  <2>2. CASE Acquire(t)
    BY <2>0, <2>2, AcquireInOrder
  <2>3. CASE ReadAuction(t)
    <3>1. stage'[t] = "locking" /\ stage[t] = "reading" /\ holder' = holder
      BY <1>0, <2>3 DEF ReadAuction, Goto, Shape, ledgerVars
    <3> QED BY <2>0, <3>1 DEF OrderFits, Holds, FirstPost
  <2>4. ASSUME NEW c \in Command, Begin(t, c) PROVE OrderFits(t)'
    <3>1. stage'[t] \in {"owners", "reading"} /\ stage[t] = "idle" /\ holder' = holder
      BY <1>0, <2>4 DEF Begin, Goto, Shape, ledgerVars, HouseInv, Local, StageFits
    <3> QED BY <2>0, <3>1 DEF OrderFits, Holds, FirstPost
  <2>5. CASE BidLocks(t) \/ LockClose(t)
    <3> DEFINE r == Row(task[t].auction)
    <3>1. stage[t] = "locking" /\ stage'[t] \in {"wallet", "owners"}
          /\ holder' = [holder EXCEPT ![r] = t]
      BY <1>0, <2>5 DEF BidLocks, LockClose, Goto, Shape, Take
    <3>2. Group(r) = 0
      BY <3>1, TaskType, GroupFacts
    <3> HIDE DEF r
    <3>3. Holds(t)' \subseteq {r}
      BY <1>0, <2>0, <3>1 DEF OrderFits, Holds, Shape
    <3>4. stage'[t] = "owners" => \A m \in Missing(t, Needs(t))' : Group(m) = 1
      BY NeedsFactsAfter DEF NeedsFit, Missing, NeededGroup
    <3> QED BY <3>1, <3>2, <3>3, <3>4 DEF OrderFits, FirstPost, Before
  <2>6. CASE Affords(t) \/ Sell(t)
    <3>1. stage[t] \in {"wallet", "owners"} /\ stage'[t] \in {"pay", "sale"} /\ holder' = holder
      BY <1>0, <2>6 DEF Affords, Sell, Goto, Shape, ledgerVars
    <3>2. \A l \in Holds(t)' : Group(l) < 2
      BY <2>0, <3>1 DEF OrderFits, Holds
    <3>3. \A m \in Missing(t, Needs(t))' : Group(m) = 2
      BY <3>1, NeedsFactsAfter DEF NeedsFit, Missing, NeededGroup
    <3> QED BY <3>1, <3>2, <3>3 DEF OrderFits, FirstPost, Before
  <2>7. CASE PostLegs(t) \/ Asked(t)
    <3>1. stage'[t] \in {"refund", "fee", "commit"}
      BY <1>0, <2>7 DEF PostLegs, Asked, After, Goto, Shape
    <3> QED BY <3>1 DEF OrderFits, FirstPost
  <2> QED BY <1>1, <2>1, <2>2, <2>3, <2>4, <2>5, <2>6, <2>7 DEF Advances
<1>2. CASE HouseSame /\ UNCHANGED <<holder, txnVars>>
  <2>1. \A t \in Txns : Needs(t)' = Needs(t)
    BY <1>2 DEF HouseSame, houseVars, txnVars, Needs, Owners, PostOf
  <2> QED BY <1>2, <2>1 DEF LocksInOrder, OrderFits, Holds, Missing, txnVars
<1>3. CASE \E a \in Auction : EndPasses(a)
  BY <1>2, <1>3 DEF EndPasses, HouseSame, ledgerVars
<1>4. CASE UNCHANGED vars
  BY <1>2, <1>4 DEF vars, HouseSame, ledgerVars
<1> QED BY <1>0, <1>1, <1>3, <1>4, Outcomes DEF Next

LEMMA OrderInit == Init => LocksInOrder
<1> SUFFICES ASSUME Init, NEW t \in Txns PROVE OrderFits(t)
  BY DEF LocksInOrder
<1>1. Holds(t) = {}
  BY LedgerConstants DEF Init, LedgerInit, Holds
<1> QED BY <1>1 DEF Init, OrderFits, FirstPost

LEMMA WantedIsALock ==
    ASSUME HouseInv, NEW t \in Txns
    PROVE  Wanted[t] \subseteq Lock
<1>1. CASE stage[t] = "locking"
  BY <1>1, TaskType DEF Wanted
<1>2. CASE stage[t] # "locking"
  <2>1. Missing(t, Needs(t)) \in SUBSET Lock
    BY NeedsFacts DEF NeedsFit, Missing
  <2>2. Missing(t, Needs(t)) # {} => FirstOf(Missing(t, Needs(t))) \in Lock
    BY <2>1, FirstIsLeast
  <2> QED BY <1>2, <2>2 DEF Wanted, Ready
<1> QED BY <1>1, <1>2

\* What a transaction holds comes before what it waits for, but in a second post.
LEMMA WaitsUpward ==
    ASSUME HouseInv, LocksInOrder, NEW t \in Txns, stage[t] \notin {"refund", "fee"},
           NEW k \in Holds(t), NEW m \in Wanted[t]
    PROVE  Before(k, m)
<1>1. OrderFits(t)
  BY DEF LocksInOrder
<1>2. stage[t] # "locking"
  BY <1>1 DEF OrderFits
<1>3. Missing(t, Needs(t)) # {} /\ m = FirstOf(Missing(t, Needs(t)))
  BY <1>2 DEF Wanted, Ready
<1>4. Missing(t, Needs(t)) \in SUBSET Lock
  BY NeedsFacts DEF NeedsFit, Missing
<1>5. m \in Missing(t, Needs(t))
  BY <1>3, <1>4, FirstIsLeast
<1>6. stage[t] \in FirstPost
  <2>1. SUFFICES ASSUME stage[t] \notin FirstPost PROVE FALSE
    OBVIOUS
  <2>2. stage[t] \notin {"owners", "pay", "sale", "refund", "fee"}
    BY <2>1 DEF FirstPost
  <2>3. Needs(t) = {}
    BY <2>2 DEF Needs, PostOf, Touched, Nothing
  <2> QED BY <1>3, <2>3 DEF Missing
<1> QED BY <1>1, <1>5, <1>6 DEF OrderFits

\* In a circle of waits someone waits for a lock that does not come after the
\* one they are waited for.
LEMMA SomeoneTurnsBack ==
    ASSUME HouseInv, NEW S \in SUBSET Txns, Cycle(S, Wanted),
           \A t \in S : \A k \in Holds(t), m \in Wanted[t] : Before(k, m)
    PROVE  FALSE
<1> DEFINE W == {l \in Lock : \E t \in S : l \in Wanted[t] /\ holder[l] \in S}
           Above(k) == {m \in W : Before(k, m)}
<1>1. \A t \in S : \E l \in Wanted[t] : holder[l] \in S
  BY DEF Cycle
<1>2. \A k \in W : \E m \in W : Before(k, m)
  <2> SUFFICES ASSUME NEW k \in W PROVE \E m \in W : Before(k, m)
    OBVIOUS
  <2>1. holder[k] \in S /\ k \in Holds(holder[k])
    BY DEF Holds
  <2>2. PICK m \in Wanted[holder[k]] : holder[m] \in S
    BY <1>1, <2>1
  <2>3. m \in Lock /\ Before(k, m)
    BY <2>1, <2>2, WantedIsALock
  <2> QED BY <2>1, <2>2, <2>3
<1>3. \A k \in W, m \in W, n \in W :
         /\ ~ Before(k, k)
         /\ Before(k, m) /\ Before(m, n) => Before(k, n)
  <2>1. \A l \in W : Group(l) \in Int /\ IdOf[l] \in Int
    BY GroupFacts
  <2> HIDE DEF W
  <2> QED BY <2>1 DEF Before
<1>4. W # {}
  <2>1. PICK t \in S : TRUE
    BY DEF Cycle
  <2>2. PICK l \in Wanted[t] : holder[l] \in S
    BY <1>1
  <2>3. l \in Lock
    BY <2>2, WantedIsALock
  <2> QED BY <2>2, <2>3
<1>5. IsFiniteSet(W)
  BY LocksFinite, FS_Subset
<1>6. PICK k \in W : \A m \in W : Above(m) \subseteq Above(k) => Above(m) = Above(k)
  <2> HIDE DEF W
  <2> DEFINE U == {Above(k) : k \in W}
  <2>0. \A k : Above(k) \in SUBSET W
    OBVIOUS
  <2>1. U \subseteq SUBSET W /\ U # {}
    <3> HIDE DEF Above
    <3> QED BY <1>4, <2>0
  <2>2. \E x \in U : \A y \in U : y \subseteq x => y = x
    <3> HIDE DEF U
    <3> QED BY <1>5, <2>1, LeastSet
  <2>3. PICK x \in U : \A y \in U : y \subseteq x => y = x
    BY <2>2
  <2>4. PICK k \in W : x = Above(k)
    BY <2>3
  <2>5. \A m \in W : Above(m) \in U
    OBVIOUS
  <2> HIDE DEF U, Above
  <2> QED BY <2>3, <2>4, <2>5
<1> HIDE DEF W
<1>7. PICK m \in W : Before(k, m)
  BY <1>2
<1>8. Above(m) \subseteq Above(k)
  BY <1>3, <1>7
<1>9. m \in Above(k) /\ m \notin Above(m)
  BY <1>3, <1>7
<1> QED BY <1>6, <1>8, <1>9

LEMMA OrderedMeansSecondPost == HouseInv /\ LocksInOrder => CyclesHaveASecondPost
<1> SUFFICES ASSUME HouseInv, LocksInOrder, NEW S \in SUBSET Txns, Cycle(S, Wanted),
                    \A t \in S : stage[t] \notin {"refund", "fee"}
             PROVE  FALSE
  BY DEF CyclesHaveASecondPost
<1> QED BY WaitsUpward, SomeoneTurnsBack

\* Whoever waits for each other, one of them is at its second post: locks are
\* taken in one order up to the first.
THEOREM CyclesCorrect == Spec => []CyclesHaveASecondPost
BY InvAlways, OrderInit, OrderStep, OrderedMeansSecondPost, PTL DEF Spec

----------------------------------------------------------------------------
(* What the highest bid rests on.                                          *)

\* The auction's row, when it is had, comes with the bid that stands then.
JoinIsFresh ==
    \A t \in Txns :
        stage[t] = "locking" /\ stage'[t] \notin {"locking", "idle"} =>
            saw[t] = high[task[t].auction]

SeesTheHigh(t) ==
    AtRow(t) =>
        /\ saw[t] = high[task[t].auction]
        /\ Working(t, "bid") => task[t].offer.amount >= MinNext(high[task[t].auction])

HighIsHighest ==
    \A o \in Offer : bid[o] # "none" =>
        /\ high[o.auction] # NoOffer /\ o.amount <= high[o.auction].amount
        /\ status[o.auction] # "unsold"

RisingInv == HighIsHighest /\ \A t \in Txns : SeesTheHigh(t)

LEMMA RisingByBid ==
    ASSUME HouseInv, RisingInv, NEW t \in Txns, PlaceBid(t)
    PROVE  HighIsHighest'
<1> PICK o \in Offer :
      /\ o = task[t].offer /\ o.auction = task[t].auction /\ o.auction \in Auction
      /\ status[o.auction] = "open"
      /\ high' = [high EXCEPT ![o.auction] = o]
      /\ bid' = [x \in Offer |->
           CASE x = o -> "standing"
             [] x = high[o.auction] /\ x # o /\ bid[x] = "standing" -> "outbid"
             [] OTHER -> bid[x]]
      /\ status' = status
  BY BidFacts
<1>0. Shape
  BY DEF HouseInv
<1>1. AtRow(t) /\ Working(t, "bid")
  BY TaskType DEF AtRow, Working, PlaceBid
<1>2. o.amount >= MinNext(high[o.auction])
  BY <1>1 DEF RisingInv, SeesTheHigh
<1>3. high[o.auction] # NoOffer => o.amount >= high[o.auction].amount
  <2> SUFFICES ASSUME high[o.auction] # NoOffer PROVE o.amount >= high[o.auction].amount
    OBVIOUS
  <2>1. high[o.auction] \in Offer
    BY <1>0 DEF Shape
  <2>2. high[o.auction].amount \in Nat /\ o.amount \in Nat
    BY <2>1, OfferFacts
  <2>3. StepOver(high[o.auction].amount) \in Int /\ StepOver(high[o.auction].amount) >= 0
    BY <2>2, StepOverIsNatural
  <2>4. o.amount >= high[o.auction].amount + StepOver(high[o.auction].amount)
    BY <1>2 DEF MinNext
  <2> QED BY <2>2, <2>3, <2>4
<1> SUFFICES ASSUME NEW x \in Offer, bid'[x] # "none"
    PROVE  /\ high'[x.auction] # NoOffer /\ x.amount <= high'[x.auction].amount
           /\ status'[x.auction] # "unsold"
  BY DEF HighIsHighest
<1>4. x.amount \in Nat /\ x.auction \in Auction /\ o.amount \in Nat /\ o # NoOffer
  BY OfferFacts
<1>5. high'[o.auction] = o /\ \A a \in Auction : a # o.auction => high'[a] = high[a]
  BY <1>0 DEF Shape
<1>6. CASE x = o
  BY <1>4, <1>5, <1>6
<1>7. CASE x # o
  <2>1. bid[x] # "none"
    BY <1>7
  <2>2. high[x.auction] # NoOffer /\ x.amount <= high[x.auction].amount /\ status[x.auction] # "unsold"
    BY <2>1 DEF RisingInv, HighIsHighest
  <2>3. CASE x.auction = o.auction
    <3>1. high[o.auction].amount \in Nat
      BY <1>0, <2>2, <2>3, OfferFacts DEF Shape
    <3> QED BY <1>3, <1>4, <1>5, <2>2, <2>3, <3>1
  <2>4. CASE x.auction # o.auction
    BY <1>4, <1>5, <2>2, <2>4
  <2> QED BY <2>3, <2>4
<1> QED BY <1>6, <1>7

LEMMA RisingByOthers ==
    ASSUME HouseInv, RisingInv, NEW t \in Txns, Opens(t) \/ Return(t) \/ HandOver(t)
    PROVE  HighIsHighest'
<1>0. Shape
  BY DEF HouseInv
<1>1. CASE Opens(t)
  <2> PICK a \in Auction :
        /\ status' = [status EXCEPT ![a] = "open"] /\ UNCHANGED <<high, bid>>
    BY <1>1, OpenFacts
  <2> QED BY <1>0, OfferFacts DEF RisingInv, HighIsHighest, Shape
<1>2. CASE Return(t)
  <2>1. AtRow(t) /\ saw[t] = NoOffer
    BY <1>2, TaskType DEF Return, AtRow
  <2>2. high[task[t].auction] = NoOffer
    BY <2>1 DEF RisingInv, SeesTheHigh
  <2> PICK a \in Auction :
        /\ a = task[t].auction
        /\ status' = [status EXCEPT ![a] = "unsold"] /\ UNCHANGED <<high, bid>>
    BY <1>2, ReturnFacts
  <2> QED BY <1>0, <2>2, OfferFacts DEF RisingInv, HighIsHighest, Shape
<1>3. CASE HandOver(t)
  <2> PICK a \in Auction :
        /\ high[a] \in Offer /\ high[a] # NoOffer /\ high[a].auction = a /\ status[a] = "open"
        /\ status' = [status EXCEPT ![a] = "sold"]
        /\ bid' = [bid EXCEPT ![high[a]] = "won"]
        /\ high' = high
    BY <1>3, HandOverFacts
  <2>1. \A o \in Offer : bid'[o] # "none" => o = high[a] \/ bid[o] # "none"
    BY <1>0 DEF Shape
  <2>2. high[a].amount <= high[a].amount
    BY OfferFacts
  <2> QED BY <1>0, <2>1, <2>2, OfferFacts DEF RisingInv, HighIsHighest, Shape
<1> QED BY <1>1, <1>2, <1>3

\* What others see of their auctions stays as it is.
LEMMA SeesKept ==
    ASSUME HouseInv, HouseInv', RisingInv, NEW t \in Txns, Others(t),
           HouseSame \/ Commits(t), NEW u \in Txns \ {t}
    PROVE  SeesTheHigh(u)'
<1>0. Shape
  BY DEF HouseInv
<1>1. task'[u] = task[u] /\ stage'[u] = stage[u] /\ saw'[u] = saw[u]
  BY DEF Others
<1> SUFFICES ASSUME AtRow(u), AtRow(u)' PROVE high'[task[u].auction] = high[task[u].auction]
  BY <1>1 DEF SeesTheHigh, AtRow, Working, RisingInv
<1>2. holder[Row(task[u].auction)] = u
  BY DEF HouseInv, Local, RowFits
<1>3. ASSUME PlaceBid(t) PROVE high'[task[u].auction] = high[task[u].auction]
  <2>1. AtRow(t)
    BY <1>3, TaskType DEF AtRow, PlaceBid
  <2>2. holder[Row(task[t].auction)] = t
    BY <2>1 DEF HouseInv, Local, RowFits
  <2>3. task[t].auction # task[u].auction
    BY <1>2, <2>2
  <2>4. PICK o \in Offer : o.auction = task[t].auction /\ high' = [high EXCEPT ![o.auction] = o]
    BY <1>3, BidFacts
  <2>5. task[u].auction \in Auction
    BY TaskType DEF AtRow, HouseInv, Local, StageFits
  <2> QED BY <1>0, <2>3, <2>4, <2>5 DEF Shape
<1> QED BY <1>3 DEF Commits, Opens, Return, HandOver, HouseSame, houseVars

LEMMA RisingStep == HouseInv /\ HouseInv' /\ RisingInv /\ [Next /\ JoinIsFresh]_vars => RisingInv'
<1> SUFFICES ASSUME HouseInv, HouseInv', RisingInv, [Next /\ JoinIsFresh]_vars PROVE RisingInv'
  OBVIOUS
<1>0. Shape /\ Shape'
  BY DEF HouseInv
<1>1. HighIsHighest'
  <2>1. CASE HouseSame
    BY <2>1 DEF HouseSame, houseVars, RisingInv, HighIsHighest
  <2> QED BY <2>1, HouseSteps, RisingByBid, RisingByOthers DEF Commits
<1>2. CASE UNCHANGED <<houseVars, txnVars>>
  BY <1>1, <1>2 DEF RisingInv, SeesTheHigh, AtRow, Working, houseVars, txnVars
<1>3. CASE \E a \in Auction : EndPasses(a)
  BY <1>2, <1>3 DEF EndPasses
<1>4. CASE UNCHANGED vars
  BY <1>2, <1>4 DEF vars
<1>5. ASSUME JoinIsFresh, NEW t \in Txns,
             Advances(t) \/ Commits(t) \/ Quits(t) \/ \E c \in Command : Begin(t, c)
      PROVE  RisingInv'
  <2>1. Others(t)
    BY <1>5, OthersAlone
  <2>2. HouseSame \/ Commits(t)
    BY <1>5 DEF Advances, ReadAuction, BidLocks, LockClose, Acquire, TakeFirst, Take, Affords,
       PostLegs, Post, Asked, Sell, Quits, Rollback, DropMoves, Begin, ledgerVars, houseVars, HouseSame
  <2> SUFFICES SeesTheHigh(t)'
    BY <1>1, <2>1, <2>2, SeesKept DEF RisingInv
  <2>3. CASE Commits(t) \/ Quits(t)
    <3>1. task'[t] = NoTask
      BY <1>0, <2>3 DEF Commits, PlaceBid, Opens, Return, HandOver, Commit, Quits,
         Rollback, Leave, Shape
    <3> QED BY <3>1 DEF SeesTheHigh, AtRow
  <2>4. CASE ReadAuction(t)
    <3>1. stage'[t] = "locking"
      BY <1>0, <2>4 DEF ReadAuction, Goto, Shape
    <3> QED BY <3>1 DEF SeesTheHigh, AtRow
  <2>5. ASSUME NEW c \in Command, Begin(t, c) PROVE SeesTheHigh(t)'
    <3>1. task'[t] = c /\ stage'[t] = IF c.kind = "new" THEN "owners" ELSE "reading"
      BY <1>0, <2>5 DEF Begin, Goto, Shape
    <3> QED BY <3>1 DEF SeesTheHigh, AtRow
  <2>6. CASE BidLocks(t) \/ LockClose(t)
    <3>1. /\ stage[t] = "locking" /\ stage'[t] \in {"wallet", "owners"}
          /\ task' = task /\ high' = high /\ saw'[t] = Joined(t)
      BY <1>0, <2>6 DEF BidLocks, LockClose, Goto, Shape, houseVars
    <3>2. saw[t] = high[task[t].auction]
      BY <1>5, <3>1 DEF JoinIsFresh
    <3>3. Joined(t) = high[task[t].auction]
      BY <3>2 DEF Joined
    <3>4. BidLocks(t) => task[t].offer.amount >= MinNext(high[task[t].auction])
      BY <3>3 DEF BidLocks, Beats
    <3>5. LockClose(t) => ~ Working(t, "bid")
      BY DEF LockClose, Working
    <3> QED BY <2>6, <3>1, <3>3, <3>4, <3>5 DEF SeesTheHigh, Working
  <2>7. CASE Acquire(t) \/ Affords(t) \/ PostLegs(t) \/ Asked(t) \/ Sell(t)
    <3>1. task' = task /\ saw' = saw /\ high' = high
      BY <2>7 DEF Acquire, Affords, PostLegs, Asked, Sell, houseVars, txnVars
    <3>2. stage[t] \in {"reading", "locking"} => stage'[t] = stage[t]
      BY <2>7 DEF Acquire, Affords, PostLegs, Asked, Sell, txnVars
    <3>3. AtRow(t)' => AtRow(t)
      BY <3>1, <3>2 DEF AtRow
    <3> QED BY <3>1, <3>3 DEF SeesTheHigh, Working, RisingInv
  <2> QED BY <1>5, <2>3, <2>4, <2>5, <2>6, <2>7 DEF Advances
<1> QED BY <1>0, <1>3, <1>4, <1>5, Outcomes DEF Next

\* The one thing between the code and its promise is the stale join of the
\* standing bid: where the row never comes with another bid than the one that
\* stands, an auction sells to its highest bid, and is unsold only without one.
THEOREM HighestWinsIfFresh == Spec /\ [][JoinIsFresh]_vars => []HighestBidWins
<1>1. Init => RisingInv
  BY DEF Init, RisingInv, HighIsHighest, SeesTheHigh, AtRow
<1>2. RisingInv => HighestBidWins
  BY DEF RisingInv, HighIsHighest, HighestBidWins
<1>3. [Next]_vars /\ [JoinIsFresh]_vars => [Next /\ JoinIsFresh]_vars
  OBVIOUS
<1> QED BY <1>1, <1>2, <1>3, InvAlways, RisingStep, PTL DEF Spec
=============================================================================
