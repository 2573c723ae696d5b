------------------------------ MODULE Auctions ------------------------------
(***************************************************************************)
(* The auction house (internal/application/handlers/auctions.go,           *)
(* internal/infrastructure/postgres/trade.go): pieces put up, bids paid    *)
(* into escrow and paid back when beaten, and closes run by the scheduler, *)
(* as interleaving transactions under READ COMMITTED.                      *)
(*                                                                         *)
(* A command has one idempotency key, kept by the transaction that did it. *)
(* A command that is replayed does nothing, and so does one that waits for *)
(* the key of a transaction under way; the model has neither step.         *)
(***************************************************************************)
EXTENDS Ledger, FiniteSets, Functions

CONSTANTS
    Player,
    Auction,            \* rows of auctions, known by the command that opens them
    Seller, PieceOf,    \* who puts up what
    Offer,              \* the bids players make
    NoOffer, NoTask,
    Reserve, StepBPS, MinStep, FeeBPS, MaxOpen,
    MaxFaults           \* a bound

BPS == 10000
Purse == {"cash", "bank"}
Piece == {PieceOf[a] : a \in Auction}

AccountOf(kind, p) == <<kind, p>>
Sink == <<"sink", "system">>
Row(a) == <<"auction", a>>
Goods(p) == <<"items", p>>

Opening(a) == [kind |-> "new", auction |-> a, offer |-> NoOffer]
Bidding(o) == [kind |-> "bid", auction |-> o.auction, offer |-> o]
Closing(a) == [kind |-> "close", auction |-> a, offer |-> NoOffer]
Command ==
    {Opening(a) : a \in Auction} \cup {Bidding(o) : o \in Offer} \cup {Closing(a) : a \in Auction}

ASSUME AuctionConstants ==
    /\ IsFiniteSet(Player) /\ IsFiniteSet(Auction) /\ IsFiniteSet(Offer)
    /\ Seller \in [Auction -> Player]
    /\ DOMAIN PieceOf = Auction
    /\ Offer \subseteq [bidder : Player, auction : Auction, purse : Purse, amount : Nat \ {0}]
    /\ NoOffer \notin Offer /\ NoTask \notin Command
    /\ Account = (Purse \cup {"escrow"}) \X Player \cup {Sink}
    /\ Lock = Account \cup {Row(a) : a \in Auction} \cup {Goods(p) : p \in Player}
    /\ MayOwe = {Sink}
    /\ {Reserve, MinStep, MaxOpen} \subseteq Nat \ {0}
    /\ {StepBPS, FeeBPS} \subseteq 0..BPS
    /\ MaxFaults \in Nat

VARIABLES
    status,     \* auctions.status, "none": no row
    high,       \* auctions.high_bid_id
    bid,        \* auction_bids.status, "none": no row
    owner,      \* who holds a piece
    holding,    \* and where
    ended,      \* the auctions whose end has passed
    keys,       \* the commands done
    task,       \* a transaction's command
    stage,      \* how far it is
    saw,        \* the standing bid it goes by
    faults

houseVars == <<status, high, bid, owner, holding, keys>>
txnVars == <<task, stage, saw>>
vars == <<ledgerVars, houseVars, txnVars, ended, faults>>

Stage == {"idle", "reading", "locking", "owners", "wallet", "pay", "refund", "sale", "fee", "commit"}

TypeOK ==
    /\ LedgerTypeOK
    /\ status \in [Auction -> {"none", "open", "sold", "unsold"}]
    /\ high \in [Auction -> Offer \cup {NoOffer}]
    /\ bid \in [Offer -> {"none", "standing", "outbid", "won"}]
    /\ owner \in [Piece -> Player]
    /\ holding \in [Piece -> {"carried", "escrow"}]
    /\ keys \in SUBSET Command
    /\ task \in [Txns -> Command \cup {NoTask}]
    /\ stage \in [Txns -> Stage]
    /\ saw \in [Txns -> Offer \cup {NoOffer}]
    /\ ended \in SUBSET Auction
    /\ faults \in 0..MaxFaults

\* A piece starts with one who puts it up.
Init ==
    /\ LedgerInit
    /\ status = [a \in Auction |-> "none"]
    /\ high = [a \in Auction |-> NoOffer]
    /\ bid = [o \in Offer |-> "none"]
    /\ owner \in [Piece -> Player]
    /\ \A x \in Piece : \E a \in Auction : PieceOf[a] = x /\ Seller[a] = owner[x]
    /\ holding = [x \in Piece |-> "carried"]
    /\ ended = {} /\ keys = {}
    /\ task = [t \in Txns |-> NoTask]
    /\ stage = [t \in Txns |-> "idle"]
    /\ saw = [t \in Txns |-> NoOffer]
    /\ faults = 0

Fault == faults < MaxFaults /\ faults' = faults + 1

----------------------------------------------------------------------------
(* domain/auction                                                          *)

Larger(m, n) == IF m >= n THEN m ELSE n
Smaller(m, n) == IF m <= n THEN m ELSE n

\* Amounts are minor units a balance covers: far below where int64 ends.
StepOver(n) == Larger((n * StepBPS + BPS - 1) \div BPS, MinStep)
MinNext(o) == IF o = NoOffer THEN Reserve ELSE o.amount + StepOver(o.amount)
Fee(price) == Smaller((price * FeeBPS + BPS - 1) \div BPS, price)

\* PlaceBid.  The end was compared when the command began.
Beats(o, standing) ==
    /\ o.bidder # Seller[o.auction]
    /\ standing = NoOffer \/ standing.bidder # o.bidder
    /\ o.amount >= MinNext(standing)

----------------------------------------------------------------------------
(* Transactions.                                                           *)

Goto(t, s) == stage' = [stage EXCEPT ![t] = s]

Leave(t) ==
    /\ task' = [task EXCEPT ![t] = NoTask]
    /\ saw' = [saw EXCEPT ![t] = NoOffer]
    /\ Goto(t, "idle")

\* Mutant: the key is reserved outside the transaction.
Rollback_KeepsKey(t) ==
    /\ DropMoves(t)
    /\ Leave(t)
    /\ keys' = keys \cup {task[t]}
    /\ UNCHANGED <<status, high, bid, owner, holding>>

Rollback(t) ==
    /\ DropMoves(t)
    /\ Leave(t)
    /\ UNCHANGED houseVars

Commit(t) ==
    /\ CommitMoves(t)
    /\ keys' = keys \cup {task[t]}
    /\ Leave(t)

CountOpen(p) == Cardinality({a \in Auction : Seller[a] = p /\ status[a] = "open"})

\* movePiece moves a piece only if the side it leaves still holds it.
Held(a, where) == owner[PieceOf[a]] = Seller[a] /\ holding[PieceOf[a]] = where

\* New
MayOpen(a) == Held(a, "carried") /\ CountOpen(Seller[a]) < MaxOpen

\* What would be refused as things stand is left out: it changes nothing.
Worthwhile(c) ==
    CASE c.kind = "new" -> MayOpen(c.auction)
      [] c.kind = "bid" ->
           /\ status[c.auction] = "open" /\ c.auction \notin ended
           /\ balance[AccountOf(c.offer.purse, c.offer.bidder)] >= c.offer.amount
      [] c.kind = "close" -> status[c.auction] = "open" /\ c.auction \in ended

\* The key is reserved, and a bid reads its clock.
Begin(t, c) ==
    /\ task[t] = NoTask
    /\ c \notin keys /\ \A u \in Txns : task[u] # c
    /\ Worthwhile(c)
    /\ task' = [task EXCEPT ![t] = c]
    /\ Goto(t, IF c.kind = "new" THEN "owners" ELSE "reading")
    /\ UNCHANGED <<ledgerVars, houseVars, saw, ended, faults>>

\* AuctionByNo and Auction join the standing bid to the row: the statement's
\* snapshot is taken before it has the row's lock.
ReadAuction(t) ==
    /\ stage[t] = "reading"
    /\ saw' = [saw EXCEPT ![t] = high[task[t].auction]]
    /\ Goto(t, "locking")
    /\ UNCHANGED <<ledgerVars, houseVars, task, ended, faults>>

\* If the row changed before the lock was had, PostgreSQL takes the row as it
\* is now, but joins it to the bid of the snapshot: if another bid stands
\* now, the join finds none.
Joined(t) == IF saw[t] = high[task[t].auction] THEN saw[t] ELSE NoOffer

LockBid(t) ==
    LET c == task[t] IN
    /\ stage[t] = "locking" /\ c.kind = "bid"
    /\ IF status[c.auction] = "open" /\ Beats(c.offer, Joined(t))
       THEN /\ Take(t, Row(c.auction))
            /\ saw' = [saw EXCEPT ![t] = Joined(t)]
            /\ Goto(t, "wallet")
            /\ UNCHANGED <<houseVars, task>>
       ELSE holder[Row(c.auction)] = NoTxn /\ Rollback(t)
    /\ UNCHANGED <<ended, faults>>

LockClose(t) ==
    LET c == task[t] IN
    /\ stage[t] = "locking" /\ c.kind = "close"
    /\ Take(t, Row(c.auction))
    /\ saw' = [saw EXCEPT ![t] = Joined(t)]
    /\ Goto(t, "owners")
    /\ UNCHANGED <<houseVars, task, ended, faults>>

\* Whose goods a command locks, and what it posts.
Owners(t) ==
    {Seller[task[t].auction]} \cup (IF saw[t] = NoOffer THEN {} ELSE {saw[t].bidder})

\* Mutant: paid back in cash, whatever it was paid from.
PostOf_InCash(t) ==
    LET c == task[t]
        beaten == high[c.auction] IN
    CASE stage[t] = "pay" ->
           Legs(AccountOf(c.offer.purse, c.offer.bidder), AccountOf("escrow", c.offer.bidder), c.offer.amount)
      [] stage[t] = "refund" ->
           Legs(AccountOf("escrow", beaten.bidder), AccountOf("cash", beaten.bidder), beaten.amount)
      [] stage[t] = "sale" ->
           Legs(AccountOf("escrow", saw[t].bidder), AccountOf("bank", Seller[c.auction]),
                saw[t].amount - Fee(saw[t].amount))
      [] stage[t] = "fee" -> Legs(AccountOf("escrow", saw[t].bidder), Sink, Fee(saw[t].amount))
      [] OTHER -> Nothing

PostOf(t) ==
    LET c == task[t]
        beaten == high[c.auction] IN
    CASE stage[t] = "pay" ->
           Legs(AccountOf(c.offer.purse, c.offer.bidder), AccountOf("escrow", c.offer.bidder), c.offer.amount)
      [] stage[t] = "refund" ->
           Legs(AccountOf("escrow", beaten.bidder), AccountOf(beaten.purse, beaten.bidder), beaten.amount)
      [] stage[t] = "sale" ->
           Legs(AccountOf("escrow", saw[t].bidder), AccountOf("bank", Seller[c.auction]),
                saw[t].amount - Fee(saw[t].amount))
      [] stage[t] = "fee" -> Legs(AccountOf("escrow", saw[t].bidder), Sink, Fee(saw[t].amount))
      [] OTHER -> Nothing

\* Mutant: New takes no lock on the seller's goods.
Needs_NoGoods(t) ==
    IF stage[t] = "owners"
    THEN IF task[t].kind = "new" THEN {} ELSE {Goods(p) : p \in Owners(t)}
    ELSE Touched(PostOf(t))

Needs(t) ==
    IF stage[t] = "owners" THEN {Goods(p) : p \in Owners(t)} ELSE Touched(PostOf(t))

Acquire(t) ==
    /\ TakeFirst(t, Needs(t))
    /\ UNCHANGED <<houseVars, txnVars, ended, faults>>

\* The wallet is read without a lock.
OpenWallet(t) ==
    LET o == task[t].offer IN
    /\ stage[t] = "wallet"
    /\ IF balance[AccountOf(o.purse, o.bidder)] >= o.amount
       THEN Goto(t, "pay") /\ UNCHANGED <<ledgerVars, houseVars, task, saw>>
       ELSE Rollback(t)
    /\ UNCHANGED <<ended, faults>>

\* Mutant: the bid the join found is the one to pay back.
After_Joined(t) ==
    CASE stage[t] = "pay" /\ saw[t] # NoOffer -> "refund"
      [] stage[t] = "sale"                    -> "fee"
      [] OTHER                                -> "commit"

\* What follows a post, or a stage that has nothing to post.
After(t) ==
    CASE stage[t] = "pay" /\ high[task[t].auction] # NoOffer -> "refund"
      [] stage[t] = "sale"                                   -> "fee"
      [] OTHER                                               -> "commit"

PostLegs(t) ==
    /\ stage[t] \in {"pay", "refund", "sale", "fee"}
    /\ Post(t, PostOf(t))
    /\ Goto(t, After(t))
    /\ UNCHANGED <<houseVars, task, saw, ended, faults>>

Declined(t) ==
    /\ stage[t] \in {"pay", "refund", "sale", "fee"}
    /\ Refused(t, PostOf(t))
    /\ Rollback(t)
    /\ UNCHANGED <<ended, faults>>

Standing(a) == {o \in Offer : o.auction = a /\ bid[o] = "standing"}

\* A new standing bid, the beaten one outbid; an index allows one to stand.
PlaceBid(t) ==
    LET o == task[t].offer
        beaten == high[o.auction] IN
    /\ stage[t] = "commit" /\ task[t].kind = "bid"
    /\ Standing(o.auction) \subseteq {beaten}
    /\ bid' = [x \in Offer |->
         CASE x = o -> "standing"
           [] x = beaten /\ x # o /\ bid[x] = "standing" -> "outbid"
           [] OTHER -> bid[x]]
    /\ high' = [high EXCEPT ![o.auction] = o]
    /\ Commit(t)
    /\ UNCHANGED <<status, owner, holding, ended, faults>>

\* Mutant: the piece is moved outside the transaction.
AskToOpen_Apart(t) ==
    LET a == task[t].auction IN
    /\ stage[t] = "owners" /\ task[t].kind = "new" /\ Ready(t, Needs(t)) /\ MayOpen(a)
    /\ holding' = [holding EXCEPT ![PieceOf[a]] = "escrow"]
    /\ Goto(t, "commit")
    /\ UNCHANGED <<ledgerVars, status, high, bid, owner, keys, task, saw, ended, faults>>

\* New, once it has the seller's goods locked: what it asks, and what it writes.
AskToOpen(t) ==
    LET a == task[t].auction IN
    /\ stage[t] = "owners" /\ task[t].kind = "new" /\ Ready(t, Needs(t))
    /\ IF MayOpen(a)
       THEN Goto(t, "commit") /\ UNCHANGED <<ledgerVars, houseVars, task, saw>>
       ELSE Rollback(t)
    /\ UNCHANGED <<ended, faults>>

Open(t) ==
    LET a == task[t].auction IN
    /\ stage[t] = "commit" /\ task[t].kind = "new"
    /\ IF Held(a, "carried")
       THEN /\ status' = [status EXCEPT ![a] = "open"]
            /\ holding' = [holding EXCEPT ![PieceOf[a]] = "escrow"]
            /\ Commit(t)
            /\ UNCHANGED <<high, bid, owner>>
       ELSE Rollback(t)
    /\ UNCHANGED <<ended, faults>>

\* Close, once it has the goods locked: unsold, or on to the money.
Return(t) ==
    LET a == task[t].auction IN
    /\ stage[t] = "owners" /\ task[t].kind = "close" /\ Ready(t, Needs(t))
    /\ saw[t] = NoOffer /\ Held(a, "escrow")
    /\ status' = [status EXCEPT ![a] = "unsold"]
    /\ holding' = [holding EXCEPT ![PieceOf[a]] = "carried"]
    /\ Commit(t)
    /\ UNCHANGED <<high, bid, owner, ended, faults>>

\* Mutant: the auction is closed outside the transaction.
Sell_Apart(t) ==
    /\ stage[t] = "owners" /\ task[t].kind = "close" /\ Ready(t, Needs(t))
    /\ saw[t] # NoOffer
    /\ status' = [status EXCEPT ![task[t].auction] = "sold"]
    /\ Goto(t, "sale")
    /\ UNCHANGED <<ledgerVars, high, bid, owner, holding, keys, task, saw, ended, faults>>

Sell(t) ==
    /\ stage[t] = "owners" /\ task[t].kind = "close" /\ Ready(t, Needs(t))
    /\ saw[t] # NoOffer
    /\ Goto(t, "sale")
    /\ UNCHANGED <<ledgerVars, houseVars, task, saw, ended, faults>>

HandOver(t) ==
    LET a == task[t].auction IN
    /\ stage[t] = "commit" /\ task[t].kind = "close" /\ Held(a, "escrow")
    /\ status' = [status EXCEPT ![a] = "sold"]
    /\ owner' = [owner EXCEPT ![PieceOf[a]] = saw[t].bidder]
    /\ holding' = [holding EXCEPT ![PieceOf[a]] = "carried"]
    /\ bid' = [bid EXCEPT ![high[a]] = "won"]
    /\ Commit(t)
    /\ UNCHANGED <<high, ended, faults>>

Steps(t) ==
    \/ ReadAuction(t) \/ LockBid(t) \/ LockClose(t) \/ Acquire(t) \/ OpenWallet(t)
    \/ PostLegs(t) \/ Declined(t) \/ PlaceBid(t) \/ AskToOpen(t) \/ Open(t) \/ Return(t) \/ Sell(t) \/ HandOver(t)

\* The lock a transaction waits for.
Wanted ==
    [t \in Txns |->
        IF stage[t] = "locking" THEN {Row(task[t].auction)}
        ELSE IF Ready(t, Needs(t)) THEN {} ELSE {FirstOf(Missing(t, Needs(t)))}]

\* PostgreSQL ends one of the transactions that wait for each other.
EndDeadlock(t) ==
    /\ Deadlocked(t, Wanted)
    /\ Rollback(t)
    /\ UNCHANGED <<ended, faults>>

\* An error or a crash; without a lock, as if it had not begun.
Fail(t) ==
    /\ \E l \in Lock : holder[l] = t
    /\ Fault
    /\ Rollback(t)
    /\ UNCHANGED ended

EndPasses(a) ==
    /\ status[a] = "open" /\ a \notin ended
    /\ ended' = ended \cup {a}
    /\ UNCHANGED <<ledgerVars, houseVars, txnVars, faults>>

Next ==
    \/ \E t \in Txns : Steps(t) \/ EndDeadlock(t) \/ Fail(t) \/ \E c \in Command : Begin(t, c)
    \/ \E a \in Auction : EndPasses(a)

Spec == Init /\ [][Next]_vars

\* A transaction gets on, locks are granted in the order they are asked for,
\* and a close comes again until it is done.
Fairness ==
    /\ \A t \in Txns : SF_vars(Steps(t))
    /\ WF_vars(\E t \in Txns : EndDeadlock(t))
    /\ WF_vars(\E a \in Auction : EndPasses(a))
    /\ SF_vars(\E t \in Txns, a \in Auction : Begin(t, Closing(a)))

FairSpec == Spec /\ Fairness

----------------------------------------------------------------------------
(* Properties.                                                             *)

BidsBy(p, S) == {o \in Offer : o.bidder = p /\ bid[o] \in S}
Stakes(bids) == SumFunctionOnSet([o \in Offer |-> o.amount], bids)

Sold == {a \in Auction : status[a] = "sold"}
SoldBy(p) == {a \in Sold : Seller[a] = p}
Price(a) == IF high[a] = NoOffer THEN 0 ELSE high[a].amount
Fees == [a \in Auction |-> Fee(Price(a))]
Proceeds == [a \in Auction |-> Price(a) - Fee(Price(a))]

EscrowMatches(p) ==
    LET acct == AccountOf("escrow", p) IN
    balance[acct] = Start[acct] + Stakes(BidsBy(p, {"standing"}))

PurseMatches(k, p) ==
    LET acct == AccountOf(k, p) IN
    balance[acct] =
        Start[acct]
            - Stakes({o \in BidsBy(p, {"standing", "won"}) : o.purse = k})
            + (IF k = "bank" THEN SumFunctionOnSet(Proceeds, SoldBy(p)) ELSE 0)

FeesMatch == balance[Sink] = Start[Sink] + SumFunctionOnSet(Fees, Sold)

\* The ledger and the auctions tell one story: a player's escrow holds their
\* standing bids and nothing else, a purse lacks what it paid for standing and
\* won bids and has what was sold, the system has the fees.  Whatever bids,
\* closes, failures and deadlocks run beside each other, no money is left
\* over, kept twice or given back to the wrong purse.
BooksMatch ==
    /\ \A p \in Player : EscrowMatches(p) /\ \A k \in Purse : PurseMatches(k, p)
    /\ FeesMatch

Won(a) == {o \in Offer : o.auction = a /\ bid[o] = "won"}
The(o) == {o} \ {NoOffer}

\* Of an open auction's bids the high one stands and no other; of a sold one's
\* the high one has won, and none still stands; nobody wins another.
OneBidStands ==
    \A a \in Auction :
        /\ status[a] = "open" => Standing(a) = The(high[a]) /\ Won(a) = {}
        /\ status[a] = "sold" => Standing(a) = {} /\ Won(a) = {high[a]}
        /\ status[a] \in {"none", "unsold"} => Won(a) = {}

\* A piece is in escrow for exactly one open auction, of the one who owns it:
\* two commands of the seller cannot put it up twice, and it comes back out
\* with the close.
PiecesFollow ==
    \A x \in Piece :
        LET up == {a \in Auction : PieceOf[a] = x /\ status[a] = "open"} IN
        /\ holding[x] = "escrow" <=> up # {}
        /\ \A a, b \in up : a = b
        /\ \A a \in up : Seller[a] = owner[x]

\* A seller has no more auctions open than the rules allow, although the count
\* is read before the auction is written.
LimitKept == \A p \in Player : CountOpen(p) <= MaxOpen

\* Locks are taken in one order, the auction's row, the goods, the accounts by
\* id, so that a transaction's first post is never caught in a circle of waits:
\* there is a second post, of a bid that pays another back or of a sale's fee,
\* in each one that PostgreSQL has to break.
CyclesHaveASecondPost ==
    \A S \in SUBSET Txns :
        Cycle(S, Wanted) => \E t \in S : stage[t] \in {"refund", "fee"}

\* auction.go: an auction sells to the highest bid, and is unsold if nobody bid.
HighestBidWins ==
    \A a \in Auction, o \in Offer :
        o.auction = a /\ bid[o] # "none" =>
            /\ status[a] # "unsold"
            /\ status[a] = "sold" => o.amount <= high[a].amount

\* What the auction house promises, with every command in one step.
House == INSTANCE AuctionHouse
ActsAtOnce == House!Spec

\* Every auction that was opened is closed: in the end none is open.
EveryAuctionCloses == <>[](\A a \in Auction : status[a] # "open")
=============================================================================
