# Torncity: a verification project

Torncity is a persistent city game played through Telegram bots and a web
client. Its backend is a set of Go processes around PostgreSQL (the state),
NATS JetStream (commands and events) and Redis (leases, deduplication, caches).
This directory holds TLA+ models of the parts whose correctness depends on
interleavings, failures and time, the TLC configurations that check them on
small instances, and TLAPS proofs about them. Paths below are relative to the
root of the repository.

1. The system
2. Modules and how they correspond to the code
3. What each run checks
4. Bounds, and why they are enough
5. Fairness
6. What is proved
7. Findings and remarks
8. What is abstracted
9. Plan

To check a run: `tlc -config <cfg> <module>`; a proof: `tlapm <module>.tla`.

---

## 1. The system

### Processes and what they share

```
  Telegram --getUpdates--> cmd/gateway --command--> GAME_COMMANDS --> cmd/game (replicas)
     ^                       |   ^  lease, dedup        ^                |  one transaction
     |                       |   +------ Redis          |                v
     +---- send, receipt ----+                          |           PostgreSQL
                             ^                          |   game_actions   outbox
                             | notice          cmd/scheduler <-----+          |
                        cmd/notifier <-- GAME_EVENTS <-- cmd/worker <---------+
```

A player's tap becomes a *command* on a JetStream work queue. A `cmd/game`
replica handles it in one PostgreSQL transaction. Whatever takes time (a journey,
a shift, a sentence) is written in that transaction as a row of `game_actions`
with a finish time; `cmd/scheduler` turns a due row back into a command. Whatever
others must learn is written to `outbox`; `cmd/worker` publishes it as an event,
and `cmd/notifier` tells the player through a gateway. `cmd/clientapi` is a second
front door, `cmd/panel` and `cmd/admin` belong to the operators. Processes are
scaled out (`deployments/compose.scale-test.yml` runs two schedulers, two
gateways and three of most others) and restarted when they die
(`restart: unless-stopped` in `docker-compose.yml`).

### Inventory

| Component | State | Operations | What is hard | What makes it correct | Modelled |
|---|---|---|---|---|---|
| Durable schedule (`postgres/gameaction.go`, `panel_ops.go`, `orphan_shifts.go`) | rows: status, `finish_at`, `claimed_at` | Schedule, Due, ReclaimStale, Complete, Fail; RequeueAction, endNow, CancelActions | late writes to a row that has moved on; clocks of several machines | a live claim is never taken over; a closed row stays closed | yes |
| Scheduler (`workers/scheduler`) | batch, deadline, ticker | Reap, Tick, dispatch, shutdown | crash between publish and complete; lost answers; batch over its deadline | no action lost, none run twice | yes |
| Streams (`infrastructure/nats`) | copies, delivery counts, duplicate window | publish, deliver, ack, NAK, redelivery | at-least-once delivery; window shorter than a retry | a copy goes on until acked or dead | partly |
| Command consumption (`cmd/game`, `idempotency.go`, `inbox.go`, `uow.go`) | idempotency keys, inbox, open transactions | reserve, work, commit, record, ack | commit whose answer is lost; concurrent redelivery | one effect per operation | partly |
| Operators' interventions (`panel_ops.go`) | the schedule | requeue, end now | race with scheduler and handlers | the promises above survive them | partly |
| Outbox and relay (`outbox.go`, `cmd/worker`) | rows, batches | Append, claim, publish, MarkPublished | locks end before publishing; crash before marking | no event lost | yes |
| Notifier (`workers/notification`) and the gateway's notice side (`cmd/gateway/notify.go`) | inbox, receipts | Handle, deliver, record | telling cannot be undone; late receipts | told at last; every repetition explained | partly |
| Player activities (`application/handlers`: travel, jobs, places, crime, health) | activities in progress, city, row locks | start and finish of a journey, shift, walk, crime; conviction; admission | READ COMMITTED transactions of one player interleave | no two activities that exclude each other | partly |
| Bot lease (`gateway/lease`, `redis/lease.go`, `serveBot`) | Redis key, keeper, timers | acquire, renew, release, expire | slow calls; failover; shutdown | one poller per bot; lost leases noticed | yes |
| Update path (`poll`, `handleUpdate`, `gateway/dedup`) | offset, batch, dedup keys | getUpdates, dedup, publish | pollers change mid-batch; dedup fails open | nothing skipped; one command per update | partly |
| Gateway routing and text input | pending question per chat | route, ask, answer | stale questions | an answer reaches its question | planned |
| Outbound senders and rendering | none durable | render, send | rate limits of Telegram | wording | no: I/O |
| Client API (`clientapi`) | sessions | same commands by HTTP | as the gateway | same as commands | no: translation |
| State sync (`statesync`, `postgres/statesync.go`, the client of `statesync/client.go`) | per-player log with pts, held versions, a client's copy and cursor | Project, Trim, HandleEvent, ForCommand, State, Updates; apply, pull, reset | pushes lost and reordered; projections that race, fail and are repeated; a trim beside them | a copy is always a state that was told; a client catches up | partly |
| Ledger, bank, currency (`postgres/ledger.go`, `payment.go`) | accounts, double-entry postings | post; deposit, transfer, exchange | lock order; partial failure | money conserved | partly |
| Market, trade, auctions (`handlers/auctions.go`, `postgres/trade.go`, `domain/auction`) | auctions, bids, pieces in escrow | New, Bid, Close; listings, trades, shops | a bid racing a bid or the close; two posts in one transaction | goods and money follow the bids | partly: auctions |
| Elections, law, legislature | calendar, ballots, laws | open, vote, close, enact | phases as timed operations | one ballot each; phases in order | planned |
| Military, war, raid | raids and their phases | declare, march, settle | phases racing cancels | each phase once | planned |
| Companies and production | staff, stock, orders | formulas over the ledger | rounding | conservation | no: numeric |
| Crime economics, health, survival | odds, decay curves | formulas | numeric edges | ranges | no: numeric; their control is in player activities |
| Education, teachers | enrolments | enrol, finish | rides on the schedule | as the schedule | no |
| Land, property, buildings | lots | geometry, pricing | none concurrent of their own | - | no |
| Mining, farm, special resources | deposits, fields | formulas over time | numeric | ranges | no |
| Households and social, news and presence | small tables | one writer each | none | - | no |
| Operators' panel and CLI | repositories' tables | grants, moderation, screens | see interventions | - | two writers modelled |
| Realtime publication (Centrifugo) | none | fire and forget | losses, repaired by state sync | - | a push that may be missed |
| Runtime switches | one cached value each | read with a default | none | - | no |
| Content, presentation, configuration, shared value types, contract generation | none at run time | load, lay out, parse | none | - | no |

---

## 2. Modules and how they correspond to the code

Two chains are built from the same stream module; the lease and the update path, state
sync, and the auctions are chains of their own; the player's activities stand alone.

```
 FaultBudget <- GameActions --+
 FaultBudget <- DurableStream +- Scheduler -----------+
                DurableStream -- CommandConsumer -----+- DurableSchedule --implements--> TimedOperation
 DurableStream (instance) ------ Outbox -- Notifier --- NoticePipeline
 BotLease -- UpdateIntake
 UpdateLog -- StateSync --implements--> FollowedState
 Ledger -- Auctions --implements--> AuctionHouse
 PlayerActivities
```

* **FaultBudget**: a budget of faults, and the ids of timed actions. Every crash,
  refused call, lost answer or missed deadline spends one.
* **GameActions**: the table and each statement that writes it. `remaining` and
  `claimAge` are `finish_at` and `claimed_at` as distances from now on the slowest
  clock; a process whose clock runs ahead by `s` adds `s`. `DueRows`/`ClaimDue` are
  `claimDueSQL`, `StaleRows`/`ReclaimStale` are `reclaimStaleSQL`, `CloseAs` is
  Complete and Fail with their status predicate, `RequeueAction`, `EndNow` and
  `CancelActions` the operators' statements and the repair of orphaned shifts.
* **Scheduler**: `Run`, `Reap`, `Tick` and `dispatch`, one action per call and per
  outcome of that call. `budget` is what is left of `batchCtx`, whose length is
  `shutdown_timeout`; `fired` is the one tick a Go ticker's channel holds.
* **DurableStream**: a JetStream stream seen by one durable consumer: the
  duplicate window, explicit acks, `MaxDeliver`, redelivery.
* **CommandConsumer**: `handle` in `cmd/game`, around any handler of a timed
  operation: reserve the idempotency key, work, commit, record in the inbox, ack.
* **DurableSchedule**: scheduler and consumer over one stream. **TimedOperation**
  is what it promises: a planned operation runs at most once, and not before its
  time except by the disagreement of the clocks.
* **Outbox**: `Append`, `claimPending`, `publishBatch`, `MarkPublished`. A claim's
  locks last only for its statement (`Claim` to `Claimed`).
* **Notifier**: `Handle` and `deliver` for an event with one recipient. The gateway's
  receipt, or the item stored in the player's inbox, is folded into `Tell` and
  `Nak`. **NoticePipeline** composes it with the outbox.
* **PlayerActivities**: ten kinds of command of one player as READ COMMITTED
  transactions. `Order` lists the statements of each command in the order of the
  code: the read of the player row, the checks (`road`, `work`, `detained`,
  `walking`), the rows that are locked, and the writes. Which check stands on which
  side of which lock is all there is to keep two activities apart.
* **BotLease**: `Acquire`/`Renew`/`Release` in Redis, the keeper's `Run` and
  `serveBot`. A call is two steps, its execution and the keeper's return from it,
  with up to `MaxCall` units of time. `blind` is a history variable: how long ago
  Redis lost the key of a gateway that still believes in it.
* **UpdateIntake**: `poll` and `handleUpdate` on top of the lease. Every step of the
  lease that cancels a poll context ends that gateway's loop (`ByLease`).

* **UpdateLog**: one player's state sync in PostgreSQL: the numbered records, the held
  versions, `Project` under the player's advisory lock with one READ COMMITTED read per
  entity, and `Trim`, which has another lock and runs beside it. `views` is a history
  variable: the entities told, after each pts.
* **StateSync**: the reasons to project (an event, a settlement, a command's answer seen by
  the notifier or by the client API, a snapshot) and what each sends; `GET /state` and
  `GET /updates`; the client, which applies the next pts and nothing else, pulls, and drops
  its copy when it is told to. **FollowedState** is what it promises: a copy goes through
  the told states one by one, or is dropped and begins again at the newest.
* **Ledger**: the row locks a transaction takes, `Post` with its lock order by account id,
  the balance check of the schema, and the moves a transaction makes, seen by nobody before
  it commits.
* **Auctions**: New, Bid and Close, statement by statement where another transaction can
  come between: the read of the auction with its joined bid, the lock, the wallet, the goods
  of whoever is involved, the posts, the rows. **AuctionHouse** is what it promises: every
  command is one step.

The `MC*` modules give the constants their values and define symmetry sets. The
`*_proofs` modules hold the theorems, those of the lease and the update path in one;
`FiniteSums` holds the lemmas about sums over finite sets that the books of the auctions
need. Operators marked "Mutant" are not part of a
model: each is a plausible slip in the definition that follows it, kept to show
that the property it is meant to break is able to fail.

---

## 3. What each run checks

| Run | Configuration | Properties | Result |
|---|---|---|---|
| claims | `MCScheduler.cfg` | LiveClaimKept, ClosedRowsStayClosed | hold, 200 504 states |
| delivery | `MCDurableSchedule_delivery.cfg` | TypeOK, CompletedIsCarried, InboxAfterOutcome, KeepsPromise, ScheduledIsSettled | hold, 265 811 |
| notices | `MCNoticePipeline_notices.cfg` | TypeOK, PublishedIsCarried, RepeatsAreExcused, HappenedIsTold | hold, 77 878 |
| busy | `MCPlayerActivities_busy.cfg` | TypeOK, NoShiftOnTheRoad, NoCrimeOnTheRoad, DepartsUnoccupied, CrimeBeginsUnoccupied | hold, 1 466 355 |
| pollers | `MCBotLease_pollers.cfg` | LeaseTypeOK, AtMostOnePoller, LossIsNoticed | hold, 197 812 |
| updates | `MCUpdateIntake_updates.cfg` | TypeOK, ConfirmedWasBegun, OneCommandPerUpdate, SentIsConfirmed | hold, 556 892 |
| sync | `MCStateSync_sync.cfg` | TypeOK, CopyIsTheView, LogIsWhole, NeverBackwards, ResetOnlyBehind, FollowsTheLog, EventuallyCaughtUp | hold, 264 653 |
| auction | `MCAuctions_auction.cfg` | TypeOK, BooksMatch, OneBidStands, PiecesFollow, LimitKept, CyclesHaveASecondPost, ActsAtOnce, EveryAuctionCloses | hold, 248 200 |
| on_top | `MCPlayerActivities_on_top.cfg` | NothingOnTop | violated: finding 1 |
| origin | `MCPlayerActivities_origin.cfg` | JourneyLeftTheirCity | violated: finding 2 |
| suppressed | `MCUpdateIntake_suppressed.cfg` | SuppressedWasHandled | violated: finding 3 |
| best_bid | `MCAuctions_best_bid.cfg` | HighestBidWins | violated: finding 4 |

**The schedule.** *LiveClaimKept*: while a batch may still act on a row, nobody
else reclaims, requeues or claims that row, which is what
`claim_timeout > shutdown_timeout` is for. *ClosedRowsStayClosed*: a late Complete,
Fail, reap or requeue never reopens a completed or cancelled row.
*CompletedIsCarried*: a row says completed only if its command is settled, on its
way, or dead after `MaxDeliver` deliveries. *InboxAfterOutcome*: the inbox never
speaks of a message before its work is done. *KeepsPromise*: the pipeline
implements `TimedOperation`, although the same row may be published again after
the stream has forgotten its id and two workers may hold the same command.
*ScheduledIsSettled*: a scheduled, routed action is settled in the end.

**Notices.** *PublishedIsCarried* is the outbox's counterpart of CompletedIsCarried.
*RepeatsAreExcused* bounds the tellings of one event: one for each copy the stream
stored, plus one for each telling that went unrecorded (a crash, a lost receipt, a
failed inbox write) and each delivery repeated while it was being handled.
*HappenedIsTold*: what was appended is told in the end.

**Activities.** *NoShiftOnTheRoad* and *NoCrimeOnTheRoad* say which activities the
locks do keep apart; *DepartsUnoccupied* and *CrimeBeginsUnoccupied* say that what a
command found the player doing is still true at its commit. The violations (on_top, origin)
say where the code's comments promise more than the order of its statements gives.

**The gateway.** *AtMostOnePoller*: two gateways poll one bot only while one of them
cannot know that Redis lost its key. *LossIsNoticed*: that lasts a renewal interval
and two calls at most. *ConfirmedWasBegun*: Telegram forgets no update that no loop
began. *OneCommandPerUpdate*: one command per update, and one more for each time
Redis could not be asked. *SentIsConfirmed*: what is sent is confirmed in the end.

**State sync.** *CopyIsTheView*: a client's copy is exactly what the log had told as of its
cursor, whatever was lost, repeated or reordered. *LogIsWhole*: no number between the floor
and the newest is missing, and folding the log gives the held versions that a snapshot is
read from. *NeverBackwards*: a later record of an entity carries a later state of it; a
redelivered event's projection never tells again what has been replaced. *ResetOnlyBehind*:
a client within the reset threshold is never told to drop its copy, which is what the
configuration's `reset_threshold <= retention_records` is for. *FollowsTheLog*: the
refinement of `FollowedState`. *EventuallyCaughtUp*: when the world rests, every client has
every change that an event announced.

**Auctions.** *BooksMatch*: escrow accounts hold the standing bids and nothing else, purses
lack what they paid for standing and won bids, sellers have the proceeds and the system the
fees, through every race, failure and deadlock. *OneBidStands*, *PiecesFollow*: the bids'
statuses, the auction's high bid and the place of the piece tell one story. *LimitKept*: the
count of open auctions is read before the new one is written, and still bounds it.
*CyclesHaveASecondPost*: `postgres/ledger.go:240-243` locks accounts "in one global order" so
that transactions never wait for each other in a circle. That holds of a transaction's first
post, with the auction's row and the goods before it: in each circle somebody is paying a
beaten bid back or taking a sale's fee. *ActsAtOnce*: the refinement of `AuctionHouse`. *EveryAuctionCloses*: no auction stays open,
although two transactions may wait for each other.

---

## 4. Bounds, and why they are enough

Every bound is a named constant. Bounds on what is counted: `MaxFaults`,
`MaxCopies` (stored copies of one message), `MaxRuns` (where counting stops, one
above what is allowed), `MaxDelay`, `MaxSkew`, `MaxUpdate`. The other constants are
settings of the program, scaled down with their order kept. Deployed values:
`claim_timeout` 2m, `duplicate_window` 2m, `shutdown_timeout` 15s, `batch_size` 100,
`tick_interval` 1s, `MaxDeliver` 5, ack wait 30s, requeue after 5m, lease `ttl` 30s,
`renew_divisor` 3, `poll_timeout` 30s.

* **Two replicas with clocks one unit apart** are what a race between schedulers
  needs; rows interact only through the limit of a batch. *claims* has an orphaned,
  routed action and an unrouted one, so every way to close a row occurs.
* **One operation, two replicas, one worker** in *delivery*: operations share nothing but
  workers and batches. The duplicate window (2) is shorter than the claim timeout (3):
  deployed they are equal, so that a reclaimed row is published again on the edge of
  the window; the model always gets past it. Two faults suffice to lose an answer and
  then crash the recovery; `MaxDeliver` exceeds the faults because with more a command may
  die, which *CompletedIsCarried* allows by name and *ScheduledIsSettled* cannot. That two
  workers may hold one command, with any number of workers, is in the proofs.
* **One relay, one notifier, two events, two faults** in *notices*, with a window of
  one so that a second copy of an event is stored. One event is announced to nobody.
  Several relays and notifiers, and players no bot can reach, are in the proofs of both
  safety properties, which hold for any number. `CHECK_DEADLOCK FALSE`: when every event is
  told the model stops, as the code idles.
* **Three transactions** in *busy*, out of all ten kinds of command: two that exclude
  each other and a third that changes the ground under them (a conviction, an arrival,
  an accident). Two cities, one of them the workplace. Transactions are interchangeable
  (symmetry). The violations need only two transactions.
* **Two gateways, TTL 6, renewal 3, calls of at most 1, four faults** in *pollers*:
  a TTL of one more than `RenewEvery + 2 * MaxCall`, the least `CallsEnd` admits, so every slow
  call uses up all the slack there is; and one fault for each of a
  failed call, a lost key, a crash and a shutdown. Gateways are interchangeable.
* **TTL 2, renewal 1, instant calls, two updates, two faults** in *updates*: the lease's
  own timing is the business of *pollers*; here it only has to change hands in the
  middle of a batch of two, twice. `FetchLimit` is 2, so a batch may be whole or part.

* **Two entities, two changes, one projector, one API handler, one client, one fault, all
  limits 1** in *sync*: a page, a retained log and a reset threshold of one put a client on
  every edge after two records; two handlers are enough for every race over the lock, since
  it is held by one. Every set of ways a change is announced by is in `Ways`.
* **Three auctions of two sellers, four bids of two bidders, two transactions, one fault** in
  *auction*. Ann has two pieces and may have one auction open; ben bids on hers and twice on
  cat's; ann bids there from her bank, so that a bid pays back into another purse than it
  takes from, a bidder's balance limits them, and ann's goods are locked as a seller's and a
  winner's. A fee of half makes rounding visible. In *best_bid* one auction and two bids
  suffice. Each auction has a piece of its own in this instance; several auctions of one
  piece are covered by the proof of *PiecesFollow*.
  `CHECK_DEADLOCK FALSE`: when every command is done there is nothing left to do.

Symmetry is used in *busy* and *pollers*, which check safety properties only.

---

## 5. Fairness

Five specifications state fairness: `FairSpec` of DurableSchedule, NoticePipeline,
UpdateIntake, StateSync and Auctions. In the first three all of it is weak.

* Running processes take their next step, and stopped ones are restarted
  (`restart: unless-stopped`; the loops of the code never return otherwise).
* Time passes where it is modelled (`Tick`): tickers fire, leases and timeouts run out.
* The stream offers a waiting message to some worker, and an unattended delivery is
  offered again after its ack wait. The latter is asked only of deliveries nobody is
  handling.

* In StateSync a running projection gets on (weak). Strong fairness is asked where something
  is offered again and again while a lock or a cursor comes and goes: an event until it is
  acknowledged, a snapshot until it is answered (the advisory lock is granted in the order it
  was asked for), and a client's pulls, which it repeats on a timer (rules 4 and 7 of section
  5.6 of `api/client-api.md`, as `client.go` follows them). Nothing is asked of pokes,
  command answers or pushes.
* In Auctions a transaction gets on (strong: PostgreSQL grants a row lock in the order it was
  asked for, and the step a transaction waits with is enabled only while the row is free),
  deadlocks are ended and auctions' ends pass (weak), and closes come again until one is done
  (strong, over all auctions together: the durable schedule's redelivery). Bids and new
  auctions are never obliged to come.

Nothing is asked of players, operators, handlers that write rows, the repair, or
faults. `PublishFails`, `Nak` and the other failures are disjuncts of a fair process
but each spends from the fault budget, so a run of failures ends.

---

## 6. What is proved

For every value of the constants that satisfies the named assumptions. All
theorems are of the specification without fairness.

| Module | Theorem | Says |
|---|---|---|
| `Scheduler_proofs` | RowsTyped | the table and the replicas keep their types |
| | ClaimsAreExclusive | `SchedulerSpec => []LiveClaimKept` |
| | ClosedStaysClosed | `SchedulerSpec => ClosedRowsStayClosed` |
| `DurableSchedule_proofs` | PipelineIsTyped | `Spec => []TypeOK` |
| | PipelineClaimsAreExclusive | `Spec => []LiveClaimKept`, in the whole pipeline |
| | NothingIsLost | `Spec => []CompletedIsCarried` |
| | InboxRecordsOutcomes | `Spec => []InboxAfterOutcome` |
| | PromiseIsKept | `Spec => KeepsPromise`: the refinement of TimedOperation |
| `NoticePipeline_proofs` | NoticesAreTyped | `Spec => []TypeOK` |
| | NothingPublishedIsLost | `Spec => []PublishedIsCarried` |
| | EveryRepeatIsExcused | `Spec => []RepeatsAreExcused` |
| `PlayerActivities_proofs` | ActivitiesAreTyped | `Spec => []TypeOK` |
| | NobodyWorksOnTheRoad | `Spec => []NoShiftOnTheRoad` |
| | NoCrimeIsCommittedOnTheRoad | `Spec => []NoCrimeOnTheRoad` |
| | DeparturesAreFree | `Spec => DepartsUnoccupied` |
| | CrimesBeginFree | `Spec => CrimeBeginsUnoccupied` |
| | NothingOnTopIfFresh | `Spec /\ [][ChecksAreFresh]_vars => []NothingOnTop` |
| | OriginIsTheirsIfFresh | `Spec /\ [][OriginIsFresh]_vars => []JourneyLeftTheirCity` |
| `UpdateIntake_proofs` | LeaseIsTyped | `LeaseSpec => []LeaseTypeOK` |
| | OnePollerAtMost | `LeaseSpec => []AtMostOnePoller` |
| | LossesAreNoticed | `LeaseSpec => []LossIsNoticed` |
| | IntakeIsTyped | `Spec => []TypeOK` |
| | NothingIsSkipped | `Spec => []ConfirmedWasBegun` |
| | OneCommandEach | `Spec => []OneCommandPerUpdate` |
| `StateSync_proofs` | TypeCorrectness | `Spec => []TypeOK` |
| | CopyIsAlwaysTheView | `Spec => []CopyIsTheView` |
| | LogIsAlwaysWhole | `Spec => []LogIsWhole` |
| | NeverBackwardsAlways | `Spec => []NeverBackwards` |
| | NeverResetWithinThreshold | `Spec => []ResetOnlyBehind` |
| | FollowsTheLogAlways | `Spec => FollowsTheLog`: the refinement of FollowedState |
| `Auctions_proofs` | TypeCorrect | `Spec => []TypeOK` |
| | BidsCorrect | `Spec => []OneBidStands` |
| | PiecesCorrect | `Spec => []PiecesFollow` |
| | LimitCorrect | `Spec => []LimitKept` |
| | BooksCorrect | `Spec => []BooksMatch` |
| | CyclesCorrect | `Spec => []CyclesHaveASecondPost` |
| | HighestWinsIfFresh | `Spec /\ [][JoinIsFresh]_vars => []HighestBidWins` |
| | HouseImplemented | `Spec => ActsAtOnce`: the refinement of AuctionHouse |

**Assumptions that are not checks of the code.** Two of them matter to whoever
deploys this system:

* `ClocksAgree` (Scheduler): `MaxSkew <= ClaimTimeout - ShutdownTimeout`. The
  constructor checks only `ClaimTimeout > ShutdownTimeout`; a replica whose clock runs
  ahead by more than the difference reaps live claims.
* `CallsEnd` (BotLease): `RenewEvery + 2 * MaxCall < TTL`. `NewKeeper` checks only
  `RenewEvery < TTL`, and the keeper puts no deadline on its calls to Redis; a call
  that outlasts the TTL leaves a gateway polling beside the next holder.

The others are the sorts of the constants, and relations the program does check
(`ClaimTimeout > ShutdownTimeout`, `RenewEvery < TTL`, `ResetThreshold <= KeepLast`).

**The inductive invariants.**

* *ClaimInv*: LiveClaimKept says nothing of time, so it is not inductive.
  `LeaseOutlastsBatch` relates the age of a claim to the budget left of the batch that
  holds it: on the claimer's clock they never add up to more than ShutdownTimeout, so
  that under ClocksAgree the claim looks stale on no clock before the batch is over. `SentIsHeld` ties the action being
  completed to the batch.
* *KeptInv* (nothing is lost): completed rows, actions sent and ids in the duplicate
  window all have a stored copy (`Stored`); an acked copy's operation is settled. The
  window is there because a suppressed publication is confirmed without storing.
* *PromiseInv*: whoever holds an action, in a batch, as a stored copy or as a
  delivery, has it `Ripe` (due within the skew, or brought forward); runs count keys;
  a fresh reservation is new and is the only one.
* *ActivityInv*: `LocksAreHeld` (a transaction past a lock owns it), `WhatWasReadHolds`
  (what a transaction read under the condition row's lock stays true while it holds
  it, since every command that begins such an activity takes the same lock; a sentence
  is the exception),
  `NoSentenceSince` (the same for the criminal profile), and the two exclusions.
* *LeaseInv*: for each gateway that believes in its key, the key's remaining time
  exceeds what lies before its next renewal executes (`KeyOutlasts`); a blind gateway's
  time since the loss plus the time to its next renewal is bounded (`BlindnessEnds`).
* *BegunInv*: what a loop has fetched follows its offset without a gap, and everything
  below the offset was begun (`BatchesInOrder`). *AccountInv*: commands published and
  loops still handling an update together do not exceed the admissions it was granted;
  the count of loops is a cardinality, which is why this one uses the finite-set lemmas.

* *CarriedInv* (notices): the same shape as KeptInv. What a relay counts as published, what
  the window remembers and what a row calls published is stored; what the stream counts as
  acked, a notifier as done and the inbox as notified is handled.
* *CountInv* (notices): for an event not recorded yet, tellings plus notifiers that may still
  tell or that gave up an unused delivery, plus deliveries nobody holds, are at most the
  excuses plus the deliveries under way; once it is recorded, tellings plus those already
  past the inbox are at most the excuses plus the copies. Every action moves both sides
  together. This is the account the comment in `notification.go` gives in words.
* *SyncInv*: the types, `WorkerHasTask`, `LogInv` (the log is whole, the trim
  keeps enough, the versions a projection read under the lock are still the held ones, and
  every record takes one view to the next), `CarriedFits` (a record anywhere on its way fits the view after
  it) and CopyIsTheView. *OrderInv* adds, for NeverBackwards, that what is held was told up to
  some state no later than the present one, also as a projection under way sees it.
* *HouseInv*: the shape of idle transactions, `Local` (what each transaction knows at its
  stage, by the locks it holds), `Apart` (no command is run by two transactions at
  once), `KeysFit` (a bid or an auction that is there has its command's key), `HighFits` (the
  high bid is a bid of that auction, at the reserve at least) and `Covers` (no balance but the
  sink's is negative). *LimitInv* adds that a seller whose New has passed the count still has
  room, by the lock on their goods.
* *The books*: BooksMatch holds of committed balances, so only a commit can disturb it, and
  HouseInv says what a transaction has posted by then (`Posted`). A bid that commits moves its
  amount into its bidder's escrow and the beaten one's back to the purse it came from, a sale
  the price from the escrow to the seller and the sink (`MoneyOfBid`, `MoneyOfSale`); the sets
  of standing, won and sold change by the same bid or auction (`BooksByBid`, `BooksBySale`,
  with OneBidStands for what the sets held before). What is left is how a sum changes when its
  set gains, loses or swaps one element. The sum is a fold of the community modules.
  `FiniteSums` shows the unfolding of that fold without an induction scheme: of the subsets of
  a finite set that break the claim there would be a least (`LeastSet`), and taking the chosen
  element out of it gives a smaller one.
* *LocksInOrder*: what a transaction holds comes `Before` all it still needs, rows of auctions
  before goods before accounts by id, up to its first post; nothing is said after it. In a
  circle without a second post every lock waited for would come before another one that is
  waited for, which finitely many locks cannot (`SomeoneTurnsBack`).

**Three theorems with a hypothesis about the steps.** *on_top*, *origin* and *best_bid* (section
7) refute what the code's comments say, so the plain theorems are false. What is proved instead
is what the comments rest on: `ChecksAreFresh` (what a command asked before it had the
condition row is still so when it has it), `OriginIsFresh` (so is the city it read) and
`JoinIsFresh` (the statement that locks an auction returns the bid that stands then). Each names
one read that the code makes before or beside a lock and does not make again; the theorem says
that nothing else is wrong, so that reading again under the lock would be enough. The
hypotheses are met by every behaviour in which nothing commits between the read and the lock,
but nothing in the code brings them about; no other theorem assumes them.
*OriginHolds*, *WhatWasAskedHolds* and *RisingInv* are their inductive invariants: what was
fresh under the lock stays so while it is held. *suppressed* has no theorem of this kind.

**Only model-checked.** The liveness properties (ScheduledIsSettled, HappenedIsTold,
SentIsConfirmed, EventuallyCaughtUp, EveryAuctionCloses), since fairness and ENABLED are
beyond the prover. Every invariant, action property and refinement of a passing run is
proved. No module uses a RECURSIVE operator.

---

## 7. Findings and remarks

1. **One activity on top of another** (*on_top*). `handlers/places.go:323-324` says of the
   lock on the stats row that "whichever comes first is seen". `Travels().Active` is read at
   line 318, before the lock, and not again, so that a walk may begin on the road. Likewise
   `handlers/jobs.go:624` says "No shift from a cell or in the middle of a crime", and `Work`
   calls RefuseDetained only before it locks the condition row.
2. **A journey from a city the player has left** (*origin*). `postgres/travel.go:201-203`
   says a traveller is "still in the city they departed from". The origin comes from a
   player row read at `handlers/travel.go:690`, before any lock, and an arrival may commit
   in between.
3. **A dropped update that nobody handled** (*suppressed*). `gateway/dedup/dedup.go:72-73`
   says Allow refuses only what "was already handled". The key is set when handling
   begins; if the poll context is cancelled before the command is published, Telegram
   delivers the update again and it is dropped.
4. **A lower bid beats a higher one** (*best_bid*). `domain/auction/auction.go:1-4` says a bid
   must beat the standing one and the close sells to the highest. `AuctionByNo` and `Auction`
   join the standing bid in the statement that locks the auction (`postgres/trade.go:383`).
   When another bid commits while the statement waits, PostgreSQL takes the row as it is now
   but the bid row of the statement's snapshot, the join finds none, and the next bid is held
   to the reserve only; a close in that place takes the auction as unsold. The passing
   properties hold all the same: money, bids and pieces agree, on the wrong winner.

Remarks that follow from the models and are not runs of their own:

* `workers/scheduler/scheduler.go:280` says of a failed Due that "nothing was claimed". The
  statement may have committed before its answer was lost (`ClaimFails`); the rows then
  wait for the reaper, so nothing is lost, only late.
* `postgres/inbox.go:14-16` says a consumer "calls MarkProcessed first". `cmd/game` records
  after the work, which is the order that loses nothing (the mutant `Take_ClaimsInbox` shows
  the other); what keeps effects single is the idempotency key.
* `postgres/outbox.go:137-139` calls the batches of several workers "disjoint by
  construction". The rows stay pending once the claiming statement has ended, so a second
  worker may claim what the first is publishing; the duplicate window usually absorbs it.
* `gateway/lease/lease.go:43-46` says "two consecutive failures ... are survivable without
  losing the bot". `Run` returns at the first renewal that fails without releasing the key,
  and the bot stays dark until the TTL ends.
* `postgres/ledger.go` says of locking accounts "in one global order" that it makes a deadlock
  impossible. It does within one post; a bid makes two posts and a sale two, so transactions
  can wait for each other (`EndDeadlock` fires in *auction*; *CyclesHaveASecondPost* says that it
  takes a second post). One is then ended and comes
  again, so this costs an error or a retry, never money.
* The auction screens read each listed auction's piece by `Items().Piece`, which locks it
  (`handlers/auctions.go:209`, `postgres/items.go:91`): a list by `ends_at` ascending and a
  player's own list by `ends_at` descending can deadlock as well.
* A close that comes before the auction's end is answered with an internal error and is
  retried up to `MaxDeliver` times.
* `statesync/service.go` says of HandleEvent that a crash between commit and publish "loses
  nothing". What is lost is the push; the records are in the log and the client's next pull
  has them, which is what *CopyIsTheView* and *EventuallyCaughtUp* rest on.
* `statesync/record.go` says an entity that comes back continues its versions, "never at 1".
  After the trim took its tombstone it does begin at 1. No client can tell: its copy lost the
  entity with the deletion.
* `postgres/player_inbox.go:110-111` says of DueReminders that two notifiers "cannot both claim
  the same player". The inner SELECT takes no lock, and a waiting UPDATE checks its outer
  condition again but not the inner one's columns; this part is not modelled (section 9).

---

## 8. What is abstracted

Everywhere: payloads, retry counts, last errors, logging, metrics and wording, which
nothing reads to decide.

* **Schedule.** Time advances by whole tick intervals. `remaining` stops at zero: ties among
  overdue rows are broken in every way. A call that fails because `batchCtx` is done changes
  nothing. A graceful stop is a tick that ends, then a stop. The route table is the set
  `Routed`.
* **Streams.** Ack waits and backoffs have no length. The age limits (24h for commands, 30
  days for events) and `Term` for an undecodable envelope are left out.
* **Game.** The handler is any handler of a timed operation. Activity stamps and replies to
  the gateway are left out, except that a failed reply is a NAK.
* **Notices.** Events with no text, with nobody to tell, or too old are `Mute`; players who
  blocked every bot or have none are `Unreachable`. The badge message, reminders, group
  announcements and settlement events are left out. `MarkPublished` waits for rows a claim
  holds. A relay's last pass at shutdown is a pass followed by a stop.
* **Activities.** One player. The end of a sentence or stay is `TermEnds`: the code compares
  its end with the clock, and releases, discharges and bail only close the row. A violated
  unique index, a refusal and an error are all `Rollback`. Scheduled ends of one activity
  exclude each other by their idempotency key. Energy, money, experience, moves of residence,
  village shifts and projects, and jail by the law are left out, and so is the wait for the
  journey's own row.
* **State sync.** One player. An entity's content is the number of the change that wrote it, so
  hashes never collide. A client takes an answer as it is read. A worker takes its task with the
  lock. Any tombstone may go with a trim, whatever its age. A snapshot is asked for by a client
  without a copy and stays tied to its `GET /state`. A projection moved to the background is
  taken by a projector. Which entities a change touches (`domain/affected.go`) is `Ways`.
* **Auctions.** Amounts are small; a player's accounts exist. Commands that `Begin` would refuse
  at once are not begun (`Worthwhile`), since they change nothing. New is two steps, what it
  asks under the lock of the goods and what it writes. A failure comes only to a transaction
  that holds a lock; before that it is as if it had not begun. The end of an auction is a time
  that passes (`EndPasses`), compared when a command begins. A replayed command finds its key
  and does nothing. Events, tax and reputation are left out.
* **Gateway.** A process takes no time between its calls. The client library's own retries
  are part of a call's length. Deduplication keys do not expire (24h deployed) and Telegram
  keeps its updates. Conflicts of two pollers and flood waits only delay a loop. What becomes
  no command (a membership, a chat message, moderation, text input) is `Ignore`. A command
  published twice carries the same `tg:bot:update` idempotency key, which `cmd/game` collapses.

---

## 9. Plan

Order by weight for the players: first what may lose or double something, then what is
merely late. The schedule, the notices, the activities, the gateway, state sync and the
auctions are done as above. Worth adding next, each on its own:

1. **RowLocks**: the lock order of payments, arrivals and thefts between players. A payment
   takes condition rows in id order and then player rows (`handlers/bank.go:1087`), an
   arrival takes the player row first; a theft holds the thief's row before it sorts
   (`crime_commit.go:302`). Property: no cycle of waits that only the deadlock detector ends.
2. **PlayerInbox**: the badge message and its reminders (`notification/badge.go`,
   `player_inbox.go`), read, sent and saved in separate steps.
3. **PendingInput**: the question a chat is to answer, in Redis, under two gateways.
4. **Listings and trades** over `Ledger`, as Auctions is: goods reserved, paid and delivered.
5. **Election** and **Raid**: phases as timed operations over `TimedOperation`.

### Not modelled

The repository has some 325 000 lines of Go, of which the models cover the parts where
processes, failures and time meet. What is left out is of three kinds:

* rules as formulas (companies, production, mining, farms, health, crime odds, world
  generation): sequential arithmetic over one player's rows, inside the transactions modelled
  here, which tests reach better than a model checker;
* translation and layout (client API, panel, presentation, rendering, contract generation,
  configuration): no state of their own;
* commands that follow a pattern already modelled (deposits, transfers, loans, listings, the
  shops: one or two posts under the locks of `Ledger`; elections, raids, lessons: rows of
  `game_actions` and a handler of a timed operation).
