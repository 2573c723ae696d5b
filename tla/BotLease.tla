------------------------------ MODULE BotLease ------------------------------
(***************************************************************************)
(* One bot's lease: the Redis key that says which gateway may poll it, the *)
(* keeper that acquires, renews and releases it in each gateway, and the   *)
(* loop around the keeper (internal/infrastructure/redis/lease.go,         *)
(* internal/gateway/lease/lease.go, serveBot in cmd/gateway/main.go).      *)
(*                                                                         *)
(* A call to Redis is two steps, its execution there and the keeper's      *)
(* return from it, with time in between.  What a process does without      *)
(* waiting for anybody takes no time.                                      *)
(***************************************************************************)
EXTENDS Integers, FiniteSets

CONSTANTS
    Gateway,     \* gateway processes, by instance id
    Nobody,      \* no holder: the key does not exist
    TTL,         \* lease.ttl
    RenewEvery,  \* lease.ttl / lease.renew_divisor
    MaxCall,     \* the longest a call to Redis takes
    MaxFaults    \* bound: crashes, shutdowns, failed calls and lost keys

ASSUME LeaseConstants ==
    /\ Nobody \notin Gateway
    /\ {TTL, RenewEvery} \subseteq Nat \ {0}
    /\ {MaxCall, MaxFaults} \subseteq Nat
    /\ RenewEvery < TTL               \* NewKeeper refuses anything else

\* What NewKeeper cannot see: the call that acquires and the call that first
\* renews must fit into the rest of the TTL.
ASSUME CallsEnd == RenewEvery + 2 * MaxCall < TTL

VARIABLES
    holder,   \* the value of the lease key
    ttl,      \* time until it expires
    keeper,   \* where a gateway stands with the lease
    answer,   \* the answer Redis gave to the call under way
    elapsed,  \* how long that call has taken
    due,      \* time to the next tick of the ticker, or to the next attempt
    fired,    \* the ticker's channel holds a tick
    polling,  \* the gateways whose poll context is alive
    blind,    \* history: time since Redis lost the key of a gateway that
              \* was told it holds it
    faults

keyVars == <<holder, ttl>>
callVars == <<answer, elapsed>>
timerVars == <<due, fired>>
leaseVars == <<keyVars, keeper, callVars, timerVars, polling, blind, faults>>

Calling == {"acquiring", "renewing"}
Ticking == {"holding", "renewing"}  \* Run's ticker exists
\* The longest a keeper can believe in a key that is gone.
BlindLimit == RenewEvery + 2 * MaxCall

LeaseTypeOK ==
    /\ holder \in Gateway \cup {Nobody}
    /\ ttl \in 0 .. TTL
    /\ keeper \in [Gateway -> Calling \cup {"down", "waiting", "holding", "ended", "releasing"}]
    /\ answer \in [Gateway -> {"none", "yes", "no"}]
    /\ elapsed \in [Gateway -> 0 .. MaxCall]
    /\ due \in [Gateway -> 0 .. RenewEvery]
    /\ fired \in [Gateway -> BOOLEAN]
    /\ polling \in SUBSET Gateway
    /\ blind \in [Gateway -> Nat]
    /\ faults \in 0 .. MaxFaults

LeaseInit ==
    /\ holder = Nobody
    /\ ttl = 0
    /\ keeper = [g \in Gateway |-> "waiting"]
    /\ answer = [g \in Gateway |-> "none"]
    /\ elapsed = [g \in Gateway |-> 0]
    /\ due = [g \in Gateway |-> 0]
    /\ fired = [g \in Gateway |-> FALSE]
    /\ polling = {}
    /\ blind = [g \in Gateway |-> 0]
    /\ faults = 0

Fault == faults < MaxFaults /\ faults' = faults + 1
Become(g, state) == keeper' = [keeper EXCEPT ![g] = state]
\* The gateways that act, or are about to act, on a lease they were granted.
Believers == polling \cup {g \in Gateway : keeper[g] = "acquiring" /\ answer[g] = "yes"}
StopPolling(g) ==
    /\ polling' = polling \ {g}
    /\ blind' = [blind EXCEPT ![g] = 0]

----------------------------------------------------------------------------
(* Calls to Redis.                                                         *)

StartCall(g, call) ==
    /\ Become(g, call)
    /\ answer' = [answer EXCEPT ![g] = "none"]
    /\ elapsed' = [elapsed EXCEPT ![g] = 0]

\* SET NX: refused while the key exists, whoever holds it.
AcquireExecutes(g) ==
    /\ keeper[g] = "acquiring" /\ answer[g] = "none"
    /\ IF holder = Nobody
       THEN /\ holder' = g
            /\ ttl' = TTL
            /\ answer' = [answer EXCEPT ![g] = "yes"]
       ELSE /\ answer' = [answer EXCEPT ![g] = "no"]
            /\ UNCHANGED keyVars
    /\ UNCHANGED <<keeper, elapsed, timerVars, polling, blind, faults>>

\* compareAndExpire: only the holder's key is extended.
RenewExecutes(g) ==
    /\ keeper[g] = "renewing" /\ answer[g] = "none"
    /\ answer' = [answer EXCEPT ![g] = IF holder = g THEN "yes" ELSE "no"]
    /\ ttl' = IF holder = g THEN TTL ELSE ttl
    /\ UNCHANGED <<holder, keeper, elapsed, timerVars, polling, blind, faults>>

\* Mutant: DEL without the comparison.
Delete_Bare(g) ==
    /\ holder' = Nobody
    /\ ttl' = 0

\* compareAndDelete: only the holder's key is deleted.
Delete(g) ==
    /\ holder' = IF holder = g THEN Nobody ELSE holder
    /\ ttl' = IF holder = g THEN 0 ELSE ttl

----------------------------------------------------------------------------
(* The keeper and serveBot.                                                *)

Acquire(g) ==
    /\ keeper[g] = "waiting" /\ due[g] = 0
    /\ StartCall(g, "acquiring")
    /\ UNCHANGED <<keyVars, timerVars, polling, blind, faults>>

\* Run starts its ticker, and the acquisition starts the poll loop.
Acquired(g) ==
    /\ keeper[g] = "acquiring" /\ answer[g] = "yes"
    /\ Become(g, "holding")
    /\ due' = [due EXCEPT ![g] = RenewEvery]
    /\ fired' = [fired EXCEPT ![g] = FALSE]
    /\ polling' = polling \cup {g}
    /\ UNCHANGED <<keyVars, callVars, blind, faults>>

\* Mutant: a gateway tries for the lease once, at startup.
Retry_Never(g) ==
    /\ Become(g, "retired")
    /\ due' = [due EXCEPT ![g] = RenewEvery]

\* serveBotOnce is over; serveBot tries again after a renewal interval.
Retry(g) ==
    /\ Become(g, "waiting")
    /\ due' = [due EXCEPT ![g] = RenewEvery]

NotAcquired(g) ==
    /\ keeper[g] = "acquiring" /\ answer[g] = "no"
    /\ Retry(g)
    /\ UNCHANGED <<keyVars, callVars, fired, polling, blind, faults>>

\* No answer came: the key may have been set all the same.
AcquireFails(g) ==
    /\ keeper[g] = "acquiring" /\ answer[g] \in {"none", "yes"}
    /\ Fault
    /\ Retry(g)
    /\ StopPolling(g)
    /\ UNCHANGED <<keyVars, callVars, fired>>

Renew(g) ==
    /\ keeper[g] = "holding" /\ fired[g]
    /\ fired' = [fired EXCEPT ![g] = FALSE]
    /\ StartCall(g, "renewing")
    /\ UNCHANGED <<keyVars, due, polling, blind, faults>>

Renewed(g) ==
    /\ keeper[g] = "renewing" /\ answer[g] = "yes"
    /\ Become(g, "holding")
    /\ UNCHANGED <<keyVars, callVars, timerVars, polling, blind, faults>>

\* Mutant: a refused renewal is ignored, and the lease is kept.
Lost_Ignored(g) ==
    /\ keeper[g] = "renewing" /\ answer[g] = "no"
    /\ Become(g, "holding")
    /\ UNCHANGED <<keyVars, callVars, timerVars, polling, blind, faults>>

\* ErrLost: nothing is released.
Lost(g) ==
    /\ keeper[g] = "renewing" /\ answer[g] = "no"
    /\ Become(g, "ended")
    /\ UNCHANGED <<keyVars, callVars, timerVars, polling, blind, faults>>

\* A renewal that fails ends Run, whether or not it was executed.
RenewFails(g) ==
    /\ keeper[g] = "renewing" /\ answer[g] \in {"none", "yes"}
    /\ Fault
    /\ Become(g, "ended")
    /\ UNCHANGED <<keyVars, callVars, timerVars, polling, blind>>

\* Run has returned: the poll context is cancelled.
Ended(g) ==
    /\ keeper[g] = "ended"
    /\ Retry(g)
    /\ StopPolling(g)
    /\ UNCHANGED <<keyVars, callVars, fired, faults>>

----------------------------------------------------------------------------
(* The end of a process, and its next beginning.                           *)

\* The signal cancels polling and every call.  A keeper that knows it acquired
\* the lease releases it; one whose acquisition was interrupted does not.
Shutdown(g) ==
    /\ keeper[g] # "down" /\ keeper[g] # "releasing"
    /\ Fault
    /\ \/ keeper[g] \notin Ticking /\ Become(g, "down")
       \/ (keeper[g] \in Ticking \/ g \in Believers) /\ Become(g, "releasing")
    /\ StopPolling(g)
    /\ UNCHANGED <<keyVars, callVars, timerVars>>

Release(g) ==
    /\ keeper[g] = "releasing"
    /\ Delete(g)
    /\ Become(g, "down")
    /\ UNCHANGED <<callVars, timerVars, polling, blind, faults>>

ReleaseFails(g) ==
    /\ keeper[g] = "releasing"
    /\ Fault
    /\ Become(g, "down")
    /\ UNCHANGED <<keyVars, callVars, timerVars, polling, blind>>

Crash(g) ==
    /\ keeper[g] # "down"
    /\ Fault
    /\ Become(g, "down")
    /\ StopPolling(g)
    /\ UNCHANGED <<keyVars, callVars, timerVars>>

Restart(g) ==
    /\ keeper[g] = "down"
    /\ Become(g, "waiting")
    /\ due' = [due EXCEPT ![g] = 0]
    /\ UNCHANGED <<keyVars, callVars, fired, polling, blind, faults>>

----------------------------------------------------------------------------
(* Redis and time.                                                         *)

\* A failover to a replica that has not seen the key.
KeyIsLost ==
    /\ holder # Nobody
    /\ Fault
    /\ holder' = Nobody
    /\ ttl' = 0
    /\ blind' = [g \in Gateway |->
                   IF g = holder /\ g \in Believers THEN 1 ELSE blind[g]]
    /\ UNCHANGED <<keeper, callVars, timerVars, polling>>

\* A call ends within MaxCall; a keeper waits neither for its own tick nor to
\* stop its own poll loop.
TimeMayPass ==
    \A g \in Gateway :
        /\ keeper[g] \in Calling => elapsed[g] < MaxCall
        /\ ~ (keeper[g] = "holding" /\ fired[g])
        /\ keeper[g] # "ended"

Tick ==
    /\ TimeMayPass
    /\ ttl' = IF ttl > 0 THEN ttl - 1 ELSE 0
    /\ holder' = IF ttl <= 1 THEN Nobody ELSE holder
    /\ elapsed' = [g \in Gateway |->
                     IF keeper[g] \in Calling THEN elapsed[g] + 1 ELSE elapsed[g]]
    /\ due' = [g \in Gateway |->
                 IF due[g] > 1 THEN due[g] - 1 ELSE IF keeper[g] \in Ticking THEN RenewEvery ELSE 0]
    /\ fired' = [g \in Gateway |-> fired[g] \/ (keeper[g] \in Ticking /\ due[g] <= 1)]
    /\ blind' = [g \in Gateway |-> IF blind[g] > 0 THEN blind[g] + 1 ELSE 0]
    /\ UNCHANGED <<keeper, answer, polling, faults>>

----------------------------------------------------------------------------
Serve(g) ==
    \/ AcquireExecutes(g) \/ RenewExecutes(g)
    \/ Acquire(g) \/ Acquired(g) \/ NotAcquired(g) \/ AcquireFails(g)
    \/ Renew(g) \/ Renewed(g) \/ Lost(g) \/ RenewFails(g) \/ Ended(g)
    \/ Release(g) \/ ReleaseFails(g)

Interrupt(g) == Shutdown(g) \/ Crash(g)

LeaseNext ==
    \/ \E g \in Gateway : Serve(g) \/ Interrupt(g) \/ Restart(g)
    \/ KeyIsLost
    \/ Tick

LeaseSpec == LeaseInit /\ [][LeaseNext]_leaseVars

----------------------------------------------------------------------------
(* Never do two gateways poll the bot, unless Redis lost the key of one of *)
(* them and its keeper has not asked again: however calls fail, processes  *)
(* stop and leases run out (what the lease is for, cmd/gateway).           *)
AtMostOnePoller ==
    \A g, h \in polling : blind[g] = 0 /\ blind[h] = 0 => g = h

(* A gateway whose key was lost stops polling within a renewal interval    *)
(* and two calls, although nobody tells it.                                *)
LossIsNoticed == \A g \in polling : blind[g] <= BlindLimit + 1
=============================================================================
