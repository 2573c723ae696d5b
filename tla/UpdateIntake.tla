---------------------------- MODULE UpdateIntake ----------------------------
(***************************************************************************)
(* From Telegram's queue of updates of one bot to the commands published   *)
(* for them: the gateways' poll loops under the bot's lease, and the       *)
(* deduplication they share (poll and handleUpdate in cmd/gateway/main.go, *)
(* internal/gateway/dedup, internal/infrastructure/redis/dedup.go).        *)
(*                                                                         *)
(* Updates are numbered 1, 2, ... as Telegram numbers them.  A cancelled   *)
(* poll context makes every call of its loop fail, so a loop is over, with *)
(* whatever it was doing, once its gateway no longer polls.                *)
(***************************************************************************)
EXTENDS BotLease

CONSTANTS
    MaxUpdate,   \* bound: updates sent to the bot
    FetchLimit   \* updates in one answer of getUpdates

ASSUME IntakeConstants == {MaxUpdate, FetchLimit} \subseteq Nat \ {0}

VARIABLES
    sent,       \* the last update Telegram has for the bot
    confirmed,  \* the last update confirmed to Telegram
    offset,     \* the loop's offset; 0 before its first update
    fetched,    \* the updates a loop has received and not begun
    current,    \* the update in handleUpdate; 0 for none
    seen,       \* deduplication keys in Redis
    handled,    \* updates whose handling came to its end
    published,  \* commands the stream stored for each update
    unchecked   \* how often each update was let through without an answer

Update == 1 .. MaxUpdate

loopVars == <<offset, fetched, current>>
intakeVars == <<sent, confirmed, seen, handled, published, unchecked>>
vars == <<leaseVars, loopVars, intakeVars>>

TypeOK ==
    /\ LeaseTypeOK
    /\ sent \in 0 .. MaxUpdate
    /\ confirmed \in 0 .. MaxUpdate
    /\ offset \in [Gateway -> 0 .. MaxUpdate + 1]
    /\ fetched \in [Gateway -> SUBSET Update]
    /\ current \in [Gateway -> 0 .. MaxUpdate]
    /\ seen \in SUBSET Update
    /\ handled \in SUBSET Update
    /\ published \in [Update -> Nat]
    /\ unchecked \in [Update -> Nat]

\* Mutant: a loop starts behind the backlog.
FirstOffset_SkipsBacklog == sent + 1

\* A loop starts at the first unconfirmed update.
FirstOffset == 0

Init ==
    /\ LeaseInit
    /\ sent = 0
    /\ confirmed = 0
    /\ offset = [g \in Gateway |-> 0]
    /\ fetched = [g \in Gateway |-> {}]
    /\ current = [g \in Gateway |-> 0]
    /\ seen = {}
    /\ handled = {}
    /\ published = [u \in Update |-> 0]
    /\ unchecked = [u \in Update |-> 0]

----------------------------------------------------------------------------
\* A step of the lease; the loops of gateways that do not poll are over.
ByLease(A) ==
    /\ A
    /\ offset' = [g \in Gateway |->
                    IF g \in polling \cap polling' THEN offset[g] ELSE FirstOffset]
    /\ fetched' = [g \in Gateway |-> IF g \in polling' THEN fetched[g] ELSE {}]
    /\ current' = [g \in Gateway |-> IF g \in polling' THEN current[g] ELSE 0]
    /\ UNCHANGED intakeVars

\* A player does something the bot is told of.
Send ==
    /\ sent < MaxUpdate
    /\ sent' = sent + 1
    /\ UNCHANGED <<leaseVars, loopVars, confirmed, seen, handled, published, unchecked>>

\* The updates behind the last confirmed one, as many as one answer holds.
Answer(last, upTo) == {u \in Update : last < u /\ u <= upTo /\ u <= last + FetchLimit}

\* getUpdates: the offset confirms every update below it.  The answer holds
\* the next updates, or is lost.
GetUpdates(g) ==
    /\ g \in polling
    /\ fetched[g] = {} /\ current[g] = 0
    /\ confirmed' = IF offset[g] > confirmed + 1 THEN offset[g] - 1 ELSE confirmed
    /\ LET next == Answer(confirmed', sent)
       IN  /\ next # {} \/ confirmed' # confirmed
           /\ \/ fetched' = [fetched EXCEPT ![g] = next] /\ UNCHANGED faults
              \/ UNCHANGED fetched /\ Fault
    /\ UNCHANGED <<keyVars, keeper, callVars, timerVars, polling, blind,
                   offset, current, sent, seen, handled, published, unchecked>>

----------------------------------------------------------------------------
(* handleUpdate, for the next update of the batch.                         *)

NextUpdate(g) == CHOOSE u \in fetched[g] : \A v \in fetched[g] : u <= v

Begin(g) ==
    /\ g \in polling
    /\ fetched[g] # {} /\ current[g] = 0
    /\ offset' = [offset EXCEPT ![g] = NextUpdate(g) + 1]
    /\ fetched' = [fetched EXCEPT ![g] = @ \ {NextUpdate(g)}]

Finish(g) ==
    /\ handled' = handled \cup {current[g]}
    /\ current' = [current EXCEPT ![g] = 0]
    /\ UNCHANGED <<offset, fetched, sent, confirmed, seen, unchecked>>

UnchangedLease == UNCHANGED <<keyVars, keeper, callVars, timerVars, polling, blind>>

\* Mutant: a read and a separate write of the key, so that a second loop that
\* reads before the first one writes is let through too.
Admit_Repeats(g) ==
    /\ Begin(g)
    /\ seen' = seen \cup {NextUpdate(g)}
    /\ current' = [current EXCEPT ![g] = NextUpdate(g)]
    /\ UNCHANGED <<leaseVars, sent, confirmed, handled, published, unchecked>>

\* SET NX stored the key: nobody has seen the update.
Admit(g) ==
    /\ Begin(g)
    /\ NextUpdate(g) \notin seen
    /\ seen' = seen \cup {NextUpdate(g)}
    /\ current' = [current EXCEPT ![g] = NextUpdate(g)]
    /\ UNCHANGED <<leaseVars, sent, confirmed, handled, published, unchecked>>

\* The key exists: the update is dropped as a duplicate.
Suppress(g) ==
    /\ Begin(g)
    /\ NextUpdate(g) \in seen
    /\ UNCHANGED <<leaseVars, current, intakeVars>>

\* Redis does not answer: the update is let through, its key set or not.
AdmitUnchecked(g) ==
    /\ Begin(g)
    /\ Fault
    /\ seen' \in {seen, seen \cup {NextUpdate(g)}}
    /\ current' = [current EXCEPT ![g] = NextUpdate(g)]
    /\ unchecked' = [unchecked EXCEPT ![NextUpdate(g)] = @ + 1]
    /\ UnchangedLease
    /\ UNCHANGED <<sent, confirmed, handled, published>>

Publish(g) ==
    /\ g \in polling /\ current[g] # 0
    /\ published' = [published EXCEPT ![current[g]] = @ + 1]
    /\ Finish(g)
    /\ UNCHANGED leaseVars

\* No command: a membership, a chat message, a help reply, a refusal.
Ignore(g) ==
    /\ g \in polling /\ current[g] # 0
    /\ Finish(g)
    /\ UNCHANGED <<leaseVars, published>>

\* The player cannot be resolved or the command cannot be published: an error
\* is logged and the loop goes on.  The stream may have stored the command.
PublishFails(g) ==
    /\ g \in polling /\ current[g] # 0
    /\ Fault
    /\ \/ UNCHANGED published
       \/ published' = [published EXCEPT ![current[g]] = @ + 1]
    /\ Finish(g)
    /\ UnchangedLease

----------------------------------------------------------------------------
Poll(g) ==
    \/ GetUpdates(g) \/ Admit(g) \/ Suppress(g) \/ AdmitUnchecked(g)
    \/ Publish(g) \/ Ignore(g) \/ PublishFails(g)

IntakeNext ==
    \/ ByLease(LeaseNext)
    \/ Send
    \/ \E g \in Gateway : Poll(g)

Spec == Init /\ [][IntakeNext]_vars

(* Processes run and are restarted, and time passes.  Nothing is asked of  *)
(* players or faults.                                                      *)
FairSpec ==
    /\ Spec
    /\ WF_vars(ByLease(Tick))
    /\ \A g \in Gateway :
        WF_vars(ByLease(Serve(g))) /\ WF_vars(ByLease(Restart(g))) /\ WF_vars(Poll(g))

----------------------------------------------------------------------------
(* No update is confirmed to Telegram, which forgets it, before some loop  *)
(* began to handle it, although every new poller starts from zero.         *)
ConfirmedWasBegun ==
    \A u \in 1 .. confirmed : u \in seen \/ unchecked[u] > 0

(* However pollers change while a batch is under way, an update becomes    *)
(* one command, and one more for each time Redis could not be asked.       *)
OneCommandPerUpdate == \A u \in Update : published[u] <= 1 + unchecked[u]

(* Whatever restarts or fails, what players send is confirmed in the end.  *)
SentIsConfirmed == \A u \in Update : sent >= u ~> confirmed >= u

(* Allow's comment: an update is dropped only when it "was already         *)
(* handled".                                                               *)
SuppressedWasHandled ==
    [][\A g \in Gateway : Suppress(g) => NextUpdate(g) \in handled]_vars
=============================================================================
