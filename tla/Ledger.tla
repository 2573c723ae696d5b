------------------------------- MODULE Ledger -------------------------------
(***************************************************************************)
(* Locks and money of concurrent PostgreSQL transactions, as the unit of   *)
(* work (internal/infrastructure/postgres/uow.go) and the ledger           *)
(* (internal/infrastructure/postgres/ledger.go) use them.                  *)
(*                                                                         *)
(* A lock is a row's or an advisory one; it is taken in a transaction and  *)
(* kept to its end.  A post locks the accounts of its legs in id order and *)
(* moves their balances, which others see when the transaction commits.    *)
(***************************************************************************)
EXTENDS Integers

CONSTANTS
    Txns, NoTxn,
    Account,
    Lock,       \* account rows and the other locks
    IdOf,       \* the order of ids
    MayOwe,     \* accounts without a balance check: the system's
    Start       \* the balances at first

ASSUME LedgerConstants ==
    /\ NoTxn \notin Txns
    /\ Account \subseteq Lock
    /\ IdOf \in [Lock -> Nat]
    /\ \A k, l \in Lock : IdOf[k] = IdOf[l] => k = l
    /\ MayOwe \subseteq Account
    /\ Start \in [Account -> Nat]

VARIABLES
    balance,    \* accounts.balance, committed
    moved,      \* what a transaction has posted and not committed
    holder      \* who holds a lock

ledgerVars == <<balance, moved, holder>>

Nothing == [a \in Account |-> 0]

LedgerTypeOK ==
    /\ balance \in [Account -> Int]
    /\ \A a \in Account \ MayOwe : balance[a] >= 0
    /\ moved \in [Txns -> [Account -> Int]]
    /\ holder \in [Lock -> Txns \cup {NoTxn}]

LedgerInit ==
    /\ balance = Start
    /\ moved = [t \in Txns |-> Nothing]
    /\ holder = [l \in Lock |-> NoTxn]

----------------------------------------------------------------------------
Missing(t, locks) == {l \in locks : holder[l] # t}
Ready(t, locks) == Missing(t, locks) = {}
FirstOf(locks) == CHOOSE l \in locks : \A k \in locks : IdOf[l] <= IdOf[k]

Take(t, l) ==
    /\ holder[l] = NoTxn
    /\ holder' = [holder EXCEPT ![l] = t]
    /\ UNCHANGED <<balance, moved>>

\* Mutant: without the ORDER BY.
TakeFirst_Unordered(t, locks) == \E l \in Missing(t, locks) : Take(t, l)

\* ORDER BY id FOR UPDATE: one after the other, least first.
TakeFirst(t, locks) == ~Ready(t, locks) /\ Take(t, FirstOf(Missing(t, locks)))

\* A post as a function from accounts to what each is moved by.
Legs(from, to, amount) ==
    [a \in Account |-> CASE a = from -> -amount [] a = to -> amount [] OTHER -> 0]
Touched(legs) == {a \in Account : legs[a] # 0}

\* Mutant: no check on the balance.
Covered_Unchecked(t, legs) == Ready(t, Touched(legs))

\* accounts_balance_non_negative_check
Covered(t, legs) ==
    \A a \in Touched(legs) \ MayOwe : balance[a] + moved[t][a] + legs[a] >= 0

Sum(f, g) == [a \in Account |-> f[a] + g[a]]

Post(t, legs) ==
    /\ Ready(t, Touched(legs)) /\ Covered(t, legs)
    /\ moved' = [moved EXCEPT ![t] = Sum(@, legs)]
    /\ UNCHANGED <<balance, holder>>

Refused(t, legs) == Ready(t, Touched(legs)) /\ ~Covered(t, legs)

Released(t) == [l \in Lock |-> IF holder[l] = t THEN NoTxn ELSE holder[l]]

CommitMoves(t) ==
    /\ balance' = Sum(balance, moved[t])
    /\ moved' = [moved EXCEPT ![t] = Nothing]
    /\ holder' = Released(t)

DropMoves(t) ==
    /\ moved' = [moved EXCEPT ![t] = Nothing]
    /\ holder' = Released(t)
    /\ UNCHANGED balance

\* Transactions that wait for each other; each waits for one lock.
Cycle(S, wanted) ==
    /\ S # {}
    /\ \A t \in S : \E l \in wanted[t] : holder[l] \in S \ {t}
Deadlocked(t, wanted) == \E S \in SUBSET Txns : t \in S /\ Cycle(S, wanted)
=============================================================================
