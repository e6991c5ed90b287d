------------------------------ MODULE Transfer ------------------------------
(***************************************************************************)
(* transfer() of 21-threads-concurrence/exemples/                          *)
(* ex18_scoped_lock_transfer.cpp (the same body as ex16's, which spells    *)
(* scoped_lock as defer_lock and std::lock), called by one thread per      *)
(* transfer as in main().  The balances are read and written in separate   *)
(* steps: only the two mutexes make a transfer one step.                   *)
(***************************************************************************)
EXTENDS Integers, FiniteSets, Functions

CONSTANTS Accounts,
          Threads,          \* one per transfer
          From, To,         \* the two accounts of each transfer
          Amount,           \* its amount (10.00 and 5.00 in main())
          Opening,          \* every account's opening balance (1000.00)
          Free              \* the owner of a mutex nobody holds

\* main() never transfers from an account to itself: scoped_lock on the same
\* mutex twice would be undefined.
ASSUME TransfersAssumption ==
         /\ From \in [Threads -> Accounts] /\ To \in [Threads -> Accounts]
         /\ \A t \in Threads : From[t] # To[t]
ASSUME AmountsAssumption == Amount \in [Threads -> Nat] /\ Opening \in Nat
ASSUME FreeAssumption == Free \notin Threads
ASSUME FiniteAssumption == IsFiniteSet(Accounts) /\ IsFiniteSet(Threads)

VARIABLES owner,     \* the thread that holds each account's mtx, or Free
          balance,   \* each account's balance
          pc,
          first,     \* the mutex a thread's lock call blocks on first
          debited,   \* local: the value from.balance was read as
          credited   \* local: the value to.balance was read as

vars == <<owner, balance, pc, first, debited, credited>>

Pair(t) == {From[t], To[t]}
Other(t) == CHOOSE a \in Pair(t) : a # first[t]

Init == /\ owner = [a \in Accounts |-> Free]
        /\ balance = [a \in Accounts |-> Opening]
        /\ pc = [t \in Threads |-> "lock"]
        /\ first \in [Threads -> Accounts]
        /\ \A t \in Threads : first[t] \in Pair(t)
        /\ debited = [t \in Threads |-> 0]
        /\ credited = [t \in Threads |-> 0]

Goto(t, from, to) == pc[t] = from /\ pc' = [pc EXCEPT ![t] = to]
-----------------------------------------------------------------------------
(* Wrong forms of the definitions below. *)

\* Locking one account after the other, keeping the first while waiting.
KeepsFirst(t) == /\ Goto(t, "try", "try")
                 /\ owner[Other(t)] # Free
                 /\ UNCHANGED <<owner, balance, first, debited, credited>>

\* The second mutex is never taken.
LocksFirstOnly(t) == /\ Goto(t, "try", "test")
                     /\ UNCHANGED <<owner, balance, first, debited, credited>>

\* After a failure, blocking on the other account without giving the first back.
FailsHolding(t) == /\ Goto(t, "try", "lock")
                   /\ owner[Other(t)] # Free
                   /\ first' = [first EXCEPT ![t] = Other(t)]
                   /\ UNCHANGED <<owner, balance, debited, credited>>

\* No test of the balance.
NoTest(t) == /\ Goto(t, "test", "debit")
             /\ debited' = [debited EXCEPT ![t] = balance[From[t]]]
             /\ UNCHANGED <<owner, balance, first, credited>>
-----------------------------------------------------------------------------
\* std::lock as the standard leaves it open: block on either mutex, try the
\* other, and when that fails give the first back and start again.
BlockOnFirst(t) == /\ Goto(t, "lock", "try")
                   /\ owner[first[t]] = Free
                   /\ owner' = [owner EXCEPT ![first[t]] = t]
                   /\ UNCHANGED <<balance, first, debited, credited>>

TrySucceeds(t) == /\ Goto(t, "try", "test")
                  /\ owner[Other(t)] = Free
                  /\ owner' = [owner EXCEPT ![Other(t)] = t]
                  /\ UNCHANGED <<balance, first, debited, credited>>

TryFails(t) == /\ Goto(t, "try", "lock")
               /\ owner[Other(t)] # Free
               /\ owner' = [owner EXCEPT ![first[t]] = Free]
               /\ \E a \in Pair(t) : first' = [first EXCEPT ![t] = a]
               /\ UNCHANGED <<balance, debited, credited>>

\* from.balance >= amount: go on with the value just read.
Test(t) == /\ balance[From[t]] >= Amount[t]
           /\ Goto(t, "test", "debit")
           /\ debited' = [debited EXCEPT ![t] = balance[From[t]]]
           /\ UNCHANGED <<owner, balance, first, credited>>

Refused(t) == /\ balance[From[t]] < Amount[t]
              /\ Goto(t, "test", "unlock")
              /\ UNCHANGED <<owner, balance, first, debited, credited>>

\* from.balance -= amount, and the read half of to.balance += amount.
Debit(t) == /\ Goto(t, "debit", "credit")
            /\ balance' = [balance EXCEPT ![From[t]] = debited[t] - Amount[t]]
            /\ credited' = [credited EXCEPT ![t] = balance[To[t]]]
            /\ UNCHANGED <<owner, first, debited>>

Credit(t) == /\ Goto(t, "credit", "unlock")
             /\ balance' = [balance EXCEPT ![To[t]] = credited[t] + Amount[t]]
             /\ UNCHANGED <<owner, first, debited, credited>>

\* ~scoped_lock releases both mutexes, one after the other.
UnlockOne(t) == /\ pc[t] = "unlock"
                /\ \E a \in Pair(t) :
                     /\ owner[a] = t
                     /\ owner' = [owner EXCEPT ![a] = Free]
                /\ pc' = [pc EXCEPT ![t] = IF \A a \in Pair(t) : owner'[a] # t
                                           THEN "done" ELSE "unlock"]
                /\ UNCHANGED <<balance, first, debited, credited>>

Step(t) == \/ BlockOnFirst(t) \/ TrySucceeds(t) \/ TryFails(t)
           \/ Test(t) \/ Refused(t) \/ Debit(t) \/ Credit(t) \/ UnlockOne(t)

Ended == \A t \in Threads : pc[t] = "done"

\* main() has joined every thread.
Joined == Ended /\ UNCHANGED vars

Next == (\E t \in Threads : Step(t)) \/ Joined

\* Threads are scheduled; one that finds a mutex free again and again gets it,
\* and two threads do not collide in std::lock for ever.
Fairness == \A t \in Threads : /\ WF_vars(Step(t))
                               /\ SF_vars(BlockOnFirst(t))
                               /\ SF_vars(TrySucceeds(t))

Spec == Init /\ [][Next]_vars /\ Fairness
-----------------------------------------------------------------------------
TypeOK == /\ owner \in [Accounts -> Threads \cup {Free}]
          /\ balance \in [Accounts -> Int]
          /\ pc \in [Threads -> {"lock", "try", "test", "debit", "credit",
                                 "unlock", "done"}]
          /\ first \in [Threads -> Accounts]
          /\ \A t \in Threads : first[t] \in Pair(t)
          /\ debited \in [Threads -> Int]
          /\ credited \in [Threads -> Int]

\* What a thread has taken from one account and not yet given to the other.
InTransit(t) == IF pc[t] = "credit" THEN Amount[t] ELSE 0

\* The total main() prints at the end (l.48-52, "attendu : 3000.00"), at every
\* moment: no interleaving of crossed transfers makes or loses money.
MoneyConserved == SumFunction(balance) + SumFunction([t \in Threads |-> InTransit(t)])
                  = Opening * Cardinality(Accounts)

\* No update is lost (l.24-25): a debit or a credit changes the account by the
\* transfer's amount from what it is at that moment, whoever wrote it last.
NoLostUpdate ==
    [][\A t \in Threads :
         /\ pc[t] = "debit" /\ pc'[t] = "credit"
              => balance' = [balance EXCEPT ![From[t]] = @ - Amount[t]]
         /\ pc[t] = "credit" /\ pc'[t] = "unlock"
              => balance' = [balance EXCEPT ![To[t]] = @ + Amount[t]]]_vars

\* The test of l.23 still holds when the debit of l.24 is done: no transfer
\* overdraws an account, whoever else pays from it.
NeverOverdrawn == \A a \in Accounts : balance[a] >= 0

\* "aucun deadlock possible" (l.37): the thread a transfer waits for is inside
\* its own transfer or between its two attempts, and never waits itself, so no
\* chain of waiting threads closes, however the transfers cross.
Blocked(t) == pc[t] = "lock" /\ owner[first[t]] # Free
NoDeadlock == \A t \in Threads : Blocked(t) =>
                LET u == owner[first[t]]
                IN  u # t /\ pc[u] # "done" /\ ~Blocked(u)

\* Every thread is joined: the transfers end one after the other.
Termination == <>Ended
=============================================================================
