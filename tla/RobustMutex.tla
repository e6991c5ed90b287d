---------------------------- MODULE RobustMutex ----------------------------
(***************************************************************************)
(* The shared memory segment of 23-processus-ipc/exemples/                 *)
(* ex17_pthread_mutex_shared.cpp: processes that increment a counter and   *)
(* format it into a text, under a robust mutex which survives the death of *)
(* its owner.  A process can be killed at any point.                       *)
(***************************************************************************)
EXTENDS Naturals, FiniteSets

CONSTANTS Processes,
          Parent,       \* the one that forked the others and waits for them
          PerProcess    \* calls of increment() by each (1000 in main())

Nobody == "nobody"
ASSUME ProcessesAssumption == Parent \in Processes /\ Nobody \notin Processes
ASSUME PerProcessAssumption == PerProcess \in Nat \ {0}

VARIABLES owner,        \* who holds the mutex
          mutex,        \* its state: see TypeOK
          counter,
          data,         \* the counter that the text shows, 0 when empty
          torn,         \* the text is being written
          pc,
          made,         \* the increments of each process that reached counter
          seen          \* the counter each ++ has read

vars == <<owner, mutex, counter, data, torn, pc, made, seen>>
shared == <<counter, data, torn>>

Init == /\ owner = Nobody /\ mutex = "consistent"
        /\ counter = 0 /\ data = 0 /\ torn = FALSE
        /\ pc = [p \in Processes |-> "lock"]
        /\ made = [p \in Processes |-> 0]
        /\ seen = [p \in Processes |-> 0]

Goto(p, from, to) == pc[p] = from /\ pc' = [pc EXCEPT ![p] = to]

\* Killed: the process takes no more step.
Kill(p) == /\ pc[p] \notin {"done", "dead"}
           /\ pc' = [pc EXCEPT ![p] = "dead"]
           /\ UNCHANGED <<shared, made, seen>>
-----------------------------------------------------------------------------
(* Plausible bugs: wrong forms of the definitions below. *)

\* Without PTHREAD_MUTEX_ROBUST the dead owner keeps the mutex.
CrashNotRobust(p) == Kill(p) /\ UNCHANGED <<owner, mutex>>

\* EOWNERDEAD taken for an error that left the mutex free.
RecoverReleases(p) == /\ Goto(p, "recover", "read")
                      /\ mutex' = "consistent" /\ owner' = Nobody
                      /\ UNCHANGED <<shared, made, seen>>

\* EOWNERDEAD without the call of pthread_mutex_consistent().
RecoverForgotten(p) == /\ Goto(p, "recover", "read")
                       /\ UNCHANGED <<owner, mutex, shared, made, seen>>

\* The unlock before the text is written.
FormatAfterUnlock(p) == /\ Goto(p, "format", "write_text")
                        /\ owner' = Nobody
                        /\ torn' = TRUE
                        /\ UNCHANGED <<mutex, counter, data, made, seen>>
-----------------------------------------------------------------------------
\* pthread_mutex_lock().  Its result is EOWNERDEAD when the last owner died; a
\* mutex that is not recoverable gives an error, which increment() ignores.
Lock(p) == /\ owner = Nobody
           /\ Goto(p, "lock", IF mutex = "ownerdead" THEN "recover" ELSE "read")
           /\ owner' = IF mutex = "notrecoverable" THEN Nobody ELSE p
           /\ UNCHANGED <<mutex, shared, made, seen>>

\* pthread_mutex_consistent()
Recover(p) == /\ Goto(p, "recover", "read")
              /\ mutex' = "consistent"
              /\ UNCHANGED <<owner, shared, made, seen>>

\* state->counter++ is a read and a write.
Read(p) == /\ Goto(p, "read", "write")
           /\ seen' = [seen EXCEPT ![p] = counter]
           /\ UNCHANGED <<owner, mutex, shared, made>>

Write(p) == /\ Goto(p, "write", "format")
            /\ counter' = seen[p] + 1
            /\ made' = [made EXCEPT ![p] = @ + 1]
            /\ UNCHANGED <<owner, mutex, data, torn, seen>>

\* snprintf() fills the text in place, one character after the other.
Format(p) == /\ Goto(p, "format", "write_text")
             /\ torn' = TRUE
             /\ UNCHANGED <<owner, mutex, counter, data, made, seen>>

WriteText(p) == /\ Goto(p, "write_text", "unlock")
                /\ torn' = FALSE /\ data' = counter
                /\ UNCHANGED <<owner, mutex, counter, made, seen>>

\* pthread_mutex_unlock() and the loop of main(): unlocking what was not made
\* consistent leaves the mutex unusable for ever.
Unlock(p) == /\ Goto(p, "unlock", IF made[p] < PerProcess THEN "lock" ELSE "waitpid")
             /\ owner' = IF owner = p THEN Nobody ELSE owner
             /\ mutex' = IF mutex = "ownerdead" THEN "notrecoverable" ELSE mutex
             /\ UNCHANGED <<shared, made, seen>>

\* A child exits, the parent once waitpid() has seen its children end.
Exit(p) == /\ p = Parent => \A c \in Processes \ {p} : pc[c] \in {"done", "dead"}
           /\ Goto(p, "waitpid", "done")
           /\ UNCHANGED <<owner, mutex, shared, made, seen>>

\* kill -9: the kernel walks the robust list of the process.
Crash(p) == /\ Kill(p)
            /\ owner' = IF owner = p THEN Nobody ELSE owner
            /\ mutex' = IF owner = p THEN "ownerdead" ELSE mutex

Step(p) == \/ Lock(p) \/ Recover(p) \/ Read(p) \/ Write(p)
           \/ Format(p) \/ WriteText(p) \/ Unlock(p) \/ Exit(p)

Ended == \A p \in Processes : pc[p] \in {"done", "dead"}
Stop == Ended /\ UNCHANGED vars

Next == (\E p \in Processes : Step(p) \/ Crash(p)) \/ Stop

\* A process that is alive is scheduled; nothing says that one is ever killed.
Spec == Init /\ [][Next]_vars /\ \A p \in Processes : WF_vars(Step(p))
-----------------------------------------------------------------------------
TypeOK == /\ owner \in Processes \cup {Nobody}
          /\ mutex \in {"consistent", "ownerdead", "notrecoverable"}
          /\ counter \in Nat /\ data \in Nat /\ torn \in BOOLEAN
          /\ pc \in [Processes -> {"lock", "recover", "read", "write", "format",
                                   "write_text", "unlock", "waitpid", "done", "dead"}]
          /\ made \in [Processes -> 0 .. PerProcess]
          /\ seen \in [Processes -> Nat]

\* A mutex whose owner died is made consistent before it is unlocked, even if
\* the process that found it so is killed in its turn (l.41-44).
NeverUnrecoverable == mutex # "notrecoverable"

\* Whoever takes the mutex without EOWNERDEAD finds a whole text that shows the
\* counter: a crash between l.46 and l.47 is never taken for a good state.
TextAgrees == owner = Nobody /\ mutex = "consistent" => ~torn /\ data = counter

\* The death of an owner stops nobody else: the mutex does not stay locked.
SurvivorsEnd == <>Ended

Counter == INSTANCE AtomicUpdate WITH
             Threads <- Processes,
             Each <- PerProcess,
             Start <- 0,
             Update <- LAMBDA v : v + 1,
             value <- counter,
             todo <- [p \in Processes |-> PerProcess - made[p]]

\* Crash or not, no increment overwrites another: the counter is the number of
\* increments made, those of the dead included.
CountsEveryIncrement == Counter!Safety
=============================================================================
