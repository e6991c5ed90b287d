------------------------------- MODULE Monitor -------------------------------
(***************************************************************************)
(* Monitor<std::queue<int>> of 21-threads-concurrence/exemples/            *)
(* ex33_monitor_pattern.cpp with the producer and the consumer of its      *)
(* main(): apply() changes the data under the mutex and notifies nobody,   *)
(* wait_and_apply() waits for the data to satisfy a predicate.             *)
(***************************************************************************)
EXTENDS Naturals, Sequences, Condvar

CONSTANTS Items,   \* the producer pushes 0 .. Items-1 (10 in main())
          Free     \* the value of mtx_ while no thread holds it

Sentinel == Items   \* stands for -1, the end mark
Threads == {"producer", "consumer"}

VARIABLES mtx_, waiting, data_, pc,
          i,         \* the producer's loop index, Items when the sentinel is next
          result,    \* what func returned to the consumer
          handled    \* what the consumer printed

vars == <<mtx_, waiting, data_, pc, i, result, handled>>

Init == /\ mtx_ = Free
        /\ waiting = {}
        /\ data_ = <<>>
        /\ pc = [producer |-> "apply", consumer |-> "wait_and_apply"]
        /\ i = 0
        /\ result = Sentinel
        /\ handled = <<>>

Goto(t, from, to) == pc[t] = from /\ pc' = [pc EXCEPT ![t] = to]

-----------------------------------------------------------------------------
\* The constructor of unique_lock, and the reacquisition inside wait().
Lock(t) == /\ mtx_ = Free
           /\ mtx_' = t
           /\ \/ Goto(t, "apply", "applying")
              \/ Goto(t, "wait_and_apply", "check")
              \/ t \notin waiting /\ Goto(t, "wait", "check")
           /\ UNCHANGED <<waiting, data_, i, result, handled>>

\* apply(): func pushes the item, or the sentinel after the last; the lock is
\* released on return, and nobody is notified.
Apply == /\ IF i < Items THEN Goto("producer", "applying", "apply")
                         ELSE Goto("producer", "applying", "done")
         /\ data_' = Append(data_, i)
         /\ i' = i + 1
         /\ mtx_' = Free
         /\ UNCHANGED <<waiting, result, handled>>

WaitBlocks == /\ data_ = <<>>
              /\ Goto("consumer", "check", "wait")
              /\ waiting' = waiting \cup {"consumer"}
              /\ mtx_' = Free
              /\ UNCHANGED <<data_, i, result, handled>>

PredHolds == /\ data_ # <<>>
             /\ Goto("consumer", "check", "func")
             /\ UNCHANGED <<mtx_, waiting, data_, i, result, handled>>

\* func on the data, still under the lock.  On an empty queue front() and pop()
\* are undefined: any value may come back.
Func == /\ Goto("consumer", "func", "notify_all")
        /\ IF data_ = <<>> THEN result' \in 0 .. Sentinel /\ UNCHANGED data_
           ELSE result' = Head(data_) /\ data_' = Tail(data_)
        /\ mtx_' = Free
        /\ UNCHANGED <<waiting, i, handled>>

\* notify_all after the unlock, then the loop of the consumer.
NotifyAndHandle ==
    /\ waiting' = NotifyAll(waiting)
    /\ IF result = Sentinel
       THEN Goto("consumer", "notify_all", "done") /\ UNCHANGED handled
       ELSE /\ Goto("consumer", "notify_all", "wait_and_apply")
            /\ handled' = Append(handled, result)
    /\ UNCHANGED <<mtx_, data_, i, result>>

SpuriousWakeup(t) == /\ t \in waiting
                     /\ waiting' = waiting \ {t}
                     /\ UNCHANGED <<mtx_, data_, pc, i, result, handled>>

Ended == \A t \in Threads : pc[t] = "done"

\* main() joins both threads.
Joined == Ended /\ UNCHANGED vars

Consume == WaitBlocks \/ PredHolds \/ Func \/ NotifyAndHandle

Next == \/ \E t \in Threads : Lock(t) \/ SpuriousWakeup(t)
        \/ Apply
        \/ Consume
        \/ Joined

\* Scheduling and a fair mutex, but nothing ever obliges a spurious wakeup.
Fairness == /\ \A t \in Threads : SF_vars(Lock(t))
            /\ WF_vars(Apply)
            /\ WF_vars(Consume)

Spec == Init /\ [][Next]_vars /\ Fairness
-----------------------------------------------------------------------------
\* What the program says of itself: main() joins both threads and prints
\* "Terminé" (l.70-72), the ten items being produced and handled.
EveryItemHandled == <>Ended
=============================================================================
