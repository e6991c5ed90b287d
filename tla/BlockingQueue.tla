---------------------------- MODULE BlockingQueue ----------------------------
(***************************************************************************)
(* BlockingQueue<T> of 21-threads-concurrence/exemples/ex19_blocking_queue *)
(* .cpp with the producer and consumer threads of its main().  Critical    *)
(* sections are not atomic by decree: a thread holds mtx_ from Lock to the *)
(* step that releases it, and pop() reads the front and removes it in two  *)
(* steps, so that only the mutex keeps two threads apart.                  *)
(***************************************************************************)
EXTENDS Naturals, Sequences, FiniteSets, Condvar

CONSTANTS Producers,   \* threads that push, then close (main() starts one)
          Consumers,   \* threads that pop until told the end (main() starts 3)
          ItemsEach,   \* how many items a producer pushes (20 in main())
          Free         \* the value of mtx_ while no thread holds it

ASSUME ConsumersAssumption == Consumers # {} /\ IsFiniteSet(Consumers)
ASSUME ProducersAssumption == /\ Producers # {} /\ IsFiniteSet(Producers)
                              /\ Producers \cap Consumers = {}
ASSUME ItemsEachAssumption == ItemsEach \in Nat \ {0}
ASSUME FreeAssumption == Free \notin Producers \cup Consumers

Threads == Producers \cup Consumers

\* An item is named by its producer and the loop index it was pushed at.
Items == Producers \X (0 .. ItemsEach - 1)
NoItem == <<>>

\* Where a producer and a consumer can be, between two steps.
ProducerPoints == {"push", "pushing", "notify_one", "close", "closing",
                   "notify_all", "done", "threw"}
ConsumerPoints == {"pop", "wait", "check", "popping", "handle", "done"}

VARIABLES mtx_,      \* the thread that holds the mutex, or Free
          waiting,   \* the threads blocked in cv_not_empty_.wait
          queue_,    \* the queued items, front first
          closed_,   \* close() has been called
          pc,        \* where each thread is
          i,         \* the loop index of each producer
          item,      \* each consumer's local variable item
          sent,      \* history: the items pushed, in order
          taken      \* history: which consumer pop() gave which item

vars == <<mtx_, waiting, queue_, closed_, pc, i, item, sent, taken>>
-----------------------------------------------------------------------------
Init == /\ mtx_ = Free
        /\ waiting = {}
        /\ queue_ = <<>>
        /\ closed_ = FALSE
        /\ pc = [t \in Threads |-> IF t \in Producers THEN "push" ELSE "pop"]
        /\ i = [p \in Producers |-> 0]
        /\ item = [c \in Consumers |-> NoItem]
        /\ sent = <<>>
        /\ taken = <<>>

Goto(t, from, to) == pc[t] = from /\ pc' = [pc EXCEPT ![t] = to]

\* What a thread does once it has the mutex.
Enter(t) == /\ mtx_' = t
            /\ \/ Goto(t, "push", "pushing")
               \/ Goto(t, "close", "closing")
               \/ Goto(t, "pop", "check")
               \/ t \notin waiting /\ Goto(t, "wait", "check")
            /\ UNCHANGED <<waiting, queue_, closed_, i, item, sent, taken>>

-----------------------------------------------------------------------------
(* Wrong forms of the definitions below, to show what each property rejects. *)

\* push() that does not look at closed_.
PushUnchecked(p) == /\ Goto(p, "pushing", "notify_one")
                    /\ queue_' = Append(queue_, <<p, i[p]>>)
                    /\ sent' = Append(sent, <<p, i[p]>>)
                    /\ mtx_' = Free
                    /\ UNCHANGED <<waiting, closed_, i, item, taken>>

\* push() that notifies only when the queue was empty.
NotifiesIfFirst(p) == /\ Goto(p, "notify_one",
                              IF i[p] + 1 < ItemsEach THEN "push" ELSE "close")
                      /\ waiting' \in IF Len(queue_) = 1 THEN NotifyOne(waiting)
                                                         ELSE {waiting}
                      /\ i' = [i EXCEPT ![p] = @ + 1]
                      /\ UNCHANGED <<mtx_, queue_, closed_, item, sent, taken>>

\* The producer's loop runs once too often.
LoopsOnceMore(p) == /\ Goto(p, "notify_one",
                            IF i[p] < ItemsEach THEN "push" ELSE "close")
                    /\ waiting' \in NotifyOne(waiting)
                    /\ i' = [i EXCEPT ![p] = @ + 1]
                    /\ UNCHANGED <<mtx_, queue_, closed_, item, sent, taken>>

\* close() that wakes one consumer only.
CloseNotifiesOne(p) == /\ Goto(p, "notify_all", "done")
                       /\ waiting' \in NotifyOne(waiting)
                       /\ UNCHANGED <<mtx_, queue_, closed_, i, item, sent, taken>>

\* pop() whose predicate forgets closed_.
WaitsThoughClosed(c) == /\ queue_ = <<>>
                        /\ Goto(c, "check", "wait")
                        /\ waiting' = waiting \cup {c}
                        /\ mtx_' = Free
                        /\ UNCHANGED <<queue_, closed_, i, item, sent, taken>>

\* pop() that takes the newest item and removes the oldest.
ReadsBack(c) == /\ queue_ # <<>>
                /\ Goto(c, "check", "popping")
                /\ item' = [item EXCEPT ![c] = queue_[Len(queue_)]]
                /\ UNCHANGED <<mtx_, waiting, queue_, closed_, i, sent, taken>>

\* pop() that gives up as soon as the queue is closed.
EndsUndrained(c) == /\ closed_
                    /\ Goto(c, "check", "done")
                    /\ mtx_' = Free
                    /\ UNCHANGED <<waiting, queue_, closed_, i, item, sent, taken>>
-----------------------------------------------------------------------------
\* The constructor of lock_guard or unique_lock, and the reacquisition at the
\* end of a wait() whose thread has been woken.
Lock(t) == mtx_ = Free /\ Enter(t)

\* push() on a closed queue throws; unwinding releases the lock.
PushThrows(p) == /\ closed_
                 /\ Goto(p, "pushing", "threw")
                 /\ mtx_' = Free
                 /\ UNCHANGED <<waiting, queue_, closed_, i, item, sent, taken>>

PushAppends(p) == /\ ~closed_
                  /\ Goto(p, "pushing", "notify_one")
                  /\ queue_' = Append(queue_, <<p, i[p]>>)
                  /\ sent' = Append(sent, <<p, i[p]>>)
                  /\ mtx_' = Free
                  /\ UNCHANGED <<waiting, closed_, i, item, taken>>

\* The notification comes after the lock is released; then the loop of the
\* producer goes on to its next item, or to close().
PushNotifies(p) == /\ Goto(p, "notify_one",
                           IF i[p] + 1 < ItemsEach THEN "push" ELSE "close")
                   /\ waiting' \in NotifyOne(waiting)
                   /\ i' = [i EXCEPT ![p] = @ + 1]
                   /\ UNCHANGED <<mtx_, queue_, closed_, item, sent, taken>>

CloseSets(p) == /\ Goto(p, "closing", "notify_all")
                /\ closed_' = TRUE
                /\ mtx_' = Free
                /\ UNCHANGED <<waiting, queue_, i, item, sent, taken>>

CloseNotifies(p) == /\ Goto(p, "notify_all", "done")
                    /\ waiting' = NotifyAll(waiting)
                    /\ UNCHANGED <<mtx_, queue_, closed_, i, item, sent, taken>>

\* The predicate of pop()'s wait is false: release the lock and block.
PopWaits(c) == /\ queue_ = <<>> /\ ~closed_
               /\ Goto(c, "check", "wait")
               /\ waiting' = waiting \cup {c}
               /\ mtx_' = Free
               /\ UNCHANGED <<queue_, closed_, i, item, sent, taken>>

\* Closed and empty: pop() returns false and the consumer's loop ends.
PopEnds(c) == /\ queue_ = <<>> /\ closed_
              /\ Goto(c, "check", "done")
              /\ mtx_' = Free
              /\ UNCHANGED <<waiting, queue_, closed_, i, item, sent, taken>>

PopReadsFront(c) == /\ queue_ # <<>>
                    /\ Goto(c, "check", "popping")
                    /\ item' = [item EXCEPT ![c] = Head(queue_)]
                    /\ UNCHANGED <<mtx_, waiting, queue_, closed_, i, sent, taken>>

PopRemoves(c) == /\ Goto(c, "popping", "handle")
                 /\ queue_' = Tail(queue_)
                 /\ taken' = Append(taken, [by |-> c, val |-> item[c]])
                 /\ mtx_' = Free
                 /\ UNCHANGED <<waiting, closed_, i, item, sent>>

\* The body of the consumer's loop, outside every lock.
Handle(c) == /\ Goto(c, "handle", "pop")
             /\ UNCHANGED <<mtx_, waiting, queue_, closed_, i, item, sent, taken>>

\* wait() may wake with no notification at all.
SpuriousWakeup(c) == /\ c \in waiting
                     /\ waiting' = waiting \ {c}
                     /\ UNCHANGED <<mtx_, queue_, closed_, pc, i, item, sent, taken>>

Produce(p) == \/ PushThrows(p) \/ PushAppends(p) \/ PushNotifies(p)
              \/ CloseSets(p) \/ CloseNotifies(p)

Consume(c) == \/ PopWaits(c) \/ PopEnds(c)
              \/ PopReadsFront(c) \/ PopRemoves(c) \/ Handle(c)

Ended == \A t \in Threads : pc[t] \in {"done", "threw"}

\* Every join() of main() has returned.
Joined == Ended /\ UNCHANGED vars

Next == \/ \E t \in Threads : Lock(t)
        \/ \E p \in Producers : Produce(p)
        \/ \E c \in Consumers : Consume(c) \/ SpuriousWakeup(c)
        \/ Joined

\* Each thread is scheduled, and one that finds the mutex free again and again
\* gets it in the end: a woken consumer may otherwise take it for ever.
Fairness == /\ \A t \in Threads : SF_vars(Lock(t))
            /\ \A p \in Producers : WF_vars(Produce(p))
            /\ \A c \in Consumers : WF_vars(Consume(c))

Spec == Init /\ [][Next]_vars /\ Fairness
-----------------------------------------------------------------------------
TypeOK == /\ mtx_ \in Threads \cup {Free}
          /\ waiting \subseteq Consumers
          /\ queue_ \in Seq(Items)
          /\ closed_ \in BOOLEAN
          /\ pc \in [Threads -> ProducerPoints \cup ConsumerPoints]
          /\ \A p \in Producers : pc[p] \in ProducerPoints
          /\ \A c \in Consumers : pc[c] \in ConsumerPoints
          /\ i \in [Producers -> 0 .. ItemsEach]
          /\ item \in [Consumers -> Items \cup {NoItem}]
          /\ sent \in Seq(Items)
          /\ taken \in Seq([by : Consumers, val : Items])

\* The values taken, without the names of those who took them.
TakenValues == [k \in DOMAIN taken |-> taken[k].val]

\* No item is lost, given twice or overtaken: what pop() has returned, followed
\* by what is still queued, is what push() was given, in order (l.28, l.44-45).
ExactlyOnceInOrder == TakenValues \o queue_ = sent

\* pop() returns false (l.41) only when nothing will ever come again: once a
\* consumer's loop has ended, the queue is closed, empty, and stays so.
NobodyLeavesEarly ==
    \A c \in Consumers : pc[c] = "done" => closed_ /\ queue_ = <<>>

\* The threads that are on their way to the queue's items: producers that
\* still owe a notification, and consumers that will look before they block.
Coming == {p \in Producers : pc[p] = "notify_one"}
          \cup {c \in Consumers \ waiting :
                   pc[c] \in {"pop", "wait", "check", "popping"}}

\* No wakeup is lost although notify_one comes after the unlock (l.30): while a
\* consumer sleeps, each queued item has a thread coming for it.
EveryItemHasAWakeup == waiting # {} => Len(queue_) <= Cardinality(Coming)

\* Nobody sleeps through close() (l.52-54): a consumer can be blocked on a
\* closed queue only until the notify_all that follows.
CloseWakesEveryone ==
    closed_ /\ waiting # {} => \E p \in Producers : pc[p] = "notify_all"

\* The promise of close(): every thread of main() can be joined (l.82-85).
Termination == <>Ended

Channel == INSTANCE ClosableChannel WITH
             Receivers <- Consumers,
             Values <- Items,
             open <- ~closed_,
             left <- {c \in Consumers : pc[c] = "done"}

\* The queue implements the closable channel, fairness included.
ImplementsChannel == Channel!Spec
=============================================================================
