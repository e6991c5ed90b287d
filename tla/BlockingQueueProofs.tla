------------------------- MODULE BlockingQueueProofs -------------------------
(***************************************************************************)
(* For every number of producers, consumers and items, BlockingQueue loses *)
(* no item, gives none twice, tells no consumer too early that the queue   *)
(* has ended, loses no wakeup, leaves one thread that can go on until all  *)
(* have ended, and implements the closable channel.                        *)
(***************************************************************************)
EXTENDS BlockingQueue, FiniteSetTheorems, SequenceTheorems, TLAPS

\* The steps, named as the proofs split them.
LEMMA NextCases ==
  ASSUME [Next]_vars
  PROVE  \/ \E t \in Threads : Lock(t)
         \/ \E p \in Producers :
              \/ PushThrows(p) \/ PushAppends(p) \/ PushNotifies(p)
              \/ CloseSets(p) \/ CloseNotifies(p)
         \/ \E c \in Consumers :
              \/ PopWaits(c) \/ PopEnds(c) \/ PopReadsFront(c)
              \/ PopRemoves(c) \/ Handle(c) \/ SpuriousWakeup(c)
         \/ UNCHANGED vars
BY DEF Next, Produce, Consume, Joined

LEMMA NotifyOneShrinks ==
  ASSUME NEW W, NEW W2 \in NotifyOne(W)
  PROVE  /\ W2 \subseteq W
         /\ W # {} => \E t \in W : W2 = W \ {t}
BY DEF NotifyOne
-----------------------------------------------------------------------------
\* A producer is inside its loop at these points: i is a valid index there.
LoopIndexInv == \A p \in Producers :
                  pc[p] \in {"push", "pushing", "notify_one"} => i[p] < ItemsEach

\* The points at which a thread holds mtx_.
HoldingPoints == {"pushing", "closing", "check", "popping"}

\* The mutex excludes: exactly its holder is inside a critical section.
MutexInv == \A t \in Threads : pc[t] \in HoldingPoints <=> mtx_ = t

\* Only threads inside wait() are in the wait set.
WaitingInv == \A c \in waiting : pc[c] = "wait"

\* Between reading the front and removing it, the front stays what was read.
PoppingInv == \A c \in Consumers :
                pc[c] = "popping" => queue_ # <<>> /\ item[c] = Head(queue_)

\* What the other invariants rest on.
BaseInv == TypeOK /\ LoopIndexInv /\ MutexInv /\ WaitingInv /\ PoppingInv

LEMMA BaseInit == Init => BaseInv
<1> USE ProducersAssumption, ItemsEachAssumption, FreeAssumption
    DEF Init, ProducerPoints, ConsumerPoints, Threads
<1>1. Init => TypeOK
  <2>1. Init => pc \in [Threads -> ProducerPoints \cup ConsumerPoints]
    OBVIOUS
  <2>2. Init => /\ \A p \in Producers : pc[p] \in ProducerPoints
                /\ \A c \in Consumers : pc[c] \in ConsumerPoints
    OBVIOUS
  <2>3. Init => /\ i \in [Producers -> 0 .. ItemsEach]
                /\ item \in [Consumers -> Items \cup {NoItem}]
    OBVIOUS
  <2>4. Init => /\ queue_ \in Seq(Items) /\ sent \in Seq(Items)
                /\ taken \in Seq([by : Consumers, val : Items])
    BY EmptySeq
  <2>5. Init => mtx_ \in Threads \cup {Free} /\ waiting \subseteq Consumers
                /\ closed_ \in BOOLEAN
    OBVIOUS
  <2> QED BY <2>1, <2>2, <2>3, <2>4, <2>5 DEF TypeOK
<1>2. Init => LoopIndexInv /\ MutexInv /\ WaitingInv /\ PoppingInv
  BY DEF LoopIndexInv, MutexInv, WaitingInv, PoppingInv, HoldingPoints
<1> QED BY <1>1, <1>2 DEF BaseInv

LEMMA BaseStep == BaseInv /\ [Next]_vars => BaseInv'
<1> SUFFICES ASSUME BaseInv, [Next]_vars PROVE BaseInv'
  OBVIOUS
<1> USE ProducersAssumption, ItemsEachAssumption, FreeAssumption
    DEF BaseInv, TypeOK, LoopIndexInv, MutexInv, WaitingInv, PoppingInv,
        HoldingPoints, ProducerPoints, ConsumerPoints, Threads
<1>1. CASE UNCHANGED vars
  BY <1>1 DEF vars
<1>2. ASSUME NEW t \in Threads, Lock(t) PROVE BaseInv'
  BY <1>2 DEF Lock, Enter, Goto
<1>3. ASSUME NEW p \in Producers, PushThrows(p) PROVE BaseInv'
  BY <1>3 DEF PushThrows, Goto
<1>4. ASSUME NEW p \in Producers, PushAppends(p) PROVE BaseInv'
  <2>1. <<p, i[p]>> \in Items
    BY <1>4 DEF PushAppends, Goto, Items
  <2>2. queue_' \in Seq(Items) /\ sent' \in Seq(Items)
    BY <1>4, <2>1, AppendProperties DEF PushAppends
  <2>3. \A c \in Consumers : pc[c] # "popping"
    BY <1>4 DEF PushAppends, Goto
  <2> QED BY <1>4, <2>2, <2>3 DEF PushAppends, Goto
<1>5. ASSUME NEW p \in Producers, PushNotifies(p) PROVE BaseInv'
  <2>1. waiting' \subseteq waiting
    BY <1>5, NotifyOneShrinks DEF PushNotifies
  <2> QED BY <1>5, <2>1 DEF PushNotifies, Goto
<1>6. ASSUME NEW p \in Producers, CloseSets(p) PROVE BaseInv'
  BY <1>6 DEF CloseSets, Goto
<1>7. ASSUME NEW p \in Producers, CloseNotifies(p) PROVE BaseInv'
  BY <1>7 DEF CloseNotifies, Goto, NotifyAll
<1>8. ASSUME NEW c \in Consumers, PopWaits(c) PROVE BaseInv'
  BY <1>8 DEF PopWaits, Goto
<1>9. ASSUME NEW c \in Consumers, PopEnds(c) PROVE BaseInv'
  BY <1>9 DEF PopEnds, Goto
<1>10. ASSUME NEW c \in Consumers, PopReadsFront(c) PROVE BaseInv'
  <2>1. Head(queue_) \in Items
    BY <1>10, HeadTailProperties DEF PopReadsFront
  <2> QED BY <1>10, <2>1 DEF PopReadsFront, Goto
<1>11. ASSUME NEW c \in Consumers, PopRemoves(c) PROVE BaseInv'
  <2>1. queue_ # <<>> /\ item[c] = Head(queue_)
    BY <1>11 DEF PopRemoves, Goto
  <2>2. queue_' \in Seq(Items) /\ item[c] \in Items
    BY <1>11, <2>1, HeadTailProperties DEF PopRemoves
  <2>3. taken' \in Seq([by : Consumers, val : Items])
    BY <1>11, <2>2, AppendProperties DEF PopRemoves
  <2> QED BY <1>11, <2>2, <2>3 DEF PopRemoves, Goto
<1>12. ASSUME NEW c \in Consumers, Handle(c) PROVE BaseInv'
  BY <1>12 DEF Handle, Goto
<1>13. ASSUME NEW c \in Consumers, SpuriousWakeup(c) PROVE BaseInv'
  BY <1>13 DEF SpuriousWakeup
<1> QED
  BY <1>1, <1>2, <1>3, <1>4, <1>5, <1>6, <1>7, <1>8, <1>9, <1>10, <1>11,
     <1>12, <1>13, NextCases

LEMMA BaseAlways == Spec => []BaseInv
BY BaseInit, BaseStep, PTL DEF Spec

\* The state of the queue and of its threads is always well typed: no index or
\* local of the loops of main() (l.63, l.74) leaves its range.
THEOREM TypeCorrect == Spec => []TypeOK
BY BaseAlways, PTL DEF BaseInv
-----------------------------------------------------------------------------
LEMMA MoveHead ==
  ASSUME NEW S, NEW s \in Seq(S), NEW q \in Seq(S), q # <<>>
  PROVE  Append(s, Head(q)) \o Tail(q) = s \o q
<1>1. /\ Head(q) \in S /\ Tail(q) \in Seq(S) /\ <<Head(q)>> \in Seq(S)
      /\ q = <<Head(q)>> \o Tail(q)
  BY HeadTailProperties
<1>2. Append(s, Head(q)) = s \o <<Head(q)>>
  BY <1>1, AppendIsConcat
<1> QED BY <1>1, <1>2, ConcatAssociative

LEMMA TakenValuesTyped == TypeOK => TakenValues \in Seq(Items)
<1> SUFFICES ASSUME TypeOK PROVE TakenValues \in Seq(Items)
  OBVIOUS
<1>1. Len(taken) \in Nat /\ DOMAIN taken = 1 .. Len(taken)
  BY LenProperties DEF TypeOK
<1>2. \A k \in 1 .. Len(taken) : taken[k] \in [by : Consumers, val : Items]
  BY ElementOfSeq DEF TypeOK
<1>3. \A k \in 1 .. Len(taken) : taken[k].val \in Items
  BY <1>2
<1> QED BY <1>1, <1>3 DEF TakenValues

LEMMA OrderStep == BaseInv /\ ExactlyOnceInOrder /\ [Next]_vars
                   => ExactlyOnceInOrder'
<1> SUFFICES ASSUME BaseInv, ExactlyOnceInOrder, [Next]_vars
             PROVE  ExactlyOnceInOrder'
  OBVIOUS
<1> USE DEF BaseInv, TypeOK
<1>1. CASE UNCHANGED <<taken, queue_, sent>>
  BY <1>1 DEF ExactlyOnceInOrder, TakenValues
<1>2. ASSUME NEW p \in Producers, PushAppends(p) PROVE ExactlyOnceInOrder'
  <2>1. TakenValues' = TakenValues
    BY <1>2 DEF PushAppends, TakenValues
  <2>2. <<p, i[p]>> \in Items
    BY <1>2, ItemsEachAssumption DEF PushAppends, Goto, Items, LoopIndexInv
  <2>3. TakenValues \o Append(queue_, <<p, i[p]>>)
          = Append(TakenValues \o queue_, <<p, i[p]>>)
    BY <2>2, TakenValuesTyped
  <2> QED BY <1>2, <2>1, <2>3 DEF PushAppends, ExactlyOnceInOrder
<1>3. ASSUME NEW c \in Consumers, PopRemoves(c) PROVE ExactlyOnceInOrder'
  <2>1. queue_ # <<>> /\ item[c] = Head(queue_)
    BY <1>3 DEF PopRemoves, Goto, PoppingInv
  <2>2. TakenValues' = Append(TakenValues, Head(queue_))
    BY <1>3, <2>1, HeadTailProperties DEF PopRemoves, TakenValues
  <2> QED BY <1>3, <2>1, <2>2, MoveHead, TakenValuesTyped
          DEF PopRemoves, ExactlyOnceInOrder
<1> QED
  BY <1>1, <1>2, <1>3, NextCases
  DEF vars, Lock, Enter, PushThrows, PushNotifies, CloseSets, CloseNotifies, PopWaits,
      PopEnds, PopReadsFront, Handle, SpuriousWakeup

\* Whatever the interleaving, what pop() returned followed by what is queued is
\* what push() was given: the mutex makes l.44 and l.45 one step.
THEOREM FIFO == Spec => []ExactlyOnceInOrder
<1>1. Init => ExactlyOnceInOrder
  BY DEF Init, ExactlyOnceInOrder, TakenValues
<1> QED BY <1>1, BaseInit, BaseStep, OrderStep, PTL DEF Spec
-----------------------------------------------------------------------------
LEMMA EndStep == BaseInv /\ NobodyLeavesEarly /\ [Next]_vars => NobodyLeavesEarly'
<1> SUFFICES ASSUME BaseInv, NobodyLeavesEarly, [Next]_vars
             PROVE  NobodyLeavesEarly'
  OBVIOUS
<1> USE ProducersAssumption DEF BaseInv, TypeOK, NobodyLeavesEarly, Threads
<1>1. ASSUME NEW p \in Producers, PushAppends(p) PROVE NobodyLeavesEarly'
  BY <1>1 DEF PushAppends, Goto
<1>2. ASSUME NEW c \in Consumers, PopRemoves(c) PROVE NobodyLeavesEarly'
  <2>1. queue_ # <<>>
    BY <1>2 DEF PopRemoves, Goto, PoppingInv
  <2> QED BY <1>2, <2>1 DEF PopRemoves, Goto
<1>3. ASSUME NEW c \in Consumers, PopEnds(c) PROVE NobodyLeavesEarly'
  BY <1>3 DEF PopEnds, Goto
<1>4. CASE /\ UNCHANGED queue_
           /\ closed_ => closed_'
           /\ \A c \in Consumers : pc'[c] = "done" => pc[c] = "done"
  BY <1>4
<1> QED
  BY <1>1, <1>2, <1>3, <1>4, NextCases
  DEF vars, Goto, Lock, Enter, PushThrows, PushNotifies, CloseSets, CloseNotifies,
      PopWaits, PopReadsFront, Handle, SpuriousWakeup

\* pop() answers false only when the queue is closed and empty, and it stays so
\* because push() checks closed_ under the same lock (l.25, l.40).
THEOREM EndIsFinal == Spec => []NobodyLeavesEarly
<1>1. Init => NobodyLeavesEarly
  BY ProducersAssumption DEF Init, NobodyLeavesEarly, Threads
<1> QED BY <1>1, BaseInit, BaseStep, EndStep, PTL DEF Spec
-----------------------------------------------------------------------------
LEMMA CloseStep == BaseInv /\ CloseWakesEveryone /\ [Next]_vars
                   => CloseWakesEveryone'
<1> SUFFICES ASSUME BaseInv, CloseWakesEveryone, [Next]_vars
             PROVE  CloseWakesEveryone'
  OBVIOUS
<1> USE ProducersAssumption DEF BaseInv, TypeOK, CloseWakesEveryone, Threads
<1>1. ASSUME NEW p \in Producers, CloseSets(p) PROVE CloseWakesEveryone'
  BY <1>1 DEF CloseSets, Goto
<1>2. ASSUME NEW p \in Producers, CloseNotifies(p) PROVE CloseWakesEveryone'
  BY <1>2 DEF CloseNotifies, NotifyAll
<1>3. ASSUME NEW c \in Consumers, PopWaits(c) PROVE CloseWakesEveryone'
  BY <1>3 DEF PopWaits
<1>4. ASSUME NEW p \in Producers, PushNotifies(p) PROVE CloseWakesEveryone'
  BY <1>4, NotifyOneShrinks DEF PushNotifies, Goto
<1>5. CASE /\ UNCHANGED closed_ /\ waiting' \subseteq waiting
           /\ \A p \in Producers : pc[p] = "notify_all" => pc'[p] = "notify_all"
  BY <1>5
<1> QED
  BY <1>1, <1>2, <1>3, <1>4, <1>5, NextCases
  DEF vars, Goto, Lock, Enter, PushThrows, PushAppends, PopEnds, PopReadsFront,
      PopRemoves, Handle, SpuriousWakeup

\* No consumer can go to sleep on a closed queue, and those asleep when it was
\* closed are still to be woken by the closer's notify_all (l.52-54).
THEOREM NoSleeperAfterClose == Spec => []CloseWakesEveryone
<1>1. Init => CloseWakesEveryone
  BY DEF Init, CloseWakesEveryone
<1> QED BY <1>1, BaseInit, BaseStep, CloseStep, PTL DEF Spec
-----------------------------------------------------------------------------
LEMMA ComingFinite == IsFiniteSet(Coming) /\ Cardinality(Coming) \in Nat
<1>1. IsFiniteSet(Threads)
  BY ProducersAssumption, ConsumersAssumption, FS_Union DEF Threads
<1>2. Coming \subseteq Threads
  BY DEF Coming, Threads
<1> QED BY <1>1, <1>2, FS_Subset, FS_CardinalityType

LEMMA WakeupStep == BaseInv /\ EveryItemHasAWakeup /\ [Next]_vars
                    => EveryItemHasAWakeup'
<1> SUFFICES ASSUME BaseInv, EveryItemHasAWakeup, [Next]_vars
             PROVE  EveryItemHasAWakeup'
  OBVIOUS
<1> USE ProducersAssumption, ComingFinite DEF BaseInv, TypeOK, Threads
<1>0. Len(queue_) \in Nat
  BY LenProperties
<1>1. ASSUME NEW p \in Producers, PushAppends(p) PROVE EveryItemHasAWakeup'
  <2>1. Coming' = Coming \cup {p} /\ p \notin Coming
    BY <1>1 DEF PushAppends, Goto, Coming
  <2>2. Cardinality(Coming') = Cardinality(Coming) + 1
    BY <2>1, FS_AddElement
  <2>3. Len(queue_') = Len(queue_) + 1
    BY <1>1, AppendProperties DEF PushAppends
  <2> QED BY <1>0, <1>1, <2>2, <2>3 DEF PushAppends, EveryItemHasAWakeup
<1>2. ASSUME NEW p \in Producers, PushNotifies(p) PROVE EveryItemHasAWakeup'
  <2>1. CASE waiting = {}
    BY <1>2, <2>1 DEF PushNotifies, NotifyOne, EveryItemHasAWakeup
  <2>2. CASE waiting # {}
    <3>1. PICK t \in waiting : waiting' = waiting \ {t}
      BY <1>2, <2>2, NotifyOneShrinks DEF PushNotifies
    <3>2. p \in Coming /\ t \notin Coming \ {p}
      BY <1>2, <3>1 DEF PushNotifies, Goto, Coming
    <3>3. Coming' = (Coming \ {p}) \cup {t}
      BY <1>2, <3>1 DEF PushNotifies, Goto, Coming, WaitingInv
    <3>4. IsFiniteSet(Coming \ {p}) /\ Cardinality(Coming \ {p}) = Cardinality(Coming) - 1
      BY <3>2, FS_RemoveElement
    <3>5. Cardinality(Coming') = Cardinality(Coming)
      <4>1. Cardinality((Coming \ {p}) \cup {t}) = Cardinality(Coming \ {p}) + 1
        BY <3>2, <3>4, FS_AddElement
      <4> QED BY <3>3, <3>4, <4>1
    <3>6. Len(queue_) <= Cardinality(Coming) /\ queue_' = queue_
      BY <1>2, <2>2 DEF PushNotifies, EveryItemHasAWakeup
    <3> QED BY <3>5, <3>6 DEF EveryItemHasAWakeup
  <2> QED BY <2>1, <2>2
<1>3. ASSUME NEW p \in Producers, CloseNotifies(p) PROVE EveryItemHasAWakeup'
  BY <1>3 DEF CloseNotifies, NotifyAll, EveryItemHasAWakeup
<1>4. ASSUME NEW c \in Consumers, PopWaits(c) \/ PopEnds(c)
      PROVE  EveryItemHasAWakeup'
  <2>1. Len(queue_') = 0
    BY <1>4, EmptySeq DEF PopWaits, PopEnds
  <2>2. Cardinality(Coming') \in Nat
    <3>1. IsFiniteSet(Coming')
      <4>1. IsFiniteSet(Threads)
        BY ConsumersAssumption, FS_Union
      <4>2. Coming' \subseteq Threads
        BY DEF Coming
      <4> QED BY <4>1, <4>2, FS_Subset
    <3> QED BY <3>1, FS_CardinalityType
  <2> QED BY <2>1, <2>2 DEF EveryItemHasAWakeup
<1>5. ASSUME NEW c \in Consumers, PopRemoves(c) PROVE EveryItemHasAWakeup'
  <2>1. queue_ # <<>> /\ c \notin waiting
    BY <1>5 DEF PopRemoves, Goto, PoppingInv, WaitingInv
  <2>2. Coming' = Coming \ {c} /\ c \in Coming
    BY <1>5, <2>1 DEF PopRemoves, Goto, Coming
  <2>3. Cardinality(Coming') = Cardinality(Coming) - 1
    BY <2>2, FS_RemoveElement
  <2>4. Len(queue_') = Len(queue_) - 1
    BY <1>5, <2>1, HeadTailProperties DEF PopRemoves
  <2>5. waiting' = waiting
    BY <1>5 DEF PopRemoves
  <2> QED BY <1>0, <2>3, <2>4, <2>5 DEF EveryItemHasAWakeup
<1>6. ASSUME NEW c \in Consumers, Handle(c) \/ SpuriousWakeup(c)
      PROVE  EveryItemHasAWakeup'
  <2>1. Coming' = Coming \cup {c} /\ c \notin Coming
    BY <1>6 DEF Handle, SpuriousWakeup, Goto, Coming, WaitingInv
  <2>2. Cardinality(Coming') = Cardinality(Coming) + 1
    BY <2>1, FS_AddElement
  <2> QED BY <1>0, <1>6, <2>2 DEF Handle, SpuriousWakeup, EveryItemHasAWakeup
<1>7. CASE UNCHANGED <<waiting, queue_>> /\ Coming' = Coming
  BY <1>7 DEF EveryItemHasAWakeup
<1>8. ASSUME NEW t \in Threads, Lock(t) PROVE Coming' = Coming
  BY <1>8 DEF Lock, Enter, Goto, Coming, ProducerPoints, ConsumerPoints
<1>9. ASSUME NEW p \in Producers, PushThrows(p) \/ CloseSets(p)
      PROVE  Coming' = Coming
  BY <1>9 DEF PushThrows, CloseSets, Goto, Coming
<1>10. ASSUME NEW c \in Consumers, PopReadsFront(c) PROVE Coming' = Coming
  BY <1>10 DEF PopReadsFront, Goto, Coming
<1>11. UNCHANGED vars => Coming' = Coming
  BY DEF vars, Coming
<1> QED
  BY <1>1, <1>2, <1>3, <1>4, <1>5, <1>6, <1>7, <1>8, <1>9, <1>10, <1>11, NextCases
  DEF vars, Lock, Enter, PushThrows, CloseSets, PopReadsFront

\* Notifying after the unlock (l.29-30) loses no wakeup: a consumer sleeps only
\* while every queued item has a thread on its way to it.
THEOREM NoLostWakeup == Spec => []EveryItemHasAWakeup
<1>1. Init => EveryItemHasAWakeup
  BY DEF Init, EveryItemHasAWakeup
<1> QED BY <1>1, BaseInit, BaseStep, WakeupStep, PTL DEF Spec
-----------------------------------------------------------------------------
\* A thread that no step takes on: asleep, or at a lock that somebody holds.
Stuck(t) == t \in waiting \/ (mtx_ # Free /\ pc[t] \in {"push", "close", "pop", "wait"})

\* Until all of them have ended, one of the threads can go on.
SomebodyGoesOn == Ended \/ \E t \in Threads : pc[t] \notin {"done", "threw"} /\ ~Stuck(t)

\* A producer leaves its loop only through close(), or because another closed.
ClosedInv == \A p \in Producers : pc[p] \in {"notify_all", "done", "threw"} => closed_

LEMMA ClosedStep == BaseInv /\ ClosedInv /\ [Next]_vars => ClosedInv'
<1> SUFFICES ASSUME BaseInv, ClosedInv, [Next]_vars PROVE ClosedInv'
  OBVIOUS
<1> USE ProducersAssumption DEF BaseInv, TypeOK, ClosedInv, Threads
<1>1. ASSUME NEW p \in Producers, PushThrows(p) \/ CloseSets(p) PROVE ClosedInv'
  BY <1>1 DEF PushThrows, CloseSets, Goto
<1>2. ASSUME NEW p \in Producers, CloseNotifies(p) PROVE ClosedInv'
  BY <1>2 DEF CloseNotifies, Goto
<1>3. CASE /\ UNCHANGED closed_
           /\ \A p \in Producers : pc'[p] \in {"notify_all", "done", "threw"}
                                     => pc'[p] = pc[p]
  BY <1>3
<1> QED
  BY <1>1, <1>2, <1>3, NextCases
  DEF vars, Goto, Lock, Enter, PushAppends, PushNotifies, PopWaits, PopEnds,
      PopReadsFront, PopRemoves, Handle, SpuriousWakeup

\* main() of ex19 has no deadlock in its join() (l.82-85): a mutex that is held has a
\* holder that goes on, and once the producers have ended nobody is asleep.
THEOREM DeadlockFree == Spec => []SomebodyGoesOn
<1>1. BaseInv /\ ClosedInv /\ CloseWakesEveryone => SomebodyGoesOn
  <2> SUFFICES ASSUME BaseInv, ClosedInv, CloseWakesEveryone, ~Ended
               PROVE  \E t \in Threads : pc[t] \notin {"done", "threw"} /\ ~Stuck(t)
    BY DEF SomebodyGoesOn
  <2> USE DEF BaseInv, TypeOK
  <2>1. CASE mtx_ # Free
    <3>1. mtx_ \in Threads /\ pc[mtx_] \in HoldingPoints
      BY <2>1 DEF MutexInv
    <3>2. pc[mtx_] \notin {"done", "threw"} /\ ~Stuck(mtx_)
      BY <3>1 DEF Stuck, HoldingPoints, WaitingInv
    <3> QED BY <3>1, <3>2
  <2>2. CASE mtx_ = Free /\ \E t \in Threads \ waiting : pc[t] \notin {"done", "threw"}
    BY <2>2 DEF Stuck
  \* Otherwise the producers have ended and a consumer sleeps on a closed queue.
  <2>3. CASE \A t \in Threads : pc[t] \notin {"done", "threw"} => t \in waiting
    <3>1. waiting # {} /\ \A p \in Producers : pc[p] \in {"done", "threw"}
      BY <2>3, ProducersAssumption DEF Ended, Threads
    <3>2. closed_
      BY <3>1, ProducersAssumption DEF ClosedInv
    <3> QED BY <3>1, <3>2 DEF CloseWakesEveryone
  <2> QED BY <2>1, <2>2, <2>3
<1>2. Init => ClosedInv
  BY DEF Init, ClosedInv, Threads
<1> QED BY <1>1, <1>2, ClosedStep, BaseInit, BaseStep, NoSleeperAfterClose, PTL DEF Spec
-----------------------------------------------------------------------------
\* The two halves of what each step means to the abstract channel.
LEMMA ChannelInit == Init => Channel!Init
BY ProducersAssumption DEF Init, Channel!Init, Threads

LEMMA ReceivesOldest ==
  ASSUME BaseInv, ExactlyOnceInOrder, queue_ # <<>>
  PROVE  Len(taken) < Len(sent) /\ Head(queue_) = sent[Len(taken) + 1]
<1>1. TakenValues \in Seq(Items) /\ queue_ \in Seq(Items) /\ taken \in Seq([by : Consumers, val : Items])
  BY TakenValuesTyped DEF BaseInv, TypeOK
<1>2. Len(TakenValues) = Len(taken) /\ Len(taken) \in Nat
  BY <1>1, LenProperties DEF TakenValues
<1>3. Len(queue_) \in Nat \ {0} /\ Head(queue_) = queue_[1]
  BY <1>1, EmptySeq, HeadTailProperties
<1>4. Len(sent) = Len(taken) + Len(queue_)
  <2>1. Len(TakenValues \o queue_) = Len(TakenValues) + Len(queue_)
    BY <1>1, ConcatProperties
  <2> QED BY <1>2, <2>1 DEF ExactlyOnceInOrder
<1>5. sent[Len(taken) + 1] = queue_[1]
  BY <1>1, <1>2, <1>3, ConcatProperties DEF ExactlyOnceInOrder
<1> QED BY <1>2, <1>3, <1>4, <1>5

LEMMA AllTaken ==
  ASSUME BaseInv, ExactlyOnceInOrder, queue_ = <<>>
  PROVE  Len(taken) = Len(sent)
<1>1. TakenValues \in Seq(Items) /\ taken \in Seq([by : Consumers, val : Items])
  BY TakenValuesTyped DEF BaseInv, TypeOK
<1>2. Len(TakenValues) = Len(taken)
  BY <1>1, LenProperties DEF TakenValues
<1>3. TakenValues = sent
  BY <1>1, ConcatEmptySeq DEF ExactlyOnceInOrder
<1> QED BY <1>2, <1>3

LEMMA ChannelStep ==
  BaseInv /\ ExactlyOnceInOrder /\ NobodyLeavesEarly /\ [Next]_vars
    => [Channel!Next]_(Channel!vars)
<1> SUFFICES ASSUME BaseInv, ExactlyOnceInOrder, NobodyLeavesEarly, [Next]_vars
             PROVE  [Channel!Next]_(Channel!vars)
  OBVIOUS
<1> DEFINE Left == {c \in Consumers : pc[c] = "done"}
<1> USE ProducersAssumption DEF BaseInv, TypeOK, Threads
<1>1. ASSUME NEW p \in Producers, PushAppends(p) PROVE Channel!Send
  <2>1. <<p, i[p]>> \in Items
    BY <1>1, ItemsEachAssumption DEF PushAppends, Goto, Items, LoopIndexInv
  <2>2. Left' = Left
    BY <1>1 DEF PushAppends, Goto
  <2> QED BY <1>1, <2>1, <2>2 DEF PushAppends, Channel!Send
<1>2. ASSUME NEW p \in Producers, CloseSets(p) PROVE Channel!Close
  <2>1. Left' = Left
    BY <1>2 DEF CloseSets, Goto
  <2> QED BY <1>2, <2>1 DEF CloseSets, Channel!Close
<1>3. ASSUME NEW c \in Consumers, PopRemoves(c) PROVE Channel!Receive(c)
  <2>1. queue_ # <<>> /\ item[c] = Head(queue_)
    BY <1>3 DEF PopRemoves, Goto, PoppingInv
  <2>2. Len(taken) < Len(sent) /\ item[c] = sent[Len(taken) + 1]
    BY <2>1, ReceivesOldest
  <2>3. Left' = Left /\ c \notin Left
    BY <1>3 DEF PopRemoves, Goto
  <2> QED BY <1>3, <2>2, <2>3 DEF PopRemoves, Channel!Receive
<1>4. ASSUME NEW c \in Consumers, PopEnds(c) PROVE Channel!Leave(c)
  <2>1. Left' = Left \cup {c}
    BY <1>4 DEF PopEnds, Goto
  <2>2. Len(taken) = Len(sent)
    BY <1>4, AllTaken DEF PopEnds
  <2> QED BY <1>4, <2>1, <2>2 DEF PopEnds, Channel!Leave
<1>5. CASE /\ UNCHANGED <<sent, taken, closed_>>
           /\ \A c \in Consumers : pc'[c] = "done" <=> pc[c] = "done"
  <2>1. Left' = Left
    BY <1>5
  <2> QED BY <1>5, <2>1 DEF Channel!vars
<1> QED
  BY <1>1, <1>2, <1>3, <1>4, <1>5, NextCases
  DEF Channel!Next, vars, Goto, Lock, Enter, PushThrows, PushNotifies, CloseNotifies,
      PopWaits, PopReadsFront, Handle, SpuriousWakeup

\* Every step of the threads is a step of the closable channel or none: what is
\* checked of the channel holds of the queue (fairness is left to TLC).
THEOREM QueueImplementsChannel == Spec => Channel!Safety
<1>1. Spec => [](BaseInv /\ ExactlyOnceInOrder /\ NobodyLeavesEarly)
  BY BaseAlways, FIFO, EndIsFinal, PTL
<1> QED BY <1>1, ChannelInit, ChannelStep, PTL DEF Spec, Channel!Safety
=============================================================================
