-------------------------- MODULE WorkerPoolProofs --------------------------
(***************************************************************************)
(* For every number of workers and of tasks: the destructor of WorkerPool  *)
(* leaves no task behind and is never left with nobody who can go on, no   *)
(* wakeup is lost while the pool is in use, and the pool implements the    *)
(* closable channel.                                                       *)
(***************************************************************************)
EXTENDS WorkerPool, FiniteSetTheorems, SequenceTheorems, TLAPS

MainPoints == {"submit", "submitting", "notify_one", "sleep", "stop", "join", "done"}
WorkerPoints == {"loop", "check", "wait", "run", "exited"}

TypeOK == /\ mtx_ \in Threads \cup {Free}
          /\ waiting \subseteq Workers
          /\ tasks_ \in Seq(Tasks) /\ submitted \in Seq(Tasks)
          /\ pc \in [Threads -> MainPoints \cup WorkerPoints]
          /\ pc[Main] \in MainPoints
          /\ \A w \in Workers : pc[w] \in WorkerPoints
          /\ stop \in [Workers -> BOOLEAN]
          /\ current \in Nat
          /\ task \in [Workers -> Tasks \cup {NoTask}]
          /\ taken \in Seq([by : Workers, val : Tasks])

\* Exactly the holder of mtx_ is inside submit() or at the predicate of wait().
MutexInv == \A t \in Threads : pc[t] \in {"submitting", "check"} <=> mtx_ = t

\* Only threads inside wait() are in the wait set.
WaitingInv == \A w \in waiting : pc[w] = "wait"

\* A worker holds a task only while it runs it.
TaskInv == \A w \in Workers : pc[w] # "run" => task[w] = NoTask

BaseInv == TypeOK /\ MutexInv /\ WaitingInv /\ TaskInv

\* How far main() is: the tasks submitted are 1, 2, ... in that order.
Submitting == pc[Main] \in {"submit", "submitting"}
SubmitInv ==
  /\ Submitting => current \in Tasks /\ submitted = [k \in 1 .. current - 1 |-> k]
  /\ pc[Main] = "notify_one" => current \in Tasks /\ submitted = [k \in 1 .. current |-> k]
  /\ ~Submitting /\ pc[Main] # "notify_one" =>
       current \in Workers /\ submitted = [k \in 1 .. NumTasks |-> k]
  /\ pc[Main] = "sleep" => current = 1

\* What was taken, then what is queued, is what was submitted.
TakenTasks == [k \in 1 .. Len(taken) |-> taken[k].val]
OrderInv == TakenTasks \o tasks_ = submitted

\* A worker leaves only when its stop is requested and nothing is queued, which
\* is once main() submits no more; the workers before current have been joined.
Stopping == pc[Main] \in {"stop", "join", "done"}
StopInv == /\ \A w \in Workers : stop[w] => Stopping
           /\ \A w \in Workers : pc[w] = "exited" => stop[w] /\ tasks_ = <<>>
           /\ pc[Main] \in {"stop", "join"} =>
                \A w \in Workers : w < current => pc[w] = "exited"
           /\ pc[Main] = "done" => \A w \in Workers : pc[w] = "exited"

Inv == BaseInv /\ SubmitInv /\ OrderInv /\ StopInv

\* The steps, named as the proofs split them.
LEMMA NextCases ==
  ASSUME [Next]_vars
  PROVE  \/ \E t \in Threads : Lock(t)
         \/ SubmitPushes \/ SubmitNotifies \/ DestructorNotifies \/ RequestStop \/ Join
         \/ \E w \in Workers : \/ WaitBlocks(w) \/ WaitStopped(w) \/ Take(w) \/ Run(w)
                               \/ SpuriousWakeup(w)
         \/ UNCHANGED vars
BY DEF Next, MainStep, Work, Ended

LEMMA NotifyOneShrinks ==
  ASSUME NEW W, NEW W2 \in NotifyOne(W)
  PROVE  /\ W2 \subseteq W
         /\ W # {} => \E t \in W : W2 = W \ {t}
BY DEF NotifyOne
LEMMA ThreadFacts ==
  /\ Main \in Threads /\ Workers \subseteq Threads /\ Main \notin Workers
  /\ Free \notin Threads
  /\ \A t \in Threads : t = Main \/ t \in Workers
BY NumThreadsAssumption, FreeAssumption DEF Threads, Workers, Main
-----------------------------------------------------------------------------
LEMMA BaseInit == Init => BaseInv
<1> SUFFICES ASSUME Init PROVE BaseInv
  OBVIOUS
<1> USE NumThreadsAssumption, NumTasksAssumption, FreeAssumption
    DEF Init, MainPoints, WorkerPoints, Threads, Workers, Main, Tasks
<1>1. /\ pc \in [Threads -> MainPoints \cup WorkerPoints]
      /\ pc[Main] \in MainPoints
      /\ \A w \in Workers : pc[w] = "loop"
  OBVIOUS
<1>2. tasks_ \in Seq(Tasks) /\ submitted \in Seq(Tasks) /\ taken \in Seq([by : Workers, val : Tasks])
  BY EmptySeq
<1>3. TypeOK
  BY <1>1, <1>2 DEF TypeOK
<1>4. MutexInv /\ WaitingInv /\ TaskInv
  BY <1>1 DEF MutexInv, WaitingInv, TaskInv
<1> QED BY <1>3, <1>4 DEF BaseInv

LEMMA BaseStep == Inv /\ [Next]_vars => BaseInv'
<1> SUFFICES ASSUME Inv, [Next]_vars PROVE BaseInv'
  OBVIOUS
<1> USE ThreadFacts DEF Inv, BaseInv, TypeOK, MutexInv, WaitingInv, TaskInv,
                      MainPoints, WorkerPoints
<1>1. CASE UNCHANGED vars
  BY <1>1 DEF vars
<1>2. ASSUME NEW t \in Threads, Lock(t) PROVE BaseInv'
  BY <1>2 DEF Lock, Goto
<1>3. CASE SubmitPushes
  <2>1. current \in Tasks
    BY <1>3 DEF SubmitPushes, Goto, SubmitInv, Submitting
  <2>2. tasks_' \in Seq(Tasks) /\ submitted' \in Seq(Tasks)
    BY <1>3, <2>1, AppendProperties DEF SubmitPushes
  <2> QED BY <1>3, <2>2 DEF SubmitPushes, Goto
<1>4. CASE SubmitNotifies
  <2>1. waiting' \subseteq waiting
    BY <1>4, NotifyOneShrinks DEF SubmitNotifies
  <2>2. current' \in Nat
    BY <1>4 DEF SubmitNotifies
  <2> QED BY <1>4, <2>1, <2>2 DEF SubmitNotifies, Goto
<1>5. CASE DestructorNotifies
  BY <1>5 DEF DestructorNotifies, Goto, NotifyAll
<1>6. CASE RequestStop
  <2>1. waiting' \subseteq waiting
    BY <1>6 DEF RequestStop
  <2> QED BY <1>6, <2>1 DEF RequestStop, Goto
<1>7. CASE Join
  <2>1. current' \in Nat
    BY <1>7 DEF Join
  <2> QED BY <1>7, <2>1 DEF Join, Goto
<1>8. ASSUME NEW w \in Workers, WaitBlocks(w) PROVE BaseInv'
  <2>1. w \in Threads /\ w # Main /\ mtx_ = w /\ pc' = [pc EXCEPT ![w] = "wait"]
    BY <1>8 DEF WaitBlocks, Goto
  <2>2. waiting' = waiting \cup {w} /\ mtx_' = Free /\ UNCHANGED <<tasks_, stop, current, task, submitted, taken>>
    BY <1>8 DEF WaitBlocks
  <2>3. TypeOK'
    BY <2>1, <2>2
  <2> QED BY <2>1, <2>2, <2>3
<1>9. ASSUME NEW w \in Workers, WaitStopped(w) PROVE BaseInv'
  <2>1. w \in Threads /\ w # Main /\ mtx_ = w /\ pc' = [pc EXCEPT ![w] = "exited"] /\ pc[w] = "check"
    BY <1>9 DEF WaitStopped, Goto
  <2>2. mtx_' = Free /\ UNCHANGED <<waiting, tasks_, stop, current, task, submitted, taken>>
    BY <1>9 DEF WaitStopped
  <2>3. TypeOK'
    BY <2>1, <2>2
  <2> QED BY <2>1, <2>2, <2>3
<1>10. ASSUME NEW w \in Workers, Take(w) PROVE BaseInv'
  <2>1. Head(tasks_) \in Tasks /\ tasks_' \in Seq(Tasks)
    BY <1>10, HeadTailProperties DEF Take
  <2>2. taken' \in Seq([by : Workers, val : Tasks])
    BY <1>10, <2>1, AppendProperties DEF Take
  <2> QED BY <1>10, <2>1, <2>2 DEF Take, Goto
<1>11. ASSUME NEW w \in Workers, Run(w) PROVE BaseInv'
  BY <1>11 DEF Run, Goto
<1>12. ASSUME NEW w \in Workers, SpuriousWakeup(w) PROVE BaseInv'
  BY <1>12 DEF SpuriousWakeup
<1> QED
  BY <1>1, <1>2, <1>3, <1>4, <1>5, <1>6, <1>7, <1>8, <1>9, <1>10, <1>11, <1>12,
     NextCases
-----------------------------------------------------------------------------
LEMMA SubmitInit == Init => SubmitInv
<1> SUFFICES ASSUME Init PROVE SubmitInv
  OBVIOUS
<1>1. submitted = [k \in 1 .. 0 |-> k]
  BY EmptySeq DEF Init
<1>2. NumTasks > 0 \/ NumTasks = 0
  BY NumTasksAssumption
<1> QED BY <1>1, <1>2, NumTasksAssumption, NumThreadsAssumption
        DEF Init, SubmitInv, Submitting, Threads, Workers, Main, Tasks

LEMMA SubmitStep == Inv /\ [Next]_vars => SubmitInv'
<1> SUFFICES ASSUME Inv, [Next]_vars PROVE SubmitInv'
  OBVIOUS
<1> USE NumThreadsAssumption, NumTasksAssumption
    DEF Inv, BaseInv, TypeOK, SubmitInv, Submitting, Threads, Workers, Main, Tasks
<1>1. CASE SubmitPushes
  <2>1. submitted = [k \in 1 .. current - 1 |-> k] /\ current \in Tasks
    BY <1>1 DEF SubmitPushes, Goto
  <2>2. submitted' = [k \in 1 .. current |-> k]
    BY <1>1, <2>1 DEF SubmitPushes
  <2> QED BY <1>1, <2>1, <2>2 DEF SubmitPushes, Goto
<1>2. CASE SubmitNotifies
  BY <1>2 DEF SubmitNotifies, Goto
<1>3. CASE Join
  BY <1>3 DEF Join, Goto
<1>4. CASE DestructorNotifies \/ RequestStop
  BY <1>4 DEF DestructorNotifies, RequestStop, Goto
<1>5. ASSUME NEW t \in Threads, Lock(t) PROVE SubmitInv'
  BY <1>5 DEF Lock, Goto
<1>6. CASE UNCHANGED <<current, submitted, pc>>
  BY <1>6
<1>7. ASSUME NEW w \in Workers, WaitBlocks(w) \/ WaitStopped(w) \/ Take(w) \/ Run(w)
      PROVE SubmitInv'
  <2>1. pc'[Main] = pc[Main]
    BY <1>7 DEF WaitBlocks, WaitStopped, Take, Run, Goto
  <2> QED BY <1>7, <2>1 DEF WaitBlocks, WaitStopped, Take, Run
<1> QED BY <1>1, <1>2, <1>3, <1>4, <1>5, <1>6, <1>7, NextCases DEF SpuriousWakeup, vars
-----------------------------------------------------------------------------
LEMMA MoveHead ==
  ASSUME NEW S, NEW s \in Seq(S), NEW q \in Seq(S), q # <<>>
  PROVE  Append(s, Head(q)) \o Tail(q) = s \o q
<1>1. /\ Head(q) \in S /\ Tail(q) \in Seq(S) /\ <<Head(q)>> \in Seq(S)
      /\ q = <<Head(q)>> \o Tail(q)
  BY HeadTailProperties
<1>2. Append(s, Head(q)) = s \o <<Head(q)>>
  BY <1>1, AppendIsConcat
<1> QED BY <1>1, <1>2, ConcatAssociative

LEMMA TakenTyped == TypeOK => TakenTasks \in Seq(Tasks) /\ Len(TakenTasks) = Len(taken)
<1> SUFFICES ASSUME TypeOK PROVE TakenTasks \in Seq(Tasks) /\ Len(TakenTasks) = Len(taken)
  OBVIOUS
<1>1. Len(taken) \in Nat
  BY LenProperties DEF TypeOK
<1>2. \A k \in 1 .. Len(taken) : taken[k].val \in Tasks
  <2>1. \A k \in 1 .. Len(taken) : taken[k] \in [by : Workers, val : Tasks]
    BY ElementOfSeq DEF TypeOK
  <2> QED BY <2>1
<1> QED BY <1>1, <1>2 DEF TakenTasks

LEMMA OrderStep == Inv /\ [Next]_vars => OrderInv'
<1> SUFFICES ASSUME Inv, [Next]_vars PROVE OrderInv'
  OBVIOUS
<1> USE DEF Inv, BaseInv, TypeOK
<1>1. CASE UNCHANGED <<taken, tasks_, submitted>>
  BY <1>1 DEF OrderInv, TakenTasks
<1>2. CASE SubmitPushes
  <2>1. TakenTasks' = TakenTasks
    BY <1>2 DEF SubmitPushes, TakenTasks
  <2>2. current \in Tasks
    BY <1>2 DEF SubmitPushes, Goto, SubmitInv, Submitting
  <2>3. TakenTasks \o Append(tasks_, current) = Append(TakenTasks \o tasks_, current)
    BY <2>2, TakenTyped
  <2> QED BY <1>2, <2>1, <2>3 DEF SubmitPushes, OrderInv
<1>3. ASSUME NEW w \in Workers, Take(w) PROVE OrderInv'
  <2>1. TakenTasks' = Append(TakenTasks, Head(tasks_))
    BY <1>3, HeadTailProperties DEF Take, TakenTasks
  <2> QED BY <1>3, <2>1, MoveHead, TakenTyped DEF Take, OrderInv
<1> QED
  BY <1>1, <1>2, <1>3, NextCases
  DEF vars, Lock, SubmitNotifies, DestructorNotifies, RequestStop, Join, WaitBlocks,
      WaitStopped, Run, SpuriousWakeup

LEMMA StopStep == Inv /\ [Next]_vars => StopInv'
<1> SUFFICES ASSUME Inv, [Next]_vars PROVE StopInv'
  OBVIOUS
<1> USE NumThreadsAssumption
    DEF Inv, BaseInv, TypeOK, StopInv, Stopping, Threads, Workers, Main, MainPoints, WorkerPoints
<1>1. CASE SubmitPushes
  BY <1>1 DEF SubmitPushes, Goto
<1>2. CASE SubmitNotifies \/ DestructorNotifies
  <2>1. \A w \in Workers : ~stop[w] /\ pc[w] # "exited"
    BY <1>2 DEF SubmitNotifies, DestructorNotifies, Goto
  <2>2. /\ stop' = stop /\ \A w \in Workers : pc'[w] = pc[w]
        /\ pc'[Main] \in {"submit", "sleep", "stop"}
    BY <1>2 DEF SubmitNotifies, DestructorNotifies, Goto
  <2>3. pc'[Main] = "stop" => current' = 1
    BY <1>2 DEF SubmitNotifies, DestructorNotifies, Goto, SubmitInv, Submitting
  <2> QED BY <2>1, <2>2, <2>3
<1>3. CASE RequestStop
  BY <1>3 DEF RequestStop, Goto
<1>4. CASE Join
  <2>1. current \in Workers /\ pc[current] = "exited" /\ pc[Main] = "join"
    BY <1>4 DEF Join, Goto, SubmitInv, Submitting
  <2>2. \A w \in Workers : w < current \/ w = current => pc'[w] = "exited"
    BY <1>4, <2>1 DEF Join, Goto
  <2> QED BY <1>4, <2>1, <2>2 DEF Join, Goto
<1>5. ASSUME NEW t \in Threads, Lock(t) PROVE StopInv'
  BY <1>5 DEF Lock, Goto
<1>6. ASSUME NEW w \in Workers, WaitBlocks(w) \/ WaitStopped(w) \/ Run(w) PROVE StopInv'
  BY <1>6 DEF WaitBlocks, WaitStopped, Run, Goto
<1>7. ASSUME NEW w \in Workers, Take(w) PROVE StopInv'
  BY <1>7 DEF Take, Goto
<1>8. CASE UNCHANGED <<pc, stop, tasks_, current>>
  BY <1>8
<1> QED BY <1>1, <1>2, <1>3, <1>4, <1>5, <1>6, <1>7, <1>8, NextCases DEF SpuriousWakeup, vars

LEMMA InvAlways == Spec => []Inv
<1>1. Init => OrderInv /\ StopInv
  BY NumThreadsAssumption, NumTasksAssumption
  DEF Init, OrderInv, TakenTasks, StopInv, Stopping, Threads, Workers, Main
<1>2. Init => Inv
  BY <1>1, BaseInit, SubmitInit DEF Inv
<1>3. Inv /\ [Next]_vars => Inv'
  BY BaseStep, SubmitStep, OrderStep, StopStep DEF Inv
<1> QED BY <1>2, <1>3, PTL DEF Spec

\* When the destructor returns, every task has been taken by one worker and has
\* run (l.33-37, l.48-66).
THEOREM DestructorDrains == Spec => []PoolDrained
<1>1. Inv => PoolDrained
  <2> SUFFICES ASSUME Inv, pc[Main] = "done"
               PROVE  /\ {taken[k].val : k \in DOMAIN taken} = Tasks
                      /\ Len(taken) = NumTasks
                      /\ \A w \in Workers : pc[w] = "exited" /\ task[w] = NoTask
    BY DEF PoolDrained
  <2>1. \A w \in Workers : pc[w] = "exited" /\ task[w] = NoTask
    BY DEF Inv, BaseInv, StopInv, TaskInv
  <2>2. tasks_ = <<>>
    BY <2>1, NumThreadsAssumption DEF Inv, StopInv, Workers
  <2>3. TakenTasks = [k \in 1 .. NumTasks |-> k]
    <3>1. TakenTasks \o tasks_ = TakenTasks
      BY <2>2, TakenTyped, ConcatEmptySeq DEF Inv, BaseInv
    <3> QED BY <3>1 DEF Inv, OrderInv, SubmitInv, Submitting
  <2>4. Len(taken) \in Nat /\ DOMAIN taken = 1 .. Len(taken)
    BY LenProperties DEF Inv, BaseInv, TypeOK
  <2>5. Len(taken) = NumTasks
    <3>1. Len(TakenTasks) = NumTasks
      BY <2>3, NumTasksAssumption
    <3> QED BY <3>1, TakenTyped DEF Inv, BaseInv
  <2>6. \A k \in 1 .. NumTasks : taken[k].val = k
    BY <2>3, <2>5 DEF TakenTasks
  <2> QED BY <2>1, <2>4, <2>5, <2>6 DEF Tasks
<1> QED BY <1>1, InvAlways, PTL
-----------------------------------------------------------------------------
LEMMA ComingFinite ==
  /\ IsFiniteSet(Coming) /\ Cardinality(Coming) \in Nat
  /\ IsFiniteSet(Coming)' /\ Cardinality(Coming') \in Nat
<1>1. IsFiniteSet(Threads)
  <2>1. Threads = 0 .. NumThreads
    BY NumThreadsAssumption DEF Threads, Workers, Main
  <2> QED BY <2>1, NumThreadsAssumption, FS_Interval
<1>2. Coming \subseteq Threads /\ Coming' \subseteq Threads
  BY DEF Coming
<1> QED BY <1>1, <1>2, FS_Subset, FS_CardinalityType

LEMMA WakeupStep == Inv /\ TasksGetIdleWorkers /\ [Next]_vars => TasksGetIdleWorkers'
<1> SUFFICES ASSUME Inv, TasksGetIdleWorkers, [Next]_vars PROVE TasksGetIdleWorkers'
  OBVIOUS
<1> USE ThreadFacts, ComingFinite DEF Inv, BaseInv, TypeOK
<1>0. Len(tasks_) \in Nat
  BY LenProperties
<1>1. CASE SubmitPushes
  <2>1. Coming' = Coming \cup {Main} /\ Main \notin Coming
    BY <1>1 DEF SubmitPushes, Goto, Coming
  <2>2. Cardinality(Coming') = Cardinality(Coming) + 1
    BY <2>1, FS_AddElement
  <2>3. Len(tasks_') = Len(tasks_) + 1
    BY <1>1, AppendProperties DEF SubmitPushes, Goto, SubmitInv, Submitting
  <2> QED BY <1>0, <1>1, <2>2, <2>3 DEF SubmitPushes, TasksGetIdleWorkers
<1>2. CASE SubmitNotifies
  <2>1. CASE waiting = {}
    BY <1>2, <2>1 DEF SubmitNotifies, NotifyOne, TasksGetIdleWorkers
  <2>2. CASE waiting # {}
    <3>1. PICK w \in waiting : waiting' = waiting \ {w}
      BY <1>2, <2>2, NotifyOneShrinks DEF SubmitNotifies
    <3>2. Main \in Coming /\ w \notin Coming \ {Main}
      BY <1>2, <3>1 DEF SubmitNotifies, Goto, Coming
    <3>3. Coming' = (Coming \ {Main}) \cup {w}
      BY <1>2, <3>1 DEF SubmitNotifies, Goto, Coming, WaitingInv
    <3>4. IsFiniteSet(Coming \ {Main}) /\ Cardinality(Coming \ {Main}) = Cardinality(Coming) - 1
      BY <3>2, FS_RemoveElement
    <3>5. Cardinality((Coming \ {Main}) \cup {w}) = Cardinality(Coming \ {Main}) + 1
      BY <3>2, <3>4, FS_AddElement
    <3>6. Len(tasks_) <= Cardinality(Coming) /\ tasks_' = tasks_
      BY <1>2, <2>2 DEF SubmitNotifies, TasksGetIdleWorkers
    <3> QED BY <3>3, <3>4, <3>5, <3>6 DEF TasksGetIdleWorkers
  <2> QED BY <2>1, <2>2
<1>3. CASE DestructorNotifies
  BY <1>3 DEF DestructorNotifies, NotifyAll, TasksGetIdleWorkers
<1>4. CASE RequestStop
  <2>1. CASE waiting' = {}
    BY <2>1 DEF TasksGetIdleWorkers
  <2>2. CASE waiting' = waiting
    <3>1. Coming' = Coming /\ tasks_' = tasks_
      BY <1>4, <2>2 DEF RequestStop, Goto, Coming
    <3> QED BY <2>2, <3>1 DEF TasksGetIdleWorkers
  <2> QED BY <1>4, <2>1, <2>2 DEF RequestStop
<1>5. ASSUME NEW w \in Workers, WaitBlocks(w) \/ WaitStopped(w) PROVE TasksGetIdleWorkers'
  <2>1. Len(tasks_') = 0
    BY <1>5, EmptySeq DEF WaitBlocks, WaitStopped
  <2> QED BY <2>1 DEF TasksGetIdleWorkers
<1>6. ASSUME NEW w \in Workers, Take(w) PROVE TasksGetIdleWorkers'
  <2>1. tasks_ # <<>> /\ w \notin waiting
    BY <1>6 DEF Take, Goto, WaitingInv
  <2>2. Coming' = Coming \ {w} /\ w \in Coming
    BY <1>6, <2>1 DEF Take, Goto, Coming
  <2>3. Cardinality(Coming') = Cardinality(Coming) - 1
    BY <2>2, FS_RemoveElement
  <2>4. Len(tasks_') = Len(tasks_) - 1 /\ waiting' = waiting
    BY <1>6, <2>1, HeadTailProperties DEF Take
  <2> QED BY <1>0, <2>3, <2>4 DEF TasksGetIdleWorkers
<1>7. ASSUME NEW w \in Workers, Run(w) \/ SpuriousWakeup(w) PROVE TasksGetIdleWorkers'
  <2>1. Coming' = Coming \cup {w} /\ w \notin Coming
    BY <1>7 DEF Run, SpuriousWakeup, Goto, Coming, WaitingInv
  <2>2. Cardinality(Coming') = Cardinality(Coming) + 1
    BY <2>1, FS_AddElement
  <2> QED BY <1>0, <1>7, <2>2 DEF Run, SpuriousWakeup, TasksGetIdleWorkers
<1>8. ASSUME NEW t \in Threads, Lock(t) PROVE TasksGetIdleWorkers'
  <2>1. Coming' = Coming
    BY <1>8 DEF Lock, Goto, Coming, MainPoints, WorkerPoints
  <2> QED BY <1>8, <2>1 DEF Lock, TasksGetIdleWorkers
<1>9. CASE Join \/ UNCHANGED vars
  <2>1. Coming' = Coming
    BY <1>9 DEF Join, Goto, Coming, vars
  <2> QED BY <1>9, <2>1 DEF Join, vars, TasksGetIdleWorkers
<1> QED BY <1>1, <1>2, <1>3, <1>4, <1>5, <1>6, <1>7, <1>8, <1>9, NextCases

\* No wakeup is lost: a worker sleeps only while each queued task has a thread on
\* its way to it, although submit() notifies after the unlock (l.44-45).
THEOREM NoLostWakeup == Spec => []TasksGetIdleWorkers
<1>1. Init => TasksGetIdleWorkers
  BY DEF Init, TasksGetIdleWorkers
<1> QED BY <1>1, InvAlways, WakeupStep, PTL DEF Spec
-----------------------------------------------------------------------------
\* A thread that no step takes on: asleep, at a lock that somebody holds, or in
\* the join() of a worker that has not left.
Stuck(t) == \/ t \in waiting
            \/ mtx_ # Free /\ pc[t] \in {"submit", "loop", "wait"}
            \/ t = Main /\ pc[t] = "join" /\ pc[current] # "exited"

\* Until the destructor has returned, one of the threads can go on.
SomebodyGoesOn == pc[Main] = "done" \/ \E t \in Threads : pc[t] # "exited" /\ ~Stuck(t)

\* Nobody sleeps through its own stop request, and main() joins only a worker
\* that it has asked to stop.
AwakeInv == /\ \A w \in waiting : ~stop[w]
            /\ pc[Main] = "join" => stop[current]

LEMMA AwakeStep == Inv /\ AwakeInv /\ [Next]_vars => AwakeInv'
<1> SUFFICES ASSUME Inv, AwakeInv, [Next]_vars PROVE AwakeInv'
  OBVIOUS
<1> USE ThreadFacts DEF Inv, BaseInv, TypeOK, AwakeInv, MainPoints, WorkerPoints
<1>1. CASE SubmitNotifies
  <2>1. waiting' \subseteq waiting /\ pc'[Main] # "join" /\ stop' = stop
    BY <1>1, NotifyOneShrinks DEF SubmitNotifies, Goto
  <2> QED BY <2>1
<1>2. CASE RequestStop
  <2>1. current \in Workers
    BY <1>2 DEF RequestStop, Goto, SubmitInv, Submitting
  <2>2. waiting' \subseteq waiting /\ current \notin waiting'
    BY <1>2 DEF RequestStop
  <2>3. stop' = [stop EXCEPT ![current] = TRUE] /\ current' = current
    BY <1>2 DEF RequestStop
  <2> QED BY <2>1, <2>2, <2>3
<1>3. CASE Join
  BY <1>3 DEF Join, Goto
<1>4. CASE SubmitPushes \/ DestructorNotifies
  BY <1>4 DEF SubmitPushes, DestructorNotifies, NotifyAll, Goto
<1>5. ASSUME NEW w \in Workers, WaitBlocks(w) PROVE AwakeInv'
  BY <1>5 DEF WaitBlocks, Goto
<1>6. ASSUME NEW w \in Workers, WaitStopped(w) \/ Take(w) \/ Run(w) \/ SpuriousWakeup(w)
      PROVE  AwakeInv'
  BY <1>6 DEF WaitStopped, Take, Run, SpuriousWakeup, Goto
<1>7. ASSUME NEW t \in Threads, Lock(t) PROVE AwakeInv'
  BY <1>7 DEF Lock, Goto
<1>8. CASE UNCHANGED vars
  BY <1>8 DEF vars
<1> QED BY <1>1, <1>2, <1>3, <1>4, <1>5, <1>6, <1>7, <1>8, NextCases

\* The destructor has no deadlock (l.33-37): the worker that it joins has been woken
\* by its own request_stop(), although the notify_all() came before.
THEOREM DeadlockFree == Spec => []SomebodyGoesOn
<1>1. Inv /\ AwakeInv => SomebodyGoesOn
  <2> SUFFICES ASSUME Inv, AwakeInv, pc[Main] # "done"
               PROVE  \E t \in Threads : pc[t] # "exited" /\ ~Stuck(t)
    BY DEF SomebodyGoesOn
  <2> USE ThreadFacts DEF Inv, BaseInv, TypeOK, MainPoints, WorkerPoints, Stuck
  <2>1. CASE mtx_ # Free
    <3>1. mtx_ \in Threads /\ pc[mtx_] \in {"submitting", "check"}
      BY <2>1 DEF MutexInv
    <3> QED BY <3>1 DEF WaitingInv
  <2>2. CASE mtx_ = Free /\ pc[Main] = "join" /\ pc[current] # "exited"
    <3>1. current \in Workers /\ current \notin waiting
      BY <2>2 DEF AwakeInv, SubmitInv, Submitting
    <3> QED BY <2>2, <3>1
  <2>3. CASE mtx_ = Free /\ ~(pc[Main] = "join" /\ pc[current] # "exited")
    <3>1. Main \notin waiting
      OBVIOUS
    <3> QED BY <2>3, <3>1
  <2> QED BY <2>1, <2>2, <2>3
<1>2. Init => AwakeInv
  BY ThreadFacts DEF Init, AwakeInv
<1> QED BY <1>1, <1>2, AwakeStep, InvAlways, PTL DEF Spec
-----------------------------------------------------------------------------
LEMMA ReceivesOldest ==
  ASSUME Inv, tasks_ # <<>>
  PROVE  Len(taken) < Len(submitted) /\ Head(tasks_) = submitted[Len(taken) + 1]
<1>1. TakenTasks \in Seq(Tasks) /\ tasks_ \in Seq(Tasks) /\ Len(TakenTasks) = Len(taken)
  BY TakenTyped DEF Inv, BaseInv, TypeOK
<1>2. Len(taken) \in Nat
  BY LenProperties DEF Inv, BaseInv, TypeOK
<1>3. Len(tasks_) \in Nat \ {0} /\ Head(tasks_) = tasks_[1]
  BY <1>1, EmptySeq, HeadTailProperties
<1>4. Len(submitted) = Len(taken) + Len(tasks_)
  <2>1. Len(TakenTasks \o tasks_) = Len(TakenTasks) + Len(tasks_)
    BY <1>1, ConcatProperties
  <2> QED BY <1>1, <2>1 DEF Inv, OrderInv
<1>5. submitted[Len(taken) + 1] = tasks_[1]
  BY <1>1, <1>2, <1>3, ConcatProperties DEF Inv, OrderInv
<1> QED BY <1>2, <1>3, <1>4, <1>5

LEMMA AllTaken == ASSUME Inv, tasks_ = <<>> PROVE Len(taken) = Len(submitted)
<1>1. TakenTasks \in Seq(Tasks) /\ Len(TakenTasks) = Len(taken)
  BY TakenTyped DEF Inv, BaseInv
<1>2. TakenTasks = submitted
  BY <1>1, ConcatEmptySeq DEF Inv, OrderInv
<1> QED BY <1>1, <1>2

LEMMA ChannelInit == Init => Channel!Init
BY ThreadFacts, NumTasksAssumption DEF Init, Channel!Init

LEMMA ChannelStep == Inv /\ [Next]_vars => [Channel!Next]_(Channel!vars)
<1> SUFFICES ASSUME Inv, [Next]_vars PROVE [Channel!Next]_(Channel!vars)
  OBVIOUS
<1> DEFINE Left == {w \in Workers : pc[w] = "exited"}
           Open == pc[Main] \in {"submit", "submitting", "notify_one", "sleep"}
<1> USE ThreadFacts DEF Inv, BaseInv, TypeOK
<1>1. CASE SubmitPushes
  <2>1. current \in Tasks /\ Left' = Left /\ Open /\ Open'
    BY <1>1 DEF SubmitPushes, Goto, SubmitInv, Submitting
  <2> QED BY <1>1, <2>1 DEF SubmitPushes, Channel!Send, Channel!Next
<1>2. CASE DestructorNotifies
  <2>1. Left' = Left /\ Open' = FALSE
    BY <1>2 DEF DestructorNotifies, Goto
  <2> QED BY <1>2, <2>1 DEF DestructorNotifies, Channel!Close, Channel!Next
<1>3. ASSUME NEW w \in Workers, Take(w) PROVE Channel!Receive(w)
  <2>1. Len(taken) < Len(submitted) /\ Head(tasks_) = submitted[Len(taken) + 1]
    BY <1>3, ReceivesOldest DEF Take
  <2>2. Left' = Left /\ w \notin Left /\ Open' = Open
    BY <1>3 DEF Take, Goto
  <2> QED BY <1>3, <2>1, <2>2 DEF Take, Channel!Receive
<1>4. ASSUME NEW w \in Workers, WaitStopped(w) PROVE Channel!Leave(w)
  <2>1. Left' = Left \cup {w} /\ ~Open /\ Open' = Open
    BY <1>4 DEF WaitStopped, Goto, StopInv, Stopping
  <2>2. Len(taken) = Len(submitted)
    BY <1>4, AllTaken DEF WaitStopped
  <2> QED BY <1>4, <2>1, <2>2 DEF WaitStopped, Channel!Leave
<1>5. CASE UNCHANGED <<submitted, taken>> /\ Left' = Left /\ Open' = Open
  BY <1>5 DEF Channel!vars
<1>6. CASE SubmitNotifies \/ RequestStop \/ Join
  <2>1. Left' = Left /\ Open' = Open
    BY <1>6 DEF SubmitNotifies, RequestStop, Join, Goto
  <2> QED BY <1>5, <1>6, <2>1 DEF SubmitNotifies, RequestStop, Join
<1>7. ASSUME NEW t \in Threads, Lock(t) PROVE [Channel!Next]_(Channel!vars)
  <2>1. Left' = Left /\ Open' = Open
    BY <1>7 DEF Lock, Goto
  <2> QED BY <1>5, <1>7, <2>1 DEF Lock
<1>8. ASSUME NEW w \in Workers, WaitBlocks(w) \/ Run(w) \/ SpuriousWakeup(w)
      PROVE  [Channel!Next]_(Channel!vars)
  <2>1. Left' = Left /\ Open' = Open
    BY <1>8 DEF WaitBlocks, Run, SpuriousWakeup, Goto
  <2> QED BY <1>5, <1>8, <2>1 DEF WaitBlocks, Run, SpuriousWakeup
<1>9. CASE UNCHANGED vars
  BY <1>5, <1>9 DEF vars
<1> QED
  BY <1>1, <1>2, <1>3, <1>4, <1>6, <1>7, <1>8, <1>9, NextCases DEF Channel!Next

\* Each step of the pool is a step of the closable channel or none (its fairness
\* is left to TLC): a task is run once, in the order of submission, and a worker
\* leaves only when the channel is closed and drained.
THEOREM PoolImplementsChannel == Spec => Channel!Safety
BY InvAlways, ChannelInit, ChannelStep, PTL DEF Spec, Channel!Safety
=============================================================================
