----------------------------- MODULE WorkerPool -----------------------------
(***************************************************************************)
(* WorkerPool of 21-threads-concurrence/exemples/ex37_worker_pool.cpp and  *)
(* its main(): jthreads that wait on a condition_variable_any with their   *)
(* stop_token, and a destructor that notifies and then lets the vector     *)
(* destroy the jthreads one after the other, each with request_stop() and  *)
(* join().                                                                 *)
(***************************************************************************)
EXTENDS Naturals, Sequences, FiniteSets, Condvar

CONSTANTS NumThreads,   \* workers of the pool (4 in main())
          NumTasks,     \* tasks main() submits (20)
          Free          \* the value of mtx_ while no thread holds it

ASSUME NumThreadsAssumption == NumThreads \in Nat \ {0}
ASSUME NumTasksAssumption == NumTasks \in Nat
ASSUME FreeAssumption == Free \notin 0 .. NumThreads

Workers == 1 .. NumThreads
Main == 0
Threads == {Main} \cup Workers
Tasks == 1 .. NumTasks
NoTask == 0

VARIABLES mtx_, waiting, tasks_, pc,
          stop,       \* the stop request of each jthread
          current,    \* main(): the task to submit; then the worker to destroy
          task,       \* each worker's local variable task
          submitted,  \* history: the tasks in the order of submit()
          taken       \* history: which worker took which task

vars == <<mtx_, waiting, tasks_, pc, stop, current, task, submitted, taken>>

Init == /\ mtx_ = Free
        /\ waiting = {}
        /\ tasks_ = <<>>
        /\ pc = [t \in Threads |->
                   IF t \in Workers THEN "loop"
                   ELSE IF NumTasks > 0 THEN "submit" ELSE "sleep"]
        /\ stop = [w \in Workers |-> FALSE]
        /\ current = 1
        /\ task = [w \in Workers |-> NoTask]
        /\ submitted = <<>>
        /\ taken = <<>>

Goto(t, from, to) == pc[t] = from /\ pc' = [pc EXCEPT ![t] = to]
-----------------------------------------------------------------------------
(* Wrong forms of the definitions below. *)

\* wait() that returns false as soon as a stop is requested.
StopsUndrained(w) == /\ stop[w]
                     /\ Goto(w, "check", "exited")
                     /\ mtx_' = Free
                     /\ UNCHANGED <<waiting, tasks_, stop, current, task, submitted, taken>>

\* A stop request that wakes nobody: condition_variable without stop_token.
StopsSilently == /\ pc[Main] = "stop"
                 /\ stop' = [stop EXCEPT ![current] = TRUE]
                 /\ pc' = [pc EXCEPT ![Main] = "join"]
                 /\ UNCHANGED <<mtx_, waiting, tasks_, current, task, submitted, taken>>

\* submit() that leaves the notification to the next submit().
SubmitsSilently == /\ Goto(Main, "notify_one",
                           IF current < NumTasks THEN "submit" ELSE "sleep")
                   /\ current' = IF current < NumTasks THEN current + 1 ELSE 1
                   /\ waiting' \in IF current < NumTasks THEN NotifyOne(waiting)
                                                         ELSE {waiting}
                   /\ UNCHANGED <<mtx_, tasks_, stop, task, submitted, taken>>
-----------------------------------------------------------------------------
\* lock_guard and unique_lock, and the reacquisition inside wait().
Lock(t) == /\ mtx_ = Free
           /\ mtx_' = t
           /\ \/ Goto(t, "submit", "submitting")
              \/ Goto(t, "loop", "check")
              \/ t \notin waiting /\ Goto(t, "wait", "check")
           /\ UNCHANGED <<waiting, tasks_, stop, current, task, submitted, taken>>

SubmitPushes == /\ Goto(Main, "submitting", "notify_one")
                /\ tasks_' = Append(tasks_, current)
                /\ submitted' = Append(submitted, current)
                /\ mtx_' = Free
                /\ UNCHANGED <<waiting, stop, current, task, taken>>

\* notify_one after the unlock, then the next submit() of main().
SubmitNotifies == /\ Goto(Main, "notify_one",
                          IF current < NumTasks THEN "submit" ELSE "sleep")
                  /\ current' = IF current < NumTasks THEN current + 1 ELSE 1
                  /\ waiting' \in NotifyOne(waiting)
                  /\ UNCHANGED <<mtx_, tasks_, stop, task, submitted, taken>>

\* After its sleep, which orders nothing, main() leaves the block: ~WorkerPool
\* notifies everyone, then the vector of jthreads is destroyed.
DestructorNotifies == /\ Goto(Main, "sleep", "stop")
                      /\ waiting' = NotifyAll(waiting)
                      /\ UNCHANGED <<mtx_, tasks_, stop, current, task, submitted, taken>>

\* request_stop() of one jthread.  A worker inside wait() has registered a stop
\* callback that notifies everyone; between two waits it has none.
RequestStop == /\ Goto(Main, "stop", "join")
               /\ stop' = [stop EXCEPT ![current] = TRUE]
               /\ waiting' \in IF current \in waiting THEN {{}} ELSE {waiting, {}}
               /\ UNCHANGED <<mtx_, tasks_, current, task, submitted, taken>>

\* join() of that jthread, then the next one.
Join == /\ Goto(Main, "join", IF current < NumThreads THEN "stop" ELSE "done")
        /\ pc[current] = "exited"
        /\ current' = IF current < NumThreads THEN current + 1 ELSE current
        /\ UNCHANGED <<mtx_, waiting, tasks_, stop, task, submitted, taken>>

\* wait() finds no task and no stop request: the two tests and the blocking are
\* one step for a request_stop(), as condition_variable_any guarantees.
WaitBlocks(w) == /\ tasks_ = <<>> /\ ~stop[w]
                 /\ Goto(w, "check", "wait")
                 /\ waiting' = waiting \cup {w}
                 /\ mtx_' = Free
                 /\ UNCHANGED <<tasks_, stop, current, task, submitted, taken>>

\* wait() returns false: stop requested, and the predicate still false.
WaitStopped(w) == /\ tasks_ = <<>> /\ stop[w]
                  /\ Goto(w, "check", "exited")
                  /\ mtx_' = Free
                  /\ UNCHANGED <<waiting, tasks_, stop, current, task, submitted, taken>>

\* The predicate holds, stop requested or not: take the oldest task.
Take(w) == /\ tasks_ # <<>>
           /\ Goto(w, "check", "run")
           /\ task' = [task EXCEPT ![w] = Head(tasks_)]
           /\ tasks_' = Tail(tasks_)
           /\ taken' = Append(taken, [by |-> w, val |-> Head(tasks_)])
           /\ mtx_' = Free
           /\ UNCHANGED <<waiting, stop, current, submitted>>

\* task() runs outside the lock and is destroyed at the end of the turn.
Run(w) == /\ Goto(w, "run", "loop")
          /\ task' = [task EXCEPT ![w] = NoTask]
          /\ UNCHANGED <<mtx_, waiting, tasks_, stop, current, submitted, taken>>

SpuriousWakeup(w) == /\ w \in waiting
                     /\ waiting' = waiting \ {w}
                     /\ UNCHANGED <<mtx_, tasks_, pc, stop, current, task, submitted, taken>>

MainStep == \/ SubmitPushes \/ SubmitNotifies \/ DestructorNotifies
            \/ RequestStop \/ Join

Work(w) == WaitBlocks(w) \/ WaitStopped(w) \/ Take(w) \/ Run(w)

\* The pool is gone and main() returns.
Ended == pc[Main] = "done" /\ UNCHANGED vars

Next == \/ \E t \in Threads : Lock(t)
        \/ MainStep
        \/ \E w \in Workers : Work(w) \/ SpuriousWakeup(w)
        \/ Ended

\* Scheduling, and a mutex that does not starve its waiters.
Fairness == /\ \A t \in Threads : SF_vars(Lock(t))
            /\ WF_vars(MainStep)
            /\ \A w \in Workers : WF_vars(Work(w))

Spec == Init /\ [][Next]_vars /\ Fairness
-----------------------------------------------------------------------------
\* "20 tâches exécutées, pool arrêté proprement" (README, ex37): when the
\* destructor returns, every task has been taken by one worker and has run.
PoolDrained == pc[Main] = "done" =>
                 /\ {taken[k].val : k \in DOMAIN taken} = Tasks
                 /\ Len(taken) = NumTasks
                 /\ \A w \in Workers : pc[w] = "exited" /\ task[w] = NoTask

\* While the pool is in use an idle worker is called to each queued task: as
\* many threads are on their way as there are tasks.
Coming == {t \in Threads \ waiting : pc[t] \in {"notify_one", "loop", "check", "wait"}}
TasksGetIdleWorkers == waiting # {} => Len(tasks_) <= Cardinality(Coming)

\* The destructor returns (l.33-37), whatever the workers were doing.
Termination == <>(pc[Main] = "done")

Channel == INSTANCE ClosableChannel WITH
             Receivers <- Workers,
             Values <- Tasks,
             sent <- submitted,
             open <- pc[Main] \in {"submit", "submitting", "notify_one", "sleep"},
             left <- {w \in Workers : pc[w] = "exited"}

\* The pool is a closable channel that its destructor closes.
ImplementsChannel == Channel!Spec
=============================================================================
