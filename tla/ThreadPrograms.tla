---------------------------- MODULE ThreadPrograms ----------------------------
(***************************************************************************)
(* The programs of chapters 21 and 42, and the two of chapter 20 that      *)
(* share a queue, as scripts.  A loop over many equal passes is cut to two *)
(* passes and a team of equal threads to two threads, unless the number    *)
(* matters.                                                                *)
(***************************************************************************)
EXTENDS Calls

\* main() starts the threads a and b and joins them, then does the rest.
LOCAL Both == <<Spawn("a"), Spawn("b"), Join("a"), Join("b")>>
LOCAL Team(work, rest) == [main |-> Both \o rest, a |-> work, b |-> work]
LOCAL Pair(workA, workB) == [main |-> Both, a |-> workA, b |-> workB]

\* main() starts the thread a, does its part and joins it.
LOCAL Duo(work, part, rest) ==
  [main |-> <<Spawn("a")>> \o part \o <<Join("a")>> \o rest, a |-> work]

\* Threads that share nothing: hello, join() and thread ids; the four callables; a
\* thread moved twice and a vector of them.
HelloThread == Duo(<<>>, <<>>, <<>>)
LOCAL FourThreads == <<Spawn("a"), Spawn("b"), Spawn("c"), Spawn("d"),
                       Join("a"), Join("b"), Join("c"), Join("d")>>
LOCAL Printers(main) == [main |-> main, a |-> <<>>, b |-> <<>>, c |-> <<>>, d |-> <<>>, t |-> <<>>]
Callables == Printers(FourThreads)
MovedThreads == Printers(<<Spawn("t"), Join("t")>> \o FourThreads)

\* increment() by two threads, under a mutex (ex08), with an atomic (ex24), under
\* the spin locks of ex26 and of chapter 42, whose lock() spins on exchange(true).
MutexCounter ==
  Team(Rep(2, Guarded("mtx", <<Bump("counter")>>)), <<Check("counter", 4)>>)

AtomicCounter == Team(Rep(2, <<Add("counter", 1)>>), <<Check("counter", 4)>>)

\* Two counters of their own, packed or padded; one counter captured by reference.
FalseSharing ==
  [main |-> Both \o <<Spawn("c"), Spawn("d"), Join("c"), Join("d")>>,
   a |-> Rep(2, <<Add("packed.a", 1)>>), b |-> Rep(2, <<Add("packed.b", 1)>>),
   c |-> Rep(2, <<Add("padded.a", 1)>>), d |-> Rep(2, <<Add("padded.b", 1)>>)]
CapturedCounter == Team(Rep(2, <<Add("counter", 1)>>), Sure("counter", 4))

SpinLocked(body) == <<Acquire("locked_", 1)>> \o body \o <<Put("locked_", 0)>>

SpinLockCounter ==
  Team(Rep(2, SpinLocked(<<Bump("shared_counter")>>)), <<Check("shared_counter", 4)>>)

SpinLock42 == Team(Rep(2, SpinLocked(<<Bump("counter")>>)), <<Check("counter", 4)>>)

\* One thread at a time works on counter; ptr and message are given away or copied.
PassingArguments ==
  [main |-> <<Spawn("a"), Join("a"), Spawn("b"), Join("b"), Check("counter", 1),
              Write("ptr", 42), Spawn("c"), Join("c")>>,
   a |-> <<Read("message")>>, b |-> <<Bump("counter")>>, c |-> <<Check("ptr", 42)>>]

\* The exception of a thread, stored in eptr and seen after join().
ExceptionPropagation == Duo(<<Write("eptr", 1)>>, <<>>, <<Check("eptr", 1)>>)

\* try_lock(), try_lock_for() and try_lock_until() with nobody else about: they
\* succeed.
TryLockUpdate ==
  [main |-> Guarded("mtx", <<Write("shared_data", 42)>>) \o <<Check("shared_data", 42)>>]

TimedLock == [main |-> Guarded("tmtx", <<>>) \o Guarded("tmtx", <<>>)]

\* A reader shares the lock with readers and excludes writers.
SharedCache ==
  [main |-> Rep(2, Guarded("mtx_", <<Bump("cache_")>>))
            \o Rep(3, <<LockShared("mtx_"), Check("cache_", 2), Unlock("mtx_")>>)]

\* with_lock() around each use of the vector; its size.
Synchronized ==
  [main |-> Guarded("mtx_", <<Bump("data_")>>) \o Guarded("mtx_", <<Check("data_", 1)>>)
            \o Guarded("mtx_", <<Bump("data_"), Bump("data_")>>)
            \o Guarded("mtx_", <<Check("data_", 3)>>)]

\* push() from two threads, size() at the end.
LockGuardPush == Guarded("mtx_", <<Bump("queue_")>>)
LockGuardQueue == Team(Rep(2, LockGuardPush), Guarded("mtx_", <<Check("queue_", 4)>>))

\* A consumer that waits for an item or for the end, under one lock, takes the
\* item and treats it outside; what it does with it is task.
LOCAL Consumer(cv, m, items, stop, task) ==
  <<Lock(m), If(items, 1, 6), If(stop, 1, 8 + Len(task))>>
  \o Wait(cv, m) \o <<Goto(-5)>>
  \o <<Drop(items), Unlock(m)>> \o task \o <<Goto(-9 - Len(task)), Unlock(m)>>

LOCAL Stops(cv, m, stop) == Guarded(m, <<Write(stop, 1)>>) \o <<NotifyAll(cv)>>

\* A producer of three tasks and a consumer; finished ends it.
ProducerConsumer ==
  [main |-> Both \o <<Check("tasks", 0)>>,
   a |-> Rep(3, Guarded("mtx", <<Bump("tasks")>>) \o <<NotifyOne("cv")>>)
         \o Stops("cv", "mtx", "finished"),
   b |-> Consumer("cv", "mtx", "tasks", "finished", <<>>)]

\* submit() twice, get() on both futures, stop(), join().
TaskQueueSubmit == Guarded("mtx_", <<Bump("tasks_")>>) \o <<NotifyOne("cv_")>>
TaskQueueStop == Stops("cv_", "mtx_", "stopped_")
TaskQueue ==
  [main |-> <<Spawn("a")>> \o TaskQueueSubmit \o TaskQueueSubmit
            \o <<Await("futures", 1), Await("futures", 2)>> \o TaskQueueStop \o <<Join("a")>>,
   a |-> Consumer("cv_", "mtx_", "tasks_", "stopped_", <<Add("futures", 1)>>)]

\* A consumer with a stop token: the items left are taken, then it stops.
LOCAL Stoppable(token) ==
  <<Lock("m"), If("queue", 1, 6), Test(token, 1, 9)>>
  \o WaitOrStop("cv", "m", token) \o <<Goto(-5)>>
  \o <<Bump("taken"), Drop("queue"), Unlock("m"), Goto(-10), Unlock("m")>>

\* Three items pushed under one lock, one notify_all(); each jthread in its turn
\* is asked to stop and joined.
CondvarStop ==
  [main |-> <<Spawn("a"), Spawn("b")>> \o Guarded("m", Rep(3, <<Bump("queue")>>))
            \o <<NotifyAll("cv"), Put("stopA", 1), NotifyAll("cv"), Join("a"),
                 Put("stopB", 1), NotifyAll("cv"), Join("b"), Check("taken", 3)>>,
   a |-> Stoppable("stopA"), b |-> Stoppable("stopB")]

\* wait_for() with a predicate: first nobody signals, then somebody does.
TimedWaiter ==
  <<Lock("mtx"), If("event_occurred", 1, 4)>> \o WaitFor("cv", "mtx")
  \o <<Read("event_occurred"), Unlock("mtx")>>

WaitForTimeout ==
  [main |-> <<Spawn("a"), Join("a"), Write("event_occurred", 0), Spawn("b")>>
            \o Guarded("mtx", <<Write("event_occurred", 1)>>) \o <<NotifyOne("cv"), Join("b")>>,
   a |-> TimedWaiter, b |-> TimedWaiter]

\* count_down() by every worker before wait() returns.
StartupLatch ==
  [main |-> <<Spawn("a"), Spawn("b"), Await("latch", 2), Check("readyA", 1), Check("readyB", 1),
              Join("a"), Join("b")>>,
   a |-> <<Write("readyA", 1), Add("latch", 1)>>, b |-> <<Write("readyB", 1), Add("latch", 1)>>]

\* arrive_and_wait(): after a phase everybody has done its part of it.
BarrierPhases ==
  LET phase(mine, other, i) ==
        <<Add(mine, 1), Add("arrived", 1), Await("arrived", 2 * i)>> \o Sure(other, i)
      thread(mine, other) ==
        phase(mine, other, 1) \o phase(mine, other, 2) \o phase(mine, other, 3)
  IN Pair(thread("phaseA", "phaseB"), thread("phaseB", "phaseA"))

\* No more workers connected than the semaphore has slots: two for three workers.
ConnectionSemaphore ==
  LET worker == <<Acquire("connected_", 2), Add("connected_", -1)>>
  IN [main |-> <<Spawn("a"), Spawn("b"), Spawn("c"), Join("a"), Join("b"), Join("c")>>,
      a |-> worker, b |-> worker, c |-> worker]

\* Futures: the value is written before the shared state is ready, and read after.
LOCAL Promised(v) == <<Write("value", v), Put("ready", 1)>>
LOCAL Got(v) == <<Await("ready", 1), Check("value", v)>>

AsyncBasic == Duo(Promised(1764), Got(1764), <<>>)
AsyncException == Duo(Promised(-1), Got(-1), <<>>)
DetachedPromise == [main |-> <<Spawn("a")>> \o Got(42) \o <<Exit(0)>>, a |-> Promised(42)]
PackagedTask == Duo(Promised(30), Got(30), <<>>)
SharedFuture ==
  [main |-> <<Spawn("a"), Spawn("b"), Spawn("c"), Join("b"), Join("c"), Join("a")>>,
   a |-> Promised(42), b |-> Got(42), c |-> Got(42)]

\* A release store publishes data, an acquire load that sees it reads it.
AcquireRelease ==
  Pair(<<Write("data", 42), Put("ready", 1)>>, <<Await("ready", 1), Check("data", 42)>>)

\* update() loads the table and later stores its n-th copy; main() is the only
\* writer, and the two readers find what it has stored before they start.
RcuUpdate(n) == Sure("table_", n - 1) \o <<Put("table_", n)>>
RcuTable ==
  [main |-> RcuUpdate(1) \o RcuUpdate(2) \o RcuUpdate(3) \o Both \o RcuUpdate(4)
            \o Sure("table_", 4),
   a |-> Sure("table_", 3), b |-> Sure("table_", 3)]

\* ~jthread asks to stop, then joins; a worker sees it at its next pass.
JthreadBasic == Duo(<<Test("stop", 1, 2), Goto(-1)>>, <<Put("stop", 1)>>, <<>>)

\* The callback runs once: in request_stop(), or when it is registered too late.
StopCallback ==
  LET once(flag, other) ==
        Guarded("state", <<Put(flag, 1), Test(other, 1, 2), Goto(2), Bump("called")>>)
  IN Duo(once("registered", "stop") \o <<Test("stop", 1, 2), Goto(-1)>>,
         once("stop", "registered"), <<Check("called", 1)>>)

Threads ==
  [ex01 |-> HelloThread, ex02 |-> Callables, ex04 |-> HelloThread, ex05 |-> MovedThreads,
   ex06 |-> HelloThread, falseSharing |-> FalseSharing, captured |-> CapturedCounter,
   ex03 |-> PassingArguments, ex07 |-> ExceptionPropagation, ex08 |-> MutexCounter,
   ex09 |-> TryLockUpdate, ex11 |-> SharedCache, ex12 |-> TimedLock, ex13 |-> Synchronized,
   ex14 |-> LockGuardQueue, ex17 |-> ProducerConsumer, ex20 |-> WaitForTimeout,
   ex21 |-> StartupLatch, ex22 |-> BarrierPhases, ex23 |-> ConnectionSemaphore,
   ex24 |-> AtomicCounter, ex26 |-> SpinLockCounter, ex27 |-> AsyncBasic,
   ex28 |-> AsyncException, ex29 |-> DetachedPromise, ex30 |-> SharedFuture,
   ex31 |-> PackagedTask, ex32 |-> TaskQueue, ex34 |-> RcuTable, ex35 |-> JthreadBasic, ex36 |-> StopCallback,
   spinlock42 |-> SpinLock42, acquireRelease |-> AcquireRelease, condvarStop |-> CondvarStop]
=============================================================================
