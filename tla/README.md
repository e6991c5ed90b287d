# Verification of the programs of "Formation C++ moderne sur Ubuntu"

The repository is a course. Its code is a few hundred small programs, one
directory `exemples` per chapter, each complete with its own `main()`; there is
no single system. What can go wrong in them is concentrated in the chapters on
signals (20), threads (21), networking (22), processes and IPC (23), low-level
programming (42) and in the few programs of 19 that save a file in several
steps: programs whose result depends on which thread runs first, on when a
signal, a message or a crash arrives, or on a long sequence of calls. This
project models those. The other chapters show a language or tool feature in a
straight line of prints.

Ten programs with state of their own have a module each. The other 87 are
scripts: each thread and process is the sequence of the calls it makes, and one
module, `Machine`, says what every call does. That none of them races, and that no
signal ends one in the part it protects, is proved once for all of them, from what
each script says of its locks, joins, masks and handlers.

Contents: [Inventory](#inventory) · [Modules](#modules-and-the-code) ·
[Runs](#runs) · [Fairness](#fairness) · [Findings](#findings) ·
[Proofs](#proofs) · [Only model-checked](#only-model-checked) ·
[Not modelled](#not-modelled) · [Plan](#plan)

Run everything from this directory: `tlc -config BlockingQueueMain.cfg
MCBlockingQueue`, `tlapm BlockingQueueProofs.tla`, and so on. `PROJECT.json`
holds the list of runs, the lines each definition stands for, one mutant of the
code for each checked property, and the hazards with their lines.

## Inventory

### Modelled

| component | state | operations | what is hard | what makes it correct |
|---|---|---|---|---|
| Blocking queue, 21 `ex19` | mutex, wait set, deque, closed flag | `push`, `pop`, `close` | `notify_one` after the unlock, spurious wakeups, `push` after `close` | each item delivered once and in order; the end told only when closed and drained; nobody sleeps for ever |
| Monitor, 21 `ex33` | mutex, wait set, data | `apply`, `wait_and_apply` | who notifies whom | the consumer gets every item (it does not: see Findings) |
| Bank transfer, 21 `ex18`, `ex16`, `ex15` | one mutex and one balance per account | `transfer` | crossed transfers; test, debit and credit are separate reads and writes | no deadlock, no update lost, no overdraft, money conserved |
| Worker pool, 21 `ex37` | mutex, wait set, tasks, one stop source per `jthread` | `submit`, `worker_loop`, destructor | stop requests that come one worker at a time and race the wait | every task runs once before the destructor returns, and it returns |
| Compare-and-swap loops, 21 `ex25`, 42 `09` | one atomic | load, `compare_exchange_weak` | stale expectation, spurious failure | each success is one atomic update of the last value |
| Pooled echo server, 22 `ex02_pool` and `net_utils.hpp` | connection queue, sockets, byte counts | accept, `push`, `pop`, `handle_client`, `send_all`, `shutdown`, client | short reads and writes, a client that leaves, shutdown with connections open | one owner per socket, no byte lost, `main()` ends with everything closed |
| epoll echo server, 22 `ex03_epoll` | descriptor table, event batch, timer | accept, echo, hang-up, timer | a batch grows stale while it is handled; descriptors are reused | an event reaches the connection it was reported for; each client answered |
| gRPC task manager, 22 `ex06_3_grpc` | ordered map, id counter | `CreateTask`, `GetTask`, `ListTasks` | id allocated outside the lock; insertions between two pages; string order of ids | answered tasks are kept, a listing repeats nothing and is complete (the last does not hold: see Findings) |
| Robust process-shared mutex, 23 `ex17` | segment: mutex, counter, text | `increment` | a process killed at any instruction, also while it recovers | survivors go on, counter counts every increment, text agrees with it |
| Locks and condition variables, 21 `ex08` to `ex20` (those without a module), 20 `03_condvar_stop` | mutexes, wait sets, plain variables | lock, wait, notify, timed and stoppable waits | what is read must have been written by then, under the lock | no race on a plain variable, the printed result, every program ends |
| Threads, atomics, futures, latches, barriers, stop tokens, 21 `ex01` to `ex07`, `ex21` to `ex36`, 41 `05`, 42 `07` and `08`, 11 `11_01_2` | atomics, flags, results of futures | start, join, set, get, spin, count down, stop | publication order; a stop that meets a callback being registered; tasks queued at `stop()` | as above |
| Signal programs, 20 | masks, handlers, pending signals | block, handle, `sigwait`, signalfd, self-pipe | a signal at any moment, before a mask is set, within a critical section | no signal ends the part a program protects; it is noticed |
| Process programs, 20, 23 `ex01` to `ex12` | processes, descriptors, pipes | fork, exec, `waitpid`, `dup2`, close, read, write | an end left open keeps a reader from its end of file; exec fails; SIGPIPE | statuses, texts, nothing unread, every program ends |
| Shared memory and message queues, 23 `ex13` to `ex20` | segment, queue with priorities | map, send, receive, unlink | order of opening, of priorities | messages in the order announced, none left |
| Socket programs, 22.1 to 22.3 | connections, frames in pieces | accept, send, receive, close | a peer that goes away first; pieces of frames | as above, and no SIGPIPE |
| Asio, Beast, httplib, 22.4, 22.5 | sessions, counters | chains of callbacks, coroutines, stop | the end of a session from either side | as above |
| gRPC streaming, 22 `ex06_4` | flows of messages | server, client and both-way streams, cancel | a cancellation between a test and a write | as above |
| File saving, 19 `013`, `02_fsync`, `03_write_critical`, `04_write_secret`, copies | directory, page cache, disk | create, write, fsync, rename, unlink | killed or without power after any step, a full disk, a reader at any time | the file is whole, old or new, and new once the save returned `true` |
| Process RAII class, 23 `ex05` | `pid_`, `waited_` per object; kernel's children | spawn, move, `wait`, `wait_for`, `try_get_result`, signals, destructor | any order of calls; a collected pid is recycled | one owner per child to collect, no signal to a recycled pid, destructor returns |

### How they interact

The programs are separate processes that share no state, so the composition is
inside each program: threads through a mutex and a condition variable (19, 33,
37, `ex02_pool`), through an atomic (25, 09), through the kernel's sockets
(`ex02_pool`, `ex03_epoll`), processes through a shared segment (23 `ex17`) or
through signals and `waitpid` (23 `ex05`). Each module therefore holds the
component *and* the threads, clients, children or kernel objects of its
`main()`. What is shared between modules is a vocabulary and two promises:

* `Calls` and `Machine` – the calls of the scripts and what they do;
* `Condvar` – what `notify_one` and `notify_all` do to a wait set
  (used by `BlockingQueue`, `Monitor`, `WorkerPool`, `EchoPool`);
* `ClosableChannel` – what a queue that can be closed promises
  (implemented by `BlockingQueue` and `WorkerPool`);
* `AtomicUpdate` – what a shared value updated by many promises
  (implemented by `CasLoop` and `RobustMutex`).

### Not modelled

See [below](#not-modelled) and the components of `PROJECT.json`, which name
every part of the repository with its status.

## Modules and the code

All modules with threads share one convention. `pc[t]` is where a thread is
between two steps, and names the call or the point it is about to execute; a
step runs to the next point at which another thread can observe or disturb it.
A mutex is a variable that holds its owner, taken by `Lock` and released in the
step whose code leaves the scope of the lock; the modules do not make a
critical section atomic unless they say so. `wait` puts the thread in `waiting`
and releases the mutex in one step; a notification or a spurious wakeup takes
it out, and it then has to get the mutex again like anyone else. History
variables (`sent`, `taken`, `answers`, ...) are only written.

* **`BlockingQueue`** (`ex19`, 15-57 and `main`). `Lock` is the constructor of
  a lock and the reacquisition in `wait`; `PushThrows`/`PushAppends` are the
  two outcomes of the test of `closed_`; `PushNotifies` is the notification
  *after* the unlock; `PopReadsFront` and `PopRemoves` are `front()` and
  `pop()`, two steps; `CloseSets` and `CloseNotifies` are the halves of
  `close()`. `ExactlyOnceInOrder` ties history and queue together;
  `EveryItemHasAWakeup` says that as many threads are on their way to the queue
  as it has items while anyone sleeps, the reason why notifying after the
  unlock is right. `ImplementsChannel` is the refinement to `ClosableChannel`
  with `open <- ~closed_` and `left <-` the consumers told the end.
* **`Monitor`** (`ex33`). `Apply` changes the data and notifies nobody;
  `Func` works under the lock that `PredHolds` left taken, and on an empty
  queue would be undefined (any value).
* **`Transfer`** (`ex18`; `ex16` spells the same lock as `defer_lock` and
  `std::lock`). `std::lock` is modelled as the standard leaves it open: block on
  one of the two mutexes, try the other, on failure give the first back and
  start again on either. `Test`, `Debit` and `Credit` read and write the
  balances in separate steps; `debited` and `credited` are the values read.
  `NoDeadlock` is the comment of the code, "aucun deadlock possible": the thread
  that a transfer waits for does not wait itself.
* **`WorkerPool`** (`ex37`). `DestructorNotifies` is the destructor's body;
  then the vector destroys the jthreads in order, each with `RequestStop` and
  `Join`. A stop request wakes the wait set when its worker is inside `wait`
  (the stop callback notifies all on the shared internal condition); otherwise
  the callback may be registered or not, which is a choice. `Take` happens stop
  requested or not, because the predicate is looked at first.
* **`CasLoop`** (`ex25`, 42 `09`). `Update` is a parameter: doubling or
  adding one. `CasFails` covers both failures, stale and spurious.
* **`EchoPool`** (22 `ex02_pool`). A critical section of `ConnectionQueue` is
  one step here, because its mutex is the one `BlockingQueue` already opens up;
  waiting and notifying stay separate. `Recv` takes any part of the bytes that
  have come and `Send` any part of those held, in the loop of `send_all`
  (`net_utils.hpp`); a client that closes with unread bytes sends a reset, after
  which `recv` and `send` fail.
* **`EpollEcho`** (22 `ex03_epoll`). `Wait` fills `batch` with `Ready`, one
  event per descriptor as level-triggered epoll reports them; the events are
  handled one by one, in any order, while clients go on. `Accept` gives the
  lowest free descriptor, possibly one closed earlier in the same batch. The
  loop ends at the third timer expiration.
* **`TaskManager`** (22 `ex06_3_grpc`). `Allocate` is `next_id_++` before the
  lock, `Insert` the locked part, `Reply` what the caller sees. `Rank` is the
  order of `"task-" + to_string(n)` as strings (`task-10` before `task-2`),
  which is the order of the map and so of the pages. `List` is one call of a
  client that follows `next_page_token`.
* **`RobustMutex`** (23 `ex17`). `Crash` can strike between any two steps, in
  particular between the read and the write of `counter++`, within `snprintf`
  (`torn`), and between `EOWNERDEAD` and `pthread_mutex_consistent`. What the
  kernel does to the mutex of a dead owner, and that unlocking an inconsistent
  one makes it unusable for ever, follows the POSIX description the code is
  written for.
* **`ProcessGuard`** (23 `ex05`). Objects are variables of type `Process` in
  any legal order of calls: construction, move construction and assignment,
  `wait`, `wait_for`, `try_get_result`, `terminate`, `force_kill`, destruction.
  `called` is the call the program is in. The state and what must be true of it are
  in `ProcessObjects`, so that the proofs can name both it and `RobustMutex`.
  A child is unborn, running, a zombie, or gone, when its pid may be anyone's.
* **`Calls`** names the calls: a record with the object `x`, an argument `n`
  and `k`, how far the next call is on the failing path. `Read`, `Write` and
  `Bump` are plain accesses; `Put`, `Add`, `Test`, `Await` and `Acquire` are
  atomic ones, and what a program prints or asserts is a `Check`.
* **`Machine`** has one action for each kind of call: threads, mutexes and
  shared variables; condition variables; processes; descriptors of pipes, FIFOs
  and sockets; message queues; signals; files. An agent is a thread or a
  process; `proc` says which process a thread belongs to. `Deliver` is the
  kernel delivering a signal to a process one of whose threads does not block
  it. The initial state picks a program of the catalogue, so one run
  checks them all.
* **`ThreadPrograms`**, **`SignalPrograms`**, **`ProcessPrograms`**,
  **`NetworkPrograms`**, **`FilePrograms`** hold the scripts, one definition per
  program or per function that several threads share. A user who may press
  Ctrl-C, a client, a reader of the file, a crash, is an agent with a script like
  the others. Each direction of a connection is a channel. A send with
  MSG_NOSIGNAL, or where SIGPIPE is ignored, is a `Send` with the path the code
  takes on an error; any other is an `Out`, which SIGPIPE may end. An exception
  that `main()` or a thread lets out aborts the process (134).
* **Files.** `data` is what the processes see of each file, `disk` what is sure
  to be on the device. `LosesPower` leaves of each file what was last forced
  with `fsync`, or a beginning of what is newer (the kernel writes back when it
  likes), and the directory either as last synced or as the processes saw it.
  `reader` looks at the file at any time: it must be one version, whole, and not
  older than the last save that returned `true`. `02_fsync` and
  `03_write_critical` keep this when the power goes as well; `013_atomic_write`
  is only killed, because it calls no `fsync` and its course page says that one
  is needed for more.
* **`Lockset`** models nothing: it reads off a script, call by call, what an
  agent may rely on (the mutexes and spin locks it holds, the agents it has not
  started yet, the places that others have passed, because it joined them, waited
  for their exit or saw their flag, the signals it blocks or has given a handler),
  and says when that keeps any two accesses to a plain variable apart, and covers
  every signal somebody sends while the program's protected part may be open
  (`Shielded`). A script that does is race-free, and its protected part whole,
  whatever the schedule; see [Proofs](#proofs). TLC evaluates it over the catalogue,
  as an assumption of `MCPrograms`.
* **`ClosableChannel`**, **`AtomicUpdate`**, **`Condvar`**: above. **`MC…`**
  modules only give model values and functions to constants; `MCPrograms` also
  checks that no program of the catalogue hides another of the same name.

The modules also hold "wrong forms" of some of their definitions: plausible
mistakes in the code, one for each checked property, none used by the
specification. Each of them makes TLC report its property. Those of `RaceFree` and
`SignalsCannotCutIn` are in `Machine` (a lock that shares where it should exclude, a
mask that blocks the other signals), because a script that forgets its lock, or
blocks its signals too late, does not get as far as the run: `DisciplineAssumption`
is false of it.

## Runs

One run per question. All finish within two minutes on two workers.

| run | instance | shows |
|---|---|---|
| `BlockingQueueMain` | 2 producers × 2 items, 2 consumers | the queue is a FIFO that loses no item and no wakeup, `close` wakes everyone, every thread ends, and the closable channel is implemented with its fairness |
| `TransferCrossed` | the four kinds of transfer of `main()`, opening balance 2, amounts 2 and 1 | crossed transfers neither deadlock, lose an update, overdraw nor change the total, and all of them end |
| `WorkerPoolMain` | 3 workers, 4 tasks | all tasks run before the pool is gone, queued tasks get idle workers, the destructor returns, the pool is a channel closed by its destructor |
| `CasLoopMultiply` | 5 threads doubling once | every doubling is one atomic update (2^5 at the end), and all of them happen |
| `EchoPoolMain` | 2 workers, 2 clients, 2 bytes | every socket has one owner, no byte is lost while its client is there, `main()` ends with all connections closed |
| `ProgramsAll` | the 87 scripts, pipes and socket buffers of 2 items | no race on a plain variable, every printed value, exit status and message as announced, nothing left unread, no signal where the program protects itself, no SIGPIPE unless the program that should read could not be executed, every program ends |
| `EpollEchoMain` | 2 clients, one half-closing, 2 bytes | no event reaches a reused descriptor, echo complete, a client is answered or the server has stopped |
| `TaskManagerClients` | 2 clients × 5 tasks, pages of 4, one lister | an answered task is kept and is its caller's, a listing repeats nothing and misses at most the ids that were page tokens |
| `RobustMutexCrash` | parent and 2 children × 2 increments, each may be killed | survivors end, mutex stays usable, text agrees, counter counts |
| `ProcessGuardCalls` | 2 objects, 3 children | one owner per child, no signal to a gone child, destructor and assignment come back |
| `MonitorLostWakeup` | 2 items | *violated*: the consumer can sleep for ever |
| `TaskManagerPages` | 3 tasks, pages of 2 | *violated*: a listing loses a task at each page boundary |

**Why the bounds are enough.** Two producers are needed for a `push` to meet a
closed queue (the `main()` of `ex19` has one producer, but the class allows
more and tests `closed_` for it); two consumers for one to take what another
was woken for; two items each for order. Three workers and four tasks let a
stop request reach one worker while a second runs and a third sleeps, with
tasks queued. Opening balances equal to one amount let the order of transfers
decide which of them is refused. Five creations by two clients reach id 10, the
first whose string order differs from its number; pages of four make three
pages. Two bytes allow one short read or write; two clients let one descriptor
be closed and given out again in one batch. Two increments each and three
processes let a process die while recovering from the death of another and a
third recover from both. In the scripts, a loop of equal passes is cut to two
or three (a first pass that differs, one that follows, an end), a team of equal
threads to two, since the races and orders these programs could show are
between two; a buffer of two items can be empty, partly full and full; a text
is two parts, the least that can be torn, saved twice so that there is an old
version, and a frame is a length and two pieces. Three children for two objects let an assignment drop
one child and take another while the third is spawned later. The theorems below
remove the bound where they exist.

`CHECK_DEADLOCK FALSE` appears twice: `MonitorLostWakeup`, where the stuck state
is the finding itself, and `ProcessGuardCalls`, where the user's program may
make no more calls. Everywhere else an explicit stuttering action (`Joined`,
`Ended`, `Stop`, `Finished`) marks the legal end, so that a deadlock is an error.

## Fairness

* A thread that can step does so in the end (weak fairness): the operating
  system schedules every thread. No fairness on spurious wakeups, crashes,
  resets, or the timer of `ex03_epoll`: nothing obliges them to happen, and no
  property needs them.
* `BlockingQueue`, `WorkerPool`, `Monitor`: strong fairness of `Lock`, because
  other threads lock and unlock in between; a mutex that starved one thread for
  ever would break `Termination` for reasons outside the code. The futex-based
  mutex does not promise order, but with the finite loops of these programs the
  contenders run out, so the assumption only forbids an unrealistic schedule
  (spurious wakeups repeated for ever).
* `Transfer`: strong fairness of both lock steps: two threads do not collide in
  `std::lock` in the same pattern for ever (the algorithm is free of deadlock,
  not of livelock, and the standard asks no more).
* `CasLoop`: weak fairness of the success: a weak compare-and-swap whose
  expectation stays right does not fail spuriously for ever.
* `EchoPool`: a worker is certain to return from `wait` only once it is out of
  the wait set.
* `RobustMutex`: weak fairness of each process is enough, because a process
  that is overtaken is overtaken a finite number of times.
* `Machine`: weak fairness of the step of each thread and process, and of the
  delivery of each signal. Nothing is assumed of mutexes or of spins: within
  the finite scripts a waiter is overtaken a finite number of times. The user,
  the crash and the client are agents too, so their steps come in the end, at
  any moment before; a program that waits for Ctrl-C is checked with a user who
  presses it.
* `ProcessGuard`: a child that was sent a signal ends in the end; a child that
  was not need not, and `wait` may block for ever. `main()` only starts
  programs that die from SIGTERM.

## Findings

1. **`MonitorLostWakeup`** – `Monitor::apply()` (`ex33`, line 22) changes the
   data that `wait_and_apply()` waits for and notifies nobody. A consumer that
   starts before the first `push` sleeps for ever and `main()` never returns
   from `join()`. The README of the chapter promises "10 items produits et
   traités". It works when the producer happens to finish first.
2. **`TaskManagerPages`** – `next_page_token` (`ex06_3_grpc`, line 93) is the
   first id that did *not* fit, and the next call resumes *after* that id
   (lines 84-90): one task is lost at every page boundary.
   `MissesOnlyTokens` (which holds) says that nothing else is.

Weaknesses without a run of their own, kept as hazards:

* `EPOLLRDHUP` closes the connection of `ex03_epoll` (lines 122-126) before the
  bytes reported in the same event are read, so a client that half-closes after
  sending gets no answer. The model has such clients (`HalfClosers`) and the
  lost echo; `EchoComplete` leaves them out, and no client of the repository
  does it.
* The echo of `ex03_epoll` (line 138) ignores a short `send()`: `EchoComplete`
  needs a send buffer that holds the message, as it does for the clients of
  `main()`. The theorem has that as its assumption.
* `wait_for()` of `ex05_process_raii` (line 135) sleeps after its last poll: a
  child that ends in that sleep is reported as a timeout. `ProcessGuard` has
  that outcome, and no property forbids it; such a child stays owned, and is
  collected later.
* `013_atomic_write` (line 22) looks at neither `write()` nor `flush()`: on a
  full disk a text cut short is renamed over the target, against what
  01.3-operations-fichiers.md:542 says of the file. Its writes are taken not to
  fail.
* `03_write_critical` (line 37) and `04_write_secret` ignore the result of
  `fsync()`, which is taken not to fail there; in `02_fsync`, which has an
  answer, it may.

## Proofs

Checked by TLAPS for all values of the constants (any finite or, where no
finiteness is assumed, any set of threads; any number of items, updates,
accounts or processes).

* **`BlockingQueueProofs`**, from `ConsumersAssumption`, `ProducersAssumption`,
  `ItemsEachAssumption`, `FreeAssumption`. The invariant is `BaseInv`: types;
  `LoopIndexInv` (the index is a valid one inside the loop); `MutexInv` (the
  holder of `mtx_`, and only it, is in a critical section); `WaitingInv` (only
  threads in `wait` are in the wait set); `PoppingInv` (what was read with
  `front()` is still the front). Without `MutexInv` and `PoppingInv` the
  two-step removal does not keep `ExactlyOnceInOrder`, which is why that one is
  not inductive alone. On top: `FIFO`, `EndIsFinal`, `NoSleeperAfterClose`,
  `NoLostWakeup` (a count of the threads on their way, kept by each step through
  the finite-set theorems), and `QueueImplementsChannel`: every step is a
  `Send`, `Close`, `Receive` or `Leave` of the channel, or a stutter.
* **`TransferProofs`**, from the assumptions on accounts and amounts. `OwnerInv`
  (a thread between test and credit owns both accounts) gives `ReadInv` (what it
  has read is still there), which gives `NoOverdraft` and `ExactTransfers`;
  `TypeCorrect` comes with it. `MoneyIsConserved` needs finitely many accounts
  and threads (`FiniteAssumption`) and what a sum over a finite set does when one
  term changes. The sum of the library is a fold: a recursive function on the
  subsets of its domain, defined by a `CHOOSE`. `SumExists` shows that the
  recursion has a solution, `SumUnfold` that the sum of a set is that of the rest
  plus any one of its elements (whichever element `CHOOSE` picks), and
  `SumChanges` what follows. The induction on the size of the subset is the
  well-foundedness of `<`, cited from the library as a fact about *sets* of
  naturals (`NatSetInduction`): its theorems that take a predicate as a parameter
  are out of the provers' reach. `DeadlockFree` (`NoDeadlock`) rests on `HoldsInv`:
  a thread that blocks or has ended owns nothing, because `std::lock` gives the first
  mutex back before it blocks on the other.
* **`ProcessProofs`** has three parts. From `Parent \in Processes`, the robust
  mutex: `HolderInv` (past its lock means owner), `ConsistentInv` (the holder
  leaves `ownerdead` in its first step), `ProgressInv` (what the holder has read is
  the counter; at `unlock` the text is whole). They give `StaysRecoverable`,
  `TextShowsCounter`, `TypeCorrect` and `EveryIncrementCounts`. For any update
  function, the compare-and-swap loop (`Cas`, an instance): `AtomicUpdates` (the
  safety part of the refinement) and, if the function maps naturals to naturals,
  `CasTypeCorrect`. From `NoneAssumption` (no child or object is called "none"), the
  class `Process` (`Guard`, an instance): an object with something to collect holds
  a child that is there (`OwnsInv`), no two the same (`UniqueInv`), no such child is
  left without (`NoOrphanInv`), and the object of the call in progress is alive and
  has, or no longer has, its child, according to where the call is (`CallInv`). Two
  lemmas say what `waitpid` and a move keep of this. They give `GuardTypeCorrect`,
  `OneOwnerEach` (`OwnedUntilCollected`) and `SignalsOwnChild`.
* **`LocksetProofs`** proves `DisciplinePreventsRaces`: `Spec => []RaceFree` for
  every catalogue, of any number of programs, agents and calls, whose scripts keep
  the discipline (`DisciplineAssumption`) and are well formed
  (`ScriptsAssumption`). Both are decidable from the text of the scripts, without
  running them, and TLC evaluates both on the 87 programs before `ProgramsAll`
  starts. `RaceFree` alone is far from inductive: it says nothing of why the other
  thread is elsewhere. The invariant says that what `Knows` reads off the script is
  true whenever the agent is about to make the call: it holds those mutexes
  (`HoldsInv`, with `MutexInv`: exclusive means alone) and those spin locks
  (`SpinsInv`, with `SpinInv`: the atomic is 1 when somebody has it), has seen
  the others past those places (`PassedInv`, with `LatchInv`: a latch that no signal
  handler writes is at most the number of its raisers that are behind, and
  `ProcessInv`: an exit status means that the agent has ended), and the agents it is
  still to start have not begun (`UnbornInv`). `HandlerInv` bounds what a handler can
  write. A lemma (`StepEffect`) first reduces the 37 kinds of call to the few ways in
  which they change these variables. What the discipline asks of a `goto` back is
  that it never crosses a place others take as passed (`Gate`).
  `ProtectedPartsComplete` is `Spec => SignalsCannotCutIn`, an action property, from
  the same assumptions. Of the signals that some script sends, each must have a
  handler wherever `main` may have the protected part open, or be blocked there by
  `main` and by every thread of its process. `SignalInv` adds to the invariant that
  the masks and handlers a script relies on are the ones there are (`BlocksInv`,
  `HandlesInv`: a new thread or process inherits the mask of whoever starts it, and
  only one agent sets the handlers that are relied on), that the running agents of
  the process are `main` and those it spawned (`CrewInv`), that a pending signal was
  sent (`PendingInv`), and that the part is shut where the script says so and when
  `main` runs off its end (`ShutInv`).
* **`EchoPoolProofs`**, from `ThreadsAssumption` (nobody has two roles) and
  `MessageAssumption`. `OwnerInv`: the backlog and the queue have no connection
  twice, the four places of a connection exclude each other, and it is in one
  from `connect()` on. It stands on `WorkerInv` (a worker has a connection exactly
  while it handles it) and `ClientInv` (a client whose connection nobody has taken
  is still in its `recv()`, with nothing to receive). It gives `SocketHasOneOwner`,
  and `BytesKept` with the byte count of `NoByteLost`, which only the owner of a
  connection disturbs. `MainInv` (`shutdown()` comes when all clients are done)
  gives `MainLeavesNothingOpen`: a client that is done is in no queue. With finitely
  many workers and clients, at least one of each (`FiniteAssumption`),
  `ConnectionsGetWorkers` is the lost-wakeup theorem of this queue (`WakeInv`: while
  a worker sleeps, at least as many threads are on their way to the queue as it has
  connections), on `WaitInv` (only who waits is in the wait set, nobody sleeps once
  `shutdown()` has notified) and `CountInv` (the server accepts as many connections as
  there are clients).
* **`WorkerPoolProofs`**, from the assumptions on numbers and on `Free`. `Inv`
  is `BaseInv` (types, `MutexInv`, wait set, no task held outside `run`),
  `SubmitInv` (how far `main()` is tells exactly what was submitted), `OrderInv`
  (what was taken followed by what is queued is what was submitted) and
  `StopInv` (a worker has left only when its stop was requested and nothing is
  queued, and stops come only when `main()` submits no more). `PoolDrained`
  needs the last two together: all workers joined means an empty queue, and an
  empty queue means that everything was taken. On top: `NoLostWakeup`
  (a count of workers on their way, kept by each step) and
  `PoolImplementsChannel`, every step a step or a stutter of `ClosableChannel`.
* **`EpollEchoProofs`**, from `ClientsAssumption` (finitely many clients) and
  the assumptions on bytes. `OwnFd`: no two connections share a descriptor.
  `BatchInv`: an event left in the batch is the only one of its connection,
  which still has the descriptor of the event. A batch is filled when all
  descriptors are current, and an accept within it takes a descriptor no open
  connection has, hence none in the batch. That there is a free one is a
  pigeonhole argument on cardinalities, that the lowest one is well defined is
  the well-foundedness of `<` cited from the library. They give `FreshEvents`;
  with `SumInv` (what is held, on its way and received adds up to what was
  sent) under `Message <= SendBuffer`, `EchoIsComplete`.
  `EventsStillHold`: what an event says is still so when its turn comes
  (`ReportsStayTrue`), so that the first `recv()` or `accept4()` for an event finds
  something. It needs `BatchInv`, because only the event of a connection has its
  bytes read, and `OtherFds`: the listening descriptor and the timer are reported
  once per batch.
* **`TaskManagerProofs`**, from `CreatorsAssumption` (no client is called
  "lister") and `PageSizesAssumption` (a page size is an integer, possibly
  negative). `AllocatedInv` (ids in the map are positive and below the counter),
  `InsertInv` (an id allocated and not inserted is one call's own) and `ReplyInv`
  make `AnsweredTasksKept` inductive: without `InsertInv` nothing says that an
  insertion does not overwrite. For the listing, `Rank` is injective; the position
  of a key is the number of those before it, which is one-to-one and, by a
  pigeonhole argument, onto (`PlaceHasKey`), so that iterating the map goes
  through every key once and in order (`KeysAscend`); `PageBeyond` says what a
  page holds after its token. `ListInv` then is the invariant of the listing: what
  was given is in order and sorts before the token, and what was there at the
  beginning and sorts before the token was given or was a token. `ListsOnce` and
  `ListMissesOnlyTokens` follow. `Rank` is the order of the real ids up to two
  digits, which `IdsAssumption` states; the proofs do not need the bound.
* **Freedom from deadlock.** `DeadlockFree` of `BlockingQueueProofs`,
  `WorkerPoolProofs`, `EchoPoolProofs` and `ProcessProofs` says that until everybody
  has ended (or the destructor, or `main()`, has returned) some thread is not `Stuck`.
  `ENABLED` is out of the prover's reach, so `Stuck(t)` lists by hand the calls of `t`
  that block and what they wait for: a mutex that is held, the wait set, an empty
  backlog, a socket with nothing to read, a thread not joined yet. On the instances of
  the runs, TLC agrees that `Stuck(t)` is exactly the negation of `ENABLED` of the
  steps of `t`, spurious wakeups left aside. The arguments: a held mutex has a holder
  that goes on (`MutexInv`; `HolderInv` when it may be killed); nobody is asleep on a
  closed queue once `notify_all` is done (`CloseWakesEveryone`, with `ClosedInv`: no
  producer ends before the queue is closed), nor through its own stop request
  (`AwakeInv`), nor with a connection queued (`WakeInv`); and a connection that is not
  served is in one of the four places of `OwnerInv`, each of which has somebody to
  take it on. That everybody ends, under fairness, stays with TLC.

## Only model-checked

* All liveness (`Termination`, `SurvivorsEnd`, `TryWaitReturns`,
  `EveryClientServed`, `ProgramsEnd`) and the fair half of the refinements: `ENABLED` and
  liveness under fairness are out of the prover's reach.
* `StatedResults`, `NothingLost` and `NoBrokenPipe` of the scripts: what is
  printed, collected or left over, and who still reads, is a matter of each program,
  so that the theorem would be one proof for each; the run explores every interleaving
  of each as it stands. The bound is in the loops that were cut. `RaceFree` and
  `SignalsCannotCutIn` are proved, for loops of any length that keep the discipline.
* What recursive definitions compute for every input (induction over data).

## Not modelled

* **Parts of the repository.** The language and library chapters (01 to 19
  beyond the files above, 24, 25), the tool chapters (26 to 41 but for `05` of
  41, 43, 45 to 48) and the design patterns (44) are straight lines of prints,
  or configuration. Of the chapters modelled: the data race example of 21 (its
  undefined behaviour is its subject), recursive mutex and parallel algorithms
  (one thread, or one library call), signal examples with one thread and one
  call, the lock-free stack and the bitmap allocator of 42 (one thread, a
  straight line), assembly and bit tricks, io_uring, the socket wrapper and
  timers of 22, the cpr client (the Internet), the memory-mapped file of 23.
  `httplib.h` is vendored and the gRPC files are generated: they are most of the
  lines of C++ outside the examples.
* **Memory orders.** The modules interleave sequentially consistent steps. The
  relaxed and acquire/release orders of `ex25` and 42 `09` concern one atomic
  location each, for which the coherence of a single location is what the
  interleaving gives; `07_acquire_release` publishes a plain variable through a
  flag, of which `RaceFree` says that no other thread is at it at the same time.
* **Data.** Items, tasks, messages and texts are indices or names; bytes are
  counted; balances are integers (the program's are doubles: rounding is not
  considered). A `write` is one item, and what a future or a table holds is a
  number. Formatting, logging and `println` are left out.
* **Clocks.** Sleeps and timeouts are steps that may come at any time
  (`wait_for` of `ProcessGuard` and `ex20`, the timer of `EpollEcho`), or order
  the start of a program: a client connects once the server listens (the 200 ms
  of `ex02_pool` and the sleeps of the other clients are taken as enough). The
  timeouts of `try_receive` and of the stopper of the Asio servers are not
  reached; that of `poll` and `select` ends their loop once the client has left.
  The limit of ten turns of the two, and the branch of `poll` for POLLERR and
  POLLHUP, are left out: the one client of these programs does not reach them. The child of `ex20_mq_raii` that sleeps a second
  before it opens the queue may find none, and exits with 134.
* **Errors** that end the program at once: failure of `socket`, `bind`,
  `listen`, `mmap`, `fork`, allocation. A failing `exec` is modelled (127), as
  are errors of `open`, `write` and `fsync` of a file where the code answers
  them; `rename` and the `fsync` of a directory are taken not to fail. gRPC
  deadlines and transport errors. `EINTR` where no handler is installed. A
  spurious failure of `try_lock`.
* **Atomic steps of the scripts.** A plain access, `++` included, is one step of
  `Machine`. `RaceFree`, checked and proved, justifies it: no two agents are ever about to touch the
  same plain variable, one of them to change it. The waits of the scripts have no
  spurious wakeups: each of them checks its predicate again, and wakeups repeated
  for ever would need a stronger fairness of the locks for `ProgramsEnd`
  (`BlockingQueue` and `WorkerPool` have them).
* **Everything the library promises**: sockets deliver in order, `std::lock`
  takes both or none, `condition_variable_any` misses no stop request. What the
  modules take from them is marked external in `PROJECT.json`.

## Plan

What is left, in the order of what it could find:

1. Timeouts that race an answer: `try_receive` of 23 `ex20`, `poll` and `select`
   of 22.3, the two-second `epoll_wait`, the stopper and the signal of
   `ex04_1_production`.
2. `ex34` with two writers (a lost update the class does not forbid), and the
   lock-free stack of 42 with two poppers, which its page warns of: uses that no
   `main()` makes.
3. The bitmap allocator of 42 and the observers of 44 as pure functions checked
   against a reference, should they get callers with state.
4. Proofs: `NothingLost` and `NoBrokenPipe` by a discipline read off the scripts as
   `RaceFree` and `SignalsCannotCutIn` are (who has the last reading end of a channel,
   and when it closes it), instead of one proof each.
