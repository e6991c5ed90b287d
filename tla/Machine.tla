------------------------------- MODULE Machine -------------------------------
(***************************************************************************)
(* The machine the small example programs run on: C++ threads, mutexes and *)
(* atomics, processes, descriptors, message queues and signals, one action *)
(* per kind of call.  The programs are the scripts of Catalogue; the       *)
(* initial state picks one.  A plain access is one step: RaceFree says     *)
(* that no program could tell.                                             *)
(***************************************************************************)
EXTENDS Integers, Sequences

CONSTANTS
  Catalogue,   \* program -> agent (a thread or a process) -> script
  Capacity     \* how many items a pipe or a socket buffer holds

ASSUME CapacityAssumption == Capacity \in Nat \ {0}

VARIABLES
  program,     \* the program that runs
  pc,          \* agent -> its next call; 0 before it starts
  proc,        \* agent -> the process it belongs to
  status,      \* process -> its exit status, or Alive, or Unborn
  mem,         \* the shared variables that are not 0
  held,        \* the mutexes held: <<mutex, agent, "x" or "s">>
  waiting,     \* who waits on a condition variable: <<variable, agent>>
  fd,          \* the open descriptors: <<process, slot, channel, "r" or "w">>
  buf,         \* channel or message queue -> what it holds
  opened,      \* the ends ever opened: <<channel, "r" or "w">>
  dir,         \* name -> file, as the processes see the directory
  data,        \* the files: what has been written to each, a sequence
  disk,        \* what of dir and data would outlive a loss of power
  mask,        \* agent -> the signals it blocks
  pending,     \* the signals sent to "main" and not delivered yet
  handler      \* signal -> "ignore", "exit" or the variable its handler sets

vars == <<program, pc, proc, status, mem, held, waiting, fd, buf, opened,
          dir, data, disk, mask, pending, handler>>
locks == <<held, waiting>>
store == <<dir, data, disk>>
files == <<fd, buf, opened, store>>
signals == <<pending, handler>>

Unborn == -2
Alive == -1

Script == Catalogue[program]
Agents == DOMAIN Script
Last(a) == Len(Script[a])
Running(a) == pc[a] \in 1 .. Last(a)
Ended(a) == pc[a] > Last(a)
Op(a) == Script[a][pc[a]]
At(a, calls) == Running(a) /\ Op(a).call \in calls
Value(f, x, default) == IF x \in DOMAIN f THEN f[x] ELSE default
With(f, x, v) == [y \in DOMAIN f \cup {x} |-> IF y = x THEN v ELSE f[y]]
Mem(x) == Value(mem, x, 0)
Buf(c) == Value(buf, c, <<>>)

\* The agents some call of the program starts.
Children == {op.x : op \in {o \in UNION {{Script[a][i] : i \in DOMAIN Script[a]} : a \in Agents} :
                              o.call \in {"spawn", "fork"}}}

Init ==
  /\ program \in DOMAIN Catalogue
  /\ pc = [a \in Agents |-> IF a \in Children THEN 0 ELSE 1]
  /\ proc = [a \in Agents |-> a]
  /\ status = [a \in Agents |-> IF a \in Children THEN Unborn ELSE Alive]
  /\ mem = <<>> /\ held = {} /\ waiting = {} /\ fd = {} /\ buf = <<>> /\ opened = {}
  /\ dir = <<>> /\ data = <<>> /\ disk = [dir |-> <<>>, data |-> <<>>]
  /\ mask = [a \in Agents |-> {}] /\ pending = {} /\ handler = <<>>

Advance(a, d) == pc' = [pc EXCEPT ![a] = @ + d]

\* Process p ends with code: its threads stop, its descriptors are closed.
Halt(p, code, next) ==
  /\ pc' = [b \in Agents |-> IF proc[b] = p /\ next[b] > 0 THEN Last(b) + 1 ELSE next[b]]
  /\ status' = [status EXCEPT ![p] = code]
  /\ fd' = {f \in fd : f[1] # p}
  /\ UNCHANGED <<proc, mem, locks, buf, opened, store, mask, handler>>
-----------------------------------------------------------------------------
(* Threads, mutexes and shared variables. *)

Jumps(a, op) ==
  /\ op.call \in {"goto", "read", "check", "look", "if", "test"}
  /\ Advance(a, IF op.call \in {"if", "test"} /\ Mem(op.x) < op.n THEN 1 ELSE op.k)
  /\ UNCHANGED <<proc, status, mem, locks, files, mask, signals>>

\* The new agent inherits the mask of signals, and a child process copies of
\* the descriptors.
Starts(a, op) ==
  /\ op.call \in {"spawn", "fork"}
  /\ LET b == op.x
         forks == op.call = "fork"
     IN /\ pc' = [pc EXCEPT ![a] = @ + 1, ![b] = 1]
        /\ mask' = [mask EXCEPT ![b] = mask[a]]
        /\ IF forks
           THEN /\ status' = [status EXCEPT ![b] = Alive]
                /\ fd' = fd \cup {<<b, f[2], f[3], f[4]>> : f \in {g \in fd : g[1] = proc[a]}}
                /\ UNCHANGED proc
           ELSE proc' = [proc EXCEPT ![b] = proc[a]] /\ UNCHANGED <<status, fd>>
  /\ UNCHANGED <<mem, locks, buf, opened, store, signals>>

Joins(a, op) ==
  /\ op.call = "join" /\ Ended(op.x)
  /\ Advance(a, 1)
  /\ UNCHANGED <<proc, status, mem, locks, files, mask, signals>>

Free(m, mode) == \A h \in held : h[1] = m => mode = "s" /\ h[3] = "s"

\* A wrong form: a shared_lock where the code has a lock_guard or a unique_lock.
SharesLock(a, op) ==
  /\ op.call = "lock" /\ Free(op.x, "s")
  /\ held' = held \cup {<<op.x, a, "s">>}
  /\ Advance(a, 1)
  /\ UNCHANGED <<proc, status, mem, waiting, files, mask, signals>>

Locks(a, op) ==
  /\ op.call = "lock" /\ Free(op.x, op.n)
  /\ held' = held \cup {<<op.x, a, op.n>>}
  /\ Advance(a, 1)
  /\ UNCHANGED <<proc, status, mem, waiting, files, mask, signals>>

Unlocks(a, op) ==
  /\ op.call = "unlock"
  /\ held' = {h \in held : <<h[1], h[2]>> # <<op.x, a>>}
  /\ Advance(a, 1)
  /\ UNCHANGED <<proc, status, mem, waiting, files, mask, signals>>

Stores(a, op) ==
  /\ op.call \in {"write", "put", "bump", "add", "acquire"}
  /\ op.call = "acquire" => Mem(op.x) < op.n
  /\ LET new == CASE op.call \in {"write", "put"} -> op.n
                  [] op.call \in {"bump", "add"} -> Mem(op.x) + op.n
                  [] OTHER -> Mem(op.x) + 1
     IN mem' = With(mem, op.x, new)
  /\ Advance(a, 1)
  /\ UNCHANGED <<proc, status, locks, files, mask, signals>>

Awaits(a, op) ==
  /\ op.call = "await" /\ Mem(op.x) >= op.n
  /\ Advance(a, 1)
  /\ UNCHANGED <<proc, status, mem, locks, files, mask, signals>>
\* wait() on the condition variable x lets go of the mutex n and waits at once.
WaitsOn(a, op) ==
  /\ op.call = "wait"
  /\ waiting' = waiting \cup {<<op.x, a>>}
  /\ held' = {h \in held : <<h[1], h[2]>> # <<op.n, a>>}
  /\ Advance(a, 1)
  /\ UNCHANGED <<proc, status, mem, files, mask, signals>>

\* It was notified, or its stop token is set, or its time is over.
Wakes(a, op) ==
  /\ op.call \in {"woken", "timed"}
  /\ <<op.x, a>> \notin waiting \/ Mem(op.n) > 0 \/ op.call = "timed"
  /\ waiting' = waiting \ {<<op.x, a>>}
  /\ Advance(a, 1)
  /\ UNCHANGED <<proc, status, mem, held, files, mask, signals>>

Notifies(a, op) ==
  /\ op.call \in {"notifyOne", "notifyAll"}
  /\ LET there == {w \in waiting : w[1] = op.x}
     IN \/ op.call = "notifyAll" /\ waiting' = waiting \ there
        \/ op.call = "notifyOne" /\ \E w \in there : waiting' = waiting \ {w}
        \/ there = {} /\ UNCHANGED waiting
  /\ Advance(a, 1)
  /\ UNCHANGED <<proc, status, mem, held, files, mask, signals>>
-----------------------------------------------------------------------------
(* Processes. *)

\* A new image keeps only what dup2() put on standard input and output.
Execs(a, op) ==
  /\ op.call = "exec"
  /\ \/ /\ Advance(a, 1)
        /\ fd' = {f \in fd : f[1] = proc[a] => f[2] = "std"}
        /\ UNCHANGED <<proc, status, mem, locks, buf, opened, store, mask, signals>>
     \/ Halt(proc[a], 127, pc) /\ UNCHANGED pending

Exits(a, op) ==
  /\ op.call = "exit"
  /\ Halt(proc[a], op.n, pc)
  /\ UNCHANGED pending

WaitsFor(a, op) ==
  /\ op.call = "waitpid" /\ status[op.x] >= 0
  /\ Advance(a, 1)
  /\ UNCHANGED <<proc, status, mem, locks, files, mask, signals>>

\* posix_spawnp() knows whether the program could be executed.
Spawned(a, op) ==
  /\ op.call = "spawned"
  /\ \/ Mem(op.n) > 0 /\ Advance(a, 1)
     \/ status[op.x] = 127 /\ Advance(a, op.k)
  /\ UNCHANGED <<proc, status, mem, locks, files, mask, signals>>

KillsChild(a, op) ==
  /\ op.call = "killChild" /\ status[op.x] = Alive
  /\ Halt(op.x, op.n, [pc EXCEPT ![a] = @ + 1])
  /\ UNCHANGED pending
-----------------------------------------------------------------------------
(* Descriptors. *)

Has(a, c, mode) == \E f \in fd : f[1] = proc[a] /\ f[3] = c /\ f[4] = mode
SomebodyHas(c, mode) == \E f \in fd : f[3] = c /\ f[4] = mode

Opens(a, op) ==
  /\ op.call \in {"pipe", "open"}
  /\ LET modes == IF op.call = "pipe" THEN {"r", "w"} ELSE {op.n}
     IN /\ fd' = fd \cup {<<proc[a], "own", op.x, mode>> : mode \in modes}
        /\ opened' = opened \cup {<<op.x, mode>> : mode \in modes}
  /\ Advance(a, 1)
  /\ UNCHANGED <<proc, status, mem, locks, buf, store, mask, signals>>

\* open() of a FIFO returns when the other end has been opened.
MeetsPeer(a, op) ==
  /\ op.call = "awaitPeer" /\ <<op.x, op.n>> \in opened
  /\ Advance(a, 1)
  /\ UNCHANGED <<proc, status, mem, locks, files, mask, signals>>

\* A server that listens gets its two ends with those of the client.
Connects(a, op) ==
  /\ op.call = "connect" /\ Mem("listening") > 0
  /\ LET up == op.n[1]
         down == op.n[2]
         server == op.x
     IN fd' = fd \cup {<<proc[a], "own", up, "w">>, <<server, "own", up, "r">>,
                       <<proc[a], "own", down, "r">>, <<server, "own", down, "w">>}
  /\ mem' = With(mem, "connected", Mem("connected") + 1)
  /\ Advance(a, 1)
  /\ UNCHANGED <<proc, status, locks, buf, opened, store, mask, signals>>

Redirects(a, op) ==
  /\ op.call = "dup2" /\ Has(a, op.x, op.n)
  /\ fd' = fd \cup {<<proc[a], "std", op.x, op.n>>}
  /\ Advance(a, 1)
  /\ UNCHANGED <<proc, status, mem, locks, buf, opened, store, mask, signals>>

Closes(a, op) ==
  /\ op.call = "close" /\ Has(a, op.x, op.n)
  /\ fd' = fd \ {<<proc[a], "own", op.x, op.n>>}
  /\ Advance(a, 1)
  /\ UNCHANGED <<proc, status, mem, locks, buf, opened, store, mask, signals>>

\* A reader that wants no more: what is on its way to it is dropped.
Cancels(a, op) ==
  /\ op.call = "cancel" /\ Has(a, op.x, "r")
  /\ fd' = fd \ {<<proc[a], "own", op.x, "r">>}
  /\ buf' = With(buf, op.x, <<>>)
  /\ Advance(a, 1)
  /\ UNCHANGED <<proc, status, mem, locks, opened, store, mask, signals>>

Fills(a, op) ==
  /\ op.call \in {"out", "send"} /\ Has(a, op.x, "w")
  /\ SomebodyHas(op.x, "r") /\ Len(Buf(op.x)) < Capacity
  /\ buf' = With(buf, op.x, Append(Buf(op.x), op.n))
  /\ Advance(a, 1)
  /\ UNCHANGED <<proc, status, mem, locks, fd, opened, store, mask, signals>>

\* Nobody reads any more: MSG_NOSIGNAL makes it an error, else it is SIGPIPE.
BreaksPipe(a, op) ==
  /\ op.call \in {"out", "send"} /\ Has(a, op.x, "w")
  /\ ~SomebodyHas(op.x, "r")
  /\ \/ /\ op.call = "send"
        /\ Advance(a, op.k)
        /\ UNCHANGED <<proc, status, mem, locks, files, mask, signals>>
     \/ /\ op.call = "out"
        /\ Halt(proc[a], 141, pc)
        /\ UNCHANGED pending

\* read() and recv(): an item, or the end when no writer is left.
Takes(a, op) ==
  /\ op.call \in {"recv", "drain"} /\ Has(a, op.x, "r") /\ Buf(op.x) # <<>>
  /\ buf' = With(buf, op.x, Tail(Buf(op.x)))
  /\ Advance(a, IF op.call = "drain" THEN 0 ELSE 1)
  /\ UNCHANGED <<proc, status, mem, locks, fd, opened, store, mask, signals>>

MeetsEnd(a, op) ==
  /\ op.call \in {"recv", "drain"} /\ Has(a, op.x, "r")
  /\ Buf(op.x) = <<>> /\ ~SomebodyHas(op.x, "w")
  /\ Advance(a, op.k)
  /\ UNCHANGED <<proc, status, mem, locks, files, mask, signals>>
-----------------------------------------------------------------------------
(* Message queues: the highest priority first, then the oldest. *)

OpensNamed(a, op) ==
  /\ op.call = "openNamed"
  /\ \/ /\ Mem(op.x) > 0
        /\ Advance(a, 1)
        /\ UNCHANGED <<proc, status, mem, locks, files, mask, signals>>
     \/ /\ Mem(op.x) = 0
        /\ Halt(proc[a], 134, pc)
        /\ UNCHANGED pending

Queues(a, op) ==
  /\ op.call = "mqSend" /\ Len(Buf(op.x)) < op.k
  /\ LET q == Buf(op.x)
         before(m) == m.prio >= op.n.prio
     IN buf' = With(buf, op.x, SelectSeq(q, before) \o <<op.n>>
                                 \o SelectSeq(q, LAMBDA m : ~before(m)))
  /\ Advance(a, 1)
  /\ UNCHANGED <<proc, status, mem, locks, fd, opened, store, mask, signals>>

Dequeues(a, op) ==
  /\ op.call \in {"mqReceive", "mqServe"} /\ Buf(op.x) # <<>>
  /\ buf' = With(buf, op.x, Tail(Buf(op.x)))
  /\ Advance(a, IF op.call = "mqServe" /\ Head(Buf(op.x)).what # op.n THEN 0 ELSE 1)
  /\ UNCHANGED <<proc, status, mem, locks, fd, opened, store, mask, signals>>
-----------------------------------------------------------------------------
(* Signals sent to the process "main". *)

\* A wrong form: SIG_BLOCK and SIG_UNBLOCK exchanged.
MasksTheRest(a, op) ==
  /\ op.call \in {"block", "unblock"}
  /\ mask' = [mask EXCEPT ![a] = IF op.call = "block" THEN @ \ op.n ELSE @ \cup op.n]
  /\ Advance(a, 1)
  /\ UNCHANGED <<proc, status, mem, locks, files, signals>>

Masks(a, op) ==
  /\ op.call \in {"block", "unblock"}
  /\ mask' = [mask EXCEPT ![a] = IF op.call = "block" THEN @ \cup op.n ELSE @ \ op.n]
  /\ Advance(a, 1)
  /\ UNCHANGED <<proc, status, mem, locks, files, signals>>

Handles(a, op) ==
  /\ op.call = "handle"
  /\ handler' = With(handler, op.x, op.n)
  /\ Advance(a, 1)
  /\ UNCHANGED <<proc, status, mem, locks, files, mask, pending>>

Kills(a, op) ==
  /\ op.call = "kill"
  /\ pending' = IF status["main"] = Alive THEN pending \cup {op.x} ELSE pending
  /\ Advance(a, 1)
  /\ UNCHANGED <<proc, status, mem, locks, files, mask, handler>>

\* raise() returns when the handler has run.
SeesHandled(a, op) ==
  /\ op.call = "handled" /\ op.x \notin pending
  /\ Advance(a, 1)
  /\ UNCHANGED <<proc, status, mem, locks, files, mask, signals>>

\* sigwait(), or read() on a signalfd.
TakesSignal(a, op) ==
  /\ op.call = "sigwait"
  /\ \E s \in pending \cap (op.n.stop \cup op.n.other) :
       /\ pending' = pending \ {s}
       /\ Advance(a, IF s \in op.n.stop THEN 1 ELSE 0)
  /\ UNCHANGED <<proc, status, mem, locks, files, mask, handler>>

\* Any thread of the process that does not block s may run its handler.
Deliver(s) ==
  /\ s \in pending
  /\ \E a \in Agents : Running(a) /\ proc[a] = "main" /\ s \notin mask[a]
  /\ pending' = pending \ {s} /\ UNCHANGED program
  /\ LET h == Value(handler, s, "default")
     IN \/ /\ h \in {"default", "exit"}
           /\ Halt("main", IF h = "exit" THEN 0 ELSE 143, pc)
        \/ /\ h \notin {"default", "exit"}
           /\ mem' = IF h = "ignore" THEN mem ELSE With(mem, h, 1)
           /\ UNCHANGED <<pc, proc, status, locks, files, mask, handler>>
-----------------------------------------------------------------------------
(* Files.  What a process writes goes to the page cache; fsync() of a file and of
   its directory put it on the disk.  A call with k = 1 is taken not to fail. *)

Absent == <<"absent">>
Content(f) == IF f \in DOMAIN dir THEN data[dir[f]] ELSE Absent
OnStore(a) == Advance(a, 1) /\ UNCHANGED <<proc, status, mem, locks, fd, buf, opened, mask, signals>>

\* open() for writing empties the file or makes one; O_EXCL only makes one.
Creates(a, op) ==
  /\ op.call \in {"create", "createNew"}
  /\ \/ /\ op.x \in DOMAIN dir /\ op.call = "create"
        /\ data' = [data EXCEPT ![dir[op.x]] = <<>>]
        /\ UNCHANGED <<dir, disk>>
     \/ /\ op.x \notin DOMAIN dir
        /\ data' = Append(data, <<>>)
        /\ dir' = With(dir, op.x, Len(data'))
        /\ disk' = [disk EXCEPT !.data = Append(@, <<>>)]
  /\ OnStore(a)

\* write() of a part, fsync() of the file, of the directory, rename(), remove().
Saves(a, op) ==
  /\ \/ /\ op.call = "writeTo"
        /\ data' = [data EXCEPT ![dir[op.x]] = Append(@, op.n)]
        /\ UNCHANGED <<dir, disk>>
     \/ /\ op.call = "fsync"
        /\ disk' = [disk EXCEPT !.data[dir[op.x]] = data[dir[op.x]]]
        /\ UNCHANGED <<dir, data>>
     \/ /\ op.call = "fsyncDir"
        /\ disk' = [disk EXCEPT !.dir = dir]
        /\ UNCHANGED <<dir, data>>
     \/ /\ op.call \in {"rename", "unlink"}
        /\ dir' = [f \in (DOMAIN dir \cup (IF op.call = "rename" THEN {op.n} ELSE {})) \ {op.x} |->
                      IF op.call = "rename" /\ f = op.n THEN dir[op.x] ELSE dir[f]]
        /\ UNCHANGED <<data, disk>>
  /\ OnStore(a)

\* A disk that is full, an error of the device, or O_EXCL on a file that exists.
FailsToSave(a, op) ==
  /\ op.call \in {"create", "createNew", "writeTo", "fsync"}
  /\ op.k > 1 \/ (op.call = "createNew" /\ op.x \in DOMAIN dir)
  /\ Advance(a, op.k)
  /\ UNCHANGED <<proc, status, mem, locks, files, mask, signals>>

\* The power fails.  The kernel may have written some of its cache by itself: of
\* each file the disk has what was forced on it or a beginning of what is newer.
LosesPower(a, op) ==
  /\ op.call = "losePower"
  /\ LET first(i, n) == SubSeq(data[i], 1, n)
         safe(i) == Len(disk.data[i]) <= Len(data[i]) /\ first(i, Len(disk.data[i])) = disk.data[i]
         left(i) == {disk.data[i]} \cup {first(i, n) : n \in (IF safe(i) THEN Len(disk.data[i]) ELSE 0)
                                                           .. Len(data[i])}
     IN data' \in {f \in [DOMAIN data -> UNION {left(i) : i \in DOMAIN data}] :
                    \A i \in DOMAIN data : f[i] \in left(i)}
  /\ dir' \in {dir, disk.dir}
  /\ disk' = [dir |-> dir', data |-> data']
  /\ OnStore(a)
-----------------------------------------------------------------------------
Step(a) ==
  /\ a \in Agents /\ Running(a) /\ UNCHANGED program
  /\ LET op == Op(a)
     IN \/ Jumps(a, op) \/ Starts(a, op) \/ Joins(a, op) \/ Locks(a, op) \/ Unlocks(a, op)
        \/ Stores(a, op) \/ Awaits(a, op)
        \/ WaitsOn(a, op) \/ Wakes(a, op) \/ Notifies(a, op)
        \/ Execs(a, op) \/ Exits(a, op) \/ WaitsFor(a, op) \/ Spawned(a, op)
        \/ KillsChild(a, op)
        \/ Opens(a, op) \/ MeetsPeer(a, op) \/ Connects(a, op) \/ Redirects(a, op)
        \/ Closes(a, op) \/ Cancels(a, op) \/ Fills(a, op) \/ BreaksPipe(a, op)
        \/ Takes(a, op) \/ MeetsEnd(a, op)
        \/ OpensNamed(a, op) \/ Queues(a, op) \/ Dequeues(a, op)
        \/ Masks(a, op) \/ Handles(a, op) \/ Kills(a, op) \/ SeesHandled(a, op)
        \/ TakesSignal(a, op)
        \/ Creates(a, op) \/ Saves(a, op) \/ FailsToSave(a, op) \/ LosesPower(a, op)

Signals == {"TERM", "INT", "HUP", "USR1"}
Finished == \A a \in Agents : ~Running(a)

Next ==
  \/ \E a \in Agents : Step(a)
  \/ \E s \in Signals : Deliver(s)
  \/ Finished /\ UNCHANGED vars

\* Every thread and process goes on running, and the kernel delivers signals.
Fairness == /\ \A a \in UNION {DOMAIN Catalogue[p] : p \in DOMAIN Catalogue} :
                 WF_vars(Step(a))
            /\ \A s \in Signals : WF_vars(Deliver(s))

Spec == Init /\ [][Next]_vars /\ Fairness
-----------------------------------------------------------------------------
\* What an agent is about to do to a variable that is not atomic.
Touches(a) == IF At(a, {"read", "check", "if"}) THEN {<<Op(a).x, "r">>}
              ELSE IF At(a, {"write", "bump"}) THEN {<<Op(a).x, "w">>}
              ELSE {}

\* No two threads or processes are ever about to touch the same plain variable,
\* one of them to change it.
RaceFree == \A a, b \in Agents : \A s \in Touches(a), t \in Touches(b) :
              a # b /\ s[1] = t[1] => {s[2], t[2]} = {"r"}

\* The value printed, the content of a file, the exit status collected and the message
\* received are the ones the comments and the output of the program announce.
StatedResults ==
  \A a \in Agents :
    /\ At(a, {"check"}) => Mem(Op(a).x) = Op(a).n
    /\ At(a, {"look"}) => Content(Op(a).x) \in Op(a).n
    /\ At(a, {"waitpid"}) /\ status[Op(a).x] >= 0 => status[Op(a).x] \in Op(a).n
    /\ At(a, {"recv"}) /\ Buf(Op(a).x) # <<>> => Head(Buf(Op(a).x)) = Op(a).n
    /\ At(a, {"mqReceive"}) /\ Buf(Op(a).x) # <<>> => Head(Buf(Op(a).x)).what = Op(a).n

\* Once a program is over nothing that was written is left unread, in a pipe, a
\* socket or a queue, unless one of its processes was ended from outside.
Killed == \E p \in Agents : status[p] >= 126
NothingLost == Finished /\ ~Killed => \A c \in DOMAIN buf : buf[c] = <<>>

\* No signal ends a program within the part it protects.
SignalsCannotCutIn ==
  [][\A p \in Agents : status[p] = Alive /\ status'[p] = 143 => Mem("protected") = 0]_vars

\* No process is ended by SIGPIPE unless the program it writes to could not be executed.
NoBrokenPipe ==
  [][\A p \in Agents : status[p] = Alive /\ status'[p] = 141
                        => \E q \in Agents : status[q] = 127]_vars

\* Every program ends.
ProgramsEnd == <>[]Finished
=============================================================================
