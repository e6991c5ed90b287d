-------------------------------- MODULE Calls --------------------------------
(***************************************************************************)
(* The calls of the C++ thread library and of the operating system that    *)
(* the small example programs are made of.  A script is a sequence of      *)
(* calls; a program is a function from its threads and processes to their  *)
(* scripts.  What each call does is in Machine.                            *)
(*                                                                         *)
(* x is the object of a call, n its argument, and k the distance to the    *)
(* call that follows it on its failure path.                               *)
(***************************************************************************)
EXTENDS Integers, Sequences

LOCAL Call(call, x, n, k) == [call |-> call, x |-> x, n |-> n, k |-> k]

\* A loop whose passes do the same thing.
Rep(n, body) == [i \in 1 .. n * Len(body) |-> body[1 + ((i - 1) % Len(body))]]
Goto(k) == Call("goto", "", 0, k)

\* Threads and what they share.  A plain access may race, an atomic one may not.
Spawn(t) == Call("spawn", t, 0, 1)
Join(t) == Call("join", t, 0, 1)
Lock(m) == Call("lock", m, "x", 1)
LockShared(m) == Call("lock", m, "s", 1)
Unlock(m) == Call("unlock", m, 0, 1)
Read(x) == Call("read", x, 0, 1)
Write(x, v) == Call("write", x, v, 1)
Bump(x) == Call("bump", x, 1, 1)
Drop(x) == Call("bump", x, -1, 1)
Check(x, v) == Call("check", x, v, 1)        \* the text says that x is v here
Put(x, v) == Call("put", x, v, 1)            \* atomic from here on
Add(x, d) == Call("add", x, d, 1)
Acquire(x, max) == Call("acquire", x, max, 1)
Sure(x, v) == <<Call("test", x, v, 2), Call("forever", "", 0, 1)>>
Await(x, v) == Call("await", x, v, 1)        \* until x has reached v
If(x, v, k) == Call("if", x, v, k)           \* k when x has reached v
Test(x, v, k) == Call("test", x, v, k)       \* the same of an atomic variable
Guarded(m, body) == <<Lock(m)>> \o body \o <<Unlock(m)>>

\* wait() on a condition variable lets go of the mutex and comes back with it;
\* a stop token that is set ends it too, and a timed wait may end by itself.
Wait(cv, m) == <<Call("wait", cv, m, 1), Call("woken", cv, "", 1), Lock(m)>>
WaitOrStop(cv, m, token) == <<Call("wait", cv, m, 1), Call("woken", cv, token, 1), Lock(m)>>
WaitFor(cv, m) == <<Call("wait", cv, m, 1), Call("timed", cv, "", 1), Lock(m)>>
NotifyOne(cv) == Call("notifyOne", cv, 0, 1)
NotifyAll(cv) == Call("notifyAll", cv, 0, 1)

\* Processes.
Fork(p) == Call("fork", p, 0, 1)
Exec == Call("exec", "", 0, 1)
Exit(code) == Call("exit", "", code, 1)
WaitPid(p, codes) == Call("waitpid", p, codes, 1)
KillChild(p) == Call("killChild", p, 137, 1)
Forever == Call("forever", "", 0, 1)
PosixSpawn(p, k) == <<Fork(p), Call("spawned", p, "execed", k)>>  \* k on an error
ExecSpawned == <<Exec, Put("execed", 1)>>

\* Descriptors of a pipe, a FIFO or one direction of a socket.
Pipe(c) == Call("pipe", c, 0, 1)
Fifo(c, mode, peer) == <<Call("open", c, mode, 1), Call("awaitPeer", c, peer, 1)>>
Connect(server, up, down) == Call("connect", server, <<up, down>>, 1)
Dup2(c, mode) == Call("dup2", c, mode, 1)
Close(c, mode) == Call("close", c, mode, 1)
Out(c, what) == Call("out", c, what, 1)      \* write(): SIGPIPE if nobody reads
Send(c, what, k) == Call("send", c, what, k) \* MSG_NOSIGNAL: an error instead
Drain(c) == Call("drain", c, 0, 1)           \* read until the end
Recv(c, what, k) == Call("recv", c, what, k) \* read one item; k at the end
Cancel(c) == Call("cancel", c, 0, 1)         \* close, what is left unread dropped

\* POSIX shared memory and message queues.
OpenNamed(q) == Call("openNamed", q, 0, 1)   \* throws when there is none
MqSend(q, what, prio) == Call("mqSend", q, [what |-> what, prio |-> prio], 10)
MqReceive(q, what) == Call("mqReceive", q, what, 1)
MqServe(q, stop) == Call("mqServe", q, stop, 1)

\* Files.  A part of a file is a version of its text; k is for a full disk or an error.
Create(f, k) == Call("create", f, 0, k)
CreateNew(f, k) == Call("createNew", f, 0, k) \* O_EXCL
WriteTo(f, part, k) == Call("writeTo", f, part, k)
Fsync(f, k) == Call("fsync", f, 0, k)
FsyncDir == Call("fsyncDir", "", 0, 1)
Rename(f, g) == Call("rename", f, g, 1)
Unlink(f) == Call("unlink", f, 0, 1)
Look(f, contents) == Call("look", f, contents, 1)  \* the text says that f is one of them
LosePower == Call("losePower", "", 0, 1)

\* Signals.  Protected(1) opens the part of a program that no signal may end.
Block(S) == Call("block", "", S, 1)
Unblock(S) == Call("unblock", "", S, 1)
Handle(s, h) == Call("handle", s, h, 1)
Kill(s) == Call("kill", s, 0, 1)
Handled(s) == Call("handled", s, 0, 1)
SigWait(stop, other) == Call("sigwait", "", [stop |-> stop, other |-> other], 1)
Protected(v) == Call("put", "protected", v, 1)
=============================================================================
