---------------------------- MODULE ProcessGuard ----------------------------
(***************************************************************************)
(* The RAII class Process of 23-processus-ipc/exemples/ex05_process_raii   *)
(* .cpp in the hands of a program that calls it in any legal order, with   *)
(* the kernel's side of its children: a child runs, is a zombie once it    *)
(* has ended, and is gone once waitpid() has collected it, after which its *)
(* pid may be another process.                                             *)
(***************************************************************************)
EXTENDS ProcessObjects

vars == <<child, signalled, alive, pid_, waited_, called, this, other>>
call == <<called, this, other>>

Init == /\ child = [c \in Children |-> "unborn"]
        /\ signalled = {}
        /\ alive = {}
        /\ pid_ = [o \in Objects |-> None]
        /\ waited_ = [o \in Objects |-> FALSE]
        /\ called = "idle" /\ this = None /\ other = None

Enter(call_, o) == called = "idle" /\ o \in alive /\ called' = call_ /\ this' = o
Return == called' = "idle" /\ this' = None /\ other' = None

\* A call the object answers at once.
Now(o) == called = "idle" /\ o \in alive /\ UNCHANGED call

\* waitpid() collects the ended child of o.
Collect(o) == /\ child[pid_[o]] = "zombie"
              /\ child' = [child EXCEPT ![pid_[o]] = "gone"]
              /\ waited_' = [waited_ EXCEPT ![o] = TRUE]

-----------------------------------------------------------------------------
(* Plausible bugs: wrong forms of the definitions below. *)

\* A move that copies pid_ and waited_.
TakeCopies(o, p) == /\ pid_' = [pid_ EXCEPT ![o] = pid_[p]]
                    /\ waited_' = [waited_ EXCEPT ![o] = waited_[p]]

\* send_signal() that does not look at waited_.
SignalAnyway(o) == /\ Now(o)
                   /\ pid_[o] # None
                   /\ signalled' = signalled \cup {pid_[o]}
                   /\ UNCHANGED <<child, alive, pid_, waited_>>

\* try_wait() that blocks on a child it has not asked to end.
KillForgotten == /\ called = "kill" /\ called' = "reap"
                 /\ UNCHANGED <<this, other, child, signalled, alive, pid_, waited_>>

\* The error of posix_spawnp() ignored: pid_ is whatever it left there.
SpawnUnchecked(o, c) == /\ called = "idle" /\ o \notin alive /\ child[c] = "unborn"
                        /\ alive' = alive \cup {o}
                        /\ pid_' = [pid_ EXCEPT ![o] = "garbage"]
                        /\ waited_' = [waited_ EXCEPT ![o] = FALSE]
                        /\ UNCHANGED <<child, signalled, call>>
-----------------------------------------------------------------------------
\* What a move leaves in the source and puts in the target.
Take(o, p) == /\ pid_' = [pid_ EXCEPT ![o] = pid_[p], ![p] = None]
              /\ waited_' = [waited_ EXCEPT ![o] = waited_[p], ![p] = TRUE]

\* Process(program, args)
Spawn(o, c) == /\ called = "idle" /\ o \notin alive /\ child[c] = "unborn"
               /\ child' = [child EXCEPT ![c] = "running"]
               /\ alive' = alive \cup {o}
               /\ pid_' = [pid_ EXCEPT ![o] = c]
               /\ waited_' = [waited_ EXCEPT ![o] = FALSE]
               /\ UNCHANGED <<signalled, call>>

\* Process(Process&&)
MoveConstruct(o, p) == /\ Now(p) /\ o \notin alive
                       /\ alive' = alive \cup {o}
                       /\ Take(o, p)
                       /\ UNCHANGED <<child, signalled>>

\* wait() throws if there is nothing to wait for, and else blocks.
Wait(o) == /\ Enter("wait", o) /\ ~waited_[o]
           /\ UNCHANGED <<other, child, signalled, alive, pid_, waited_>>

WaitReturns == /\ called = "wait" /\ Collect(this)
               /\ Return
               /\ UNCHANGED <<signalled, alive, pid_>>

\* try_get_result() changes something only if the child has ended.
TryGetResult(o) == /\ Now(o) /\ ~waited_[o]
                   /\ Collect(o)
                   /\ UNCHANGED <<signalled, alive, pid_>>

\* wait_for() polls with try_get_result() until it has a result or times out,
\* which it does even if the child ended after the last poll.
WaitFor(o) == /\ Enter("wait_for", o)
              /\ UNCHANGED <<other, child, signalled, alive, pid_, waited_>>

Poll == /\ called = "wait_for" /\ ~waited_[this]
        /\ Collect(this)
        /\ Return
        /\ UNCHANGED <<signalled, alive, pid_>>

Timeout == /\ called = "wait_for"
           /\ Return
           /\ UNCHANGED <<child, signalled, alive, pid_, waited_>>

\* terminate() and force_kill()
SendSignal(o) == /\ Now(o)
                 /\ ~waited_[o] /\ pid_[o] # None
                 /\ signalled' = signalled \cup {pid_[o]}
                 /\ UNCHANGED <<child, alive, pid_, waited_>>

\* operator=(Process&&) from another object, and the destructor: try_wait() ...
Assign(o, p) == /\ o # p /\ p \in alive
                /\ Enter("try_wait", o)
                /\ other' = p
                /\ UNCHANGED <<child, signalled, alive, pid_, waited_>>

Destroy(o) == /\ Enter("try_wait", o)
              /\ UNCHANGED <<other, child, signalled, alive, pid_, waited_>>

NothingToWait == /\ called = "try_wait" /\ called' = "rest"
                 /\ waited_[this] \/ pid_[this] = None
                 /\ UNCHANGED <<this, other, child, signalled, alive, pid_, waited_>>

AlreadyEnded == /\ called = "try_wait" /\ called' = "rest"
                /\ ~waited_[this] /\ pid_[this] # None
                /\ Collect(this)
                /\ UNCHANGED <<this, other, signalled, alive, pid_>>

StillRunning == /\ called = "try_wait" /\ called' = "kill"
                /\ ~waited_[this] /\ pid_[this] # None
                /\ child[pid_[this]] = "running"
                /\ UNCHANGED <<this, other, child, signalled, alive, pid_, waited_>>

Kill == /\ called = "kill" /\ called' = "reap"
        /\ signalled' = signalled \cup {pid_[this]}
        /\ UNCHANGED <<this, other, child, alive, pid_, waited_>>

Reap == /\ called = "reap" /\ called' = "rest"
        /\ Collect(this)
        /\ UNCHANGED <<this, other, signalled, alive, pid_>>

\* ... and then the rest of the call.
AssignReturns == /\ called = "rest" /\ other # None
                 /\ Take(this, other)
                 /\ Return
                 /\ UNCHANGED <<child, signalled, alive>>

DestroyReturns == /\ called = "rest" /\ other = None
                  /\ alive' = alive \ {this}
                  /\ Return
                  /\ UNCHANGED <<child, signalled, pid_, waited_>>

\* A child ends of itself or because of a signal.
Exits(c) == /\ child[c] = "running"
            /\ child' = [child EXCEPT ![c] = "zombie"]
            /\ UNCHANGED <<signalled, alive, pid_, waited_, call>>

TryWait == NothingToWait \/ AlreadyEnded \/ StillRunning \/ Kill \/ Reap
InCall == WaitReturns \/ Poll \/ Timeout \/ TryWait \/ AssignReturns \/ DestroyReturns

Next == \/ \E o \in Objects : \/ \E c \in Children : Spawn(o, c)
                              \/ \E p \in Objects : MoveConstruct(o, p) \/ Assign(o, p)
                              \/ Wait(o) \/ TryGetResult(o) \/ WaitFor(o)
                              \/ SendSignal(o) \/ Destroy(o)
        \/ InCall
        \/ \E c \in Children : Exits(c)

\* A call that can go on does; a child need not end unless it is signalled.
Spec == /\ Init /\ [][Next]_vars
        /\ WF_vars(InCall)
        /\ \A c \in Children : WF_vars(c \in signalled /\ Exits(c))
-----------------------------------------------------------------------------
\* The destructor and the assignment come back, as they have asked the child
\* to end before they block on it (l.154-164).
TryWaitReturns == called = "try_wait" ~> called = "idle"
=============================================================================
