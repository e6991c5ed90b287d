---------------------------- MODULE SignalPrograms ----------------------------
(***************************************************************************)
(* The programs of chapter 20 as scripts.  Each sends itself SIGTERM from  *)
(* a detached thread, "sender", as its demonstration; "user" is somebody   *)
(* outside who may press Ctrl-C or hang up at any time.  Protected marks   *)
(* the part of a program that its text says no signal interrupts.          *)
(***************************************************************************)
EXTENDS Calls

LOCAL TermInt == {"TERM", "INT"}
LOCAL Sender == <<Kill("TERM")>>
LOCAL User == <<Kill("INT"), Kill("HUP")>>
LOCAL Interrupts == <<Kill("TERM"), Kill("INT")>>

\* sigprocmask() around the critical section, the mask restored at its end.
CriticalUpdate == <<Block(TermInt), Protected(1), Protected(0), Unblock(TermInt)>>
CriticalSection == [main |-> CriticalUpdate \o <<Exit(0)>>, user |-> Interrupts]

\* The same as a scope: ~ScopedSignalBlock() restores the mask.
ScopedBlock == [main |-> CriticalUpdate \o <<Exit(0)>>, user |-> Interrupts]

\* SIGINT ignored within a scope, its old disposition restored after it.
ScopedHandler ==
  [main |-> <<Handle("INT", "ignore"), Protected(1), Protected(0), Handle("INT", "default"), Exit(0)>>,
   user |-> <<Kill("INT"), Kill("INT")>>]

\* raise() of a signal whose handler leaves by _exit(0), or only writes.
TermHandler == [main |-> <<Handle("TERM", "exit"), Protected(1), Kill("TERM"), Handled("TERM"), Exit(1)>>]
SaSiginfo == [main |-> <<Handle("USR1", "seen"), Kill("USR1"), Handled("USR1"), Await("seen", 1), Exit(0)>>]

\* From the installation of both handlers on, a signal only sets the flag, and the
\* loop ends at its next look; then the clean-up runs to its end.
LOCAL Installs(flag) == <<Handle("TERM", flag), Handle("INT", flag), Protected(1)>>
LOCAL FlagLoop(flag) ==
  [main |-> Installs(flag) \o <<Spawn("sender"), Await(flag, 1), Add("cleaned", 1), Exit(0)>>,
   sender |-> Sender, user |-> Interrupts]
AtomicFlag == FlagLoop("g_shutdown_requested")
GracefulShutdown == FlagLoop("g_shutdown")

\* The handler writes a byte to the pipe that the loop polls.
SelfPipe == FlagLoop("g_signal_pipe")

\* Both signals blocked, then read from a signalfd; the sender inherits the mask.
SignalFd ==
  [main |-> <<Block(TermInt), Protected(1), Spawn("sender"), SigWait(TermInt, {}), Exit(0)>>,
   sender |-> Sender, user |-> Interrupts]

\* A thread of its own waits for the signals, blocked before any thread starts; it
\* stops the workers, who see the flag at their next pass.
SignalThread(stop, other, flag) == <<SigWait(stop, other), Put(flag, 1)>>

SigwaitThread ==
  [main |-> <<Block({"TERM", "INT", "HUP", "USR1"}), Protected(1), Spawn("a"), Spawn("b"),
              Spawn("sender"), Join("a"), Join("b"), Exit(0)>>,
   a |-> SignalThread(TermInt, {"HUP", "USR1"}, "stop"), b |-> <<Await("stop", 1)>>,
   sender |-> Sender, user |-> User]

JthreadStop ==
  [main |-> <<Block(TermInt), Protected(1), Spawn("a"), Spawn("b"), Spawn("c"), Spawn("sender"),
              Join("a"), Join("b"), Join("c"), Exit(0)>>,
   a |-> SignalThread(TermInt, {}, "stop"), b |-> <<Await("stop", 1)>>, c |-> <<Await("stop", 1)>>,
   sender |-> Sender, user |-> Interrupts]

\* An event loop in the main thread reads the signalfd; SIGHUP only reloads.
SignalFdEpoll ==
  [main |-> <<Block({"TERM", "INT", "HUP"}), Protected(1), Spawn("a"), Spawn("b"), Spawn("sender")>>
            \o SignalThread(TermInt, {"HUP"}, "stop") \o <<Join("a"), Join("b"), Exit(0)>>,
   a |-> <<Await("stop", 1)>>, b |-> <<Await("stop", 1)>>, sender |-> Sender, user |-> User]

SignalHandling ==
  [sigprocmask |-> CriticalSection, scopedBlock |-> ScopedBlock, scopedHandler |-> ScopedHandler,
   sigaction |-> TermHandler, siginfo |-> SaSiginfo, flag |-> AtomicFlag,
   graceful |-> GracefulShutdown, selfPipe |-> SelfPipe, signalfd |-> SignalFd,
   sigwait |-> SigwaitThread, jthreadStop |-> JthreadStop, signalfdEpoll |-> SignalFdEpoll]
=============================================================================
