---------------------------- MODULE ProcessPrograms ----------------------------
(***************************************************************************)
(* The programs of chapter 23 as scripts, but for the two that have        *)
(* modules of their own (ProcessGuard and RobustMutex).  A child that      *)
(* cannot be executed exits with 127.  The programs executed (ls, echo,    *)
(* cat, grep, wc) are external: they copy or read lines and exit with 0.   *)
(***************************************************************************)
EXTENDS Calls

\* A parent and its child.
LOCAL Family(parent, child) == [main |-> parent, a |-> child]

ForkBasic == Family(<<Fork("a"), WaitPid("a", {0})>>, <<Exit(0)>>)

LOCAL Ls == <<Exec, Exit(0)>>
ForkExec ==
  [main |-> <<Fork("a"), WaitPid("a", {0, 127}), Fork("b"), WaitPid("b", {0, 127})>>,
   a |-> Ls, b |-> Ls]

\* One child ends by itself, one is killed, and one is polled while it may still run.
WaitpidStatus ==
  [main |-> <<Fork("a"), WaitPid("a", {0, 127}), Fork("b"), KillChild("b"), WaitPid("b", {137}),
              Fork("c")>>,
   a |-> Ls, b |-> <<Forever>>, c |-> <<Exit(42)>>]

\* wait() and the decoding of the status.
ChildStatus == Family(<<Fork("a"), WaitPid("a", {42})>>, <<Exit(42)>>)

RunCommand == Family(PosixSpawn("a", 2) \o <<WaitPid("a", {0})>>, ExecSpawned \o <<Exit(0)>>)

\* The parent closes its writing end before it reads to the end; an error of
\* posix_spawnp() is thrown with both ends closed.
RunAndCapture ==
  Family(<<Pipe("out")>> \o PosixSpawn("a", 6)
           \o <<Close("out", "w"), Drain("out"), Close("out", "r"), WaitPid("a", {0}), Exit(0)>>
           \o <<Close("out", "w"), Close("out", "r"), Exit(134)>>,
         <<Dup2("out", "w"), Close("out", "r"), Close("out", "w")>> \o ExecSpawned
           \o Rep(3, <<Out("out", "line")>>) \o <<Exit(0)>>)

PipeBasic ==
  [main |-> <<Pipe("p"), Out("p", "hello"), Recv("p", "hello", 1), Close("p", "r"), Close("p", "w")>>]

PipeParentChild ==
  Family(<<Pipe("p"), Fork("a"), Close("p", "r"), Out("p", "message"), Close("p", "w"),
           WaitPid("a", {0})>>,
         <<Close("p", "w"), Recv("p", "message", 1), Close("p", "r"), Exit(0)>>)

\* A wrong form: the child reads once, and leaves what the parent has yet to write.
PipeRaiiReadsOnce ==
  Family(<<Pipe("p"), Fork("a"), Close("p", "r")>> \o Rep(3, <<Out("p", "data")>>)
           \o <<Close("p", "w"), WaitPid("a", {0})>>,
         <<Close("p", "w"), Recv("p", "data", 1), Exit(0)>>)

\* The reader sees the end only when every writing end is closed, its own included.
PipeRaii ==
  Family(<<Pipe("p"), Fork("a"), Close("p", "r")>> \o Rep(3, <<Out("p", "data")>>)
           \o <<Close("p", "w"), WaitPid("a", {0})>>,
         <<Close("p", "w"), Drain("p"), Exit(0)>>)

CaptureStdout ==
  Family(<<Pipe("out"), Fork("a"), Close("out", "w"), Drain("out"), WaitPid("a", {0, 127})>>,
         <<Close("out", "r"), Dup2("out", "w"), Close("out", "w"), Exec>>
           \o Rep(3, <<Out("out", "line")>>) \o <<Exit(0)>>)

FeedStdin ==
  Family(<<Pipe("in"), Fork("a"), Close("in", "r")>> \o Rep(3, <<Out("in", "ligne")>>)
           \o <<Close("in", "w"), WaitPid("a", {0, 127})>>,
         <<Close("in", "w"), Dup2("in", "r"), Close("in", "r"), Exec, Drain("in"), Exit(0)>>)

\* cat | grep | wc: each child redirects its own ends, exec() closes the others it
\* inherited, and the parent closes all four before it waits.
ExecInPipeline(input, output, body) ==
  (IF input = "" THEN <<>> ELSE <<Close(input, "w"), Dup2(input, "r"), Close(input, "r")>>)
  \o (IF output = "" THEN <<>> ELSE <<Close(output, "r"), Dup2(output, "w"), Close(output, "w")>>)
  \o <<Exec>> \o body \o <<Exit(0)>>

\* A wrong form: the parent keeps a writing end, and the last child sees no end.
PipelineParentKeepsOne == <<Close("pipe1", "r"), Close("pipe2", "r"), Close("pipe2", "w")>>
PipelineParentCloses ==
  <<Close("pipe1", "r"), Close("pipe1", "w"), Close("pipe2", "r"), Close("pipe2", "w")>>

Pipeline ==
  LET ends == {0, 127, 141}
  IN [main |-> <<Pipe("pipe1"), Pipe("pipe2"), Fork("a"), Fork("b"), Fork("c")>>
               \o PipelineParentCloses
               \o <<WaitPid("a", ends), WaitPid("b", ends), WaitPid("c", ends)>>,
      a |-> ExecInPipeline("", "pipe1", Rep(3, <<Out("pipe1", "line")>>)),
      b |-> ExecInPipeline("pipe1", "pipe2", <<Recv("pipe1", "line", 3), Out("pipe2", "line"), Goto(-2)>>),
      c |-> ExecInPipeline("pipe2", "", <<Drain("pipe2")>>)]

\* open() of each end of the FIFO waits for the other.
FifoMessages ==
  Family(<<Fork("a")>> \o Fifo("fifo", "w", "r") \o Rep(3, <<Out("fifo", "message")>>)
           \o <<Close("fifo", "w"), WaitPid("a", {0})>>,
         Fifo("fifo", "r", "w") \o <<Drain("fifo"), Close("fifo", "r"), Exit(0)>>)

\* The child's write is read once the child has been waited for.
MmapAnonymous ==
  Family(<<Write("shared", 0), Fork("a"), WaitPid("a", {0}), Check("shared", 1)>>,
         <<Write("shared", 1), Exit(0)>>)

\* ready is stored after the data and loaded before them.
ShmPosix ==
  Family(<<Put("ready", 0), Fork("a"), Write("counter", 42), Write("message", 1), Put("ready", 1),
           Read("counter"), Read("message"), WaitPid("a", {0})>>,
         <<Await("ready", 1), Check("counter", 42), Check("message", 1), Exit(0)>>)

\* Only the process that created the segment unlinks it, after its reader has ended:
\* the child inherits the owner but leaves by _exit(), which runs no destructor.
SharedMemoryOwner ==
  Family(<<Put("segment", 1), Put("requests", 0), Fork("a")>> \o Rep(2, <<Add("requests", 1)>>)
           \o <<WaitPid("a", {0}), Put("segment", 0)>>,
         <<OpenNamed("segment"), Exit(0)>>)

\* Messages leave by decreasing priority.
MqPriorities ==
  [main |-> <<MqSend("mq", "hello", 0), MqReceive("mq", "hello"),
              MqSend("mq", "urgence", 10), MqSend("mq", "normale", 1), MqSend("mq", "alerte", 5),
              MqSend("mq", "routine", 0), MqReceive("mq", "urgence"), MqReceive("mq", "alerte"),
              MqReceive("mq", "normale"), MqReceive("mq", "routine")>>]

\* Five tasks, then __STOP__ at the lowest priority: the consumer stops last.  It
\* may look for the queue before it exists.
MqProducerHurries ==                                         \* a wrong form
  Rep(5, <<MqSend("q", "task", 5)>>) \o <<MqSend("q", "__STOP__", 9)>>

MqProducer ==
  <<MqSend("q", "task", 5), MqSend("q", "task", 1), MqSend("q", "task", 1), MqSend("q", "task", 5),
    MqSend("q", "task", 1), MqSend("q", "__STOP__", 0)>>

MessageQueueTasks ==
  Family(<<Fork("a"), Put("q", 1)>> \o MqProducer \o <<WaitPid("a", {0, 134}), Put("q", 0)>>,
         <<OpenNamed("q"), MqServe("q", "__STOP__"), Exit(0)>>)

Processes ==
  [fork |-> ForkBasic, exec |-> ForkExec, waitpid |-> WaitpidStatus, childStatus |-> ChildStatus,
   spawn |-> RunCommand, capture |-> RunAndCapture, pipe |-> PipeBasic,
   parentChild |-> PipeParentChild, raii |-> PipeRaii, stdout |-> CaptureStdout,
   stdin |-> FeedStdin, pipeline |-> Pipeline, fifo |-> FifoMessages, mmap |-> MmapAnonymous,
   shm |-> ShmPosix, shmRaii |-> SharedMemoryOwner, mq |-> MqPriorities,
   mqRaii |-> MessageQueueTasks]
=============================================================================
