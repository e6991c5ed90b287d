----------------------------- MODULE EpollEcho -----------------------------
(***************************************************************************)
(* The single-threaded epoll echo server of 22-networking/exemples/        *)
(* ex03_epoll.cpp with its clients.  epoll is level-triggered: each wait   *)
(* reports every descriptor that is ready at that moment, and the events   *)
(* of one batch are handled while the clients go on.  Only the number of   *)
(* bytes on their way is kept.                                             *)
(***************************************************************************)
EXTENDS Naturals, Sequences, FiniteSets, FiniteSetsExt

CONSTANTS Clients,
          HalfClosers,   \* the clients that close their writing side, then read
          Message,       \* how many bytes a client sends
          SendBuffer     \* how many bytes the kernel holds for a client

ASSUME BytesAssumption == Message \in Nat \ {0} /\ SendBuffer \in Nat \ {0}
ASSUME HalfClosersAssumption == HalfClosers \subseteq Clients
ASSUME ClientsAssumption == IsFiniteSet(Clients) /\ 0 \notin Clients

Timers == 3              \* the loop ends at the third expiration
Listening == 1           \* server.fd(), and the timer's descriptor
Timer == 2
NoFd == 0

VARIABLES pc,            \* the server: "wait", "handle", "accept" or "stop"
          batch,         \* the events reported and not handled yet
          timer_count, expired,
          num_clients,
          fd,            \* each connection's descriptor, NoFd if it has none
          backlog,       \* connections not accepted yet, oldest first
          client,        \* where each client is
          up, down,      \* bytes in the socket buffers of each connection
          got,           \* bytes each client has received
          hup,           \* the clients that closed (half of) the connection
          closed         \* the clients whose connection the server closed

server == <<pc, batch, timer_count, num_clients>>
bytes == <<up, down, got>>
vars == <<server, expired, fd, backlog, client, bytes, hup, closed>>

Init == /\ pc = "wait" /\ batch = {}
        /\ timer_count = 0 /\ expired = FALSE
        /\ num_clients = 0
        /\ fd = [c \in Clients |-> NoFd]
        /\ backlog = <<>>
        /\ client = [c \in Clients |-> "connect"]
        /\ up = [c \in Clients |-> 0] /\ down = [c \in Clients |-> 0]
        /\ got = [c \in Clients |-> 0]
        /\ hup = {} /\ closed = {}

Open == {c \in Clients : fd[c] # NoFd}
Goto(c, from, to) == client[c] = from /\ client' = [client EXCEPT ![c] = to]

\* epoll.remove(fd); close(fd); num_clients--
CloseFd(c) == /\ fd' = [fd EXCEPT ![c] = NoFd]
              /\ closed' = closed \cup {c}
              /\ num_clients' = num_clients - 1

\* An event is handled for whatever its descriptor is by then.
Handled(e) == /\ pc = "handle" /\ e \in batch
              /\ batch' = batch \ {e}
Event(d, c, gone) == [fd |-> d, of |-> c, hup |-> gone]
-----------------------------------------------------------------------------
(* Plausible bugs: wrong forms of the definitions below. *)

\* Two events, one to read and one for the end, as from kqueue.
ReadyTwice == {Event(fd[c], c, FALSE) : c \in {x \in Open : up[x] > 0}}
              \cup {Event(fd[c], c, TRUE) : c \in Open \cap hup}
              \cup (IF backlog # <<>> THEN {Event(Listening, NoFd, FALSE)} ELSE {})
              \cup (IF expired THEN {Event(Timer, NoFd, FALSE)} ELSE {})

\* Bytes received and not sent back.
EchoForgotten(e) == /\ Handled(e) /\ ~e.hup
                    /\ \E c \in Open : /\ fd[c] = e.fd /\ up[c] > 0
                                       /\ up' = [up EXCEPT ![c] = 0]
                    /\ UNCHANGED <<pc, timer_count, num_clients, expired, fd, backlog,
                                   client, down, got, hup, closed>>
-----------------------------------------------------------------------------
\* run_client(): connect and send; then read.
Connect(c) == /\ Goto(c, "connect", IF c \in HalfClosers THEN "shutdown" ELSE "read")
              /\ pc # "stop"
              /\ backlog' = Append(backlog, c)
              /\ up' = [up EXCEPT ![c] = Message]
              /\ UNCHANGED <<server, expired, fd, down, got, hup, closed>>

\* shutdown(SHUT_WR): it will send nothing more, and reads on.
HalfClose(c) == /\ Goto(c, "shutdown", "read")
                /\ hup' = hup \cup {c}
                /\ UNCHANGED <<server, expired, fd, backlog, bytes, closed>>

ClientRecv(c) == /\ client[c] = "read" /\ down[c] > 0
                 /\ \E n \in 1 .. down[c] : /\ got' = [got EXCEPT ![c] = @ + n]
                                            /\ down' = [down EXCEPT ![c] = @ - n]
                 /\ UNCHANGED <<server, expired, fd, backlog, client, up, hup, closed>>

\* A client leaves after its first bytes or at the end of the stream.
ClientClose(c) == /\ \/ c \in closed /\ down[c] = 0
                     \/ c \notin HalfClosers /\ got[c] > 0
                  /\ Goto(c, "read", "done")
                  /\ hup' = hup \cup {c}
                  /\ down' = [down EXCEPT ![c] = 0]
                  /\ UNCHANGED <<server, expired, fd, backlog, up, got, closed>>

Expire == /\ ~expired /\ pc # "stop"
          /\ expired' = TRUE
          /\ UNCHANGED <<server, fd, backlog, client, bytes, hup, closed>>

\* epoll_wait() reports each ready descriptor once.
Ready == {Event(fd[c], c, c \in hup) : c \in {x \in Open : up[x] > 0 \/ x \in hup}}
         \cup (IF backlog # <<>> THEN {Event(Listening, NoFd, FALSE)} ELSE {})
         \cup (IF expired THEN {Event(Timer, NoFd, FALSE)} ELSE {})

Wait == /\ pc = "wait" /\ timer_count < Timers /\ Ready # {}
        /\ pc' = "handle" /\ batch' = Ready
        /\ UNCHANGED <<timer_count, num_clients, expired, fd, backlog, client, bytes,
                       hup, closed>>

\* The end of the batch, and the end of the loop.
NextWait == /\ pc = "handle" /\ batch = {}
            /\ pc' = "wait"
            /\ UNCHANGED <<batch, timer_count, num_clients, expired, fd, backlog, client,
                           bytes, hup, closed>>

Stop == /\ pc = "wait" /\ timer_count = Timers
        /\ pc' = "stop"
        /\ UNCHANGED <<batch, timer_count, num_clients, expired, fd, backlog, client,
                       bytes, hup, closed>>

TimerEvent(e) == /\ Handled(e) /\ e.fd = Timer
                 /\ expired' = FALSE
                 /\ timer_count' = timer_count + 1
                 /\ UNCHANGED <<pc, num_clients, fd, backlog, client, bytes, hup, closed>>

AcceptEvent(e) == /\ Handled(e) /\ e.fd = Listening
                  /\ pc' = "accept"
                  /\ UNCHANGED <<timer_count, num_clients, expired, fd, backlog, client,
                                 bytes, hup, closed>>

\* accept4() gives the lowest free descriptor, which may be one just closed.
Accept == /\ pc = "accept" /\ backlog # <<>>
          /\ fd' = [fd EXCEPT ![Head(backlog)] =
                      Min((3 .. Cardinality(Clients) + 2) \ {fd[c] : c \in Open})]
          /\ backlog' = Tail(backlog)
          /\ num_clients' = num_clients + 1
          /\ UNCHANGED <<pc, batch, timer_count, expired, client, bytes, hup, closed>>

AcceptEnds == /\ pc = "accept" /\ backlog = <<>>
              /\ pc' = "handle"
              /\ UNCHANGED <<batch, timer_count, num_clients, expired, fd, backlog, client,
                             bytes, hup, closed>>

\* EPOLLRDHUP, EPOLLHUP or EPOLLERR closes, whatever is left to read.
HangUp(e) == /\ Handled(e) /\ e.hup
             /\ \E c \in Open : /\ fd[c] = e.fd
                                /\ up' = [up EXCEPT ![c] = 0]
                                /\ CloseFd(c)
             /\ UNCHANGED <<pc, timer_count, expired, backlog, client, down, got, hup>>

\* recv() of what there is and one send(), which takes what fits in the buffer;
\* the rest is dropped.
Echo(e) == /\ Handled(e) /\ ~e.hup
           /\ \E c \in Open : /\ fd[c] = e.fd
                              /\ \E n \in 1 .. up[c] :
                                   /\ up' = [up EXCEPT ![c] = @ - n]
                                   /\ down' = [down EXCEPT ![c] =
                                                 IF client[c] = "done" THEN 0
                                                 ELSE Min({@ + n, SendBuffer})]
           /\ UNCHANGED <<pc, timer_count, num_clients, expired, fd, backlog, client, got,
                          hup, closed>>

\* The client has left since: send() fails.
SendFails(e) == /\ Handled(e) /\ ~e.hup
                /\ \E c \in Open : /\ fd[c] = e.fd /\ up[c] > 0 /\ client[c] = "done"
                                   /\ up' = [up EXCEPT ![c] = 0]
                                   /\ CloseFd(c)
                /\ UNCHANGED <<pc, timer_count, expired, backlog, client, down, got, hup>>

Client(c) == Connect(c) \/ HalfClose(c) \/ ClientRecv(c) \/ ClientClose(c)
Handle == \E e \in batch : TimerEvent(e) \/ AcceptEvent(e) \/ HangUp(e) \/ Echo(e) \/ SendFails(e)
Server == Wait \/ NextWait \/ Stop \/ Handle \/ Accept \/ AcceptEnds
Ended == pc = "stop" /\ UNCHANGED vars

Next == (\E c \in Clients : Client(c)) \/ Expire \/ Server \/ Ended

\* The server and the clients are scheduled; the timer may take its time.
Spec == Init /\ [][Next]_vars /\ WF_vars(Server) /\ \A c \in Clients : WF_vars(Client(c))
-----------------------------------------------------------------------------
\* No two connections share a descriptor, and an event left in the batch is
\* for the connection it was reported for: a descriptor is not closed and
\* given out again before its event is handled.
EventsAreFresh ==
    /\ \A c, x \in Open : fd[c] = fd[x] => c = x
    /\ \A e \in batch : e.of \in Clients => fd[e.of] = e.fd

\* The echo of a client that is there loses and invents nothing.
EchoComplete == \A c \in Clients \ HalfClosers : client[c] = "read" =>
                    up[c] + down[c] + got[c] = Message

\* A client is answered and leaves, unless the server stops.
EveryClientServed == \A c \in Clients : client[c] = "read" ~> client[c] = "done" \/ pc = "stop"
=============================================================================
