------------------------------ MODULE EchoPool ------------------------------
(***************************************************************************)
(* The pooled echo server of 22-networking/exemples/ex02_pool.cpp with its *)
(* clients: an accepting thread pushes connections in a ConnectionQueue,   *)
(* workers pop and echo them, main() joins the clients and shuts the queue *)
(* down.  A critical section is one step here (its mutex is that of        *)
(* BlockingQueue); waiting and notifying are not.  Only the number of      *)
(* bytes on their way is kept.                                             *)
(***************************************************************************)
EXTENDS Naturals, Sequences, FiniteSets, Condvar

CONSTANTS Workers,   \* num_workers threads (4 in main())
          Clients,   \* the clients; the server accepts as many (2)
          Message    \* how many bytes a client sends

Nobody == "nobody"

ASSUME MessageAssumption == Message \in Nat \ {0}
ASSUME ThreadsAssumption == /\ Workers \cap Clients = {} /\ Nobody \notin Clients
                            /\ {"server", "main"} \cap (Workers \cup Clients) = {}
\* Both are positive in main(): without a worker nobody would serve anyone.
ASSUME FiniteAssumption == /\ IsFiniteSet(Workers) /\ Workers # {}
                           /\ IsFiniteSet(Clients) /\ Clients # {}

VARIABLES queue_, waiting, shutdown_,
          pc,        \* of "server", "main", the workers and the clients
          accepted,  \* how many connections the server has accepted
          backlog,   \* connections made and not yet accepted, oldest first
          client,    \* each worker's connection, or Nobody
          held,      \* bytes each worker has received and not yet sent back
          up, down,  \* bytes in the socket buffers of each connection
          got,       \* bytes each client has received
          closed,    \* the clients whose server end is closed
          reset      \* clients that closed with bytes unread: a reset follows

net == <<backlog, up, down, reset>>
vars == <<queue_, waiting, shutdown_, pc, accepted, client, held, got, closed, net>>

Init == /\ queue_ = <<>> /\ waiting = {} /\ shutdown_ = FALSE
        /\ pc = [t \in Workers \cup Clients \cup {"server", "main"} |->
                    IF t \in Workers THEN "pop" ELSE IF t \in Clients THEN "connect"
                    ELSE IF t = "server" THEN "accept" ELSE "join_clients"]
        /\ accepted = 0 /\ backlog = <<>>
        /\ client = [w \in Workers |-> Nobody]
        /\ held = [w \in Workers |-> 0]
        /\ up = [c \in Clients |-> 0] /\ down = [c \in Clients |-> 0]
        /\ got = [c \in Clients |-> 0]
        /\ closed = {} /\ reset = {}

Goto(t, from, to) == pc[t] = from /\ pc' = [pc EXCEPT ![t] = to]

\* handle_client returns and ~Socket closes the connection.
Drop(w) == /\ client' = [client EXCEPT ![w] = Nobody]
           /\ held' = [held EXCEPT ![w] = 0]
           /\ closed' = closed \cup {client[w]}
-----------------------------------------------------------------------------
(* Wrong forms of the definitions below. *)

\* A worker that copies the socket and leaves the entry in the queue.
PopKeeps(w) == /\ queue_ # <<>>
               /\ Goto(w, "pop", "recv")
               /\ client' = [client EXCEPT ![w] = Head(queue_)]
               /\ queue_' = IF Len(queue_) > 1 THEN Tail(queue_) ELSE queue_
               /\ UNCHANGED <<waiting, shutdown_, accepted, held, got, closed, net>>

\* Detached workers: main() ends without them.
MainReturns == /\ Goto("main", "join_workers", "done")
               /\ UNCHANGED <<queue_, waiting, shutdown_, accepted, client, held, got,
                              closed, net>>

\* send() instead of send_all(): a short write is taken for a whole one.
SendOnce(w) == /\ Goto(w, "send", "recv")
               /\ held' = [held EXCEPT ![w] = 0]
               /\ \E n \in 1 .. held[w] :
                    down' = [down EXCEPT ![client[w]] = @ + n]
               /\ UNCHANGED <<queue_, waiting, shutdown_, accepted, client, got, closed,
                              backlog, up, reset>>

\* shutdown() that does not notify.
ShutdownSilent == /\ Goto("main", "notify_all", "join_server")
                  /\ UNCHANGED <<queue_, waiting, shutdown_, accepted, client, held, got,
                                 closed, net>>
-----------------------------------------------------------------------------
\* connect_to() and send_all(): once connected the bytes are on their way.
Connect(c) == /\ Goto(c, "connect", "recv")
              /\ backlog' = Append(backlog, c)
              /\ up' = [up EXCEPT ![c] = Message]
              /\ UNCHANGED <<queue_, waiting, shutdown_, accepted, client, held, got,
                             closed, down, reset>>

\* The client's only recv(): whatever has come, or the end of the stream.
ClientRecv(c) ==
    /\ Goto(c, "recv", "close")
    /\ \/ /\ down[c] > 0
          /\ \E n \in 1 .. down[c] : /\ got' = [got EXCEPT ![c] = n]
                                     /\ down' = [down EXCEPT ![c] = @ - n]
       \/ /\ down[c] = 0 /\ c \in closed
          /\ UNCHANGED <<got, down>>
    /\ UNCHANGED <<queue_, waiting, shutdown_, accepted, client, held, closed,
                   backlog, up, reset>>

\* ~Socket at the end of run_client(): unread bytes make it a reset.
ClientClose(c) == /\ Goto(c, "close", "done")
                  /\ reset' = IF down[c] > 0 THEN reset \cup {c} ELSE reset
                  /\ down' = [down EXCEPT ![c] = 0]
                  /\ UNCHANGED <<queue_, waiting, shutdown_, accepted, client, held, got,
                                 closed, backlog, up>>

\* accept4() and the first half of ConnectionQueue::push().
AcceptPush == /\ backlog # <<>>
              /\ Goto("server", "accept", "notify_one")
              /\ queue_' = Append(queue_, Head(backlog))
              /\ backlog' = Tail(backlog)
              /\ accepted' = accepted + 1
              /\ UNCHANGED <<waiting, shutdown_, client, held, got, closed, up, down, reset>>

\* notify_one() after the unlock, and the loop of run_server().
PushNotifies == /\ Goto("server", "notify_one",
                        IF accepted < Cardinality(Clients) THEN "accept" ELSE "done")
                /\ waiting' \in NotifyOne(waiting)
                /\ UNCHANGED <<queue_, shutdown_, accepted, client, held, got, closed, net>>

\* pop(): nothing queued and no shutdown, so wait.
PopWaits(w) == /\ queue_ = <<>> /\ ~shutdown_
               /\ Goto(w, "pop", "wait")
               /\ waiting' = waiting \cup {w}
               /\ UNCHANGED <<queue_, shutdown_, accepted, client, held, got, closed, net>>

\* Woken, with or without a notification: look again.
PopRetries(w) == /\ \/ w \notin waiting /\ UNCHANGED waiting
                    \/ w \in waiting /\ waiting' = waiting \ {w}
                 /\ Goto(w, "wait", "pop")
                 /\ UNCHANGED <<queue_, shutdown_, accepted, client, held, got, closed, net>>

PopEnds(w) == /\ shutdown_ /\ queue_ = <<>>
              /\ Goto(w, "pop", "done")
              /\ UNCHANGED <<queue_, waiting, shutdown_, accepted, client, held, got,
                             closed, net>>

\* The socket moves out of the queue into the worker.
PopTakes(w) == /\ queue_ # <<>>
               /\ Goto(w, "pop", "recv")
               /\ client' = [client EXCEPT ![w] = Head(queue_)]
               /\ queue_' = Tail(queue_)
               /\ UNCHANGED <<waiting, shutdown_, accepted, held, got, closed, net>>

\* recv() of handle_client: some of the bytes that have come.
Recv(w) == /\ Goto(w, "recv", "send")
           /\ \E n \in 1 .. up[client[w]] :
                /\ held' = [held EXCEPT ![w] = n]
                /\ up' = [up EXCEPT ![client[w]] = @ - n]
           /\ UNCHANGED <<queue_, waiting, shutdown_, accepted, client, got, closed,
                          backlog, down, reset>>

\* recv() returns 0, or an error because the client reset the connection.
RecvEnds(w) == /\ Goto(w, "recv", "pop")
               /\ pc[client[w]] = "done"
               /\ up[client[w]] = 0 \/ client[w] \in reset
               /\ Drop(w)
               /\ UNCHANGED <<queue_, waiting, shutdown_, accepted, got, net>>

\* One send() of the loop of send_all(), which may take only some of the bytes.
Send(w) == /\ \E n \in 1 .. held[w] :
                /\ Goto(w, "send", IF n = held[w] THEN "recv" ELSE "send")
                /\ held' = [held EXCEPT ![w] = @ - n]
                /\ IF pc[client[w]] = "done" THEN UNCHANGED down
                   ELSE down' = [down EXCEPT ![client[w]] = @ + n]
           /\ UNCHANGED <<queue_, waiting, shutdown_, accepted, client, got, closed,
                          backlog, up, reset>>

\* The client is gone: send_all() throws, and the catch leaves the loop.
SendFails(w) == /\ Goto(w, "send", "pop")
                /\ pc[client[w]] = "done"
                /\ Drop(w)
                /\ UNCHANGED <<queue_, waiting, shutdown_, accepted, got, net>>

\* main(): both clients joined, then shutdown() in two halves, then the
\* destructors of the jthreads, in the reverse order of their declaration.
JoinClients == /\ \A c \in Clients : pc[c] = "done"
               /\ Goto("main", "join_clients", "notify_all")
               /\ shutdown_' = TRUE
               /\ UNCHANGED <<queue_, waiting, accepted, client, held, got, closed, net>>

ShutdownNotifies == /\ Goto("main", "notify_all", "join_server")
                    /\ waiting' = NotifyAll(waiting)
                    /\ UNCHANGED <<queue_, shutdown_, accepted, client, held, got, closed, net>>

JoinServer == /\ pc["server"] = "done"
              /\ Goto("main", "join_server", "join_workers")
              /\ UNCHANGED <<queue_, waiting, shutdown_, accepted, client, held, got,
                             closed, net>>

JoinWorkers == /\ \A w \in Workers : pc[w] = "done"
               /\ Goto("main", "join_workers", "done")
               /\ UNCHANGED <<queue_, waiting, shutdown_, accepted, client, held, got,
                              closed, net>>

Client(c) == Connect(c) \/ ClientRecv(c) \/ ClientClose(c)
Server == AcceptPush \/ PushNotifies
Pop(w) == PopWaits(w) \/ PopEnds(w) \/ PopTakes(w)
Handle(w) == Recv(w) \/ RecvEnds(w) \/ Send(w) \/ SendFails(w)
Main == JoinClients \/ ShutdownNotifies \/ JoinServer \/ JoinWorkers
Ended == pc["main"] = "done" /\ UNCHANGED vars

Next == \/ \E c \in Clients : Client(c)
        \/ \E w \in Workers : Pop(w) \/ PopRetries(w) \/ Handle(w)
        \/ Server \/ Main \/ Ended

\* Every thread is scheduled; a waiting worker is woken for sure only once it
\* is out of the wait set.
Fairness == /\ \A c \in Clients : WF_vars(Client(c))
            /\ \A w \in Workers : /\ WF_vars(Pop(w)) /\ WF_vars(Handle(w))
                                  /\ WF_vars(w \notin waiting /\ PopRetries(w))
            /\ WF_vars(Server) /\ WF_vars(Main)

Spec == Init /\ [][Next]_vars /\ Fairness
-----------------------------------------------------------------------------
\* A Socket is moved, never copied: each connection is in the backlog, in the
\* queue, with one worker or closed, and in one of these places only, so its
\* descriptor is closed once.
Places(c) == {<<"backlog", k>> : k \in {j \in DOMAIN backlog : backlog[j] = c}}
             \cup {<<"queue", k>> : k \in {j \in DOMAIN queue_ : queue_[j] = c}}
             \cup {<<"worker", w>> : w \in {v \in Workers : client[v] = c}}
             \cup {<<"closed", x>> : x \in closed \cap {c}}
OneOwner == \A c \in Clients :
              Cardinality(Places(c)) = IF pc[c] = "connect" THEN 0 ELSE 1

\* What a client sent is in the buffers, in a worker's hands or received: the
\* echo neither loses nor invents a byte while the client is there.
Held(c) == {w \in Workers : client[w] = c}
InHands(c) == IF Held(c) = {} THEN 0 ELSE held[CHOOSE w \in Held(c) : TRUE]
NoByteLost == \A c \in Clients : pc[c] \in {"recv", "close"} =>
                up[c] + down[c] + got[c] + InHands(c) = Message

\* main() ends only with every connection served and closed, and does end.
AllClosedAtEnd == pc["main"] = "done" =>
                    closed = Clients /\ queue_ = <<>> /\ \A w \in Workers : client[w] = Nobody
Termination == <>(pc["main"] = "done")
=============================================================================
