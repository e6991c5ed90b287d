---------------------------- MODULE NetworkPrograms ----------------------------
(***************************************************************************)
(* The client and server programs of chapter 22 as scripts, but for the    *)
(* pool, epoll and unary gRPC ones, which have modules of their own.  Each *)
(* direction of a connection is a channel.  A client connects once the     *)
(* server listens (they sleep instead), and what one send() writes at once *)
(* is an item.                                                             *)
(***************************************************************************)
EXTENDS Calls

LOCAL Listen == <<Put("listening", 1)>>
LOCAL Accept == <<Await("connected", 1)>>
LOCAL ClientCloses == <<Close("up", "w"), Close("down", "r")>>
LOCAL ServerCloses == <<Close("up", "r"), Close("down", "w")>>

\* An exception that main() or a jthread lets out ends the process by abort(): a call
\* that throws it has Throw as its failure path.  The script does not run off its end.
Throw == 0
AbortsIfThrown(script) ==
  [i \in DOMAIN script |-> IF script[i].call \in {"send", "recv"} /\ script[i].k = Throw
                             THEN [script[i] EXCEPT !.k = Len(script) + 1 - i]
                             ELSE script[i]]
  \o <<Exit(134)>>

\* main() runs the client while the jthread a runs the server, then joins it.
LOCAL ServedThen(server, client, after) ==
  [main |-> AbortsIfThrown(<<Spawn("a"), Connect("main", "up", "down")>> \o client
                             \o ClientCloses \o <<Join("a")>> \o after \o <<Exit(0)>>),
   a |-> AbortsIfThrown(Listen \o Accept \o server \o ServerCloses \o <<Goto(2)>>)]
LOCAL WithServer(server, client) == ServedThen(server, client, <<>>)

\* One message there and back, with a plain send(): SIGPIPE if the peer is gone.
ServerClient ==
  WithServer(<<Recv("up", "hello", 2), Out("down", "hello")>>,
             <<Out("up", "hello"), Recv("down", "hello", 1)>>)

\* An echo loop until the client closes or cannot be written to.
EchoLoop == <<Recv("up", "hello", 3), Send("down", "hello", 2), Goto(-2)>>

LOCAL EchoOrThrow == <<Send("up", "hello", Throw), Recv("down", "hello", 1)>>
EchoSequential == WithServer(EchoLoop, Rep(2, EchoOrThrow))

\* The loops over poll() and select() do not look at what send() returns.  With the one
\* client of the program they make three of their ten turns before it has left, and end
\* when the next wait times out; POLLERR and POLLHUP, which close at once, do not come.
MultiplexedEcho == <<Recv("up", "hello", 3), Send("down", "hello", 1), Goto(-2)>>
PollServer == WithServer(MultiplexedEcho, EchoOrThrow)
SelectServer == WithServer(MultiplexedEcho, EchoOrThrow)

\* A frame is its length, then as many pieces as it takes.  k has the failure path of
\* each: for the reader, an end before the length is the end of the dialogue, an end
\* after it an exception.
SendMessage(c, payload, k) == <<Send(c, "length", k[1]), Send(c, payload, k[2]), Send(c, payload, k[3])>>
RecvMessage(c, payload, k) == <<Recv(c, "length", k[1]), Recv(c, payload, k[2]), Recv(c, payload, k[3])>>

\* send_all() passes no flag to send(): a broken connection is SIGPIPE.
SendAll(c, payload) == <<Out(c, payload), Out(c, payload)>>
SendFramed(c, payload) == <<Out(c, "length")>> \o SendAll(c, payload)
RecvExact(c, payload) == <<Recv(c, payload, 2), Recv(c, payload, 1)>>

\* Raw bytes and a frame each way, then bytes that the server never reads.
SendRecv ==
  WithServer(RecvExact("up", "raw") \o SendAll("down", "raw")
               \o RecvMessage("up", "framed", <<3, Throw, Throw>>) \o SendFramed("down", "answer")
               \o <<Cancel("up"), Close("down", "w"), Goto(3)>>,
             SendAll("up", "raw") \o RecvExact("down", "raw")
               \o SendFramed("up", "framed") \o RecvMessage("down", "answer", <<3, Throw, Throw>>)
               \o <<Send("up", "robust", 1)>>)

\* A request, its answer, and the next request, until the client closes; the requests
\* are counted, and the count of connections is 0 again at the end.  The client lets
\* its exceptions out, the server catches them.
ProtocolRequest(payload) ==
  SendMessage("up", payload, <<Throw, Throw, Throw>>)
  \o RecvMessage("down", payload, <<3, Throw, Throw>>)

HandleProtocolClient ==
  <<Add("active_connections", 1)>> \o RecvMessage("up", "request", <<8, 7, 6>>)
  \o <<Add("total_requests", 1)>> \o SendMessage("down", "request", <<4, 3, 2>>)
  \o <<Goto(-7), Add("active_connections", -1)>>

Protocol ==
  ServedThen(HandleProtocolClient, Rep(2, ProtocolRequest("request")),
             Sure("total_requests", 2) \o <<Check("active_connections", 0)>>)

\* With Asio the client catches its exceptions, and closes.
LOCAL EchoOrLeave == <<Send("up", "hello", 2), Recv("down", "hello", 1)>>

\* Coroutines of one io_context: a server that echoes once and a client.
AsyncClient ==
  [main |-> Listen \o <<Spawn("a"), Spawn("b"), Join("a"), Join("b")>>,
   a |-> Accept \o <<Recv("up", "hello", 2), Send("down", "hello", 1)>> \o ServerCloses,
   b |-> <<Connect("main", "up", "down")>> \o EchoOrLeave \o ClientCloses]

\* The Asio echo servers: main() runs the loop until the stopper's delay, longer
\* than the client needs, is over; both threads are joined.
LOCAL AsioServer(session) ==
  [main |-> Listen \o <<Spawn("a"), Spawn("b")>> \o Accept \o <<Spawn("c")>>
            \o <<Await("stop", 1), Join("b"), Join("a")>>,
   a |-> <<Connect("main", "up", "down")>> \o EchoOrLeave \o ClientCloses \o <<Put("answered", 1)>>,
   b |-> <<Await("answered", 1), Put("stop", 1)>>,
   c |-> session \o ServerCloses]

CallbackServer == AsioServer(EchoLoop)
CoroutineServer == AsioServer(EchoLoop)
ProductionServer ==
  AsioServer(<<Add("active_connections", 1)>> \o EchoLoop \o <<Add("active_connections", -1)>>)

\* A request per connection, the answer, and the end: keep-alive is declined.  A
\* session of the server is a coroutine of its own.
LOCAL Request(up, down, method, code) ==
  <<Connect("main", up, down), Send(up, method, 2), Recv(down, code, 1),
    Close(up, "w"), Close(down, "r")>>
LOCAL Session(up, down, method, code) ==
  <<Recv(up, method, 2), Send(down, code, 1), Close(down, "w"), Close(up, "r")>>
LOCAL WebServer(first, second) ==
  [main |-> Listen \o <<Spawn("a"), Spawn("b"), Await("connected", 1), Spawn("c"),
                         Await("connected", 2), Spawn("d"), Await("stop", 1), Join("b"), Join("a")>>,
   a |-> Request("up", "down", first[1], first[2]) \o Request("up2", "down2", second[1], second[2])
         \o <<Put("answered", 1)>>,
   b |-> <<Await("answered", 1), Put("stop", 1)>>,
   c |-> Session("up", "down", first[1], first[2]), d |-> Session("up2", "down2", second[1], second[2])]

HttpServer == WebServer(<<"GET", "200">>, <<"GET", "404">>)
JsonApi == WebServer(<<"GET", "200">>, <<"POST", "201">>)

\* The same without Asio: main() accepts for a pool of threads, until the client,
\* which has had its answers, calls stop().
HttplibServer ==
  [main |-> <<Spawn("a")>> \o Listen
            \o <<Await("connected", 1), Spawn("c"), Await("connected", 2), Spawn("d"),
                 Await("stop", 1), Join("c"), Join("d"), Join("a")>>,
   a |-> Request("up", "down", "POST", "201") \o Request("up2", "down2", "GET", "404")
         \o <<Put("stop", 1)>>,
   c |-> Session("up", "down", "POST", "201"), d |-> Session("up2", "down2", "GET", "404")]

\* One datagram there and back; its socket is bound before the client sends.
UdpEcho ==
  [main |-> <<Pipe("up"), Pipe("down"), Spawn("a"), Spawn("b"), Recv("up", "hello", 1),
              Send("down", "hello", 1), Await("stop", 1), Join("b"), Join("a")>>,
   a |-> <<Send("up", "hello", 2), Recv("down", "hello", 1), Put("answered", 1)>>,
   b |-> <<Await("answered", 1), Put("stop", 1)>>]

\* One request of a coroutine of the same io_context, spawned from another thread.
HttpClient ==
  [main |-> Listen \o <<Spawn("a"), Spawn("b"), Spawn("c"), Await("stop", 1), Join("b"), Join("a")>>,
   a |-> <<Put("fetching", 1)>>,
   b |-> <<Await("fetched", 1), Put("stop", 1)>>,
   c |-> Accept \o Session("up", "down", "GET", "200"),
   d |-> <<Await("fetching", 1)>> \o Request("up", "down", "GET", "200") \o <<Put("fetched", 1)>>]

\* Handshake, a message echoed, and the closing handshake.
Websocket ==
  [main |-> Listen \o <<Spawn("a"), Spawn("b"), Spawn("c"), Await("stop", 1), Join("b")>>,
   a |-> Accept \o <<Recv("up", "upgrade", 7), Send("down", "accepted", 6), Recv("up", "hello", 5),
                     Send("down", "hello", 4), Recv("up", "close", 3), Send("down", "close", 2),
                     Goto(1)>> \o ServerCloses,
   b |-> <<Await("answered", 1), Put("stop", 1)>>,
   c |-> <<Connect("main", "up", "down"), Send("up", "upgrade", 6), Recv("down", "accepted", 5),
           Send("up", "hello", 4), Recv("down", "hello", 3), Send("up", "close", 2),
           Recv("down", "close", 1)>> \o ClientCloses \o <<Put("answered", 1)>>]

\* A stream of events until the client cancels; a stream of samples until the client
\* is done; a dialogue read by one thread of the client and written by another.
Subscribe == <<Test("cancelled", 1, 3), Send("events", "event", 2), Goto(-2), Close("events", "w")>>
TestSubscribe == Rep(3, <<Recv("events", "event", 1)>>) \o <<Put("cancelled", 1), Cancel("events")>>

Ingest == <<Recv("samples", "sample", 3), Add("received", 1), Goto(-2), Send("summary", "summary", 1),
            Close("samples", "r"), Close("summary", "w")>>
TestIngest == Rep(3, <<Send("samples", "sample", 1)>>)
              \o <<Close("samples", "w"), Recv("summary", "summary", 1), Close("summary", "r")>>
              \o Sure("received", 3)

InteractiveQuery == <<Recv("queries", "query", 3), Send("results", "result", 2), Goto(-2),
                      Close("queries", "r"), Close("results", "w")>>
TestBidi == <<Spawn("c"), Recv("results", "result", 2), Goto(-1), Close("results", "r"), Join("c")>>

Streaming ==
  [main |-> <<Pipe("events"), Pipe("samples"), Pipe("summary"), Pipe("queries"), Pipe("results"),
              Spawn("a"), Spawn("b"), Await("shutdown", 1), Join("b")>>,
   a |-> Subscribe \o Ingest \o InteractiveQuery,
   b |-> TestSubscribe \o TestIngest \o TestBidi \o <<Put("shutdown", 1)>>,
   c |-> Rep(3, <<Send("queries", "query", 1)>>) \o <<Close("queries", "w")>>]

Networks ==
  [serverClient |-> ServerClient, sendRecv |-> SendRecv, echo |-> EchoSequential,
   poll |-> PollServer, select |-> SelectServer, protocol |-> Protocol,
   asyncClient |-> AsyncClient, callback |-> CallbackServer, coroutine |-> CoroutineServer,
   production |-> ProductionServer, http |-> HttpServer,
   json |-> JsonApi, httplib |-> HttplibServer, udp |-> UdpEcho,
   httpClient |-> HttpClient, websocket |-> Websocket, streaming |-> Streaming]
=============================================================================
