--------------------------- MODULE EchoPoolProofs ---------------------------
(***************************************************************************)
(* For any workers, clients and length of a message: a connection has one  *)
(* owner, no byte is lost while its client is there, main() ends with      *)
(* every connection closed, and until then some thread can go on.          *)
(***************************************************************************)
EXTENDS EchoPool, FiniteSetTheorems, TLAPS

Has(s, c) == \E k \in DOMAIN s : s[k] = c
Distinct(s) == \A j, k \in DOMAIN s : s[j] = s[k] => j = k

Points == {"pop", "wait", "recv", "send", "connect", "close", "accept", "notify_one",
           "join_clients", "notify_all", "join_server", "join_workers", "done"}

Threads == Workers \cup Clients \cup {"server", "main"}

TypeOK == /\ queue_ \in Seq(Clients) /\ backlog \in Seq(Clients)
          /\ waiting \in SUBSET Workers /\ shutdown_ \in BOOLEAN
          /\ accepted \in Nat
          /\ pc \in [Threads -> Points]
          /\ \A c \in Clients : pc[c] \in {"connect", "recv", "close", "done"}
          /\ client \in [Workers -> Clients \cup {Nobody}]
          /\ held \in [Workers -> Nat]
          /\ up \in [Clients -> Nat] /\ down \in [Clients -> Nat]
          /\ got \in [Clients -> Nat]
          /\ closed \in SUBSET Clients /\ reset \in SUBSET Clients

\* The four places a connection can be in exclude each other, and it is in one
\* of them from connect() on.
OwnerInv ==
  /\ Distinct(backlog) /\ Distinct(queue_)
  /\ \A v, w \in Workers : client[v] = client[w] /\ client[v] # Nobody => v = w
  /\ \A c \in Clients :
       /\ ~(Has(backlog, c) /\ Has(queue_, c))
       /\ Has(backlog, c) \/ Has(queue_, c) =>
            c \notin closed /\ \A w \in Workers : client[w] # c
       /\ c \in closed => \A w \in Workers : client[w] # c
       /\ pc[c] = "connect" <=> ~(\/ Has(backlog, c) \/ Has(queue_, c) \/ c \in closed
                                  \/ \E w \in Workers : client[w] = c)

\* A worker has a connection exactly while it handles it, and bytes only
\* between a recv() and the end of the send_all() that follows.
WorkerInv == \A w \in Workers :
               /\ pc[w] \in {"recv", "send"} <=> client[w] # Nobody
               /\ pc[w] # "send" => held[w] = 0

\* How far a client can be, given where its connection is.
ClientInv == \A c \in Clients :
               /\ pc[c] = "connect" => up[c] = 0 /\ down[c] = 0 /\ got[c] = 0
               /\ pc[c] = "recv" => got[c] = 0
               /\ Has(backlog, c) \/ Has(queue_, c) => pc[c] = "recv" /\ down[c] = 0
               /\ c \in closed => pc[c] = "done"

\* How far main() is tells who has ended.
MainInv == /\ shutdown_ <=> pc["main"] # "join_clients"
           /\ shutdown_ => \A c \in Clients : pc[c] = "done"
           /\ pc["main"] = "done" => \A w \in Workers : pc[w] = "done"

Inv == TypeOK /\ OwnerInv /\ WorkerInv /\ ClientInv /\ MainInv
-----------------------------------------------------------------------------
(* Sequences of connections. *)

LEMMA EmptyHas ==
  ASSUME NEW S
  PROVE  /\ Distinct(<<>>) /\ \A c \in S : ~Has(<<>>, c)
         /\ \A s \in Seq(S) : (\A c \in S : ~Has(s, c)) => s = <<>>
BY DEF Has, Distinct

LEMMA AppendHas ==
  ASSUME NEW S, NEW s \in Seq(S), NEW x \in S
  PROVE  /\ Append(s, x) \in Seq(S)
         /\ \A c \in S : Has(Append(s, x), c) <=> Has(s, c) \/ c = x
         /\ Distinct(s) /\ ~Has(s, x) => Distinct(Append(s, x))
<1> DEFINE t == Append(s, x)
<1>1. t \in Seq(S) /\ Len(t) = Len(s) + 1 /\ t[Len(t)] = x
  OBVIOUS
<1>2. /\ DOMAIN s = 1 .. Len(s) /\ DOMAIN t = 1 .. Len(t) /\ Len(s) \in Nat
      /\ \A k \in DOMAIN s : k \in DOMAIN t /\ t[k] = s[k]
      /\ \A k \in DOMAIN t : k \in DOMAIN s \/ k = Len(t)
      /\ Len(t) \in DOMAIN t /\ Len(t) \notin DOMAIN s
  BY <1>1
<1> HIDE DEF t
<1>3. \A c \in S : Has(t, c) <=> Has(s, c) \/ c = x
  BY <1>1, <1>2 DEF Has
<1>4. Distinct(s) /\ ~Has(s, x) => Distinct(t)
  BY <1>1, <1>2, Zenon DEF Has, Distinct
<1> QED BY <1>1, <1>3, <1>4 DEF t

LEMMA TailHas ==
  ASSUME NEW S, NEW s \in Seq(S), s # <<>>
  PROVE  /\ Head(s) \in S /\ Has(s, Head(s)) /\ Tail(s) \in Seq(S)
         /\ Distinct(s) => /\ Distinct(Tail(s))
                           /\ \A c \in S : Has(Tail(s), c) <=> Has(s, c) /\ c # Head(s)
<1> DEFINE t == Tail(s)
<1>1. /\ Len(s) \in Nat \ {0} /\ Head(s) = s[1] /\ Head(s) \in S
      /\ t \in Seq(S) /\ Len(t) = Len(s) - 1
      /\ DOMAIN s = 1 .. Len(s) /\ DOMAIN t = 1 .. Len(t)
      /\ \A k \in DOMAIN t : k + 1 \in DOMAIN s /\ t[k] = s[k + 1]
  OBVIOUS
<1>2. /\ 1 \in DOMAIN s
      /\ \A k \in DOMAIN s : k = 1 \/ (k - 1 \in DOMAIN t /\ t[k - 1] = s[k])
  BY <1>1
<1> HIDE DEF t
<1>3. Has(s, Head(s))
  BY <1>1, <1>2 DEF Has
<1>4. ASSUME Distinct(s) PROVE Distinct(t)
  BY <1>1, <1>4 DEF Distinct
<1>5. ASSUME Distinct(s), NEW c \in S PROVE Has(t, c) <=> Has(s, c) /\ c # Head(s)
  <2>1. Has(t, c) => Has(s, c) /\ c # Head(s)
    BY <1>1, <1>2, <1>5 DEF Has, Distinct
  <2>2. Has(s, c) /\ c # Head(s) => Has(t, c)
    BY <1>1, <1>2 DEF Has
  <2> QED BY <2>1, <2>2
<1> QED BY <1>1, <1>3, <1>4, <1>5 DEF t
-----------------------------------------------------------------------------
LEMMA InvInit == Init => Inv
<1> SUFFICES ASSUME Init PROVE Inv
  OBVIOUS
<1> USE DEF Init, net
<1>1. /\ \A w \in Workers : pc[w] = "pop" /\ client[w] = Nobody /\ held[w] = 0
      /\ \A c \in Clients : pc[c] = "connect"
      /\ pc["main"] = "join_clients"
  BY ThreadsAssumption
<1>2. shutdown_ \in BOOLEAN
  OBVIOUS
<1>3. TypeOK
  BY <1>1, <1>2, ThreadsAssumption DEF TypeOK, Points, Threads
<1>4. OwnerInv
  BY <1>1, EmptyHas, ThreadsAssumption DEF OwnerInv
<1>5. WorkerInv /\ ClientInv /\ MainInv
  BY <1>1, EmptyHas, ThreadsAssumption DEF WorkerInv, ClientInv, MainInv
<1> QED BY <1>3, <1>4, <1>5 DEF Inv

\* A step of thread t to a point, the others staying where they are.
Moves(t, to) == /\ pc' \in [Threads -> Points] /\ pc'[t] = to
                /\ \A u \in Threads \ {t} : pc'[u] = pc[u]

LEMMA GotoMoves ==
  ASSUME TypeOK, NEW t \in Threads, NEW from, NEW to \in Points, Goto(t, from, to)
  PROVE  pc[t] = from /\ Moves(t, to)
BY DEF TypeOK, Goto, Moves

LEMMA ClientStep ==
  ASSUME Inv, NEW c \in Clients, Client(c) PROVE Inv'
<1> USE ThreadsAssumption, MessageAssumption DEF Inv, Points, Threads, Moves
<1>1. CASE Connect(c)
  <2>1. pc[c] = "connect" /\ Moves(c, "recv")
    BY <1>1, GotoMoves DEF Connect
  <2>2. /\ backlog' = Append(backlog, c) /\ up' = [up EXCEPT ![c] = Message]
        /\ UNCHANGED <<queue_, waiting, shutdown_, accepted, client, held, got,
                       closed, down, reset>>
    BY <1>1 DEF Connect
  <2>3. ~Has(backlog, c)
    BY <2>1 DEF OwnerInv
  <2>4. /\ backlog' \in Seq(Clients) /\ Distinct(backlog')
        /\ \A d \in Clients : Has(backlog', d) <=> Has(backlog, d) \/ d = c
    BY <2>2, <2>3, AppendHas DEF TypeOK, OwnerInv
  <2>5. TypeOK'
    BY <2>1, <2>2, <2>3, <2>4 DEF TypeOK
  <2>6. OwnerInv'
    BY <2>1, <2>2, <2>3, <2>4 DEF OwnerInv
  <2>7. WorkerInv'
    BY <2>1, <2>2, <2>3, <2>4 DEF WorkerInv
  <2>8. ClientInv'
    BY <2>1, <2>2, <2>3, <2>4 DEF ClientInv, OwnerInv, TypeOK
  <2>9. MainInv'
    BY <2>1, <2>2, <2>3, <2>4 DEF MainInv
  <2> QED BY <2>5, <2>6, <2>7, <2>8, <2>9
<1>2. CASE ClientRecv(c)
  <2>1. pc[c] = "recv" /\ Moves(c, "close")
    BY <1>2, GotoMoves DEF ClientRecv
  <2>2. /\ c \notin closed /\ down[c] > 0
        /\ UNCHANGED <<queue_, waiting, shutdown_, accepted, client, held, closed,
                       backlog, up, reset>>
        /\ \E n \in 1 .. down[c] : /\ got' = [got EXCEPT ![c] = n]
                                   /\ down' = [down EXCEPT ![c] = @ - n]
    BY <1>2, <2>1 DEF ClientRecv, ClientInv
  <2>3. ~Has(backlog, c) /\ ~Has(queue_, c)
    BY <2>2 DEF ClientInv
  <2>4. /\ got' \in [Clients -> Nat] /\ down' \in [Clients -> Nat]
        /\ \A d \in Clients \ {c} : got'[d] = got[d] /\ down'[d] = down[d]
    BY <2>2 DEF TypeOK
  <2>5. TypeOK'
    BY <2>1, <2>2, <2>3, <2>4 DEF TypeOK
  <2>6. OwnerInv'
    BY <2>1, <2>2, <2>3, <2>4 DEF OwnerInv
  <2>7. WorkerInv'
    BY <2>1, <2>2, <2>3, <2>4 DEF WorkerInv
  <2>8. ClientInv'
    BY <2>1, <2>2, <2>3, <2>4 DEF ClientInv
  <2>9. MainInv'
    BY <2>1, <2>2, <2>3, <2>4 DEF MainInv
  <2> QED BY <2>5, <2>6, <2>7, <2>8, <2>9
<1>3. CASE ClientClose(c)
  <2>1. pc[c] = "close" /\ Moves(c, "done")
    BY <1>3, GotoMoves DEF ClientClose
  <2>2. /\ down' = [down EXCEPT ![c] = 0] /\ reset' \in SUBSET Clients
        /\ UNCHANGED <<queue_, waiting, shutdown_, accepted, client, held, got,
                       closed, backlog, up>>
    BY <1>3 DEF ClientClose, TypeOK
  <2>3. TypeOK'
    BY <2>1, <2>2 DEF TypeOK
  <2>4. OwnerInv'
    BY <2>1, <2>2 DEF OwnerInv
  <2>5. WorkerInv'
    BY <2>1, <2>2 DEF WorkerInv
  <2>6. ClientInv'
    BY <2>1, <2>2 DEF ClientInv, TypeOK
  <2>7. MainInv'
    BY <2>1, <2>2 DEF MainInv
  <2> QED BY <2>3, <2>4, <2>5, <2>6, <2>7
<1> QED BY <1>1, <1>2, <1>3 DEF Client

\* The steps that move no connection and no byte: the waits, the notifications
\* and the joins.
LEMMA QuietStep ==
  ASSUME Inv, NEW t \in Threads \ Clients, NEW from, NEW to, to \in Points,
         from \notin {"recv", "send", "done", "join_clients"},
         to \notin {"recv", "send", "join_clients"},
         Goto(t, from, to), waiting' \in SUBSET Workers,
         UNCHANGED <<queue_, shutdown_, accepted, client, held, got, closed, net>>,
         t = "main" /\ to = "done" => \A w \in Workers : pc[w] = "done"
  PROVE  Inv'
<1> USE ThreadsAssumption DEF Inv, Points, Threads, Moves, net
<1>1. pc[t] = from /\ Moves(t, to)
  BY GotoMoves
<1>2. TypeOK'
  BY <1>1 DEF TypeOK
<1>3. OwnerInv'
  BY <1>1 DEF OwnerInv
<1>4. WorkerInv'
  BY <1>1 DEF WorkerInv
<1>5. ClientInv'
  BY <1>1 DEF ClientInv
<1>6. MainInv'
  BY <1>1 DEF MainInv
<1> QED BY <1>2, <1>3, <1>4, <1>5, <1>6

LEMMA ServerStep == ASSUME Inv, Server PROVE Inv'
<1> USE ThreadsAssumption, MessageAssumption DEF Inv, Points, Threads, Moves
<1>1. CASE AcceptPush
  <2>1. pc["server"] = "accept" /\ Moves("server", "notify_one")
    BY <1>1, GotoMoves DEF AcceptPush
  <2>2. /\ backlog # <<>> /\ backlog' = Tail(backlog)
        /\ queue_' = Append(queue_, Head(backlog)) /\ accepted' = accepted + 1
        /\ UNCHANGED <<waiting, shutdown_, client, held, got, closed, up, down,
                       reset>>
    BY <1>1 DEF AcceptPush
  <2>3. /\ Head(backlog) \in Clients /\ Has(backlog, Head(backlog))
        /\ backlog' \in Seq(Clients) /\ Distinct(backlog')
        /\ \A c \in Clients : Has(backlog', c) <=> Has(backlog, c) /\ c # Head(backlog)
    BY <2>2, TailHas DEF TypeOK, OwnerInv
  <2>4. ~Has(queue_, Head(backlog))
    BY <2>3 DEF OwnerInv
  <2>5. /\ queue_' \in Seq(Clients) /\ Distinct(queue_')
        /\ \A c \in Clients : Has(queue_', c) <=> Has(queue_, c) \/ c = Head(backlog)
    BY <2>2, <2>3, <2>4, AppendHas DEF TypeOK, OwnerInv
  <2>6. TypeOK'
    BY <2>1, <2>2, <2>3, <2>4, <2>5 DEF TypeOK
  <2>7. OwnerInv'
    BY <2>1, <2>2, <2>3, <2>4, <2>5 DEF OwnerInv
  <2>8. WorkerInv'
    BY <2>1, <2>2, <2>3, <2>4, <2>5 DEF WorkerInv
  <2>9. ClientInv'
    BY <2>1, <2>2, <2>3, <2>4, <2>5 DEF ClientInv
  <2>10. MainInv'
    BY <2>1, <2>2, <2>3, <2>4, <2>5 DEF MainInv
  <2> QED BY <2>6, <2>7, <2>8, <2>9, <2>10
<1>2. CASE PushNotifies
  <2>1. waiting' \in SUBSET Workers
    BY <1>2 DEF PushNotifies, NotifyOne, TypeOK
  <2>2. PICK to \in {"accept", "done"} : Goto("server", "notify_one", to)
    BY <1>2 DEF PushNotifies
  <2> QED BY <1>2, <2>1, <2>2, QuietStep DEF PushNotifies
<1> QED BY <1>1, <1>2 DEF Server

LEMMA PopStep ==
  ASSUME Inv, NEW w \in Workers, Pop(w) \/ PopRetries(w) PROVE Inv'
<1> USE ThreadsAssumption, MessageAssumption DEF Inv, Points, Threads, Moves
<1>1. CASE PopWaits(w)
  BY <1>1, QuietStep DEF PopWaits, TypeOK
<1>2. CASE PopRetries(w)
  BY <1>2, QuietStep DEF PopRetries, TypeOK
<1>3. CASE PopEnds(w)
  BY <1>3, QuietStep DEF PopEnds, TypeOK
<1>4. CASE PopTakes(w)
  <2>1. pc[w] = "pop" /\ Moves(w, "recv")
    BY <1>4, GotoMoves DEF PopTakes
  <2>2. /\ queue_ # <<>> /\ queue_' = Tail(queue_)
        /\ client' = [client EXCEPT ![w] = Head(queue_)]
        /\ UNCHANGED <<waiting, shutdown_, accepted, held, got, closed, backlog, up,
                       down, reset>>
    BY <1>4 DEF PopTakes, net
  <2>3. /\ Head(queue_) \in Clients /\ Has(queue_, Head(queue_))
        /\ queue_' \in Seq(Clients) /\ Distinct(queue_')
        /\ \A c \in Clients : Has(queue_', c) <=> Has(queue_, c) /\ c # Head(queue_)
    BY <2>2, TailHas DEF TypeOK, OwnerInv
  <2>4. client[w] = Nobody
    BY <2>1 DEF WorkerInv
  <2>5. TypeOK'
    BY <2>1, <2>2, <2>3, <2>4 DEF TypeOK
  <2>6. OwnerInv'
    BY <2>1, <2>2, <2>3, <2>4 DEF OwnerInv, TypeOK
  <2>7. WorkerInv'
    BY <2>1, <2>2, <2>3, <2>4 DEF WorkerInv, TypeOK
  <2>8. ClientInv'
    BY <2>1, <2>2, <2>3, <2>4 DEF ClientInv
  <2>9. MainInv'
    BY <2>1, <2>2, <2>3, <2>4 DEF MainInv
  <2> QED BY <2>5, <2>6, <2>7, <2>8, <2>9
<1> QED BY <1>1, <1>2, <1>3, <1>4 DEF Pop

LEMMA HandleStep ==
  ASSUME Inv, NEW w \in Workers, Handle(w) PROVE Inv'
<1> USE ThreadsAssumption, MessageAssumption DEF Inv, Points, Threads, Moves
<1> DEFINE c == client[w]
<1>0. c \in Clients /\ pc[w] \in {"recv", "send"}
  BY GotoMoves DEF TypeOK, WorkerInv, Handle, Recv, RecvEnds, Send, SendFails, Goto
<1> HIDE DEF c
<1>1. CASE Recv(w)
  <2>1. pc[w] = "recv" /\ Moves(w, "send")
    BY <1>1, GotoMoves DEF Recv
  <2>2. /\ held' \in [Workers -> Nat] /\ up' \in [Clients -> Nat]
        /\ \A v \in Workers \ {w} : held'[v] = held[v]
        /\ \A d \in Clients \ {c} : up'[d] = up[d]
        /\ UNCHANGED <<queue_, waiting, shutdown_, accepted, client, got, closed,
                       backlog, down, reset>>
    BY <1>1, <1>0 DEF Recv, TypeOK, c
  <2>3. \A d \in Clients : pc'[d] = pc[d]
    BY <2>1
  <2>4. pc[c] # "connect"
    BY <1>0 DEF c, OwnerInv
  <2>5. TypeOK'
    BY <1>0, <2>1, <2>2, <2>3, <2>4 DEF TypeOK
  <2>6. OwnerInv'
    BY <2>1, <2>2, <2>3, <2>4 DEF OwnerInv
  <2>7. WorkerInv'
    BY <2>1, <2>2, <2>3, <2>4 DEF WorkerInv
  <2>8. ClientInv'
    BY <2>1, <2>2, <2>3, <2>4 DEF ClientInv
  <2>9. MainInv'
    BY <2>1, <2>2, <2>3, <2>4 DEF MainInv
  <2> QED BY <2>5, <2>6, <2>7, <2>8, <2>9
<1>2. CASE RecvEnds(w)
  <2>1. pc[w] = "recv" /\ Moves(w, "pop")
    BY <1>2, GotoMoves DEF RecvEnds
  <2>2. /\ client' = [client EXCEPT ![w] = Nobody] /\ held' = [held EXCEPT ![w] = 0]
        /\ closed' = closed \cup {c} /\ pc[c] = "done"
        /\ UNCHANGED <<queue_, waiting, shutdown_, accepted, got, backlog, up, down,
                       reset>>
    BY <1>2 DEF RecvEnds, Drop, net, c
  <2>3. \A d \in Clients : pc'[d] = pc[d]
    BY <2>1
  <2>4. ~Has(backlog, c) /\ ~Has(queue_, c) /\ \A v \in Workers : client'[v] # c
    BY <1>0, <2>2 DEF c, OwnerInv, TypeOK
  <2>5. TypeOK'
    BY <1>0, <2>1, <2>2, <2>3, <2>4 DEF TypeOK
  <2>6. OwnerInv'
    BY <2>1, <2>2, <2>3, <2>4 DEF OwnerInv, TypeOK, c
  <2>7. WorkerInv'
    BY <2>1, <2>2, <2>3, <2>4 DEF WorkerInv, TypeOK
  <2>8. ClientInv'
    BY <2>1, <2>2, <2>3, <2>4 DEF ClientInv
  <2>9. MainInv'
    BY <2>1, <2>2, <2>3, <2>4 DEF MainInv
  <2> QED BY <2>5, <2>6, <2>7, <2>8, <2>9
<1>3. CASE Send(w)
  <2> PICK n \in 1 .. held[w] :
         /\ Goto(w, "send", IF n = held[w] THEN "recv" ELSE "send")
         /\ held' = [held EXCEPT ![w] = @ - n]
         /\ IF pc[c] = "done" THEN UNCHANGED down
            ELSE down' = [down EXCEPT ![c] = @ + n]
    BY <1>3 DEF Send, c
  <2>1. pc[w] = "send" /\ Moves(w, IF n = held[w] THEN "recv" ELSE "send")
    BY GotoMoves
  <2>2. UNCHANGED <<queue_, waiting, shutdown_, accepted, client, got, closed,
                    backlog, up, reset>>
    BY <1>3 DEF Send
  <2>3. \A d \in Clients : pc'[d] = pc[d]
    BY <2>1
  <2>4. /\ held' \in [Workers -> Nat] /\ held'[w] = held[w] - n
        /\ \A v \in Workers \ {w} : held'[v] = held[v]
    BY DEF TypeOK
  <2>5. /\ down' \in [Clients -> Nat]
        /\ \A d \in Clients \ {c} : down'[d] = down[d]
    BY <1>0, n \in Nat, SMT DEF TypeOK
  <2>6. held'[w] = 0 <=> n = held[w]
    BY <2>4 DEF TypeOK
  <2>7. ~Has(backlog, c) /\ ~Has(queue_, c) /\ pc[c] # "connect"
    BY <1>0 DEF c, OwnerInv
  <2>8. TypeOK'
    BY <1>0, <2>1, <2>2, <2>3, <2>4, <2>5, <2>6, <2>7 DEF TypeOK
  <2>9. OwnerInv'
    BY <2>1, <2>2, <2>3, <2>4, <2>5, <2>6, <2>7 DEF OwnerInv
  <2>10. WorkerInv'
    BY <2>1, <2>2, <2>3, <2>4, <2>5, <2>6, <2>7 DEF WorkerInv
  <2>11. ClientInv'
    BY <2>1, <2>2, <2>3, <2>4, <2>5, <2>6, <2>7 DEF ClientInv
  <2>12. MainInv'
    BY <2>1, <2>2, <2>3, <2>4, <2>5, <2>6, <2>7 DEF MainInv
  <2> QED BY <2>8, <2>9, <2>10, <2>11, <2>12
<1>4. CASE SendFails(w)
  <2>1. pc[w] = "send" /\ Moves(w, "pop")
    BY <1>4, GotoMoves DEF SendFails
  <2>2. /\ client' = [client EXCEPT ![w] = Nobody] /\ held' = [held EXCEPT ![w] = 0]
        /\ closed' = closed \cup {c} /\ pc[c] = "done"
        /\ UNCHANGED <<queue_, waiting, shutdown_, accepted, got, backlog, up, down,
                       reset>>
    BY <1>4 DEF SendFails, Drop, net, c
  <2>3. \A d \in Clients : pc'[d] = pc[d]
    BY <2>1
  <2>4. ~Has(backlog, c) /\ ~Has(queue_, c) /\ \A v \in Workers : client'[v] # c
    BY <1>0, <2>2 DEF c, OwnerInv, TypeOK
  <2>5. TypeOK'
    BY <1>0, <2>1, <2>2, <2>3, <2>4 DEF TypeOK
  <2>6. OwnerInv'
    BY <2>1, <2>2, <2>3, <2>4 DEF OwnerInv, TypeOK, c
  <2>7. WorkerInv'
    BY <2>1, <2>2, <2>3, <2>4 DEF WorkerInv, TypeOK
  <2>8. ClientInv'
    BY <2>1, <2>2, <2>3, <2>4 DEF ClientInv
  <2>9. MainInv'
    BY <2>1, <2>2, <2>3, <2>4 DEF MainInv
  <2> QED BY <2>5, <2>6, <2>7, <2>8, <2>9
<1> QED BY <1>1, <1>2, <1>3, <1>4 DEF Handle

LEMMA MainStep == ASSUME Inv, Main PROVE Inv'
<1> USE ThreadsAssumption, MessageAssumption DEF Inv, Points, Threads, Moves
<1>1. CASE JoinClients
  <2>1. pc["main"] = "join_clients" /\ Moves("main", "notify_all")
    BY <1>1, GotoMoves DEF JoinClients
  <2>2. /\ shutdown_' = TRUE /\ \A c \in Clients : pc[c] = "done"
        /\ UNCHANGED <<queue_, waiting, accepted, client, held, got, closed,
                       backlog, up, down, reset>>
    BY <1>1 DEF JoinClients, net
  <2>3. TypeOK'
    BY <2>1, <2>2 DEF TypeOK
  <2>4. OwnerInv'
    BY <2>1, <2>2 DEF OwnerInv
  <2>5. WorkerInv'
    BY <2>1, <2>2 DEF WorkerInv
  <2>6. ClientInv'
    BY <2>1, <2>2 DEF ClientInv
  <2>7. MainInv'
    BY <2>1, <2>2 DEF MainInv
  <2> QED BY <2>3, <2>4, <2>5, <2>6, <2>7
<1>2. CASE ShutdownNotifies
  BY <1>2, QuietStep DEF ShutdownNotifies, NotifyAll
<1>3. CASE JoinServer
  BY <1>3, QuietStep DEF JoinServer, TypeOK
<1>4. CASE JoinWorkers
  BY <1>4, QuietStep DEF JoinWorkers, TypeOK
<1> QED BY <1>1, <1>2, <1>3, <1>4 DEF Main

LEMMA InvStep == Inv /\ [Next]_vars => Inv'
<1> SUFFICES ASSUME Inv, [Next]_vars PROVE Inv'
  OBVIOUS
<1>1. CASE UNCHANGED vars
  BY <1>1 DEF vars, net, Inv, TypeOK, OwnerInv, WorkerInv, ClientInv, MainInv
<1> QED BY <1>1, ClientStep, ServerStep, PopStep, HandleStep, MainStep DEF Next, Ended

LEMMA InvAlways == Spec => []Inv
BY InvInit, InvStep, PTL DEF Spec
-----------------------------------------------------------------------------
\* The bytes in hand of each connection, those of the worker that has it.
hands == [c \in Clients |-> InHands(c)]
Bytes == \A c \in Clients : pc[c] \in {"recv", "close"} =>
           up[c] + down[c] + got[c] + hands[c] = Message
Hands == \A c \in Clients :
           /\ \A w \in Workers : client[w] = c => hands[c] = held[w]
           /\ (\A w \in Workers : client[w] # c) => hands[c] = 0

LEMMA HandsKnown == Inv => Hands
<1> SUFFICES ASSUME Inv, NEW c \in Clients
             PROVE  /\ \A w \in Workers : client[w] = c => hands[c] = held[w]
                    /\ (\A w \in Workers : client[w] # c) => hands[c] = 0
  BY DEF Hands
<1>0. hands[c] = InHands(c)
  BY DEF hands
<1>1. ASSUME NEW w \in Workers, client[w] = c PROVE hands[c] = held[w]
  <2>1. Held(c) = {w}
    BY <1>1, ThreadsAssumption DEF Held, Inv, OwnerInv
  <2> QED BY <1>0, <2>1 DEF InHands
<1>2. (\A w \in Workers : client[w] # c) => hands[c] = 0
  BY <1>0 DEF InHands, Held
<1> QED BY <1>1, <1>2

LEMMA HandsType == Inv /\ Hands => \A c \in Clients : hands[c] \in Nat
<1> SUFFICES ASSUME Inv, Hands, NEW c \in Clients PROVE hands[c] \in Nat
  OBVIOUS
<1>1. CASE \E w \in Workers : client[w] = c
  <2> PICK w \in Workers : client[w] = c
    BY <1>1
  <2> QED BY DEF Hands, Inv, TypeOK
<1>2. CASE \A w \in Workers : client[w] # c
  BY <1>2 DEF Hands
<1> QED BY <1>1, <1>2

\* Whoever has the connection of d keeps it, with the same bytes.
Keeps(d) == \A v \in Workers : /\ client'[v] = d <=> client[v] = d
                               /\ client[v] = d => held'[v] = held[v]

LEMMA HandsSame ==
  ASSUME Hands, Hands', NEW d \in Clients, Keeps(d)
  PROVE  hands'[d] = hands[d]
<1>1. CASE \E v \in Workers : client[v] = d
  <2> PICK v \in Workers : client[v] = d
    BY <1>1
  <2>1. client'[v] = d /\ held'[v] = held[v]
    BY DEF Keeps
  <2> QED BY <2>1 DEF Hands
<1>2. CASE \A v \in Workers : client[v] # d
  <2>1. \A v \in Workers : client'[v] # d
    BY <1>2 DEF Keeps
  <2> QED BY <1>2, <2>1 DEF Hands
<1> QED BY <1>1, <1>2

LEMMA BytesInit == Init => Bytes
BY ThreadsAssumption DEF Init, Bytes

\* A step of a client leaves the workers' bytes alone.
LEMMA BytesClient ==
  ASSUME Inv, Hands, Hands', Bytes, NEW c \in Clients, Client(c) PROVE Bytes'
<1> USE MessageAssumption
<1>0. /\ TypeOK /\ c \in Threads
      /\ \A d \in Clients : hands[d] \in Nat /\ hands'[d] = hands[d]
  <2>1. UNCHANGED <<client, held>>
    BY DEF Client, Connect, ClientRecv, ClientClose
  <2>2. \A d \in Clients : Keeps(d)
    BY <2>1 DEF Keeps
  <2> QED BY <2>2, HandsSame, HandsType DEF Inv, Threads
<1>1. CASE Connect(c)
  <2>1. /\ pc[c] = "connect" /\ \A d \in Clients \ {c} : pc'[d] = pc[d]
        /\ up' = [up EXCEPT ![c] = Message] /\ UNCHANGED <<down, got>>
    BY <1>0, <1>1, GotoMoves DEF Connect, Moves, Threads, Points
  <2>2. down[c] = 0 /\ got[c] = 0 /\ hands[c] = 0
    BY <2>1 DEF Inv, ClientInv, OwnerInv, Hands
  <2>3. up'[c] + down'[c] + got'[c] + hands'[c] = Message
    BY <1>0, <2>1, <2>2 DEF TypeOK
  <2>4. \A d \in Clients \ {c} : UNCHANGED <<pc[d], up[d], down[d], got[d], hands[d]>>
    BY <1>0, <2>1 DEF TypeOK
  <2> QED BY <2>3, <2>4 DEF Bytes
<1>2. CASE ClientRecv(c)
  <2>1. /\ pc[c] = "recv" /\ \A d \in Clients \ {c} : pc'[d] = pc[d]
        /\ c \notin closed /\ UNCHANGED up
    BY <1>0, <1>2, GotoMoves DEF ClientRecv, Moves, Threads, Points, Inv, ClientInv
  <2>2. PICK n \in 1 .. down[c] : /\ got' = [got EXCEPT ![c] = n]
                                  /\ down' = [down EXCEPT ![c] = @ - n]
    BY <1>2, <2>1 DEF ClientRecv
  <2>3. got[c] = 0 /\ got'[c] = n /\ down'[c] = down[c] - n
    BY <2>1, <2>2 DEF Inv, ClientInv, TypeOK
  <2>4. up'[c] + down'[c] + got'[c] + hands'[c] = Message
    BY <1>0, <2>1, <2>3 DEF Bytes, TypeOK
  <2>5. \A d \in Clients \ {c} : UNCHANGED <<pc[d], up[d], down[d], got[d], hands[d]>>
    BY <1>0, <2>1, <2>2 DEF TypeOK
  <2> QED BY <2>4, <2>5 DEF Bytes
<1>3. CASE ClientClose(c)
  <2>1. /\ pc'[c] = "done" /\ \A d \in Clients \ {c} : pc'[d] = pc[d]
        /\ UNCHANGED <<up, got>> /\ \A d \in Clients \ {c} : down'[d] = down[d]
    BY <1>0, <1>3, GotoMoves DEF ClientClose, Moves, Threads, Points, TypeOK
  <2> QED BY <1>0, <2>1 DEF Bytes
<1> QED BY <1>1, <1>2, <1>3 DEF Client

\* A worker moves bytes of its own connection only, from the buffer to its
\* hands or from its hands to the buffer.
LEMMA BytesWorker ==
  ASSUME Inv, Hands, Hands', Bytes,
         NEW w \in Workers, PopTakes(w) \/ Handle(w)
  PROVE  Bytes'
<1> USE ThreadsAssumption
<1>0. /\ TypeOK /\ w \in Threads
      /\ \A d \in Clients : hands[d] \in Nat /\ pc'[d] = pc[d]
  <2>1. \E from, to : to \in Points /\ Goto(w, from, to)
    BY DEF PopTakes, Handle, Recv, RecvEnds, Send, SendFails, Points
  <2> QED BY <2>1, GotoMoves, HandsType DEF Inv, Threads, Moves
<1>1. CASE PopTakes(w)
  <2>1. /\ client[w] = Nobody /\ client' = [client EXCEPT ![w] = Head(queue_)]
        /\ held[w] = 0 /\ UNCHANGED <<held, up, down, got>>
    BY <1>1 DEF PopTakes, Goto, Inv, WorkerInv, net
  <2>2. /\ Head(queue_) \in Clients
        /\ \A v \in Workers : client[v] # Head(queue_)
    BY <1>1, TailHas DEF PopTakes, Inv, TypeOK, OwnerInv
  <2>3. \A d \in Clients \ {Head(queue_)} : Keeps(d)
    BY <2>1, <2>2 DEF Keeps, Inv, TypeOK
  <2>4. hands[Head(queue_)] = 0
    BY <2>2 DEF Hands
  <2>5. hands'[Head(queue_)] = 0
    BY <2>1, <2>2 DEF Hands, Inv, TypeOK
  <2>6. \A d \in Clients : hands'[d] = hands[d]
    BY <2>3, <2>4, <2>5, HandsSame
  <2> QED BY <1>0, <2>1, <2>6 DEF Bytes
<1>2. ASSUME Drop(w), pc[client[w]] = "done", UNCHANGED <<up, down, got>>,
             client[w] \in Clients
      PROVE  Bytes'
  <2>0. \A d \in Clients \ {client[w]} : Keeps(d)
    BY <1>2 DEF Drop, Keeps, Inv, TypeOK
  <2>1. \A d \in Clients \ {client[w]} : hands'[d] = hands[d]
    BY <2>0, HandsSame
  <2> QED BY <1>0, <1>2, <2>1 DEF Bytes
<1>3. CASE RecvEnds(w) \/ SendFails(w)
  <2>1. client[w] \in Clients
    BY <1>3 DEF RecvEnds, SendFails, Goto, Inv, WorkerInv, TypeOK
  <2> QED BY <1>2, <1>3, <2>1 DEF RecvEnds, SendFails, net
<1>4. CASE Recv(w)
  <2>1. client[w] \in Clients /\ held[w] = 0 /\ UNCHANGED <<client, down, got>>
    BY <1>4 DEF Recv, Goto, Inv, WorkerInv, TypeOK
  <2>2. PICK n \in 1 .. up[client[w]] : /\ held' = [held EXCEPT ![w] = n]
                                        /\ up' = [up EXCEPT ![client[w]] = @ - n]
    BY <1>4 DEF Recv
  <2>0. \A d \in Clients \ {client[w]} : Keeps(d)
    BY <2>1, <2>2 DEF Keeps, Inv, TypeOK
  <2>3. \A d \in Clients \ {client[w]} : hands'[d] = hands[d]
    BY <2>0, HandsSame
  <2>4. hands[client[w]] = 0 /\ hands'[client[w]] = n
    BY <2>1, <2>2 DEF Hands, Inv, TypeOK
  <2>5. pc[client[w]] \in {"recv", "close"} =>
          LET c == client[w] IN up'[c] + down'[c] + got'[c] + hands'[c] = Message
    BY <1>0, <2>1, <2>2, <2>4 DEF Bytes, TypeOK
  <2>6. \A d \in Clients \ {client[w]} :
          UNCHANGED <<pc[d], up[d], down[d], got[d], hands[d]>>
    BY <1>0, <2>1, <2>2, <2>3 DEF TypeOK
  <2> QED BY <1>0, <2>1, <2>5, <2>6 DEF Bytes
<1>5. CASE Send(w)
  <2>1. client[w] \in Clients /\ UNCHANGED <<client, up, got>>
    BY <1>5 DEF Send, Goto, Inv, WorkerInv, TypeOK
  <2>2. PICK n \in 1 .. held[w] :
          /\ held' = [held EXCEPT ![w] = @ - n]
          /\ IF pc[client[w]] = "done" THEN UNCHANGED down
             ELSE down' = [down EXCEPT ![client[w]] = @ + n]
    BY <1>5 DEF Send
  <2>0. \A d \in Clients \ {client[w]} : Keeps(d)
    BY <2>1, <2>2 DEF Keeps, Inv, TypeOK
  <2>3. \A d \in Clients \ {client[w]} : hands'[d] = hands[d]
    BY <2>0, HandsSame
  <2>4. hands[client[w]] = held[w] /\ hands'[client[w]] = held[w] - n
    BY <2>1, <2>2 DEF Hands, Inv, TypeOK
  <2>5. pc[client[w]] \in {"recv", "close"} =>
          LET c == client[w] IN up'[c] + down'[c] + got'[c] + hands'[c] = Message
    BY <1>0, <2>1, <2>2, <2>4 DEF Bytes, TypeOK
  <2>6. \A d \in Clients \ {client[w]} :
          UNCHANGED <<pc[d], up[d], down[d], got[d], hands[d]>>
    BY <1>0, <2>1, <2>2, <2>3 DEF TypeOK
  <2> QED BY <1>0, <2>1, <2>5, <2>6 DEF Bytes
<1> QED BY <1>1, <1>3, <1>4, <1>5 DEF Handle

\* The queue, the condition variable and main() touch no byte.
LEMMA BytesOther ==
  ASSUME Bytes, UNCHANGED <<client, held, up, down, got>>,
         \A c \in Clients : pc'[c] = pc[c]
  PROVE  Bytes'
BY DEF Bytes, hands, InHands, Held

LEMMA BytesStep == Inv /\ Hands /\ Hands' /\ Bytes /\ [Next]_vars => Bytes'
<1> SUFFICES ASSUME Inv, Hands, Hands', Bytes, [Next]_vars PROVE Bytes'
  OBVIOUS
<1> USE ThreadsAssumption
<1>1. ASSUME NEW t \in Threads \ Clients, NEW from, NEW to \in Points,
             Goto(t, from, to), UNCHANGED <<client, held, up, down, got>>
      PROVE  Bytes'
  <2>1. \A c \in Clients : pc'[c] = pc[c]
    BY <1>1, GotoMoves DEF Inv, Moves, Threads
  <2> QED BY <1>1, <2>1, BytesOther
<1>2. CASE Server
  BY <1>1, <1>2 DEF Server, AcceptPush, PushNotifies, net, Threads, Points
<1>3. CASE Main
  BY <1>1, <1>3 DEF Main, JoinClients, ShutdownNotifies, JoinServer, JoinWorkers, net,
                    Threads, Points
<1>4. ASSUME NEW w \in Workers, PopWaits(w) \/ PopEnds(w) \/ PopRetries(w)
      PROVE  Bytes'
  BY <1>1, <1>4 DEF PopWaits, PopEnds, PopRetries, net, Threads, Points
<1>5. CASE UNCHANGED vars
  BY <1>5, BytesOther DEF vars, net
<1> QED BY <1>2, <1>3, <1>4, <1>5, BytesClient, BytesWorker DEF Next, Pop, Ended

\* The echo neither loses nor invents a byte while the client is there, however
\* recv() and send() cut them (handle_client and send_all, l.46-57).
THEOREM BytesKept == Spec => []NoByteLost
<1>1. Bytes => NoByteLost
  BY DEF Bytes, NoByteLost, hands
<1> QED BY <1>1, InvAlways, HandsKnown, BytesInit, BytesStep, PTL DEF Spec

\* A Socket is moved from the backlog to the queue, to a worker and to its
\* close, and is never in two of these places (ConnectionQueue, l.16-43).
THEOREM SocketHasOneOwner == Spec => []OneOwner
<1>1. Inv => OneOwner
  <2> SUFFICES ASSUME Inv, NEW c \in Clients
               PROVE  Cardinality(Places(c)) = IF pc[c] = "connect" THEN 0 ELSE 1
    BY DEF OneOwner
  <2>1. CASE pc[c] = "connect"
    <3>1. Places(c) = {}
      BY <2>1 DEF Places, Inv, OwnerInv, Has
    <3> QED BY <2>1, <3>1, FS_EmptySet
  <2>2. CASE Has(backlog, c)
    <3>1. PICK k \in DOMAIN backlog : backlog[k] = c
      BY <2>2 DEF Has
    <3>2. Places(c) = {<<"backlog", k>>}
      BY <2>2, <3>1 DEF Places, Inv, OwnerInv, Has, Distinct
    <3> QED BY <2>1, <2>2, <3>2, FS_Singleton DEF Inv, OwnerInv
  <2>3. CASE Has(queue_, c)
    <3>1. PICK k \in DOMAIN queue_ : queue_[k] = c
      BY <2>3 DEF Has
    <3>2. Places(c) = {<<"queue", k>>}
      BY <2>3, <3>1 DEF Places, Inv, OwnerInv, Has, Distinct
    <3> QED BY <2>1, <2>3, <3>2, FS_Singleton DEF Inv, OwnerInv
  <2>4. CASE c \in closed
    <3>1. Places(c) = {<<"closed", c>>}
      BY <2>4 DEF Places, Inv, OwnerInv, Has
    <3> QED BY <2>1, <2>4, <3>1, FS_Singleton DEF Inv, OwnerInv
  <2>5. ASSUME NEW w \in Workers, client[w] = c
        PROVE  Cardinality(Places(c)) = IF pc[c] = "connect" THEN 0 ELSE 1
    <3>1. Places(c) = {<<"worker", w>>}
      BY <2>5, ThreadsAssumption DEF Places, Inv, OwnerInv, Has
    <3> QED BY <2>1, <2>5, <3>1, FS_Singleton DEF Inv, OwnerInv
  <2> QED BY <2>1, <2>2, <2>3, <2>4, <2>5 DEF Inv, OwnerInv
<1> QED BY <1>1, InvAlways, PTL

\* When main() has joined everybody, every connection was served and closed
\* (the order of the joins and of shutdown(), l.97-106).
THEOREM MainLeavesNothingOpen == Spec => []AllClosedAtEnd
<1>1. Inv => AllClosedAtEnd
  <2> SUFFICES ASSUME Inv, pc["main"] = "done"
               PROVE  /\ closed = Clients /\ queue_ = <<>>
                      /\ \A w \in Workers : client[w] = Nobody
    BY DEF AllClosedAtEnd
  <2>1. \A c \in Clients : pc[c] = "done"
    BY DEF Inv, MainInv
  <2>2. \A w \in Workers : client[w] = Nobody
    BY DEF Inv, MainInv, WorkerInv
  <2>3. \A c \in Clients : ~Has(backlog, c) /\ ~Has(queue_, c)
    BY <2>1 DEF Inv, ClientInv
  <2>4. queue_ = <<>>
    BY <2>3, EmptyHas DEF Inv, TypeOK
  <2>5. \A c \in Clients : c \in closed
    BY <2>1, <2>2, <2>3, ThreadsAssumption DEF Inv, OwnerInv
  <2>6. closed = Clients
    BY <2>5 DEF Inv, TypeOK
  <2> QED BY <2>2, <2>4, <2>6
<1> QED BY <1>1, InvAlways, PTL
-----------------------------------------------------------------------------
(* Nobody waits for ever: the counting behind the waits. *)

LEMMA NextCases ==
  ASSUME [Next]_vars
  PROVE  \/ \E c \in Clients : Connect(c) \/ ClientRecv(c) \/ ClientClose(c)
         \/ AcceptPush \/ PushNotifies
         \/ \E w \in Workers :
              \/ PopWaits(w) \/ PopRetries(w) \/ PopEnds(w) \/ PopTakes(w)
              \/ Recv(w) \/ RecvEnds(w) \/ Send(w) \/ SendFails(w)
         \/ JoinClients \/ ShutdownNotifies \/ JoinServer \/ JoinWorkers
         \/ UNCHANGED vars
BY DEF Next, Client, Server, Pop, Handle, Main, Ended

\* The threads between two steps, and those that sleep: a worker that waits is
\* inside wait(), and nobody sleeps once shutdown() has notified.
WaitInv == /\ \A w \in waiting : pc[w] = "wait"
           /\ shutdown_ /\ waiting # {} => pc["main"] = "notify_all"
           /\ pc["main"] \in {"join_clients", "notify_all", "join_server", "join_workers",
                              "done"}
           /\ \A w \in Workers : /\ pc[w] \in {"pop", "wait", "recv", "send", "done"}
                                 /\ pc[w] = "done" => shutdown_
                                 /\ pc[w] = "send" => held[w] > 0

\* The server accepts as many connections as there are clients: what it has still
\* to accept is in the backlog or about to connect.
Connecting == {c \in Clients : pc[c] = "connect"}
CountInv == /\ pc["server"] \in {"accept", "notify_one", "done"}
            /\ pc["server"] = "accept" => accepted < Cardinality(Clients)
            /\ pc["server"] = "done" => accepted >= Cardinality(Clients)
            /\ accepted + Len(backlog) + Cardinality(Connecting) = Cardinality(Clients)

\* As many threads are on their way to the queue as it has connections, while a
\* worker sleeps.
Coming == {t \in {"server"} : pc[t] = "notify_one"}
          \cup {w \in Workers \ waiting : pc[w] \in {"pop", "wait"}}
WakeInv == waiting # {} => Len(queue_) <= Cardinality(Coming)

LEMMA WaitInit == Init => WaitInv
BY ThreadsAssumption DEF Init, WaitInv

\* Steps of the clients and of the server.
LEMMA WaitFrame ==
  ASSUME Inv, WaitInv, waiting' \subseteq waiting, UNCHANGED <<shutdown_, held>>,
         pc'["main"] = pc["main"], \A w \in Workers : pc'[w] = pc[w]
  PROVE  WaitInv'
BY DEF WaitInv, Inv, TypeOK

LEMMA WaitStep == Inv /\ WaitInv /\ [Next]_vars => WaitInv'
<1> SUFFICES ASSUME Inv, WaitInv, [Next]_vars PROVE WaitInv'
  OBVIOUS
<1> USE ThreadsAssumption DEF Inv, WaitInv, Points, Threads, Moves
<1>1. ASSUME NEW c \in Clients, Connect(c) \/ ClientRecv(c) \/ ClientClose(c)
      PROVE  WaitInv'
  <2>1. \E from, to : to \in Points /\ Goto(c, from, to)
    BY <1>1 DEF Connect, ClientRecv, ClientClose
  <2>2. \A t \in Threads \ {c} : pc'[t] = pc[t]
    BY <2>1, GotoMoves
  <2>3. UNCHANGED <<waiting, shutdown_, held>>
    BY <1>1 DEF Connect, ClientRecv, ClientClose
  <2> QED BY <2>2, <2>3, WaitFrame
<1>2. CASE AcceptPush \/ PushNotifies
  <2>1. PICK from, to \in {"accept", "notify_one", "done"} : Goto("server", from, to)
    BY <1>2 DEF AcceptPush, PushNotifies
  <2>2. \A t \in Threads \ {"server"} : pc'[t] = pc[t]
    BY <2>1 DEF Goto, TypeOK
  <2>3. waiting' \subseteq waiting /\ UNCHANGED <<shutdown_, held>>
    BY <1>2 DEF AcceptPush, PushNotifies, NotifyOne
  <2> QED BY <2>2, <2>3, WaitFrame
<1>3. ASSUME NEW w \in Workers, PopWaits(w) PROVE WaitInv'
  <2>1. pc[w] = "pop" /\ Moves(w, "wait")
    BY <1>3, GotoMoves DEF PopWaits
  <2> QED BY <1>3, <2>1 DEF PopWaits, TypeOK
<1>4. ASSUME NEW w \in Workers, PopRetries(w) PROVE WaitInv'
  <2>1. pc[w] = "wait" /\ Moves(w, "pop")
    BY <1>4, GotoMoves DEF PopRetries
  <2>2. waiting' = waiting \ {w} /\ UNCHANGED <<shutdown_, held>>
    BY <1>4 DEF PopRetries
  <2> QED BY <2>1, <2>2 DEF TypeOK
<1>5. ASSUME NEW w \in Workers, PopEnds(w) PROVE WaitInv'
  <2>1. pc[w] = "pop" /\ Moves(w, "done")
    BY <1>5, GotoMoves DEF PopEnds
  <2> QED BY <1>5, <2>1 DEF PopEnds, TypeOK
<1>6. ASSUME NEW w \in Workers, PopTakes(w) PROVE WaitInv'
  <2>1. pc[w] = "pop" /\ Moves(w, "recv")
    BY <1>6, GotoMoves DEF PopTakes
  <2> QED BY <1>6, <2>1 DEF PopTakes, TypeOK
<1>7. ASSUME NEW w \in Workers, Recv(w) PROVE WaitInv'
  <2>1. pc[w] = "recv" /\ Moves(w, "send")
    BY <1>7, GotoMoves DEF Recv
  <2>2. held' \in [Workers -> Nat] /\ held'[w] > 0 /\ \A v \in Workers \ {w} : held'[v] = held[v]
    <3>1. client[w] \in Clients
      BY <2>1 DEF WorkerInv, TypeOK
    <3> QED BY <1>7, <3>1 DEF Recv, TypeOK
  <2> QED BY <1>7, <2>1, <2>2 DEF Recv, TypeOK
<1>8. ASSUME NEW w \in Workers, RecvEnds(w) \/ SendFails(w) PROVE WaitInv'
  <2>1. pc[w] \in {"recv", "send"} /\ Moves(w, "pop")
    BY <1>8, GotoMoves DEF RecvEnds, SendFails
  <2>2. \A v \in Workers \ {w} : held'[v] = held[v]
    BY <1>8 DEF RecvEnds, SendFails, Drop, TypeOK
  <2>3. UNCHANGED <<waiting, shutdown_>>
    BY <1>8 DEF RecvEnds, SendFails
  <2> QED BY <2>1, <2>2, <2>3 DEF TypeOK
<1>9. ASSUME NEW w \in Workers, Send(w) PROVE WaitInv'
  <2>1. PICK n \in 1 .. held[w] :
          /\ Goto(w, "send", IF n = held[w] THEN "recv" ELSE "send")
          /\ held' = [held EXCEPT ![w] = @ - n]
    BY <1>9 DEF Send
  <2>2. pc[w] = "send" /\ Moves(w, IF n = held[w] THEN "recv" ELSE "send")
    BY <2>1, GotoMoves
  <2>3. UNCHANGED <<waiting, shutdown_>>
    BY <1>9 DEF Send
  <2>4. held[w] \in Nat /\ held'[w] = held[w] - n /\ \A v \in Workers \ {w} : held'[v] = held[v]
    BY <2>1 DEF TypeOK
  <2>5. /\ pc'[w] \in {"recv", "send"} /\ pc'[w] = "send" => held'[w] > 0
        /\ \A v \in Threads \ {w} : pc'[v] = pc[v]
    BY <2>2, <2>4
  <2> QED BY <2>2, <2>3, <2>4, <2>5 DEF TypeOK
<1>10. CASE JoinClients
  <2>1. pc["main"] = "join_clients" /\ Moves("main", "notify_all")
    BY <1>10, GotoMoves DEF JoinClients
  <2> QED BY <1>10, <2>1 DEF JoinClients, TypeOK
<1>11. CASE ShutdownNotifies
  <2>1. Moves("main", "join_server")
    BY <1>11, GotoMoves DEF ShutdownNotifies
  <2> QED BY <1>11, <2>1 DEF ShutdownNotifies, NotifyAll, TypeOK
<1>12. CASE JoinServer \/ JoinWorkers
  <2>1. \E to \in {"join_workers", "done"} : Moves("main", to)
    BY <1>12, GotoMoves DEF JoinServer, JoinWorkers
  <2>2. pc["main"] \in {"join_server", "join_workers"} /\ UNCHANGED <<waiting, shutdown_, held>>
    BY <1>12 DEF JoinServer, JoinWorkers, Goto
  <2>3. waiting = {}
    BY <2>2 DEF MainInv
  <2> QED BY <2>1, <2>2, <2>3 DEF TypeOK
<1>13. CASE UNCHANGED vars
  BY <1>13 DEF vars
<1> QED BY <1>1, <1>2, <1>3, <1>4, <1>5, <1>6, <1>7, <1>8, <1>9, <1>10, <1>11, <1>12,
           <1>13, NextCases
-----------------------------------------------------------------------------
LEMMA Counts ==
  /\ Cardinality(Clients) \in Nat /\ Cardinality(Clients) > 0
  /\ Cardinality(Connecting) \in Nat /\ IsFiniteSet(Connecting)
<1>1. Connecting \subseteq Clients
  BY DEF Connecting
<1> QED BY <1>1, FiniteAssumption, FS_Subset, FS_CardinalityType, FS_EmptySet

LEMMA CountInit == Init => CountInv
<1> SUFFICES ASSUME Init PROVE CountInv
  OBVIOUS
<1>1. Connecting = Clients /\ pc["server"] = "accept"
  BY ThreadsAssumption DEF Init, Connecting
<1>2. accepted = 0 /\ Len(backlog) = 0
  BY DEF Init
<1> QED BY <1>1, <1>2, Counts DEF CountInv

LEMMA CountFrame ==
  ASSUME CountInv, UNCHANGED <<accepted, backlog>>, pc'["server"] = pc["server"],
         \A c \in Clients : pc'[c] = "connect" <=> pc[c] = "connect"
  PROVE  CountInv'
<1>1. Connecting' = Connecting
  BY DEF Connecting
<1> QED BY <1>1 DEF CountInv

LEMMA CountStep == Inv /\ CountInv /\ [Next]_vars => CountInv'
<1> SUFFICES ASSUME Inv, CountInv, [Next]_vars PROVE CountInv'
  OBVIOUS
<1> USE ThreadsAssumption DEF Points, Threads, Moves
<1>0. TypeOK /\ accepted \in Nat /\ backlog \in Seq(Clients) /\ Len(backlog) \in Nat
  BY DEF Inv, TypeOK
<1>1. ASSUME NEW c \in Clients, Connect(c) PROVE CountInv'
  <2>1. pc[c] = "connect" /\ Moves(c, "recv")
    BY <1>0, <1>1, GotoMoves DEF Connect
  <2>2. Connecting' = Connecting \ {c} /\ c \in Connecting
    BY <2>1 DEF Connecting
  <2>3. Cardinality(Connecting') = Cardinality(Connecting) - 1
    BY <2>2, Counts, FS_RemoveElement
  <2>4. Len(backlog') = Len(backlog) + 1 /\ accepted' = accepted
    BY <1>0, <1>1 DEF Connect
  <2>5. pc'["server"] = pc["server"]
    BY <2>1
  <2> QED BY <1>0, <2>3, <2>4, <2>5, Counts DEF CountInv
<1>2. ASSUME NEW c \in Clients, ClientRecv(c) \/ ClientClose(c) PROVE CountInv'
  <2>1. pc[c] \in {"recv", "close"} /\ \E to \in {"close", "done"} : Moves(c, to)
    BY <1>0, <1>2, GotoMoves DEF ClientRecv, ClientClose
  <2> QED BY <1>2, <2>1, CountFrame DEF ClientRecv, ClientClose
<1>3. CASE AcceptPush
  <2>1. pc["server"] = "accept" /\ Moves("server", "notify_one")
    BY <1>0, <1>3, GotoMoves DEF AcceptPush
  <2>2. accepted' = accepted + 1 /\ Len(backlog') = Len(backlog) - 1
    BY <1>0, <1>3 DEF AcceptPush
  <2>3. Connecting' = Connecting
    BY <2>1 DEF Connecting
  <2> QED BY <1>0, <2>1, <2>2, <2>3, Counts DEF CountInv
<1>4. CASE PushNotifies
  <2>1. /\ UNCHANGED <<accepted, backlog>>
        /\ pc' = [pc EXCEPT !["server"] = IF accepted < Cardinality(Clients)
                                          THEN "accept" ELSE "done"]
    BY <1>4 DEF PushNotifies, Goto, net
  <2>2. Connecting' = Connecting
    BY <1>0, <2>1 DEF Connecting, TypeOK
  <2> QED BY <1>0, <2>1, <2>2, Counts DEF CountInv, TypeOK
<1>5. ASSUME NEW t \in Workers \cup {"main"}, NEW from, NEW to \in Points, Goto(t, from, to),
             UNCHANGED <<accepted, backlog>>
      PROVE  CountInv'
  <2>1. \A u \in Threads \ {t} : pc'[u] = pc[u]
    BY <1>0, <1>5 DEF Goto, TypeOK
  <2> QED BY <1>5, <2>1, CountFrame
<1>6. ASSUME NEW w \in Workers,
             \/ PopWaits(w) \/ PopRetries(w) \/ PopEnds(w) \/ PopTakes(w)
             \/ Recv(w) \/ RecvEnds(w) \/ SendFails(w)
      PROVE  CountInv'
  BY <1>5, <1>6 DEF PopWaits, PopRetries, PopEnds, PopTakes, Recv, RecvEnds, SendFails, net
<1>7. ASSUME NEW w \in Workers, Send(w) PROVE CountInv'
  <2>1. \E to \in {"recv", "send"} : Goto(w, "send", to)
    BY <1>7 DEF Send
  <2> QED BY <1>5, <1>7, <2>1 DEF Send
<1>8. CASE JoinClients \/ ShutdownNotifies \/ JoinServer \/ JoinWorkers
  BY <1>5, <1>8 DEF JoinClients, ShutdownNotifies, JoinServer, JoinWorkers, net
<1>9. CASE UNCHANGED vars
  BY <1>9, CountFrame DEF vars, net
<1> QED BY <1>1, <1>2, <1>3, <1>4, <1>6, <1>7, <1>8, <1>9, NextCases
-----------------------------------------------------------------------------
LEMMA ComingFinite ==
  /\ IsFiniteSet(Coming) /\ Cardinality(Coming) \in Nat
  /\ IsFiniteSet(Coming') /\ Cardinality(Coming') \in Nat
<1>1. IsFiniteSet(Workers \cup {"server"})
  BY FiniteAssumption, FS_Singleton, FS_Union
<1>2. Coming \subseteq Workers \cup {"server"} /\ Coming' \subseteq Workers \cup {"server"}
  BY DEF Coming
<1> QED BY <1>1, <1>2, FS_Subset, FS_CardinalityType

LEMMA WakeFrame ==
  ASSUME WakeInv, UNCHANGED <<waiting, queue_>>,
         \A t \in Workers \cup {"server"} :
           pc'[t] \in {"notify_one", "pop", "wait"} \/ pc[t] \in {"notify_one", "pop", "wait"}
             => pc'[t] = pc[t]
  PROVE  WakeInv'
<1>1. Coming' = Coming
  BY DEF Coming
<1> QED BY <1>1 DEF WakeInv

\* One more on its way.
LEMMA WakeMore ==
  ASSUME WakeInv, NEW t, t \notin Coming, Coming' = Coming \cup {t}, waiting' \subseteq waiting,
         Len(queue_) \in Nat, Len(queue_') \in Nat, Len(queue_') <= Len(queue_) + 1
  PROVE  WakeInv'
<1>1. Cardinality(Coming') = Cardinality(Coming) + 1
  BY ComingFinite, FS_AddElement
<1>2. waiting' # {} => waiting # {}
  OBVIOUS
<1> QED BY <1>1, <1>2, ComingFinite DEF WakeInv

LEMMA WakeStep == Inv /\ WaitInv /\ WakeInv /\ [Next]_vars => WakeInv'
<1> SUFFICES ASSUME Inv, WaitInv, WakeInv, [Next]_vars PROVE WakeInv'
  OBVIOUS
<1> USE ThreadsAssumption DEF Points, Threads
<1>0. TypeOK /\ queue_ \in Seq(Clients) /\ Len(queue_) \in Nat /\ waiting \subseteq Workers
  BY DEF Inv, TypeOK
<1>1. ASSUME NEW c \in Clients, Connect(c) \/ ClientRecv(c) \/ ClientClose(c)
      PROVE  WakeInv'
  <2>1. \A t \in Workers \cup {"server"} : pc'[t] = pc[t]
    BY <1>0, <1>1 DEF Connect, ClientRecv, ClientClose, Goto, TypeOK
  <2> QED BY <1>1, <2>1, WakeFrame DEF Connect, ClientRecv, ClientClose
\* A connection comes with the thread that will notify.
<1>2. CASE AcceptPush
  <2>1. Coming' = Coming \cup {"server"} /\ "server" \notin Coming
    BY <1>0, <1>2 DEF AcceptPush, Goto, Coming, TypeOK
  <2>2. Len(queue_') = Len(queue_) + 1 /\ waiting' = waiting
    BY <1>0, <1>2, TailHas DEF AcceptPush, TypeOK
  <2> QED BY <1>0, <2>1, <2>2, WakeMore
\* The notification goes from the server to a sleeping worker.
<1>3. CASE PushNotifies
  <2>1. CASE waiting = {}
    BY <1>3, <2>1 DEF PushNotifies, NotifyOne, WakeInv
  <2>2. CASE waiting # {}
    <3>1. PICK w \in waiting : waiting' = waiting \ {w}
      BY <1>3, <2>2 DEF PushNotifies, NotifyOne
    <3>2. "server" \in Coming /\ w \notin Coming /\ w # "server"
      BY <1>0, <1>3, <3>1 DEF PushNotifies, Goto, Coming
    <3>3. Coming' = (Coming \ {"server"}) \cup {w}
      BY <1>0, <1>3, <3>1 DEF PushNotifies, Goto, Coming, WaitInv, TypeOK
    <3>4. IsFiniteSet(Coming \ {"server"}) /\ Cardinality(Coming \ {"server"}) = Cardinality(Coming) - 1
      BY <3>2, ComingFinite, FS_RemoveElement
    <3>5. Cardinality((Coming \ {"server"}) \cup {w}) = Cardinality(Coming \ {"server"}) + 1
      BY <3>2, <3>4, FS_AddElement
    <3>6. queue_' = queue_
      BY <1>3 DEF PushNotifies
    <3> QED BY <2>2, <3>3, <3>4, <3>5, <3>6, ComingFinite DEF WakeInv
  <2> QED BY <2>1, <2>2
<1>4. ASSUME NEW w \in Workers, PopWaits(w) \/ PopEnds(w) PROVE WakeInv'
  <2>1. Len(queue_') = 0
    BY <1>4 DEF PopWaits, PopEnds
  <2> QED BY <2>1, ComingFinite DEF WakeInv
<1>5. ASSUME NEW w \in Workers, PopRetries(w) PROVE WakeInv'
  <2>1. CASE w \notin waiting
    <3>1. UNCHANGED <<waiting, queue_>> /\ Coming' = Coming
      BY <1>0, <1>5, <2>1 DEF PopRetries, Goto, Coming, TypeOK
    <3> QED BY <3>1 DEF WakeInv
  <2>2. CASE w \in waiting
    <3>1. Coming' = Coming \cup {w} /\ w \notin Coming
      BY <1>0, <1>5, <2>2 DEF PopRetries, Goto, Coming, TypeOK
    <3> QED BY <1>0, <1>5, <2>2, <3>1, WakeMore DEF PopRetries
  <2> QED BY <2>1, <2>2
\* The worker that takes a connection was on its way to it.
<1>6. ASSUME NEW w \in Workers, PopTakes(w) PROVE WakeInv'
  <2>1. w \notin waiting
    BY <1>6 DEF PopTakes, Goto, WaitInv
  <2>2. Coming' = Coming \ {w} /\ w \in Coming
    BY <1>0, <1>6, <2>1 DEF PopTakes, Goto, Coming, TypeOK
  <2>3. Cardinality(Coming') = Cardinality(Coming) - 1
    BY <2>2, ComingFinite, FS_RemoveElement
  <2>4. Len(queue_') = Len(queue_) - 1 /\ waiting' = waiting
    BY <1>0, <1>6 DEF PopTakes
  <2> QED BY <1>0, <2>3, <2>4, ComingFinite DEF WakeInv
<1>7. ASSUME NEW w \in Workers, RecvEnds(w) \/ SendFails(w) PROVE WakeInv'
  <2>1. w \notin waiting /\ UNCHANGED <<waiting, queue_>>
    BY <1>7 DEF RecvEnds, SendFails, Goto, WaitInv
  <2>2. Coming' = Coming \cup {w} /\ w \notin Coming
    BY <1>0, <1>7, <2>1 DEF RecvEnds, SendFails, Goto, Coming, TypeOK
  <2> QED BY <1>0, <2>1, <2>2, WakeMore
<1>8. ASSUME NEW w \in Workers, Recv(w) \/ Send(w) PROVE WakeInv'
  <2>1. /\ pc[w] \in {"recv", "send"} /\ pc'[w] \in {"recv", "send"}
        /\ \A t \in Threads \ {w} : pc'[t] = pc[t]
    BY <1>0, <1>8 DEF Recv, Send, Goto, TypeOK
  <2> QED BY <1>8, <2>1, WakeFrame DEF Recv, Send
<1>9. CASE ShutdownNotifies
  BY <1>9 DEF ShutdownNotifies, NotifyAll, WakeInv
<1>10. CASE JoinClients \/ JoinServer \/ JoinWorkers
  <2>1. \A t \in Workers \cup {"server"} : pc'[t] = pc[t]
    BY <1>0, <1>10 DEF JoinClients, JoinServer, JoinWorkers, Goto, TypeOK
  <2> QED BY <1>10, <2>1, WakeFrame DEF JoinClients, JoinServer, JoinWorkers
<1>11. CASE UNCHANGED vars
  BY <1>11, WakeFrame DEF vars
<1> QED BY <1>1, <1>2, <1>3, <1>4, <1>5, <1>6, <1>7, <1>8, <1>9, <1>10, <1>11, NextCases

\* push() notifies after the unlock (l.21-22) and loses no wakeup: a worker sleeps
\* only while each queued connection has a thread on its way to it.
THEOREM ConnectionsGetWorkers == Spec => []WakeInv
<1>1. Init => WakeInv
  BY DEF Init, WakeInv
<1> QED BY <1>1, InvAlways, WaitInit, WaitStep, WakeStep, PTL DEF Spec
-----------------------------------------------------------------------------
\* A thread that no step takes on: the calls that block, and what they wait for.
Stuck(t) ==
  \/ t \in Clients /\ pc[t] = "recv" /\ down[t] = 0 /\ t \notin closed
  \/ t = "server" /\ pc[t] = "accept" /\ backlog = <<>>
  \/ t \in waiting
  \/ /\ t \in Workers
     /\ \/ pc[t] = "recv" /\ up[client[t]] = 0
        \/ pc[t] = "send" /\ held[t] = 0
     /\ pc[client[t]] # "done"
  \/ /\ t = "main"
     /\ \/ pc[t] = "join_clients" /\ \E c \in Clients : pc[c] # "done"
        \/ pc[t] = "join_server" /\ pc["server"] # "done"
        \/ pc[t] = "join_workers" /\ \E w \in Workers : pc[w] # "done"

\* Until main() has returned, one of the threads can go on.
SomebodyGoesOn ==
  pc["main"] = "done" \/ \E t \in Threads : pc[t] # "done" /\ ~Stuck(t)

\* If nobody can go on, nobody asleep is on anybody's way.
AllStuck == \A t \in Threads : pc[t] = "done" \/ Stuck(t)

LEMMA StuckServer ==
  ASSUME Inv, CountInv, AllStuck
  PROVE  /\ backlog = <<>> /\ pc["server"] # "notify_one"
         /\ Connecting = {} => pc["server"] = "done"
<1> USE ThreadsAssumption DEF Threads
<1>1. pc["server"] = "done" \/ (pc["server"] = "accept" /\ backlog = <<>>)
  BY DEF AllStuck, Stuck, Inv, TypeOK
<1>2. accepted \in Nat /\ backlog \in Seq(Clients) /\ Len(backlog) \in Nat
  BY DEF Inv, TypeOK
<1>3. pc["server"] = "done" => backlog = <<>>
  <2>1. pc["server"] = "done" => Len(backlog) = 0
    BY <1>2, Counts DEF CountInv
  <2> QED BY <1>2, <2>1
<1>4. ASSUME Connecting = {}, backlog = <<>> PROVE accepted = Cardinality(Clients)
  <2>1. Cardinality(Connecting) = 0 /\ Len(backlog) = 0
    BY <1>4, FS_EmptySet
  <2> QED BY <1>2, <2>1, Counts DEF CountInv
<1> QED BY <1>1, <1>3, <1>4, Counts, <1>2 DEF CountInv

\* A client that waits for its echo has it nowhere but in the buffer up[c], in
\* the backlog or in the queue: else it is served, or its worker goes on.
LEMMA StuckClient ==
  ASSUME Inv, WaitInv, Bytes, Hands, AllStuck, NEW c \in Clients, pc[c] # "done"
  PROVE  /\ pc[c] = "recv"
         /\ Has(backlog, c) \/ Has(queue_, c)
<1> USE ThreadsAssumption DEF Threads
<1>1. pc[c] = "recv" /\ down[c] = 0 /\ c \notin closed /\ c \notin waiting
  BY DEF AllStuck, Stuck, Inv, TypeOK
<1>2. got[c] = 0 /\ up[c] + hands[c] = Message /\ up[c] \in Nat /\ hands[c] \in Nat
  BY <1>1, HandsType DEF Inv, ClientInv, Bytes, TypeOK
<1>3. ASSUME NEW w \in Workers, client[w] = c PROVE FALSE
  <2>1. pc[w] \in {"recv", "send"} /\ hands[c] = held[w]
    BY <1>3 DEF Inv, WorkerInv, Hands
  <2>2. w \notin waiting /\ w \in Threads /\ w \notin Clients /\ w # "server" /\ w # "main"
    BY <2>1 DEF WaitInv
  <2>3. Stuck(w)
    BY <2>1, <2>2 DEF AllStuck
  <2>4. \/ pc[w] = "recv" /\ up[c] = 0
        \/ pc[w] = "send" /\ held[w] = 0
    BY <1>3, <2>2, <2>3 DEF Stuck
  <2>5. pc[w] = "recv" /\ held[w] = 0
    BY <2>1, <2>4 DEF WaitInv, Inv, WorkerInv
  <2> QED BY <1>2, <2>1, <2>4, <2>5, MessageAssumption
<1> QED BY <1>1, <1>3 DEF Inv, OwnerInv

\* main() of ex02_pool has no deadlock in its joins (l.97-106): a connection that is
\* not served is on its way to a worker that is not asleep, and nobody sleeps
\* through shutdown().
THEOREM DeadlockFree == Spec => []SomebodyGoesOn
<1>1. Inv /\ WaitInv /\ CountInv /\ WakeInv /\ Bytes /\ Hands => SomebodyGoesOn
  <2> SUFFICES ASSUME Inv, WaitInv, CountInv, WakeInv, Bytes, Hands,
                      pc["main"] # "done", AllStuck
               PROVE  FALSE
    BY DEF SomebodyGoesOn, AllStuck
  <2> USE ThreadsAssumption DEF Threads
  <2>1. Stuck("main") /\ "main" \notin waiting
    BY DEF AllStuck, Inv, TypeOK
  <2>2. CASE pc["main"] = "join_clients" /\ \E c \in Clients : pc[c] # "done"
    <3>1. ~shutdown_
      BY <2>2 DEF Inv, MainInv
    <3>2. PICK c \in Clients : pc[c] # "done"
      BY <2>2
    <3>3. Has(queue_, c) /\ queue_ # <<>>
      BY <3>2, StuckClient, StuckServer DEF Has
    <3>4. \A w \in Workers : client[w] = Nobody
      <4>1. ASSUME NEW w \in Workers, client[w] # Nobody PROVE FALSE
        <5>1. client[w] \in Clients /\ pc[w] \in {"recv", "send"}
          BY <4>1 DEF Inv, TypeOK, WorkerInv
        <5>2. w \notin waiting /\ Stuck(w) /\ w \notin Clients
          BY <5>1 DEF WaitInv, AllStuck
        <5>3. pc[client[w]] # "done"
          BY <5>2 DEF Stuck
        <5>4. Has(backlog, client[w]) \/ Has(queue_, client[w])
          BY <5>1, <5>3, StuckClient
        <5> QED BY <5>1, <5>4 DEF Inv, OwnerInv
      <4> QED BY <4>1
    <3>5. \A w \in Workers : w \in waiting
      <4>1. ASSUME NEW w \in Workers, w \notin waiting PROVE FALSE
        <5>1. pc[w] \in {"pop", "wait"} /\ w \notin Clients /\ w # "server" /\ w # "main"
          BY <3>1, <3>4 DEF WaitInv, Inv, WorkerInv
        <5> QED BY <4>1, <5>1 DEF AllStuck, Stuck
      <4> QED BY <4>1
    <3>6. waiting # {} /\ Coming = {}
      BY <3>5, FiniteAssumption, StuckServer DEF Coming
    <3>7. Len(queue_) <= 0
      BY <3>6, FS_EmptySet DEF WakeInv
    <3> QED BY <3>3, <3>7 DEF Inv, TypeOK
  <2>3. CASE pc["main"] # "join_clients"
    <3>1. shutdown_ /\ \A c \in Clients : pc[c] = "done"
      BY <2>3 DEF Inv, MainInv
    <3>2. pc["server"] = "done"
      BY <3>1, StuckServer DEF Connecting
    <3>3. pc["main"] = "join_workers" /\ \E w \in Workers : pc[w] # "done"
      BY <2>1, <2>3, <3>2 DEF Stuck
    <3>4. PICK w \in Workers : pc[w] # "done"
      BY <3>3
    <3>5. waiting = {}
      BY <3>1, <3>3 DEF WaitInv
    <3>6. pc[client[w]] # "done" /\ pc[w] \in {"recv", "send"}
      BY <3>4, <3>5 DEF AllStuck, Stuck
    <3>7. client[w] \in Clients
      BY <3>6 DEF Inv, WorkerInv, TypeOK
    <3> QED BY <3>1, <3>6, <3>7
  <2> QED BY <2>1, <2>2, <2>3 DEF Stuck
<1> QED BY <1>1, InvAlways, HandsKnown, BytesInit, BytesStep, WaitInit, WaitStep, CountInit,
           CountStep, ConnectionsGetWorkers, PTL DEF Spec
=============================================================================
