--------------------------- MODULE EpollEchoProofs ---------------------------
(***************************************************************************)
(* For every set of clients and size of message: an event is handled for   *)
(* the connection it was reported for, although descriptors are closed and *)
(* given out again within a batch, and what it reports is still there; and *)
(* the echo of a client that stays is whole if the send buffer can hold    *)
(* it.                                                                     *)
(***************************************************************************)
EXTENDS EpollEcho, Integers, FiniteSetTheorems, SequenceTheorems, WellFoundedInduction, TLAPS

ServerPoints == {"wait", "handle", "accept", "stop"}
ClientPoints == {"connect", "shutdown", "read", "done"}
Fds == 3 .. Cardinality(Clients) + 2
Events == [fd : Fds \cup {Listening, Timer}, of : Clients \cup {NoFd}, hup : BOOLEAN]

TypeOK == /\ pc \in ServerPoints
          /\ batch \subseteq Events
          /\ fd \in [Clients -> Fds \cup {NoFd}]
          /\ backlog \in Seq(Clients)
          /\ client \in [Clients -> ClientPoints]
          /\ up \in [Clients -> Nat] /\ down \in [Clients -> Nat] /\ got \in [Clients -> Nat]
          /\ hup \subseteq Clients /\ closed \subseteq Clients

\* No two connections share a descriptor.
OwnFd == \A c, x \in Open : fd[c] = fd[x] => c = x

\* A connection in the backlog is there once and has no descriptor yet.
BacklogInv ==
  /\ \A k \in 1 .. Len(backlog) : fd[backlog[k]] = NoFd /\ client[backlog[k]] # "connect"
  /\ \A k, l \in 1 .. Len(backlog) : backlog[k] = backlog[l] => k = l
  /\ \A c \in Clients : client[c] = "connect" => fd[c] = NoFd

\* What is left of a batch: at most one event of each connection, which still has
\* the descriptor it was reported with.
BatchInv ==
  /\ \A e \in batch : IF e.of \in Clients THEN e.of \in Open /\ fd[e.of] = e.fd
                                          ELSE e.fd \in {Listening, Timer}
  /\ \A e, f \in batch : e.of = f.of /\ e.of \in Clients => e = f

Inv == TypeOK /\ OwnFd /\ BacklogInv /\ BatchInv

Handles(e) == TimerEvent(e) \/ AcceptEvent(e) \/ HangUp(e) \/ Echo(e) \/ SendFails(e)

\* The steps, named as the proofs split them.
LEMMA NextCases ==
  ASSUME [Next]_vars
  PROVE  \/ \E c \in Clients : Connect(c) \/ HalfClose(c) \/ ClientRecv(c) \/ ClientClose(c)
         \/ Expire \/ Wait \/ NextWait \/ Stop \/ Accept \/ AcceptEnds
         \/ \E e \in batch : Handles(e)
         \/ UNCHANGED vars
BY DEF Next, Client, Server, Handle, Handles, Ended
-----------------------------------------------------------------------------
LEMMA MinInSet ==
  ASSUME NEW S \in SUBSET Nat, S # {}
  PROVE  Min(S) \in S /\ \A n \in S : Min(S) <= n
<1> DEFINE R == OpToRel(<, Nat)
<1>1. \A n, m \in Nat : n < m => <<n, m>> \in R
  <2>1. R = {ss \in Nat \X Nat : ss[1] < ss[2]}
    BY Zenon DEF OpToRel
  <2> QED BY <2>1
<1>2. IsWellFoundedOn(R, Nat)
  BY NatLessThanWellFounded
<1> HIDE DEF R
<1>3. PICK m \in S : \A n \in S : ~(<<n, m>> \in R)
  BY <1>2, WFMin
<1>4. \A n \in S : m <= n
  <2> SUFFICES ASSUME NEW n \in S PROVE m <= n
    OBVIOUS
  <2>1. m \in Nat /\ n \in Nat /\ ~(n < m)
    BY <1>1, <1>3
  <2> QED BY <2>1
<1>5. LET c == CHOOSE x \in S : \A y \in S : x <= y IN c \in S /\ \A n \in S : c <= n
  BY <1>4
<1>6. Min(S) = CHOOSE x \in S : \A y \in S : x <= y
  BY Zenon DEF Min
<1> QED BY <1>5, <1>6

\* accept4() finds a free descriptor: there are as many as clients, and the one
\* that is accepted has none.
LEMMA FreeFd ==
  ASSUME TypeOK, NEW h \in Clients, h \notin Open
  PROVE  Min(Fds \ {fd[c] : c \in Open}) \in Fds \ {fd[c] : c \in Open}
<1> DEFINE T == {fd[c] : c \in Open}
           f == [c \in Open |-> fd[c]]
<1>1. IsFiniteSet(Clients) /\ Cardinality(Clients) \in Nat
  BY ClientsAssumption, FS_CardinalityType
<1>2. IsFiniteSet(Open) /\ Cardinality(Open) < Cardinality(Clients)
  <2>1. Open \in SUBSET Clients /\ Open # Clients
    BY DEF Open
  <2>2. IsFiniteSet(Open) /\ Cardinality(Open) <= Cardinality(Clients)
        /\ Cardinality(Open) # Cardinality(Clients)
    BY <1>1, <2>1, FS_Subset
  <2> QED BY <1>1, <2>2, FS_CardinalityType
<1>3. IsFiniteSet(T) /\ Cardinality(T) <= Cardinality(Open)
  <2>1. f \in Surjection(Open, T)
    BY DEF Surjection
  <2> QED BY <1>2, <2>1, FS_Surjection
<1>4. Cardinality(Fds) = Cardinality(Clients)
  BY <1>1, FS_Interval DEF Fds
<1>5. Fds \ T # {}
  <2> SUFFICES ASSUME Fds \subseteq T PROVE FALSE
    OBVIOUS
  <2>1. Cardinality(Fds) <= Cardinality(T)
    BY <1>3, FS_Subset
  <2> QED BY <1>1, <1>2, <1>3, <1>4, <2>1, FS_CardinalityType
<1>6. Fds \ T \subseteq Nat
  BY <1>1 DEF Fds
<1> QED BY <1>5, <1>6, MinInSet
-----------------------------------------------------------------------------
LEMMA FdFacts ==
  /\ NoFd \notin Clients
  /\ Listening \notin Fds /\ Timer \notin Fds /\ NoFd \notin Fds
  /\ Listening # NoFd /\ Timer # NoFd
  /\ Cardinality(Clients) \in Nat
BY ClientsAssumption, FS_CardinalityType DEF Fds, Listening, Timer, NoFd

LEMMA InvInit == Init => Inv
<1> SUFFICES ASSUME Init PROVE Inv
  OBVIOUS
<1>1. TypeOK
  BY EmptySeq DEF Init, TypeOK, ServerPoints, ClientPoints
<1>2. OwnFd /\ BacklogInv /\ BatchInv
  BY EmptySeq DEF Init, OwnFd, Open, BacklogInv, BatchInv
<1> QED BY <1>1, <1>2 DEF Inv

\* The event of a connection is handled for that connection.
LEMMA HandledForItsOwn ==
  ASSUME Inv, NEW e \in batch, NEW c \in Open, fd[c] = e.fd
  PROVE  e.of = c /\ \A f \in batch \ {e} : f.of # c
<1>1. e.of \in Clients
  BY FdFacts DEF Inv, TypeOK, BatchInv, Open
<1> QED BY <1>1 DEF Inv, BatchInv, OwnFd, Open

LEMMA CloseKeeps ==
  ASSUME Inv, NEW e \in batch, NEW c \in Open, fd[c] = e.fd,
         Handled(e), CloseFd(c), UNCHANGED <<pc, backlog, client, hup, down, got>>,
         up' \in [Clients -> Nat]
  PROVE  Inv'
<1>1. e.of = c /\ \A f \in batch \ {e} : f.of # c
  BY HandledForItsOwn
<1>2. TypeOK'
  BY DEF Inv, TypeOK, CloseFd, Handled, Open
<1>3. Open' = Open \ {c} /\ \A x \in Open' : fd'[x] = fd[x]
  BY DEF Inv, TypeOK, CloseFd, Open
<1>4. OwnFd'
  BY <1>3 DEF Inv, OwnFd
<1>5. BacklogInv'
  BY DEF Inv, TypeOK, BacklogInv, CloseFd
<1>6. BatchInv'
  BY <1>1, <1>3 DEF Inv, BatchInv, Handled
<1> QED BY <1>2, <1>4, <1>5, <1>6 DEF Inv

LEMMA InvStep == Inv /\ [Next]_vars => Inv'
<1> SUFFICES ASSUME Inv, [Next]_vars PROVE Inv'
  OBVIOUS
<1> USE DEF Inv, TypeOK
<1>1. ASSUME NEW c \in Clients, Connect(c) PROVE Inv'
  <2>1. /\ backlog' \in Seq(Clients) /\ Len(backlog') = Len(backlog) + 1
        /\ \A k \in 1 .. Len(backlog) : backlog'[k] = backlog[k]
        /\ backlog'[Len(backlog) + 1] = c
        /\ Len(backlog) \in Nat
    BY <1>1, AppendProperties, LenProperties DEF Connect
  <2>2. client[c] = "connect" /\ client' = [client EXCEPT ![c] = IF c \in HalfClosers THEN "shutdown" ELSE "read"]
    BY <1>1 DEF Connect, Goto
  <2>3. UNCHANGED <<pc, batch, fd, down, got, hup, closed>> /\ up' = [up EXCEPT ![c] = Message]
    BY <1>1 DEF Connect, server
  <2>4. TypeOK'
    BY <2>1, <2>2, <2>3, BytesAssumption DEF ClientPoints
  <2>5. BacklogInv'
    <3>1. \A k \in 1 .. Len(backlog) : backlog[k] \in Clients /\ backlog[k] # c
      BY <2>2, ElementOfSeq DEF BacklogInv
    <3>2. \A k \in 1 .. Len(backlog') : k \in 1 .. Len(backlog) \/ k = Len(backlog) + 1
      BY <2>1
    <3>3. fd[c] = NoFd /\ client'[c] # "connect"
      BY <2>2 DEF BacklogInv
    <3>4. ASSUME NEW k \in 1 .. Len(backlog')
          PROVE  fd'[backlog'[k]] = NoFd /\ client'[backlog'[k]] # "connect"
      <4>1. CASE k \in 1 .. Len(backlog)
        BY <2>1, <2>2, <2>3, <3>1, <4>1 DEF BacklogInv
      <4>2. CASE k = Len(backlog) + 1
        BY <2>1, <2>3, <3>3, <4>2
      <4> QED BY <3>2, <4>1, <4>2
    <3>5. ASSUME NEW k \in 1 .. Len(backlog'), NEW l \in 1 .. Len(backlog'), backlog'[k] = backlog'[l]
          PROVE  k = l
      <4>1. CASE k \in 1 .. Len(backlog) /\ l \in 1 .. Len(backlog)
        BY <2>1, <3>5, <4>1 DEF BacklogInv
      <4>2. CASE k = Len(backlog) + 1 \/ l = Len(backlog) + 1
        BY <2>1, <3>1, <3>2, <3>5, <4>2
      <4> QED BY <3>2, <4>1, <4>2
    <3> QED BY <2>2, <2>3, <3>4, <3>5 DEF BacklogInv
  <2> QED BY <2>3, <2>4, <2>5 DEF OwnFd, BatchInv, Open
<1>2. ASSUME NEW c \in Clients, HalfClose(c) \/ ClientRecv(c) \/ ClientClose(c) PROVE Inv'
  <2>1. UNCHANGED <<pc, batch, fd, backlog, closed>>
    BY <1>2 DEF HalfClose, ClientRecv, ClientClose, server
  <2>2. client' \in [Clients -> ClientPoints] /\ \A x \in Clients : client'[x] = "connect" <=> client[x] = "connect"
    BY <1>2 DEF HalfClose, ClientRecv, ClientClose, Goto, ClientPoints
  <2>3. up' \in [Clients -> Nat] /\ down' \in [Clients -> Nat] /\ got' \in [Clients -> Nat] /\ hup' \subseteq Clients
    BY <1>2 DEF HalfClose, ClientRecv, ClientClose, bytes
  <2>4. BacklogInv'
    BY <2>1, <2>2, ElementOfSeq DEF BacklogInv
  <2> QED BY <2>1, <2>2, <2>3, <2>4 DEF OwnFd, BatchInv, Open
<1>3. CASE Expire \/ NextWait \/ Stop \/ AcceptEnds \/ UNCHANGED vars
  <2>1. UNCHANGED <<batch, fd, backlog, client, up, down, got, hup, closed>> /\ pc' \in ServerPoints
    BY <1>3 DEF Expire, NextWait, Stop, AcceptEnds, vars, server, bytes, ServerPoints
  <2> QED BY <2>1 DEF OwnFd, BacklogInv, BatchInv, Open
<1>4. CASE Wait
  <2>1. batch' = Ready /\ pc' = "handle" /\ UNCHANGED <<fd, backlog, client, up, down, got, hup, closed>>
    BY <1>4 DEF Wait, bytes
  <2>2. \A e \in Ready : \/ e.of \in Open /\ e = Event(fd[e.of], e.of, e.of \in hup)
                         \/ e = Event(Listening, NoFd, FALSE) \/ e = Event(Timer, NoFd, FALSE)
    BY DEF Ready, Event
  <2>3. Ready \subseteq Events
    <3>1. \A c \in Open : c \in Clients /\ fd[c] \in Fds
      BY DEF Open
    <3>2. \A c \in Open : Event(fd[c], c, c \in hup) \in Events
      BY <3>1 DEF Event, Events
    <3>3. Event(Listening, NoFd, FALSE) \in Events /\ Event(Timer, NoFd, FALSE) \in Events
      BY DEF Event, Events
    <3> QED BY <2>2, <3>2, <3>3
  <2>4. BatchInv'
    <3>1. \A e \in Ready : IF e.of \in Clients THEN e.of \in Open /\ fd[e.of] = e.fd
                                               ELSE e.fd \in {Listening, Timer}
      BY <2>2, FdFacts DEF Event, Open
    <3>2. \A e \in Ready : e.of \in Clients => e = Event(fd[e.of], e.of, e.of \in hup)
      BY <2>2, FdFacts DEF Event
    <3>3. \A e, f \in Ready : e.of = f.of /\ e.of \in Clients => e = f
      BY <3>2
    <3> QED BY <2>1, <3>1, <3>3 DEF BatchInv, Open
  <2> QED BY <2>1, <2>3, <2>4 DEF OwnFd, BacklogInv, Open, ServerPoints
<1>5. CASE Accept
  <2> DEFINE h == Head(backlog)
             m == Min(Fds \ {fd[c] : c \in Open})
  <2>1. /\ h \in Clients /\ backlog' \in Seq(Clients) /\ Len(backlog) \in Nat \ {0}
        /\ Len(backlog') = Len(backlog) - 1 /\ h = backlog[1]
        /\ \A k \in 1 .. Len(backlog') : backlog'[k] = backlog[k + 1]
    BY <1>5, HeadTailProperties, EmptySeq DEF Accept
  <2>2. fd[h] = NoFd /\ client[h] # "connect" /\ h \notin Open
    BY <2>1 DEF BacklogInv, Open
  <2>3. m \in Fds /\ \A c \in Open : fd[c] # m
    BY <2>1, <2>2, FreeFd
  <2>4. /\ fd' = [fd EXCEPT ![h] = m]
        /\ UNCHANGED <<pc, batch, client, up, down, got, hup, closed>>
    BY <1>5 DEF Accept, Fds, bytes
  <2> HIDE DEF h, m
  <2>5. Open' = Open \cup {h} /\ \A c \in Open : fd'[c] = fd[c]
    BY <2>1, <2>2, <2>3, <2>4, FdFacts DEF Open
  <2>6. OwnFd'
    BY <2>1, <2>2, <2>3, <2>4, <2>5 DEF OwnFd
  <2>7. BacklogInv'
    <3>1. ASSUME NEW k \in 1 .. Len(backlog')
          PROVE  /\ k + 1 \in 1 .. Len(backlog) /\ backlog'[k] = backlog[k + 1]
                 /\ backlog[k + 1] \in Clients /\ backlog[k + 1] # h
      <4>1. k + 1 \in 1 .. Len(backlog) /\ 1 \in 1 .. Len(backlog) /\ k + 1 # 1
        BY <2>1
      <4>2. backlog[k + 1] # backlog[1]
        BY <4>1 DEF BacklogInv
      <4>3. backlog[k + 1] \in Clients
        BY <4>1, ElementOfSeq
      <4> QED BY <2>1, <4>1, <4>2, <4>3
    <3>2. ASSUME NEW k \in 1 .. Len(backlog')
          PROVE  fd'[backlog'[k]] = NoFd /\ client'[backlog'[k]] # "connect"
      <4>1. fd[backlog[k + 1]] = NoFd /\ client[backlog[k + 1]] # "connect"
        BY <3>1 DEF BacklogInv
      <4>2. fd'[backlog[k + 1]] = fd[backlog[k + 1]] /\ client' = client
        BY <2>4, <3>1
      <4> QED BY <3>1, <4>1, <4>2
    <3>3. ASSUME NEW k \in 1 .. Len(backlog'), NEW l \in 1 .. Len(backlog'), backlog'[k] = backlog'[l]
          PROVE  k = l
      <4>1. k + 1 = l + 1
        BY <3>1, <3>3 DEF BacklogInv
      <4> QED BY <4>1
    <3>4. \A c \in Clients : client'[c] = "connect" => fd'[c] = NoFd
      BY <2>1, <2>2, <2>4 DEF BacklogInv
    <3> QED BY <3>2, <3>3, <3>4 DEF BacklogInv
  <2>8. BatchInv'
    BY <2>4, <2>5 DEF BatchInv
  <2>9. TypeOK'
    BY <2>1, <2>3, <2>4
  <2> QED BY <2>6, <2>7, <2>8, <2>9
<1>6. ASSUME NEW e \in batch, TimerEvent(e) \/ AcceptEvent(e) PROVE Inv'
  <2>1. batch' \subseteq batch /\ pc' \in ServerPoints /\ UNCHANGED <<fd, backlog, client, up, down, got, hup, closed>>
    BY <1>6 DEF TimerEvent, AcceptEvent, Handled, bytes, ServerPoints
  <2> QED BY <2>1 DEF OwnFd, BacklogInv, BatchInv, Open
<1>7. ASSUME NEW e \in batch, Echo(e) PROVE Inv'
  <2>1. batch' \subseteq batch /\ UNCHANGED <<pc, fd, backlog, client, got, hup, closed>>
    BY <1>7 DEF Echo, Handled
  <2>2. up' \in [Clients -> Nat] /\ down' \in [Clients -> Nat]
    <3>1. PICK c \in Open : \E n \in 1 .. up[c] :
                  /\ up' = [up EXCEPT ![c] = @ - n]
                  /\ down' = [down EXCEPT ![c] = IF client[c] = "done" THEN 0 ELSE Min({@ + n, SendBuffer})]
      BY <1>7 DEF Echo
    <3>2. PICK n \in 1 .. up[c] :
                  /\ up' = [up EXCEPT ![c] = @ - n]
                  /\ down' = [down EXCEPT ![c] = IF client[c] = "done" THEN 0 ELSE Min({@ + n, SendBuffer})]
      BY <3>1
    <3>3. c \in Clients /\ up[c] - n \in Nat /\ down[c] + n \in Nat
      BY DEF Open
    <3>4. Min({down[c] + n, SendBuffer}) \in Nat
      <4> DEFINE S == {down[c] + n, SendBuffer}
      <4>1. S \in SUBSET Nat /\ S # {}
        BY <3>3, BytesAssumption DEF S
      <4> HIDE DEF S
      <4>2. Min(S) \in S
        BY <4>1, MinInSet
      <4> QED BY <4>1, <4>2 DEF S
    <3> QED BY <3>2, <3>3, <3>4
  <2> QED BY <2>1, <2>2 DEF OwnFd, BacklogInv, BatchInv, Open
<1>8. ASSUME NEW e \in batch, HangUp(e) \/ SendFails(e) PROVE Inv'
  <2>1. PICK c \in Open : fd[c] = e.fd /\ up' = [up EXCEPT ![c] = 0] /\ CloseFd(c)
    BY <1>8 DEF HangUp, SendFails
  <2>2. up' \in [Clients -> Nat]
    BY <2>1
  <2>3. Handled(e) /\ UNCHANGED <<pc, backlog, client, hup, down, got>>
    BY <1>8 DEF HangUp, SendFails
  <2> QED BY <2>1, <2>2, <2>3, CloseKeeps
<1> QED BY <1>1, <1>2, <1>3, <1>4, <1>5, <1>6, <1>7, <1>8, NextCases DEF Handles

LEMMA InvAlways == Spec => []Inv
BY InvInit, InvStep, PTL DEF Spec

\* A descriptor is not closed and given out again while an event of its batch
\* (l.91-143) still names it: the server reads, answers and closes the connection
\* that the event was about.
THEOREM FreshEvents == Spec => []EventsAreFresh
<1>1. Inv => EventsAreFresh
  BY DEF Inv, OwnFd, BatchInv, EventsAreFresh
<1> QED BY <1>1, InvAlways, PTL
-----------------------------------------------------------------------------
\* What an event says still holds when it is handled: there are bytes to read or
\* the client has hung up, a connection to accept, an expiration to read.
ReportsStayTrue ==
  \A e \in batch :
    /\ e.of \in Clients => IF e.hup THEN e.of \in hup ELSE up[e.of] > 0
    /\ e.fd = Listening => backlog # <<>>
    /\ e.fd = Timer => expired

\* The two other descriptors are reported once, and accept4() empties the backlog
\* when nothing of the batch speaks of it any more.
OtherFds == /\ \A e \in batch : /\ e.of \in Clients => e.fd \notin {Listening, Timer}
                                /\ e.fd \in {Listening, Timer} => e = Event(e.fd, NoFd, FALSE)
            /\ pc = "accept" => \A e \in batch : e.fd # Listening
            /\ pc = "wait" => batch = {}

ReportInv == ReportsStayTrue /\ OtherFds

LEMMA ReportStep == Inv /\ ReportInv /\ [Next]_vars => ReportInv'
<1> SUFFICES ASSUME Inv, ReportInv, [Next]_vars PROVE ReportInv'
  OBVIOUS
<1> USE FdFacts DEF ReportInv, ReportsStayTrue, OtherFds
<1>1. ASSUME NEW c \in Clients, Connect(c) PROVE ReportInv'
  <2>1. /\ backlog' # <<>> /\ UNCHANGED <<pc, batch, expired, hup>>
        /\ \A d \in Clients : up[d] > 0 => up'[d] > 0
    BY <1>1, BytesAssumption, AppendProperties DEF Connect, server, Inv, TypeOK
  <2> QED BY <2>1
<1>2. ASSUME NEW c \in Clients, HalfClose(c) \/ ClientRecv(c) \/ ClientClose(c)
      PROVE  ReportInv'
  <2>1. hup \subseteq hup' /\ UNCHANGED <<pc, batch, backlog, up, expired>>
    BY <1>2 DEF HalfClose, ClientRecv, ClientClose, server, bytes
  <2> QED BY <2>1
<1>3. CASE Expire \/ UNCHANGED vars
  <2>1. UNCHANGED <<pc, batch, backlog, up, hup>> /\ (expired => expired')
    BY <1>3 DEF Expire, vars, server, bytes
  <2> QED BY <2>1
<1>4. CASE NextWait \/ Stop \/ AcceptEnds
  <2>1. UNCHANGED <<batch, backlog, up, hup, expired>>
    BY <1>4 DEF NextWait, Stop, AcceptEnds, bytes
  <2>2. pc' # "accept" /\ (pc' = "wait" => batch = {})
    BY <1>4 DEF NextWait, Stop, AcceptEnds
  <2> QED BY <2>1, <2>2
<1>5. CASE Wait
  <2>1. batch' = Ready /\ pc' = "handle" /\ UNCHANGED <<fd, backlog, up, expired, hup>>
    BY <1>5 DEF Wait, bytes
  <2>2. ASSUME NEW e \in Ready
        PROVE  \/ /\ e.of \in Open /\ e = Event(fd[e.of], e.of, e.of \in hup)
                  /\ up[e.of] > 0 \/ e.of \in hup
               \/ e = Event(Listening, NoFd, FALSE) /\ backlog # <<>>
               \/ e = Event(Timer, NoFd, FALSE) /\ expired
    <3>1. CASE \E c \in Open : e = Event(fd[c], c, c \in hup) /\ (up[c] > 0 \/ c \in hup)
      <4>1. PICK c \in Open : e = Event(fd[c], c, c \in hup) /\ (up[c] > 0 \/ c \in hup)
        BY <3>1
      <4>2. e.of = c
        BY <4>1 DEF Event
      <4> QED BY <4>1, <4>2
    <3>2. CASE e \in (IF backlog # <<>> THEN {Event(Listening, NoFd, FALSE)} ELSE {})
      BY <3>2
    <3>3. CASE e \in (IF expired THEN {Event(Timer, NoFd, FALSE)} ELSE {})
      BY <3>3
    <3> QED BY <3>1, <3>2, <3>3, Zenon DEF Ready
  <2>3. \A c \in Open : c \in Clients /\ fd[c] \in Fds
    BY DEF Open, Inv, TypeOK
  <2>4. Listening # Timer
    BY DEF Listening, Timer
  <2>5. ASSUME NEW e \in Ready
        PROVE  /\ e.of \in Clients => IF e.hup THEN e.of \in hup ELSE up[e.of] > 0
               /\ e.fd = Listening => backlog # <<>>
               /\ e.fd = Timer => expired
               /\ e.of \in Clients => e.fd \notin {Listening, Timer}
               /\ e.fd \in {Listening, Timer} => e = Event(e.fd, NoFd, FALSE)
    <3>1. CASE /\ e.of \in Open /\ e = Event(fd[e.of], e.of, e.of \in hup)
               /\ up[e.of] > 0 \/ e.of \in hup
      <4>1. e.fd = fd[e.of] /\ (e.hup <=> e.of \in hup)
        <5>1. PICK d, c, gone : /\ e = [fd |-> d, of |-> c, hup |-> gone]
                                /\ d = fd[e.of] /\ c = e.of /\ gone = (e.of \in hup)
          BY <3>1, Zenon DEF Event
        <5>2. e.fd = d /\ e.hup = gone
          BY <5>1
        <5> QED BY <5>1, <5>2, Zenon
      <4>2. e.fd \in Fds
        BY <3>1, <4>1, <2>3
      <4>3. e.fd \notin {Listening, Timer}
        BY <4>2 DEF Fds, Listening, Timer
      <4> QED BY <3>1, <4>1, <4>3
    <3>2. CASE e = Event(Listening, NoFd, FALSE) /\ backlog # <<>>
      BY <3>2, <2>4 DEF Event
    <3>3. CASE e = Event(Timer, NoFd, FALSE) /\ expired
      BY <3>3, <2>4 DEF Event
    <3> QED BY <2>2, <3>1, <3>2, <3>3
  <2> QED BY <2>1, <2>5
\* Only accept4() takes from the backlog, once its event is handled.
<1>6. CASE Accept
  BY <1>6 DEF Accept, bytes
<1>7. ASSUME NEW e \in batch, TimerEvent(e) \/ AcceptEvent(e) PROVE ReportInv'
  <2>1. /\ batch' = batch \ {e} /\ UNCHANGED <<backlog, up, hup>> /\ e.fd \in {Listening, Timer}
        /\ pc' \in {"handle", "accept"}
        /\ e.fd # Timer => expired' = expired
        /\ pc' = "accept" => e.fd = Listening
    BY <1>7 DEF TimerEvent, AcceptEvent, Handled, bytes, Listening, Timer
  <2>2. \A f \in batch' : f \in batch /\ f.fd # e.fd
    BY <2>1
  <2>3. ReportsStayTrue'
    BY <2>1, <2>2
  <2>4. OtherFds'
    BY <2>1, <2>2
  <2> QED BY <2>3, <2>4
\* The bytes of one connection are read for the one event that names it.
<1>8. ASSUME NEW e \in batch, Echo(e) \/ HangUp(e) \/ SendFails(e) PROVE ReportInv'
  <2>1. PICK c \in Open : fd[c] = e.fd /\ \A d \in Clients \ {c} : up'[d] = up[d]
    BY <1>8 DEF Echo, HangUp, SendFails, Inv, TypeOK
  <2>2. \A f \in batch \ {e} : f.of # c
    BY <2>1, HandledForItsOwn
  <2>3. batch' = batch \ {e} /\ pc = "handle" /\ UNCHANGED <<pc, backlog, expired, hup>>
    BY <1>8 DEF Echo, HangUp, SendFails, Handled
  <2> QED BY <2>1, <2>2, <2>3
<1> QED BY <1>1, <1>2, <1>3, <1>4, <1>5, <1>6, <1>7, <1>8, NextCases DEF Handles

\* The server reads and accepts only what is there: the first recv() or accept4() for
\* an event of the loop (l.98-143) finds something, whatever was handled before in the
\* batch.
THEOREM EventsStillHold == Spec => []ReportsStayTrue
<1>1. Init => ReportInv
  BY DEF Init, ReportInv, ReportsStayTrue, OtherFds
<1> QED BY <1>1, InvAlways, ReportStep, PTL DEF Spec, ReportInv
-----------------------------------------------------------------------------
\* Only a client that has closed has its connection closed by an event.
HupInv == /\ \A e \in batch : e.of \in Clients /\ e.hup => e.of \in hup
          /\ \A c \in hup : c \in HalfClosers \/ client[c] = "done"
          /\ \A c \in Clients : client[c] = "shutdown" => c \in HalfClosers

\* Where the bytes of a client are that leaves by itself.
SumInv == \A c \in Clients \ HalfClosers :
            /\ client[c] = "connect" => up[c] = 0 /\ down[c] = 0 /\ got[c] = 0
            /\ client[c] # "shutdown"
            /\ client[c] = "read" => up[c] + down[c] + got[c] = Message

LEMMA HupStep == Inv /\ HupInv /\ [Next]_vars => HupInv'
<1> SUFFICES ASSUME Inv, HupInv, [Next]_vars PROVE HupInv'
  OBVIOUS
<1> USE DEF Inv, TypeOK, HupInv
<1>1. CASE Wait
  <2>1. \A e \in Ready : \/ e = Event(fd[e.of], e.of, e.of \in hup)
                         \/ e = Event(Listening, NoFd, FALSE) \/ e = Event(Timer, NoFd, FALSE)
    BY DEF Ready, Event
  <2>2. \A e \in Ready : e.of \in Clients => e = Event(fd[e.of], e.of, e.of \in hup)
    BY <2>1, FdFacts DEF Event
  <2>3. \A c \in Clients : Event(fd[c], c, c \in hup).hup => c \in hup
    BY Zenon DEF Event
  <2>4. ASSUME NEW e \in Ready, e.of \in Clients, e.hup PROVE e.of \in hup
    BY <2>2, <2>3, <2>4, Zenon
  <2>5. batch' = Ready /\ UNCHANGED <<hup, client>>
    BY <1>1 DEF Wait
  <2> QED BY <2>4, <2>5
<1>2. ASSUME NEW c \in Clients, Connect(c) \/ HalfClose(c) \/ ClientRecv(c) \/ ClientClose(c)
      PROVE  HupInv'
  <2>1. batch' = batch /\ hup \subseteq hup'
    BY <1>2 DEF Connect, HalfClose, ClientRecv, ClientClose, server
  <2>2. /\ \A x \in hup' : x \in HalfClosers \/ client'[x] = "done"
        /\ \A x \in Clients : client'[x] = "shutdown" => x \in HalfClosers
    BY <1>2 DEF Connect, HalfClose, ClientRecv, ClientClose, Goto
  <2> QED BY <2>1, <2>2
<1>3. ASSUME NEW e \in batch, Handles(e) PROVE HupInv'
  BY <1>3 DEF Handles, TimerEvent, AcceptEvent, HangUp, Echo, SendFails, Handled
<1>4. CASE Expire \/ NextWait \/ Stop \/ Accept \/ AcceptEnds \/ UNCHANGED vars
  BY <1>4 DEF Expire, NextWait, Stop, Accept, AcceptEnds, vars, server
<1> QED BY <1>1, <1>2, <1>3, <1>4, NextCases

LEMMA SumStep == Message <= SendBuffer /\ Inv /\ HupInv /\ SumInv /\ [Next]_vars => SumInv'
<1> SUFFICES ASSUME Message <= SendBuffer, Inv, HupInv, SumInv, [Next]_vars,
                    NEW x \in Clients \ HalfClosers
             PROVE  /\ client'[x] = "connect" => up'[x] = 0 /\ down'[x] = 0 /\ got'[x] = 0
                    /\ client'[x] # "shutdown"
                    /\ client'[x] = "read" => up'[x] + down'[x] + got'[x] = Message
  BY DEF SumInv
<1> USE BytesAssumption DEF Inv, TypeOK, SumInv
<1>1. CASE UNCHANGED <<client, up, down, got>>
  BY <1>1
<1>2. ASSUME NEW c \in Clients, Connect(c) \/ HalfClose(c) \/ ClientRecv(c) \/ ClientClose(c)
      PROVE  /\ client'[x] = "connect" => up'[x] = 0 /\ down'[x] = 0 /\ got'[x] = 0
             /\ client'[x] # "shutdown"
             /\ client'[x] = "read" => up'[x] + down'[x] + got'[x] = Message
  <2>1. CASE Connect(c)
    BY <2>1 DEF Connect, Goto
  <2>2. CASE HalfClose(c)
    BY <2>2 DEF HalfClose, Goto, bytes
  <2>3. CASE ClientRecv(c)
    BY <2>3 DEF ClientRecv
  <2>4. CASE ClientClose(c)
    BY <2>4 DEF ClientClose, Goto
  <2> QED BY <1>2, <2>1, <2>2, <2>3, <2>4
<1>3. ASSUME NEW e \in batch, Echo(e)
      PROVE  /\ client'[x] = "connect" => up'[x] = 0 /\ down'[x] = 0 /\ got'[x] = 0
             /\ client'[x] # "shutdown"
             /\ client'[x] = "read" => up'[x] + down'[x] + got'[x] = Message
  <2>1. PICK c \in Open : \E n \in 1 .. up[c] :
                /\ up' = [up EXCEPT ![c] = @ - n]
                /\ down' = [down EXCEPT ![c] = IF client[c] = "done" THEN 0 ELSE Min({@ + n, SendBuffer})]
    BY <1>3 DEF Echo
  <2>2. PICK n \in 1 .. up[c] :
                /\ up' = [up EXCEPT ![c] = @ - n]
                /\ down' = [down EXCEPT ![c] = IF client[c] = "done" THEN 0 ELSE Min({@ + n, SendBuffer})]
    BY <2>1
  <2>3. client' = client /\ got' = got /\ c \in Clients /\ client[c] # "connect"
    BY <1>3 DEF Echo, Open, BacklogInv
  <2>4. CASE c = x /\ client[x] = "read"
    <3>1. down[x] + n <= SendBuffer /\ down[x] + n \in Nat
      BY <2>2, <2>4
    <3>2. Min({down[x] + n, SendBuffer}) = down[x] + n
      <4> DEFINE S == {down[x] + n, SendBuffer}
      <4>1. S \in SUBSET Nat /\ S # {}
        BY <3>1 DEF S
      <4>2. Min(S) \in S /\ \A s \in S : Min(S) <= s
        <5> HIDE DEF S
        <5> QED BY <4>1, MinInSet
      <4> QED BY <3>1, <4>2
    <3> QED BY <2>2, <2>3, <2>4, <3>1, <3>2
  <2>5. CASE c # x \/ client[x] # "read"
    BY <2>2, <2>3, <2>5
  <2> QED BY <2>4, <2>5
<1>4. ASSUME NEW e \in batch, HangUp(e) \/ SendFails(e)
      PROVE  /\ client'[x] = "connect" => up'[x] = 0 /\ down'[x] = 0 /\ got'[x] = 0
             /\ client'[x] # "shutdown"
             /\ client'[x] = "read" => up'[x] + down'[x] + got'[x] = Message
  <2>1. PICK c \in Open : /\ fd[c] = e.fd /\ up' = [up EXCEPT ![c] = 0]
                          /\ e.hup \/ client[c] = "done"
    BY <1>4 DEF HangUp, SendFails
  <2>2. UNCHANGED <<client, down, got>>
    BY <1>4 DEF HangUp, SendFails
  <2>3. e.of = c /\ c \in Clients
    BY <2>1, HandledForItsOwn DEF Open
  <2>4. c \in HalfClosers \/ client[c] = "done"
    BY <2>1, <2>3 DEF HupInv
  <2> QED BY <2>1, <2>2, <2>3, <2>4
<1> QED
  BY <1>1, <1>2, <1>3, <1>4, NextCases
  DEF Handles, TimerEvent, AcceptEvent, Expire, Wait, NextWait, Stop, Accept, AcceptEnds,
      vars, bytes

\* What recv() has taken send() gives back (l.130-138), if the kernel's buffer can
\* hold a client's message: a client that has not closed gets it all.
THEOREM EchoIsComplete ==
  ASSUME Message <= SendBuffer
  PROVE  Spec => []EchoComplete
<1>1. Init => HupInv /\ SumInv
  BY DEF Init, HupInv, SumInv
<1>2. Inv /\ HupInv /\ SumInv => EchoComplete
  BY DEF SumInv, EchoComplete
<1>3. Inv /\ HupInv /\ SumInv /\ [Next]_vars => (Inv /\ HupInv /\ SumInv)'
  BY InvStep, HupStep, SumStep
<1> QED BY <1>1, <1>2, <1>3, InvInit, PTL DEF Spec
=============================================================================
