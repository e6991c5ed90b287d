---------------------------- MODULE LocksetProofs ----------------------------
(***************************************************************************)
(* The discipline of Lockset is sound: for any catalogue of programs that  *)
(* keep it, any capacity of the pipes and every interleaving, what Knows   *)
(* says of a call holds whenever an agent is about to make it.  So no two  *)
(* agents are ever about to race, and no signal ends a program in the part *)
(* it protects.                                                            *)
(***************************************************************************)
EXTENDS Lockset, FiniteSetTheorems, TLAPS

-----------------------------------------------------------------------------
(* What one call does to the variables the discipline is about. *)

LockCalls == {"lock", "unlock", "wait"}
StoreCalls == {"write", "put", "bump", "add", "acquire"}
StayCalls == {"drain", "mqServe", "sigwait"}
StartCalls == {"spawn", "fork"}

HeldEffect(a, op) ==
  \/ op.call = "lock" /\ Free(op.x, op.n) /\ held' = held \cup {<<op.x, a, op.n>>}
  \/ op.call = "unlock" /\ held' = {h \in held : <<h[1], h[2]>> # <<op.x, a>>}
  \/ op.call = "wait" /\ held' = {h \in held : <<h[1], h[2]>> # <<op.n, a>>}
  \/ op.call \notin LockCalls /\ held' = held

Stored(op) == CASE op.call \in {"write", "put"} -> op.n
                [] op.call \in {"bump", "add"} -> Mem(op.x) + op.n
                [] OTHER -> Mem(op.x) + 1

MemEffect(op) ==
  \/ /\ op.call \in StoreCalls /\ mem' = With(mem, op.x, Stored(op))
     /\ op.call = "acquire" => Mem(op.x) < op.n
  \/ op.call \notin StoreCalls /\ mem' = With(mem, "connected", Mem("connected") + 1)
  \/ op.call \notin StoreCalls /\ mem' = mem

HandlerEffect(op) ==
  \/ op.call = "handle" /\ handler' = With(handler, op.x, op.n)
  \/ handler' = handler

\* The call starts an agent, ends a process, or goes on by d.
StartEffect(a, op) ==
  /\ op.call \in StartCalls
  /\ pc' = [pc EXCEPT ![a] = @ + 1, ![op.x] = 1]
  /\ \/ op.call = "fork" /\ status' = [status EXCEPT ![op.x] = Alive] /\ proc' = proc
     \/ op.call = "spawn" /\ proc' = [proc EXCEPT ![op.x] = proc[a]] /\ status' = status

Halts(p, next) ==
  /\ pc' = [b \in Agents |-> IF proc[b] = p /\ next[b] > 0 THEN Last(b) + 1 ELSE next[b]]
  /\ \E code : status' = [status EXCEPT ![p] = code]
  /\ proc' = proc

HaltEffect(a, op) ==
  \/ Halts(proc[a], pc)
  \/ /\ op.call = "killChild" /\ status[op.x] = Alive
     /\ Halts(op.x, [pc EXCEPT ![a] = @ + 1])

Goes(op, d) ==
  /\ \/ d = 0 /\ op.call \in StayCalls
     \/ d = 1 /\ op.call # "goto"
     \/ d = op.k /\ (op.call = "test" => ~(Mem(op.x) < op.n))
  /\ op.call \in StoreCalls => d = 1
  /\ op.call = "join" => Ended(op.x)
  /\ op.call = "waitpid" => status[op.x] >= 0
  /\ op.call = "await" => Mem(op.x) >= op.n

MoveEffect(a, op) ==
  /\ op.call \notin StartCalls
  /\ \E d : Goes(op, d) /\ pc' = [pc EXCEPT ![a] = @ + d]
  /\ UNCHANGED <<proc, status>>

Effect(a, op) ==
  /\ HeldEffect(a, op) /\ MemEffect(op) /\ HandlerEffect(op)
  /\ StartEffect(a, op) \/ HaltEffect(a, op) \/ MoveEffect(a, op)

LEMMA StepEffect ==
  ASSUME NEW a, Step(a) PROVE program' = program /\ Effect(a, Op(a))
<1> DEFINE op == Op(a)
<1>0. program' = program
  BY DEF Step
<1> HIDE DEF op
<1> USE DEF Effect, HeldEffect, MemEffect, HandlerEffect, MoveEffect, HaltEffect, StartEffect, Goes,
            LockCalls, StoreCalls, StayCalls, StartCalls, Stored, Halts, Advance, locks, files, signals
<1>1. ASSUME Jumps(a, op) PROVE Effect(a, op)
  BY <1>1 DEF Jumps
<1>2. ASSUME Starts(a, op) PROVE Effect(a, op)
  BY <1>2 DEF Starts
<1>3. ASSUME Joins(a, op) PROVE Effect(a, op)
  BY <1>3 DEF Joins
<1>4. ASSUME Locks(a, op) PROVE Effect(a, op)
  BY <1>4 DEF Locks
<1>5. ASSUME Unlocks(a, op) PROVE Effect(a, op)
  BY <1>5 DEF Unlocks
<1>6. ASSUME Stores(a, op) PROVE Effect(a, op)
  BY <1>6 DEF Stores
<1>7. ASSUME Awaits(a, op) PROVE Effect(a, op)
  BY <1>7 DEF Awaits
<1>8. ASSUME WaitsOn(a, op) PROVE Effect(a, op)
  BY <1>8 DEF WaitsOn
<1>9. ASSUME Wakes(a, op) PROVE Effect(a, op)
  BY <1>9 DEF Wakes
<1>10. ASSUME Notifies(a, op) PROVE Effect(a, op)
  BY <1>10 DEF Notifies
<1>11. ASSUME Execs(a, op) PROVE Effect(a, op)
  BY <1>11 DEF Execs, Halt
<1>12. ASSUME Exits(a, op) PROVE Effect(a, op)
  BY <1>12 DEF Exits, Halt
<1>13. ASSUME WaitsFor(a, op) PROVE Effect(a, op)
  BY <1>13 DEF WaitsFor
<1>14. ASSUME Spawned(a, op) PROVE Effect(a, op)
  BY <1>14 DEF Spawned
<1>15. ASSUME KillsChild(a, op) PROVE Effect(a, op)
  BY <1>15 DEF KillsChild, Halt
<1>16. ASSUME Opens(a, op) \/ MeetsPeer(a, op) \/ Connects(a, op) PROVE Effect(a, op)
  BY <1>16 DEF Opens, MeetsPeer, Connects
<1>17. ASSUME Redirects(a, op) \/ Closes(a, op) \/ Cancels(a, op) PROVE Effect(a, op)
  BY <1>17 DEF Redirects, Closes, Cancels
<1>18. ASSUME Fills(a, op) \/ Takes(a, op) \/ MeetsEnd(a, op) PROVE Effect(a, op)
  BY <1>18 DEF Fills, Takes, MeetsEnd
<1>19. ASSUME BreaksPipe(a, op) PROVE Effect(a, op)
  BY <1>19 DEF BreaksPipe, Halt
<1>20. ASSUME OpensNamed(a, op) PROVE Effect(a, op)
  BY <1>20 DEF OpensNamed, Halt
<1>21. ASSUME Queues(a, op) \/ Dequeues(a, op) PROVE Effect(a, op)
  BY <1>21 DEF Queues, Dequeues
<1>22. ASSUME Masks(a, op) \/ Handles(a, op) \/ Kills(a, op) PROVE Effect(a, op)
  BY <1>22 DEF Masks, Handles, Kills
<1>23. ASSUME SeesHandled(a, op) \/ TakesSignal(a, op) PROVE Effect(a, op)
  BY <1>23 DEF SeesHandled, TakesSignal
<1>24. ASSUME Creates(a, op) \/ FailsToSave(a, op) PROVE Effect(a, op)
  BY <1>24 DEF Creates, FailsToSave, OnStore
<1>25. ASSUME Saves(a, op) \/ LosesPower(a, op) PROVE Effect(a, op)
  BY <1>25 DEF Saves, LosesPower, OnStore
<1> QED
  BY <1>0, <1>1, <1>2, <1>3, <1>4, <1>5, <1>6, <1>7, <1>8, <1>9, <1>10, <1>11, <1>12,
     <1>13, <1>14, <1>15, <1>16, <1>17, <1>18, <1>19, <1>20, <1>21, <1>22, <1>23, <1>24,
     <1>25 DEF Step, op
-----------------------------------------------------------------------------
(* The invariant. *)

Here(a) == <<a, pc[a]>>
Known(a) == Knows(program)[Here(a)]

TypeInv == /\ program \in DOMAIN Catalogue
           /\ pc \in [Agents -> Nat]
           /\ proc \in [Agents -> Agents]
           /\ status = [q \in Agents |-> status[q]]

\* An agent that has started belongs to a process that has; a process that has a
\* status has no thread left running.
ProcessInv ==
  \A a \in Agents :
    /\ pc[a] = 0 => proc[a] = a
    /\ pc[a] >= 1 => proc[proc[a]] = proc[a] /\ pc[proc[a]] >= 1
    /\ status[a] = Alive => proc[a] = a /\ pc[a] >= 1
    /\ status[a] \notin {Alive, Unborn} => Ended(a)

\* Two agents that hold a mutex share it.
MutexInv == \A g, h \in held : g[1] = h[1] /\ g[2] # h[2] => g[3] = "s" /\ h[3] = "s"

\* A signal handler sets a variable the program gave it.
HandlerInv == \A s \in DOMAIN handler : \E w \in Places(program) :
                CallAt(program, w).call = "handle" /\ CallAt(program, w).n = handler[s]

\* A latch has not gone up more often than there are raisers behind.
Behind(x) == {w \in Raisers(program, x) : pc[w[1]] > w[2]}
LatchInv == \A x : Latch(program, x) => Mem(x) \in Nat /\ Mem(x) <= Cardinality(Behind(x))

SpinInv == \A x : SpinLock(program, x) => Mem(x) \in {0, 1}

\* What an agent relies on is so.
HoldsInv == \A a \in Agents : Running(a) =>
              \A h \in Known(a).holds : <<h[1], a, h[2]>> \in held
SpinsInv == \A a \in Agents : Running(a) =>
              /\ \A x \in Known(a).spins : SpinLock(program, x) /\ Mem(x) = 1
              /\ \A b \in Agents : Running(b) /\ a # b => Known(a).spins \cap Known(b).spins = {}
PassedInv == \A a \in Agents : Running(a) => \A v \in Known(a).passed : pc[v[1]] >= v[2]
UnbornInv == \A a \in Agents :
               /\ Running(a) => \A b \in Known(a).unborn : pc[b] = 0
               /\ pc[a] = 0 /\ <<a, 1>> \in Places(program) =>
                    \A b \in Knows(program)[<<a, 1>>].unborn : pc[b] = 0

Inv == /\ TypeInv /\ ProcessInv /\ MutexInv /\ HandlerInv /\ LatchInv /\ SpinInv
       /\ HoldsInv /\ SpinsInv /\ PassedInv /\ UnbornInv
-----------------------------------------------------------------------------
(* Where an agent is, and what Disciplined says of its call. *)

LEMMA RunningPlace ==
  ASSUME TypeInv, NEW a \in Agents, Running(a)
  PROVE  /\ Here(a) \in Places(program)
         /\ CallAt(program, Here(a)) = Op(a)
         /\ Op(a).k \in Int
         /\ Op(a).call \in Names => Op(a).x \in Agents
         /\ Follows(program, Here(a), Knows(program))
         /\ Sound(program, Here(a), Knows(program))
         /\ pc[a] \in 1 .. Last(a) /\ Last(a) \in Nat
<1>1. Here(a) \in Places(program) /\ CallAt(program, Here(a)) = Op(a)
  BY DEF TypeInv, Running, Here, Places, Calls, CallAt, Op, Script, Agents, Last
<1>2. Last(a) \in Nat /\ pc[a] \in 1 .. Last(a)
  BY ScriptsAssumption DEF TypeInv, Running, Last, Script, Agents
<1>3. Op(a).k \in Int /\ (Op(a).call \in Names => Op(a).x \in Agents)
  BY <1>1, ScriptsAssumption DEF TypeInv, Agents, Script
<1>4. Disciplined(program, Knows(program))
  BY DisciplineAssumption DEF TypeInv
<1> HIDE DEF Here
<1> QED BY <1>1, <1>2, <1>3, <1>4 DEF Disciplined

\* The places of an agent are its numbers 1 to Last.
LEMMA PlaceOf ==
  ASSUME TypeInv, NEW w \in Places(program)
  PROVE  /\ w = <<w[1], w[2]>> /\ w[1] \in Agents /\ w[2] \in 1 .. Last(w[1])
         /\ Last(w[1]) \in Nat /\ CallAt(program, w).k \in Int
         /\ CallAt(program, w).call \in Names => CallAt(program, w).x \in Agents
         /\ Sound(program, w, Knows(program))
         /\ w[2] = 1 => Enters(program, w, Knows(program))
<1>1. w = <<w[1], w[2]>> /\ w[1] \in Agents /\ w[2] \in 1 .. Last(w[1])
  BY DEF TypeInv, Places, Calls, Agents, Script, Last
<1>2. Last(w[1]) \in Nat
  BY <1>1, ScriptsAssumption DEF TypeInv, Last, Script, Agents
<1>3. CallAt(program, w).k \in Int
      /\ (CallAt(program, w).call \in Names => CallAt(program, w).x \in Agents)
  BY ScriptsAssumption DEF TypeInv, Agents, Script
<1>4. Disciplined(program, Knows(program))
  BY DisciplineAssumption DEF TypeInv
<1> QED BY <1>1, <1>2, <1>3, <1>4 DEF Disciplined

\* An agent that some call starts is one that waits to be started.
LEMMA StartedAreChildren ==
  ASSUME TypeInv, NEW b, Starters(program, b) # {}
  PROVE  b \in Children /\ b \in Agents
<1>1. PICK w \in Places(program) : CallAt(program, w).call \in StartCalls /\ CallAt(program, w).x = b
  BY DEF Starters, Where, StartCalls
<1>2. b \in Agents
  BY <1>1, PlaceOf DEF StartCalls, Names
<1>3. w[1] \in Agents /\ w[2] \in Calls(program, w[1])
  BY DEF TypeInv, Places, Agents, Script
<1>4. w[2] \in DOMAIN Script[w[1]]
  BY <1>3, ScriptsAssumption DEF TypeInv, Agents, Script
<1>5. b \in Children
  BY <1>1, <1>3, <1>4 DEF Children, CallAt, Script, StartCalls
<1> QED BY <1>2, <1>5
-----------------------------------------------------------------------------
(* Where a step leaves the agents. *)

\* Nobody goes back behind a gate, or to before its start.
Onward == \A b \in Agents :
            /\ pc[b] >= 1 => pc'[b] >= 1
            /\ \A j \in 1 .. Last(b) + 1 : Gate(program, b, j) /\ pc[b] >= j => pc'[b] >= j

\* Where an agent that runs after the step comes from.
Stays(b) == Running(b) /\ pc'[b] = pc[b]
Begins(a, b) == /\ Op(a).call \in StartCalls /\ Op(a).x = b /\ a # b
                /\ pc[b] = 0 /\ pc'[b] = 1
Proceeds(a) == \E d : Goes(Op(a), d) /\ pc'[a] = pc[a] + d

Control(a) ==
  /\ pc' \in [Agents -> Nat]
  /\ Onward
  /\ \A b \in Agents : pc[b] = 0 => pc'[b] = 0 \/ Begins(a, b)
  /\ \A b \in Agents : pc'[b] \in 1 .. Last(b) =>
       \/ b # a /\ Stays(b)
       \/ b = a /\ Proceeds(a)
       \/ Begins(a, b)

LEMMA GateOp ==
  ASSUME TypeInv, NEW a \in Agents, Running(a), NEW j \in Nat, Gate(program, a, j), pc[a] >= j
  PROVE  pc[a] + Op(a).k >= j
<1>1. Op(a) = CallAt(program, <<a, pc[a]>>) /\ pc[a] \in Calls(program, a)
  BY RunningPlace DEF Here, Calls, Last, Script
<1> QED BY <1>1 DEF Gate

\* What the discipline says of the call an agent is at.
LEMMA CallHere ==
  ASSUME TypeInv, NEW a \in Agents, Running(a)
  PROVE  /\ Here(a) \in Places(program) /\ Here(a)[1] = a /\ Here(a)[2] = pc[a]
         /\ Follows(program, Here(a), Knows(program))
         /\ CallAt(program, Here(a)) = Op(a)
         /\ Knows(program)[Here(a)] = Known(a)
BY RunningPlace DEF Here, Known

LEMMA NextCall ==
  ASSUME TypeInv, NEW a \in Agents, Running(a), NEW d, Goes(Op(a), d)
  PROVE  d \in Int /\ pc[a] + d \in Nat \ {0}
<1>1. Op(a).k \in Int /\ pc[a] \in Nat \ {0}
  BY RunningPlace
<1>2. pc[a] + Op(a).k >= 1
  BY CallHere DEF Follows
<1> QED BY <1>1, <1>2 DEF Goes

LEMMA MoveControl ==
  ASSUME TypeInv, NEW a \in Agents, Running(a), MoveEffect(a, Op(a)) PROVE Control(a)
<1>1. PICK d : Goes(Op(a), d) /\ pc' = [pc EXCEPT ![a] = @ + d]
  BY DEF MoveEffect
<1>2. d \in Int /\ pc[a] + d \in Nat \ {0}
  BY <1>1, NextCall
<1>3. pc' \in [Agents -> Nat] /\ pc'[a] = pc[a] + d /\ \A b \in Agents \ {a} : pc'[b] = pc[b]
  BY <1>1, <1>2 DEF TypeInv
<1>4. pc[a] \in Nat \ {0}
  BY RunningPlace
<1>5. Onward
  <2>1. ASSUME NEW j \in 1 .. Last(a) + 1, Gate(program, a, j), pc[a] >= j PROVE pc'[a] >= j
    <3>1. pc[a] + Op(a).k >= j
      BY <2>1, GateOp, RunningPlace
    <3> QED BY <1>1, <1>3, <1>4, <2>1, <3>1, RunningPlace DEF Goes
  <2> QED BY <1>2, <1>3, <2>1 DEF Onward
<1>6. \A b \in Agents : pc'[b] \in 1 .. Last(b) => (b # a /\ Stays(b)) \/ (b = a /\ Proceeds(a))
  BY <1>1, <1>3 DEF Stays, Proceeds, Running
<1> QED BY <1>3, <1>4, <1>5, <1>6 DEF Control

LEMMA StartControl ==
  ASSUME TypeInv, UnbornInv, NEW a \in Agents, Running(a), StartEffect(a, Op(a))
  PROVE  Control(a) /\ Begins(a, Op(a).x) /\ Op(a).x \in Agents
<1> DEFINE b == Op(a).x
<1>0. Op(a).call \in {"spawn", "fork"}
  BY DEF StartEffect, StartCalls
<1>1. b \in Agents /\ b \in Known(a).unborn /\ pc[a] \in Nat \ {0}
  <2>1. b \in Agents /\ pc[a] \in Nat \ {0}
    BY <1>0, RunningPlace DEF Names
  <2>2. b \in Knows(program)[Here(a)].unborn
    BY <1>0, CallHere DEF Follows
  <2> QED BY <2>1, <2>2, CallHere
<1>2. pc[b] = 0 /\ a # b
  BY <1>1 DEF UnbornInv
<1>3. /\ pc' \in [Agents -> Nat] /\ pc'[a] = pc[a] + 1 /\ pc'[b] = 1
      /\ \A c \in Agents \ {a, b} : pc'[c] = pc[c]
  BY <1>1, <1>2 DEF StartEffect, TypeInv
<1>4. Onward
  BY <1>1, <1>2, <1>3 DEF Onward, TypeInv
<1>5. Begins(a, b)
  BY <1>2, <1>3 DEF Begins, StartEffect
<1>6. Goes(Op(a), 1)
  BY DEF Goes, StartEffect, StartCalls
<1>7. \A c \in Agents : pc'[c] \in 1 .. Last(c) =>
        (c # a /\ Stays(c)) \/ (c = a /\ Proceeds(a)) \/ Begins(a, c)
  BY <1>3, <1>5, <1>6 DEF Stays, Proceeds, Running
<1> QED BY <1>1, <1>3, <1>4, <1>5, <1>7 DEF Control

\* A process that ends: its agents are past their last call, the others as in next.
LEMMA HaltPlaces ==
  ASSUME TypeInv, NEW p, NEW next \in [Agents -> Nat], Halts(p, next)
  PROVE  /\ pc' \in [Agents -> Nat]
         /\ \A b \in Agents : IF proc[b] = p /\ next[b] > 0
                              THEN pc'[b] = Last(b) + 1 ELSE pc'[b] = next[b]
<1>1. \A b \in Agents : Last(b) \in Nat
  BY ScriptsAssumption DEF TypeInv, Last, Script, Agents
<1> QED BY <1>1 DEF Halts

LEMMA HaltControl ==
  ASSUME TypeInv, NEW a \in Agents, Running(a), HaltEffect(a, Op(a)) PROVE Control(a)
<1>1. pc[a] \in Nat \ {0} /\ pc \in [Agents -> Nat]
  BY RunningPlace DEF TypeInv
<1>2. CASE Halts(proc[a], pc)
  <2>1. /\ pc' \in [Agents -> Nat]
        /\ \A b \in Agents : (pc'[b] = Last(b) + 1 /\ pc[b] > 0) \/ pc'[b] = pc[b]
        /\ pc'[a] = Last(a) + 1
    BY <1>1, <1>2, HaltPlaces
  <2>2. \A b \in Agents : Last(b) \in Nat
    BY ScriptsAssumption DEF TypeInv, Last, Script, Agents
  <2>3. Onward
    BY <1>1, <2>1, <2>2 DEF Onward
  <2> QED BY <1>1, <2>1, <2>2, <2>3 DEF Control, Stays, Running
<1>3. CASE Op(a).call = "killChild" /\ Halts(Op(a).x, [pc EXCEPT ![a] = @ + 1])
  <2> DEFINE next == [pc EXCEPT ![a] = @ + 1]
  <2>1. next \in [Agents -> Nat] /\ next[a] = pc[a] + 1 /\ \A b \in Agents \ {a} : next[b] = pc[b]
    BY <1>1
  <2>2. /\ pc' \in [Agents -> Nat]
        /\ \A b \in Agents : (pc'[b] = Last(b) + 1 /\ next[b] > 0) \/ pc'[b] = next[b]
    BY <1>3, <2>1, HaltPlaces
  <2> HIDE DEF next
  <2>3. \A b \in Agents : Last(b) \in Nat
    BY ScriptsAssumption DEF TypeInv, Last, Script, Agents
  <2>4. Onward
    BY <1>1, <2>1, <2>2, <2>3 DEF Onward
  <2>5. Goes(Op(a), 1)
    BY <1>3 DEF Goes
  <2> QED BY <1>1, <2>1, <2>2, <2>3, <2>4, <2>5 DEF Control, Stays, Proceeds, Running
<1> QED BY <1>2, <1>3 DEF HaltEffect

LEMMA StepControl ==
  ASSUME TypeInv, UnbornInv, NEW a \in Agents, Running(a), Effect(a, Op(a)) PROVE Control(a)
BY MoveControl, StartControl, HaltControl DEF Effect
-----------------------------------------------------------------------------
(* Processes. *)

LEMMA EndedStays ==
  ASSUME TypeInv, pc' \in [Agents -> Nat], Onward, NEW b \in Agents, Ended(b)
  PROVE  pc'[b] > Last(b)
<1>1. Last(b) \in Nat /\ pc[b] \in Nat
  BY ScriptsAssumption DEF TypeInv, Last, Script, Agents
<1>2. Gate(program, b, Last(b) + 1)
  BY <1>1 DEF Gate, Calls, Last, Script
<1>3. pc[b] >= Last(b) + 1 /\ Last(b) + 1 \in 1 .. Last(b) + 1
  BY <1>1 DEF Ended
<1>4. pc'[b] >= Last(b) + 1
  BY <1>2, <1>3 DEF Onward
<1> QED BY <1>1, <1>4

LEMMA ProcessStep ==
  ASSUME TypeInv, ProcessInv, UnbornInv, program' = program,
         NEW a \in Agents, Running(a), Effect(a, Op(a))
  PROVE  TypeInv' /\ ProcessInv'
<1> DEFINE op == Op(a)
<1>1. Control(a)
  BY StepControl
<1>2. /\ pc' \in [Agents -> Nat] /\ Agents' = Agents /\ (\A b : Last(b)' = Last(b))
      /\ \A b \in Agents : pc[b] \in Nat /\ pc'[b] \in Nat /\ (pc[b] >= 1 => pc'[b] >= 1)
  BY <1>1 DEF Control, Onward, TypeInv, Agents, Last, Script
<1>3. \A b \in Agents : Ended(b) => Ended(b)'
  BY <1>1, <1>2, EndedStays DEF Control, Ended
<1>4. CASE MoveEffect(a, op)
  <2>1. \A b \in Agents : pc[b] = 0 => pc'[b] = 0
    BY <1>1, <1>4 DEF Control, Begins, MoveEffect
  <2> QED BY <1>2, <1>3, <1>4, <2>1 DEF MoveEffect, TypeInv, ProcessInv
<1>5. CASE StartEffect(a, op)
  <2> DEFINE b == op.x
  <2>1. b \in Agents /\ a # b /\ pc[b] = 0 /\ pc'[b] = 1
        /\ \A c \in Agents \ {b} : pc[c] = 0 => pc'[c] = 0
    BY <1>1, <1>5, StartControl DEF Begins, Control
  <2>2. pc[a] >= 1 /\ proc[b] = b /\ proc \in [Agents -> Agents]
    BY <2>1, RunningPlace DEF ProcessInv, TypeInv
  <2>3. CASE status' = [status EXCEPT ![b] = Alive] /\ proc' = proc
    <3>1. status' = [q \in Agents |-> IF q = b THEN Alive ELSE status[q]]
      BY <2>3 DEF TypeInv
    <3> HIDE DEF b
    <3> QED BY <1>2, <1>3, <2>1, <2>2, <2>3, <3>1 DEF TypeInv, ProcessInv, Alive, Unborn
  <2>4. CASE proc' = [proc EXCEPT ![b] = proc[a]] /\ status' = status
    <3>1. \A c \in Agents : pc[c] >= 1 => proc[c] # b
      BY <2>1 DEF ProcessInv
    <3>2. status[b] # Alive
      BY <2>1 DEF ProcessInv
    <3> HIDE DEF b
    <3>3. proc' \in [Agents -> Agents] /\ proc'[b] = proc[a]
          /\ \A c \in Agents \ {b} : proc'[c] = proc[c]
      BY <2>1, <2>2, <2>4
    <3>4. TypeInv'
      BY <1>2, <2>4, <3>3 DEF TypeInv
    <3>5. ASSUME NEW c \in Agents
          PROVE  /\ pc'[c] = 0 => proc'[c] = c
                 /\ pc'[c] >= 1 => proc'[proc'[c]] = proc'[c] /\ pc'[proc'[c]] >= 1
                 /\ status[c] = Alive => proc'[c] = c /\ pc'[c] >= 1
                 /\ status[c] \notin {Alive, Unborn} => Ended(c)'
      <4>1. CASE c = b
        <5>1. proc[a] \in Agents /\ proc[a] # b /\ proc[proc[a]] = proc[a] /\ pc[proc[a]] >= 1
          BY <2>2, <3>1 DEF ProcessInv
        <5>2. status[c] \notin {Alive, Unborn} => Ended(c)'
          BY <1>3 DEF ProcessInv
        <5> QED BY <1>2, <2>1, <3>2, <3>3, <4>1, <5>1, <5>2
      <4>2. CASE c # b
        <5>1. proc'[c] = proc[c] /\ proc[c] \in Agents
          BY <2>2, <3>3, <4>2
        <5>2. pc[c] >= 1 => proc[c] # b /\ proc'[proc[c]] = proc[c] /\ pc'[proc[c]] >= 1
          BY <1>2, <2>2, <3>1, <3>3, <4>2, <5>1 DEF ProcessInv
        <5> QED BY <1>2, <1>3, <2>1, <4>2, <5>1, <5>2 DEF ProcessInv
      <4> QED BY <4>1, <4>2
    <3> QED BY <1>2, <2>4, <3>4, <3>5 DEF ProcessInv
  <2> QED BY <1>5, <2>3, <2>4 DEF StartEffect
<1>6. ASSUME NEW p \in Agents, proc[p] = p, pc[p] >= 1,
             NEW next \in [Agents -> Nat], \A b \in Agents : next[b] = 0 <=> pc[b] = 0,
             next[p] >= 1, Halts(p, next)
      PROVE  TypeInv' /\ ProcessInv'
  <2>1. pc'[p] = Last(p) + 1 /\ \A b \in Agents : pc[b] = 0 => pc'[b] = 0
    BY <1>2, <1>6, HaltPlaces
  <2>2. Ended(p)'
    BY <1>2, <2>1, ScriptsAssumption DEF Ended, TypeInv, Last, Script, Agents
  <2>3. PICK code : status' = [status EXCEPT ![p] = code]
    BY <1>6 DEF Halts
  <2>4. proc' = proc
    BY <1>6 DEF Halts
  <2> QED BY <2>4, <1>2, <1>3, <1>6, <2>1, <2>2, <2>3 DEF TypeInv, ProcessInv
<1>7. CASE HaltEffect(a, op)
  <2>1. pc[a] \in Nat \ {0} /\ pc \in [Agents -> Nat]
    BY RunningPlace DEF TypeInv
  <2>2. CASE Halts(proc[a], pc)
    <3>1. proc[a] \in Agents /\ proc[proc[a]] = proc[a] /\ pc[proc[a]] >= 1
      BY <2>1 DEF TypeInv, ProcessInv
    <3> QED BY <1>6, <2>1, <2>2, <3>1
  <2>3. CASE /\ op.call = "killChild" /\ status[op.x] = Alive
             /\ Halts(op.x, [pc EXCEPT ![a] = @ + 1])
    <3>1. op.x \in Agents
      BY <2>3, RunningPlace DEF Names
    <3>2. proc[op.x] = op.x /\ pc[op.x] >= 1
      BY <2>3, <3>1 DEF ProcessInv
    <3> DEFINE next == [pc EXCEPT ![a] = @ + 1]
    <3>3. /\ next \in [Agents -> Nat] /\ next[op.x] >= 1
          /\ \A b \in Agents : next[b] = 0 <=> pc[b] = 0
      BY <2>1, <3>1, <3>2
    <3> HIDE DEF next
    <3> QED BY <1>6, <2>3, <3>1, <3>2, <3>3 DEF next
  <2> QED BY <1>7, <2>2, <2>3 DEF HaltEffect
<1> QED BY <1>4, <1>5, <1>7 DEF Effect
-----------------------------------------------------------------------------
(* Mutexes, handlers, and what a call does to one variable. *)

LEMMA MutexStep ==
  ASSUME MutexInv, NEW a, NEW op, HeldEffect(a, op) PROVE MutexInv'
<1>1. CASE op.call = "lock" /\ Free(op.x, op.n) /\ held' = held \cup {<<op.x, a, op.n>>}
  BY <1>1 DEF MutexInv, Free
<1>2. CASE held' \subseteq held
  BY <1>2 DEF MutexInv
<1> QED BY <1>1, <1>2 DEF HeldEffect

LEMMA HandlerStep ==
  ASSUME TypeInv, HandlerInv, program' = program,
         NEW a \in Agents, Running(a), HandlerEffect(Op(a))
  PROVE  HandlerInv'
<1>1. CASE handler' = handler
  BY <1>1 DEF HandlerInv
<1>2. CASE Op(a).call = "handle" /\ handler' = With(handler, Op(a).x, Op(a).n)
  BY <1>2, CallHere DEF HandlerInv, With
<1> QED BY <1>1, <1>2 DEF HandlerEffect

LEMMA MemWith ==
  ASSUME NEW x, NEW v, mem' = With(mem, x, v)
  PROVE  \A y : Mem(y)' = IF y = x THEN v ELSE Mem(y)
BY DEF With, Mem, Value

\* A variable that no handler and no connect() writes changes only at its writers.
LEMMA PrivateMem ==
  ASSUME TypeInv, NEW a \in Agents, Running(a), MemEffect(Op(a)), NEW x, Private(program, x)
  PROVE  \/ Mem(x)' = Mem(x)
         \/ /\ Here(a) \in Writers(program, x) /\ Op(a).call \in StoreCalls /\ Op(a).x = x
            /\ Mem(x)' = Stored(Op(a)) /\ (Op(a).call = "acquire" => Mem(x) < Op(a).n)
<1>1. CASE mem' = mem
  BY <1>1 DEF Mem
<1>2. CASE mem' = With(mem, "connected", Mem("connected") + 1)
  BY <1>2, MemWith DEF Private
<1>3. CASE /\ Op(a).call \in StoreCalls /\ mem' = With(mem, Op(a).x, Stored(Op(a)))
           /\ Op(a).call = "acquire" => Mem(Op(a).x) < Op(a).n
  <2>1. CASE Op(a).x = x
    <3>1. Here(a) \in Writers(program, x)
      BY <1>3, <2>1, CallHere DEF Writers, Where, StoreCalls
    <3>2. Mem(x)' = Stored(Op(a))
      BY <1>3, <2>1, MemWith
    <3> QED BY <1>3, <2>1, <3>1, <3>2
  <2>2. CASE Op(a).x # x
    BY <1>3, <2>2, MemWith
  <2> QED BY <2>1, <2>2
<1> QED BY <1>1, <1>2, <1>3 DEF MemEffect

LEMMA SpinStep ==
  ASSUME TypeInv, SpinInv, program' = program,
         NEW a \in Agents, Running(a), MemEffect(Op(a))
  PROVE  SpinInv'
<1> SUFFICES ASSUME NEW x, SpinLock(program, x) PROVE Mem(x)' \in {0, 1}
  BY DEF SpinInv
<1>1. Mem(x) \in {0, 1} /\ Private(program, x)
  BY DEF SpinInv, SpinLock
<1>2. CASE Mem(x)' = Mem(x)
  BY <1>1, <1>2
<1>3. CASE /\ Here(a) \in Writers(program, x) /\ Op(a).x = x /\ Mem(x)' = Stored(Op(a))
           /\ Op(a).call = "acquire" => Mem(x) < Op(a).n
  <2>0. \/ Resets(CallAt(program, Here(a)))
        \/ CallAt(program, Here(a)).call = "acquire" /\ CallAt(program, Here(a)).n = 1
    BY <1>3 DEF SpinLock
  <2>1. Resets(Op(a)) \/ (Op(a).call = "acquire" /\ Op(a).n = 1)
    BY <2>0, CallHere
  <2> QED BY <1>1, <1>3, <2>1 DEF Resets, Stored
<1> QED BY <1>1, <1>2, <1>3, PrivateMem
-----------------------------------------------------------------------------
(* Latches. *)

LEMMA LatchRaisers ==
  ASSUME TypeInv, NEW x
  PROVE  /\ IsFiniteSet(Raisers(program, x)) /\ Cardinality(Raisers(program, x)) \in Nat
         /\ IsFiniteSet(Behind(x)) /\ Cardinality(Behind(x)) \in Nat
         /\ Raisers(program, x) \subseteq Places(program)
<1>1. Raisers(program, x) \subseteq Places(program) /\ IsFiniteSet(Places(program))
  BY ScriptsAssumption DEF TypeInv, Raisers, Writers, Where
<1>2. IsFiniteSet(Raisers(program, x))
  BY <1>1, FS_Subset
<1>3. IsFiniteSet(Behind(x))
  BY <1>2, FS_Subset DEF Behind
<1> QED BY <1>1, <1>2, <1>3, FS_CardinalityType

LEMMA BehindStays ==
  ASSUME TypeInv, Onward, program' = program, NEW x, Latch(program, x),
         pc' \in [Agents -> Nat]
  PROVE  Behind(x) \subseteq Behind(x)'
<1> SUFFICES ASSUME NEW w \in Raisers(program, x), pc[w[1]] > w[2] PROVE pc'[w[1]] > w[2]
  BY DEF Behind
<1>1. /\ w[1] \in Agents /\ w[2] + 1 \in 1 .. Last(w[1]) + 1 /\ w[2] \in Nat
      /\ pc[w[1]] \in Nat /\ pc'[w[1]] \in Nat
  BY LatchRaisers, PlaceOf DEF TypeInv
<1>2. Gate(program, w[1], w[2] + 1)
  BY DEF Latch
<1>3. pc[w[1]] >= w[2] + 1
  BY <1>1
<1>4. pc'[w[1]] >= w[2] + 1
  BY <1>1, <1>2, <1>3 DEF Onward
<1> QED BY <1>1, <1>4

\* Once the latch has reached the number of its raisers all of them are behind.
LEMMA LatchOpen ==
  ASSUME TypeInv, LatchInv, NEW x, NEW n, ~(Mem(x) < n) \/ Mem(x) >= n,
         NEW v \in Raised(program, x, n)
  PROVE  pc[v[1]] >= v[2]
<1>1. Latch(program, x) /\ n = Cardinality(Raisers(program, x))
  BY DEF Raised
<1>2. PICK w \in Raisers(program, x) : v = <<w[1], w[2] + 1>>
  BY DEF Raised
<1>3. Behind(x) \in SUBSET Raisers(program, x)
  BY DEF Behind
<1>4. Mem(x) \in Nat /\ Mem(x) <= Cardinality(Behind(x)) /\ n \in Nat
  BY <1>1, LatchRaisers DEF LatchInv
<1>5. n <= Cardinality(Behind(x))
  BY <1>4, LatchRaisers
<1>6. Cardinality(Behind(x)) <= n /\ (Cardinality(Behind(x)) = n => Behind(x) = Raisers(program, x))
  BY <1>1, <1>3, LatchRaisers, FS_Subset
<1>7. w \in Behind(x)
  BY <1>5, <1>6, LatchRaisers, <1>4
<1>8. w \in Places(program) /\ pc[w[1]] > w[2]
  BY <1>7, LatchRaisers DEF Behind
<1>9. pc[w[1]] \in Nat /\ w[2] \in Nat
  BY <1>8, PlaceOf DEF TypeInv
<1> QED BY <1>2, <1>8, <1>9

LEMMA LatchStep ==
  ASSUME TypeInv, LatchInv, UnbornInv, program' = program,
         NEW a \in Agents, Running(a), Effect(a, Op(a))
  PROVE  LatchInv'
<1>0. MemEffect(Op(a)) /\ Control(a)
  BY StepControl DEF Effect
<1> SUFFICES ASSUME NEW x, Latch(program, x)
             PROVE  Mem(x)' \in Nat /\ Mem(x)' <= Cardinality(Behind(x)')
  BY DEF LatchInv
<1>1. /\ Mem(x) \in Nat /\ Mem(x) <= Cardinality(Behind(x)) /\ Private(program, x)
      /\ IsFiniteSet(Behind(x)) /\ Cardinality(Behind(x)) \in Nat
  BY LatchRaisers DEF LatchInv, Latch
<1>2. /\ pc' \in [Agents -> Nat] /\ Onward /\ Behind(x) \subseteq Behind(x)'
      /\ IsFiniteSet(Behind(x)') /\ Cardinality(Behind(x)') \in Nat
  <2>1. pc' \in [Agents -> Nat] /\ Onward
    BY <1>0 DEF Control
  <2>2. Behind(x)' \subseteq Raisers(program, x) /\ IsFiniteSet(Raisers(program, x))
    BY LatchRaisers DEF Behind
  <2> QED BY <2>1, <2>2, BehindStays, FS_Subset, FS_CardinalityType
<1>3. CASE Mem(x)' = Mem(x)
  <2>1. Cardinality(Behind(x)) <= Cardinality(Behind(x)')
    BY <1>2, FS_Subset
  <2> QED BY <1>1, <1>2, <1>3, <2>1
<1>4. CASE /\ Here(a) \in Writers(program, x) /\ Op(a).call \in StoreCalls
           /\ Mem(x)' = Stored(Op(a)) /\ Op(a).x = x
  <2>1. CASE Resets(Op(a))
    BY <1>2, <1>4, <2>1 DEF Resets, Stored
  <2>2. CASE ~Resets(Op(a))
    <3>1. Here(a) \in Raisers(program, x)
      BY <1>4, <2>2, CallHere DEF Raisers
    <3>2. Op(a).call \in {"put", "add"} /\ Op(a).n = 1
      <4>1. CallAt(program, Here(a)).call \in {"put", "add"} /\ CallAt(program, Here(a)).n = 1
        BY <3>1 DEF Latch
      <4> QED BY <4>1, CallHere
    <3>3. Mem(x)' \in Nat /\ Mem(x)' <= Mem(x) + 1
      BY <1>1, <1>4, <3>2 DEF Stored
    <3>4. pc[a] \in 1 .. Last(a) /\ Last(a) \in Nat /\ pc'[a] \in Nat
      BY <1>2, RunningPlace
    <3>5. pc'[a] > pc[a]
      <4>1. pc'[a] >= 1
        BY <1>2, <3>4 DEF Onward
      <4>2. CASE pc'[a] \in 1 .. Last(a)
        <5>1. Proceeds(a)
          BY <1>0, <4>2 DEF Control, Begins
        <5> QED BY <1>4, <3>4, <5>1 DEF Proceeds, Goes
      <4> QED BY <3>4, <4>1, <4>2
    <3>6. Here(a) \notin Behind(x) /\ Here(a) \in Behind(x)'
      <4>1. Here(a)[1] = a /\ Here(a)[2] = pc[a] /\ ~(pc[a] > pc[a])
        BY <3>4, CallHere
      <4>2. Here(a) \notin Behind(x)
        BY <4>1 DEF Behind
      <4>3. \A w \in Raisers(program, x) : pc'[w[1]] > w[2] => w \in Behind(x)'
        BY DEF Behind
      <4> QED BY <3>1, <3>5, <4>1, <4>2, <4>3
    <3>7. /\ Cardinality(Behind(x) \cup {Here(a)}) = Cardinality(Behind(x)) + 1
          /\ IsFiniteSet(Behind(x) \cup {Here(a)})
      BY <1>1, <3>6, FS_AddElement
    <3>8. Behind(x) \cup {Here(a)} \in SUBSET (Behind(x)')
      BY <1>2, <3>6
    <3>9. Cardinality(Behind(x) \cup {Here(a)}) <= Cardinality(Behind(x)')
      BY <1>2, <3>8, FS_Subset
    <3> QED BY <1>1, <1>2, <3>3, <3>7, <3>9
  <2> QED BY <2>1, <2>2
<1> QED BY <1>0, <1>1, <1>3, <1>4, PrivateMem
-----------------------------------------------------------------------------
(* What an agent relies on before and after a step. *)

LEMMA StaysKnown ==
  ASSUME program' = program, NEW b \in Agents, Stays(b)
  PROVE  Known(b)' = Known(b) /\ Running(b)
BY DEF Stays, Known, Here

LEMMA BeginsKnown ==
  ASSUME TypeInv, program' = program, NEW a \in Agents, Running(a), NEW b \in Agents,
         Begins(a, b), pc'[b] \in 1 .. Last(b)
  PROVE  /\ Here(a) \in Starters(program, b) /\ Starters(program, b) # {}
         /\ Known(b)' = Knows(program)[<<b, 1>>] /\ <<b, 1>> \in Places(program)
         /\ Known(b)'.holds = {} /\ Known(b)'.spins = {}
         /\ Known(b)'.passed \subseteq Known(a).passed
         /\ Known(b)'.handles = {} /\ Known(b)'.blocks \subseteq Known(a).blocks
         /\ Sound(program, <<b, 1>>, Knows(program))
<1>1. Here(a) \in Starters(program, b)
  BY CallHere DEF Begins, StartCalls, Starters, Where
<1>2. Known(b)' = Knows(program)[<<b, 1>>]
  BY DEF Known, Here, Begins
<1>3. <<b, 1>> \in Places(program)
  <2>1. 1 \in Calls(program, b)
    BY DEF Begins, Calls, Last, Script
  <2> QED BY <2>1 DEF Places, Agents, Script
<1>4. Enters(program, <<b, 1>>, Knows(program)) /\ Sound(program, <<b, 1>>, Knows(program))
  BY <1>3, PlaceOf
<1>5. /\ Knows(program)[<<b, 1>>].passed \subseteq Knows(program)[Here(a)].passed
      /\ Knows(program)[<<b, 1>>].blocks \subseteq Knows(program)[Here(a)].blocks
  BY <1>1, <1>4 DEF Enters
<1> QED BY <1>1, <1>2, <1>3, <1>4, <1>5 DEF Enters, Known

LEMMA ProceedsKnown ==
  ASSUME TypeInv, program' = program, NEW a \in Agents, Running(a), NEW d,
         Goes(Op(a), d), pc'[a] = pc[a] + d, pc'[a] \in 1 .. Last(a)
  PROVE  \E jump \in BOOLEAN :
           /\ Within(Known(a)', After(program, Op(a), Known(a), jump))
           /\ Op(a).call = "test" /\ jump => ~(Mem(Op(a).x) < Op(a).n)
<1>1. <<a, pc'[a]>> \in Places(program) /\ Known(a)' = Knows(program)[<<a, pc'[a]>>]
  BY DEF Places, Calls, Agents, Script, Last, Known, Here
<1>2. CASE d = 0 /\ Op(a).call \in StayCalls
  <2>1. Known(a)' = Known(a)
    BY <1>2, RunningPlace DEF Known, Here
  <2>2. Within(Known(a), After(program, Op(a), Known(a), FALSE))
    BY <1>2 DEF StayCalls, Within, After
  <2> QED BY <2>1, <2>2
<1>3. CASE d = 1 /\ Op(a).call # "goto"
  <2>1. <<Here(a)[1], Here(a)[2] + 1>> = <<a, pc'[a]>>
    BY <1>3, CallHere
  <2>2. Within(Knows(program)[<<a, pc'[a]>>], After(program, Op(a), Known(a), FALSE))
    BY <1>1, <1>3, <2>1, CallHere DEF Follows
  <2> QED BY <1>1, <2>2
<1>4. CASE d = Op(a).k /\ (Op(a).call = "test" => ~(Mem(Op(a).x) < Op(a).n))
  <2>1. <<Here(a)[1], Here(a)[2] + Op(a).k>> = <<a, pc'[a]>>
    BY <1>4, CallHere
  <2>2. Within(Knows(program)[<<a, pc'[a]>>], After(program, Op(a), Known(a), TRUE))
    BY <1>1, <2>1, CallHere DEF Follows
  <2> QED BY <1>1, <1>4, <2>2
<1> QED BY <1>2, <1>3, <1>4 DEF Goes

\* The three ways to be at a call after a step.
LEMMA KnownStep ==
  ASSUME TypeInv, UnbornInv, program' = program,
         NEW a \in Agents, Running(a), Effect(a, Op(a)), NEW b \in Agents, Running(b)'
  PROVE  \/ b # a /\ Running(b) /\ Known(b)' = Known(b)
         \/ /\ b = a
            /\ \E d : Goes(Op(a), d)
            /\ \E jump \in BOOLEAN :
                 /\ Within(Known(a)', After(program, Op(a), Known(a), jump))
                 /\ Op(a).call = "test" /\ jump => ~(Mem(Op(a).x) < Op(a).n)
         \/ /\ Begins(a, b) /\ Here(a) \in Starters(program, b) /\ <<b, 1>> \in Places(program)
            /\ Known(b)' = Knows(program)[<<b, 1>>]
            /\ Known(b)'.holds = {} /\ Known(b)'.spins = {}
            /\ Known(b)'.passed \subseteq Known(a).passed
            /\ Known(b)'.handles = {} /\ Known(b)'.blocks \subseteq Known(a).blocks
            /\ Sound(program, <<b, 1>>, Knows(program))
<1>1. pc'[b] \in 1 .. Last(b) /\ Control(a)
  BY StepControl DEF Running, Last, Script
<1>2. CASE b # a /\ Stays(b)
  BY <1>2, StaysKnown
<1>3. CASE b = a /\ Proceeds(a)
  BY <1>1, <1>3, ProceedsKnown DEF Proceeds
<1>4. CASE Begins(a, b)
  BY <1>1, <1>4, BeginsKnown
<1> QED BY <1>1, <1>2, <1>3, <1>4 DEF Control
-----------------------------------------------------------------------------
(* What is relied on stays so. *)

LEMMA HoldsStep ==
  ASSUME TypeInv, UnbornInv, HoldsInv, program' = program,
         NEW a \in Agents, Running(a), Effect(a, Op(a))
  PROVE  HoldsInv'
<1>0. HeldEffect(a, Op(a))
  BY DEF Effect
<1> SUFFICES ASSUME NEW b \in Agents, Running(b)', NEW h \in Known(b)'.holds
             PROVE  <<h[1], b, h[2]>> \in held'
  BY DEF HoldsInv, Agents, Script
<1>1. CASE b # a /\ Running(b) /\ Known(b)' = Known(b)
  <2>1. <<h[1], b, h[2]>> \in held
    BY <1>1 DEF HoldsInv
  <2> QED BY <1>0, <1>1, <2>1 DEF HeldEffect
<1>2. CASE b = a /\ \E jump \in BOOLEAN : Within(Known(a)', After(program, Op(a), Known(a), jump))
  <2>1. PICK jump \in BOOLEAN : h \in After(program, Op(a), Known(a), jump).holds
    BY <1>2 DEF Within
  <2>2. \A g \in Known(a).holds : <<g[1], a, g[2]>> \in held
    BY DEF HoldsInv
  <2>3. CASE Op(a).call = "lock"
    <3>1. h \in Known(a).holds \cup {<<Op(a).x, Op(a).n>>}
      BY <2>1, <2>3 DEF After
    <3>2. held' = held \cup {<<Op(a).x, a, Op(a).n>>}
      BY <1>0, <2>3 DEF HeldEffect, LockCalls
    <3> QED BY <1>2, <2>2, <3>1, <3>2
  <2>4. CASE Op(a).call = "unlock"
    <3>1. h \in Known(a).holds /\ h[1] # Op(a).x
      BY <2>1, <2>4 DEF After
    <3>2. held' = {g \in held : <<g[1], g[2]>> # <<Op(a).x, a>>}
      BY <1>0, <2>4 DEF HeldEffect, LockCalls
    <3> QED BY <1>2, <2>2, <3>1, <3>2
  <2>5. CASE Op(a).call = "wait"
    <3>1. h \in Known(a).holds /\ h[1] # Op(a).n
      BY <2>1, <2>5 DEF After
    <3>2. held' = {g \in held : <<g[1], g[2]>> # <<Op(a).n, a>>}
      BY <1>0, <2>5 DEF HeldEffect, LockCalls
    <3> QED BY <1>2, <2>2, <3>1, <3>2
  <2>6. CASE Op(a).call \notin LockCalls
    <3>1. h \in Known(a).holds
      BY <2>1, <2>6 DEF After, LockCalls
    <3>2. held' = held
      BY <1>0, <2>6 DEF HeldEffect, LockCalls
    <3> QED BY <1>2, <2>2, <3>1, <3>2
  <2> QED BY <2>3, <2>4, <2>5, <2>6 DEF LockCalls
<1>3. CASE Known(b)'.holds = {}
  BY <1>3
<1> QED BY <1>1, <1>2, <1>3, KnownStep

LEMMA PassedStep ==
  ASSUME TypeInv, ProcessInv, LatchInv, UnbornInv, PassedInv, program' = program,
         NEW a \in Agents, Running(a), Effect(a, Op(a))
  PROVE  PassedInv'
<1>0. Onward /\ pc' \in [Agents -> Nat] /\ \A b \in Agents : Last(b) \in Nat /\ pc[b] \in Nat
  BY StepControl, ScriptsAssumption DEF Control, TypeInv, Last, Agents, Script
<1> SUFFICES ASSUME NEW b \in Agents, Running(b)', NEW v \in Known(b)'.passed
             PROVE  pc'[v[1]] >= v[2]
  BY DEF PassedInv, Agents, Script
<1>1. ASSUME NEW c \in Agents, Running(c), v \in Known(c).passed PROVE pc'[v[1]] >= v[2]
  <2>1. Sound(program, Here(c), Knows(program)) /\ Knows(program)[Here(c)] = Known(c)
    BY <1>1, RunningPlace, CallHere
  <2>2. /\ v[1] \in DOMAIN Catalogue[program] /\ Gate(program, v[1], v[2])
        /\ v[2] \in 1 .. Len(Catalogue[program][v[1]]) + 1
    BY <1>1, <2>1 DEF Sound
  <2>3. pc[v[1]] >= v[2] /\ v[1] \in Agents /\ v[2] \in 1 .. Last(v[1]) + 1
    BY <1>1, <2>2 DEF PassedInv, Agents, Script, Last
  <2> QED BY <1>0, <2>2, <2>3 DEF Onward
<1>2. CASE b = a /\ (\E d : Goes(Op(a), d)) /\
           \E jump \in BOOLEAN : /\ Within(Known(a)', After(program, Op(a), Known(a), jump))
                                 /\ Op(a).call = "test" /\ jump => ~(Mem(Op(a).x) < Op(a).n)
  <2>1. PICK jump \in BOOLEAN :
          /\ v \in After(program, Op(a), Known(a), jump).passed
          /\ Op(a).call = "test" /\ jump => ~(Mem(Op(a).x) < Op(a).n)
    BY <1>2 DEF Within
  <2>2. CASE v \in Known(a).passed
    BY <1>1, <2>2
  <2>3. CASE Op(a).call \in {"join", "waitpid"} /\ v \in End(program, Op(a).x)
    <3>1. Op(a).x \in Agents /\ v = <<Op(a).x, Last(Op(a).x) + 1>>
      BY <2>3, RunningPlace DEF End, Last, Script, Names
    <3>2. Ended(Op(a).x)
      BY <1>2, <2>3, <3>1 DEF Goes, ProcessInv, Alive, Unborn
    <3>3. pc'[Op(a).x] > Last(Op(a).x) /\ pc'[Op(a).x] \in Nat
      BY <1>0, <3>1, <3>2, EndedStays
    <3> QED BY <1>0, <3>1, <3>3
  <2>4. CASE v \in Raised(program, Op(a).x, Op(a).n) /\
             (~(Mem(Op(a).x) < Op(a).n) \/ Mem(Op(a).x) >= Op(a).n)
    <3>1. pc[v[1]] >= v[2]
      BY <2>4, LatchOpen
    <3>2. PICK w \in Raisers(program, Op(a).x) : v = <<w[1], w[2] + 1>>
      BY <2>4 DEF Raised
    <3>3. Gate(program, w[1], w[2] + 1)
      BY <2>4 DEF Raised, Latch
    <3>4. w[1] \in Agents /\ w[2] + 1 \in 1 .. Last(w[1]) + 1
      BY LatchRaisers, PlaceOf
    <3> QED BY <1>0, <3>1, <3>2, <3>3, <3>4 DEF Onward
  <2>5. Op(a).call = "await" => Mem(Op(a).x) >= Op(a).n
    BY <1>2 DEF Goes
  <2> QED BY <2>1, <2>2, <2>3, <2>4, <2>5 DEF After
<1>3. CASE Known(b)'.passed \subseteq Known(a).passed
  BY <1>1, <1>3
<1>4. CASE b # a /\ Running(b) /\ Known(b)' = Known(b)
  BY <1>1, <1>4
<1> QED BY <1>2, <1>3, <1>4, KnownStep

LEMMA UnbornStep ==
  ASSUME TypeInv, UnbornInv, program' = program,
         NEW a \in Agents, Running(a), Effect(a, Op(a))
  PROVE  UnbornInv'
<1>0. Control(a)
  BY StepControl
<1>1. ASSUME NEW w, w[1] # a, Sound(program, w, Knows(program)),
             NEW c \in Knows(program)[w].unborn, pc[c] = 0
      PROVE  pc'[c] = 0
  <2>1. Starters(program, c) # {} /\ \A v \in Starters(program, c) : v[1] = w[1]
    BY <1>1 DEF Sound
  <2>2. c \in Agents
    BY <2>1, StartedAreChildren
  <2>3. ASSUME Begins(a, c) PROVE FALSE
    <3>1. Here(a) \in Starters(program, c) /\ Here(a)[1] = a
      BY <2>3, CallHere DEF Begins, StartCalls, Starters, Where
    <3> QED BY <1>1, <2>1, <3>1
  <2> QED BY <1>0, <1>1, <2>2, <2>3 DEF Control
<1>2. ASSUME NEW b \in Agents, Running(b)', NEW c \in Known(b)'.unborn PROVE pc'[c] = 0
  <2>1. CASE b # a /\ Running(b) /\ Known(b)' = Known(b)
    <3>1. /\ Sound(program, Here(b), Knows(program)) /\ Here(b)[1] = b
          /\ Knows(program)[Here(b)] = Known(b)
      BY <2>1, RunningPlace, CallHere
    <3>2. pc[c] = 0
      BY <1>2, <2>1 DEF UnbornInv
    <3> QED BY <1>1, <1>2, <2>1, <3>1, <3>2
  <2>2. CASE b = a /\ \E jump \in BOOLEAN : Within(Known(a)', After(program, Op(a), Known(a), jump))
    <3>1. c \in Known(a).unborn /\ (Op(a).call \in {"spawn", "fork"} => c # Op(a).x)
      BY <1>2, <2>2 DEF Within, After
    <3>2. pc[c] = 0
      BY <3>1 DEF UnbornInv
    <3>3. Starters(program, c) # {}
      <4>1. Sound(program, Here(a), Knows(program)) /\ Knows(program)[Here(a)] = Known(a)
        BY RunningPlace, CallHere
      <4> QED BY <3>1, <4>1 DEF Sound
    <3>4. c \in Agents
      BY <3>3, StartedAreChildren
    <3> QED BY <1>0, <3>1, <3>2, <3>4 DEF Control, Begins, StartCalls
  <2>3. CASE /\ Begins(a, b) /\ <<b, 1>> \in Places(program)
             /\ Known(b)' = Knows(program)[<<b, 1>>] /\ Sound(program, <<b, 1>>, Knows(program))
    <3>1. pc[c] = 0 /\ b # a
      BY <1>2, <2>3 DEF UnbornInv, Begins
    <3> QED BY <1>1, <1>2, <2>3, <3>1
  <2> QED BY <1>2, <2>1, <2>2, <2>3, KnownStep
<1>3. ASSUME NEW b \in Agents, pc'[b] = 0, <<b, 1>> \in Places(program),
             NEW c \in Knows(program)[<<b, 1>>].unborn
      PROVE  pc'[c] = 0
  <2>1. pc[b] = 0
    BY <1>0, <1>3 DEF Control, Onward, TypeInv
  <2>2. pc[c] = 0 /\ b # a
    BY <1>3, <2>1, RunningPlace DEF UnbornInv
  <2>3. Sound(program, <<b, 1>>, Knows(program))
    BY <1>3, PlaceOf
  <2> QED BY <1>1, <1>3, <2>2, <2>3
<1> QED BY <1>2, <1>3 DEF UnbornInv, Agents, Script

\* Who relies on a spin lock after a step did before and has not given it back, or
\* has just taken it.
LEMMA SpinsKnown ==
  ASSUME TypeInv, UnbornInv, program' = program,
         NEW a \in Agents, Running(a), Effect(a, Op(a)),
         NEW b \in Agents, Running(b)', NEW x \in Known(b)'.spins
  PROVE  \/ Running(b) /\ x \in Known(b).spins /\ ~(b = a /\ Op(a).call = "put" /\ Op(a).x = x)
         \/ b = a /\ Op(a).call = "acquire" /\ Op(a).x = x /\ SpinLock(program, x)
<1>1. CASE b = a /\ \E jump \in BOOLEAN : Within(Known(a)', After(program, Op(a), Known(a), jump))
  <2>1. PICK jump \in BOOLEAN : x \in After(program, Op(a), Known(a), jump).spins
    BY <1>1 DEF Within
  <2>2. CASE Op(a).call = "acquire" /\ SpinLock(program, Op(a).x)
    BY <1>1, <2>1, <2>2 DEF After
  <2>3. CASE Op(a).call = "put"
    BY <1>1, <2>1, <2>3 DEF After
  <2>4. CASE /\ Op(a).call # "put"
             /\ ~(Op(a).call = "acquire" /\ SpinLock(program, Op(a).x))
    BY <1>1, <2>1, <2>4 DEF After
  <2> QED BY <2>2, <2>3, <2>4
<1>2. CASE b # a /\ Running(b) /\ Known(b)' = Known(b)
  BY <1>2
<1>3. CASE Known(b)'.spins = {}
  BY <1>3
<1> QED BY <1>1, <1>2, <1>3, KnownStep

LEMMA SpinsStep ==
  ASSUME TypeInv, UnbornInv, SpinInv, SpinsInv, program' = program,
         NEW a \in Agents, Running(a), Effect(a, Op(a))
  PROVE  SpinsInv'
<1>0. MemEffect(Op(a))
  BY DEF Effect
<1>1. ASSUME NEW x, SpinLock(program, x), Op(a).x = x, Op(a).call \in StoreCalls
      PROVE  /\ Mem(x)' = Stored(Op(a)) /\ (Op(a).call = "acquire" => Mem(x) = 0)
             /\ \/ Op(a).call = "put" /\ x \in Known(a).spins
                \/ Op(a).call = "acquire" /\ Mem(x)' = 1
  <2>1. Mem(x)' = Stored(Op(a)) /\ (Op(a).call = "acquire" => Mem(x) < Op(a).n)
    BY <1>0, <1>1, MemWith DEF MemEffect
  <2>2. Here(a) \in Writers(program, x)
    BY <1>1, CallHere DEF Writers, Where, StoreCalls
  <2>3. \/ Resets(CallAt(program, Here(a)))
        \/ CallAt(program, Here(a)).call = "acquire" /\ CallAt(program, Here(a)).n = 1
    BY <1>1, <2>2 DEF SpinLock
  <2>4. CASE Resets(Op(a))
    <3>1. x \in Knows(program)[Here(a)].spins
      BY <1>1, <2>4, CallHere DEF Follows, Resets
    <3> QED BY <2>1, <2>4, <3>1, CallHere DEF Resets
  <2>5. CASE Op(a).call = "acquire" /\ Op(a).n = 1
    <3>1. Mem(x) = 0
      BY <1>1, <2>1, <2>5 DEF SpinInv
    <3> QED BY <1>1, <2>1, <2>5, <3>1 DEF Stored
  <2> QED BY <2>3, <2>4, <2>5, CallHere
<1>2. ASSUME NEW b \in Agents, Running(b)', NEW x \in Known(b)'.spins
      PROVE  SpinLock(program, x) /\ Mem(x)' = 1
  <2>1. CASE /\ Running(b) /\ x \in Known(b).spins
             /\ ~(b = a /\ Op(a).call = "put" /\ Op(a).x = x)
    <3>1. SpinLock(program, x) /\ Mem(x) = 1 /\ Private(program, x)
      BY <2>1 DEF SpinsInv, SpinLock
    <3>2. CASE Op(a).x = x /\ Op(a).call \in StoreCalls
      <4>1. ~(Op(a).call = "put" /\ x \in Known(a).spins)
        BY <2>1, <3>2 DEF SpinsInv
      <4> QED BY <1>1, <3>1, <3>2, <4>1
    <3>3. CASE ~(Op(a).x = x /\ Op(a).call \in StoreCalls)
      BY <1>0, <3>1, <3>3, PrivateMem
    <3> QED BY <3>2, <3>3
  <2>2. CASE b = a /\ Op(a).call = "acquire" /\ Op(a).x = x /\ SpinLock(program, x)
    BY <1>1, <2>2 DEF StoreCalls
  <2> QED BY <1>2, <2>1, <2>2, SpinsKnown
<1>3. ASSUME NEW b \in Agents, Running(b)', NEW c \in Agents, Running(c)', b # c,
             NEW x \in Known(b)'.spins, x \in Known(c)'.spins
      PROVE  FALSE
  <2>1. \/ Running(b) /\ x \in Known(b).spins
        \/ b = a /\ Op(a).call = "acquire" /\ Op(a).x = x /\ SpinLock(program, x)
    BY <1>3, SpinsKnown
  <2>2. \/ Running(c) /\ x \in Known(c).spins
        \/ c = a /\ Op(a).call = "acquire" /\ Op(a).x = x /\ SpinLock(program, x)
    BY <1>3, SpinsKnown
  <2>3. ASSUME Op(a).call = "acquire", Op(a).x = x, SpinLock(program, x) PROVE Mem(x) = 0
    BY <1>1, <2>3 DEF StoreCalls
  <2> QED BY <1>3, <2>1, <2>2, <2>3 DEF SpinsInv
<1>4. \A b \in Agents : Running(b)' => \A x \in Known(b)'.spins : SpinLock(program, x) /\ Mem(x)' = 1
  BY <1>2
<1>5. \A b, c \in Agents : Running(b)' /\ Running(c)' /\ b # c => Known(b)'.spins \cap Known(c)'.spins = {}
  BY <1>3
<1> QED BY <1>4, <1>5 DEF SpinsInv, Agents, Script
-----------------------------------------------------------------------------
(* The invariant holds. *)

LEMMA InvInit == Init => Inv
<1> SUFFICES ASSUME Init PROVE Inv
  OBVIOUS
<1>1. /\ TypeInv /\ held = {} /\ handler = <<>> /\ mem = <<>>
      /\ \A a \in Agents : pc[a] = IF a \in Children THEN 0 ELSE 1
      /\ \A a \in Agents : proc[a] = a /\ status[a] = IF a \in Children THEN Unborn ELSE Alive
  BY DEF Init, TypeInv
<1>2. \A x : Mem(x) = 0
  BY <1>1 DEF Mem, Value
<1>3. ProcessInv /\ MutexInv /\ HandlerInv /\ SpinInv
  BY <1>1, <1>2 DEF ProcessInv, MutexInv, HandlerInv, SpinInv, Alive, Unborn
<1>4. LatchInv
  BY <1>1, <1>2, LatchRaisers DEF LatchInv
<1>5. ASSUME NEW w \in Places(program), NEW b \in Knows(program)[w].unborn PROVE pc[b] = 0
  <2>1. Starters(program, b) # {}
    BY <1>1, <1>5, PlaceOf DEF Sound
  <2> QED BY <1>1, <2>1, StartedAreChildren
<1>6. ASSUME NEW a \in Agents, Running(a)
      PROVE  /\ Known(a).holds = {} /\ Known(a).spins = {} /\ Known(a).passed = {}
             /\ \A b \in Known(a).unborn : pc[b] = 0
  <2>1. pc[a] = 1 /\ a \notin Children
    BY <1>1, <1>6 DEF Running
  <2>2. Starters(program, a) = {}
    BY <1>1, <2>1, StartedAreChildren
  <2>3. /\ Here(a) \in Places(program) /\ Here(a)[1] = a /\ Here(a)[2] = 1
        /\ Knows(program)[Here(a)] = Known(a)
    BY <1>1, <1>6, <2>1, CallHere
  <2>4. Enters(program, Here(a), Knows(program))
    BY <1>1, <2>3, PlaceOf
  <2> QED BY <1>5, <2>2, <2>3, <2>4 DEF Enters
<1>7. HoldsInv /\ SpinsInv /\ PassedInv /\ UnbornInv
  BY <1>5, <1>6 DEF HoldsInv, SpinsInv, PassedInv, UnbornInv
<1> QED BY <1>1, <1>3, <1>4, <1>7 DEF Inv

\* A step that takes no lock and writes no variable of the discipline, and after which
\* agents are where they were or have ended.
LEMMA QuietStep ==
  ASSUME Inv, TypeInv', ProcessInv', program' = program, held' = held, handler' = handler,
         \A x : Private(program, x) => Mem(x)' = Mem(x),
         Onward, \A b \in Agents : pc[b] = 0 => pc'[b] = 0,
         \A b \in Agents : pc'[b] \in 1 .. Last(b) => Stays(b)
  PROVE  Inv'
<1> USE DEF Inv
<1>1. MutexInv' /\ HandlerInv'
  BY DEF MutexInv, HandlerInv
<1>2. SpinInv'
  BY DEF SpinInv, SpinLock
<1>3. LatchInv'
  <2> SUFFICES ASSUME NEW x, Latch(program, x)
               PROVE  Mem(x)' \in Nat /\ Mem(x)' <= Cardinality(Behind(x)')
    BY DEF LatchInv
  <2>1. Mem(x)' \in Nat /\ Mem(x)' <= Cardinality(Behind(x)) /\ Cardinality(Behind(x)) \in Nat
    BY LatchRaisers DEF LatchInv, Latch
  <2>2. pc' \in [Agents -> Nat]
    BY DEF TypeInv, Agents, Script
  <2>3. Behind(x) \in SUBSET (Behind(x)')
    BY <2>2, BehindStays
  <2>4. Behind(x)' \in SUBSET Raisers(program, x)
    BY DEF Behind
  <2>5. IsFiniteSet(Behind(x)') /\ Cardinality(Behind(x)') \in Nat
    BY <2>4, LatchRaisers, FS_Subset, FS_CardinalityType
  <2>6. Cardinality(Behind(x)) <= Cardinality(Behind(x)')
    BY <2>3, <2>5, FS_Subset
  <2> QED BY <2>1, <2>5, <2>6
<1>4. ASSUME NEW b \in Agents, Running(b)' PROVE Running(b) /\ Known(b)' = Known(b)
  <2>1. Stays(b)
    BY <1>4 DEF Running, Last, Script
  <2> QED BY <2>1, StaysKnown
<1>5. HoldsInv'
  BY <1>4 DEF HoldsInv, Agents, Script
<1>6. SpinsInv'
  <2>1. \A b \in Agents : Running(b)' =>
          \A x \in Known(b)'.spins : SpinLock(program, x) /\ Mem(x)' = 1
    BY <1>4 DEF SpinsInv, SpinLock
  <2>2. \A b, c \in Agents : Running(b)' /\ Running(c)' /\ b # c =>
          Known(b)'.spins \cap Known(c)'.spins = {}
    BY <1>4 DEF SpinsInv
  <2> QED BY <2>1, <2>2 DEF SpinsInv, Agents, Script
<1>7. PassedInv'
  <2> SUFFICES ASSUME NEW b \in Agents, Running(b), NEW v \in Known(b).passed
               PROVE  pc'[v[1]] >= v[2]
    BY <1>4 DEF PassedInv, Agents, Script
  <2>1. Sound(program, Here(b), Knows(program)) /\ Knows(program)[Here(b)] = Known(b)
    BY RunningPlace, CallHere
  <2>2. /\ v[1] \in Agents /\ Gate(program, v[1], v[2]) /\ v[2] \in 1 .. Last(v[1]) + 1
    BY <2>1 DEF Sound, Agents, Script, Last
  <2> QED BY <2>2 DEF PassedInv, Onward
<1>8. UnbornInv'
  <2>1. ASSUME NEW w \in Places(program), NEW c \in Knows(program)[w].unborn, pc[c] = 0
        PROVE  pc'[c] = 0
    <3>1. Starters(program, c) # {}
      BY <2>1, PlaceOf DEF Sound
    <3> QED BY <2>1, <3>1, StartedAreChildren
  <2>2. ASSUME NEW b \in Agents, Running(b)', NEW c \in Known(b)'.unborn PROVE pc'[c] = 0
    <3>1. /\ Here(b) \in Places(program) /\ Knows(program)[Here(b)] = Known(b)
          /\ Running(b) /\ c \in Known(b).unborn
      BY <1>4, <2>2, CallHere
    <3> QED BY <2>1, <3>1 DEF UnbornInv
  <2>3. \A b \in Agents : pc'[b] = 0 => pc[b] = 0
    BY DEF Onward, TypeInv
  <2> QED BY <2>1, <2>2, <2>3 DEF UnbornInv, Agents, Script
<1> QED BY <1>1, <1>2, <1>3, <1>5, <1>6, <1>7, <1>8

LEMMA DeliverStep == ASSUME Inv, NEW s, Deliver(s) PROVE Inv'
<1> USE DEF Inv
<1>1. /\ program' = program /\ held' = held /\ handler' = handler /\ proc' = proc
  BY DEF Deliver, Halt, locks
<1>2. \A b \in Agents : Last(b) \in Nat /\ pc[b] \in Nat
  BY ScriptsAssumption DEF TypeInv, Last, Script, Agents
<1>3. \A x : Private(program, x) => Mem(x)' = Mem(x)
  <2> DEFINE h == Value(handler, s, "default")
  <2>1. CASE mem' = mem
    BY <2>1 DEF Mem
  <2>2. CASE h \notin {"default", "exit"} /\ mem' = With(mem, h, 1)
    <3>1. s \in DOMAIN handler /\ h = handler[s]
      BY <2>2 DEF Value
    <3>2. \A x : Private(program, x) => x # h
      BY <3>1 DEF HandlerInv, Private
    <3> HIDE DEF h
    <3> QED BY <2>2, <3>2, MemWith
  <2> QED BY <2>1, <2>2 DEF Deliver, Halt
<1>4. CASE UNCHANGED <<pc, status>>
  <2>1. TypeInv' /\ ProcessInv'
    BY <1>1, <1>4 DEF TypeInv, ProcessInv, Ended, Last, Agents, Script
  <2> QED BY <1>1, <1>2, <1>3, <1>4, <2>1, QuietStep DEF Onward, Stays, Running
<1>5. CASE Halts("main", pc)
  <2>1. "main" \in Agents /\ proc["main"] = "main" /\ pc["main"] >= 1
    <3>1. PICK a \in Agents : Running(a) /\ proc[a] = "main"
      BY DEF Deliver
    <3>2. pc[a] >= 1
      BY <3>1, <1>2 DEF Running
    <3> QED BY <3>1, <3>2 DEF ProcessInv, TypeInv
  <2>2. /\ pc' \in [Agents -> Nat] /\ pc'["main"] = Last("main") + 1
        /\ \A b \in Agents : (pc'[b] = Last(b) + 1 /\ pc[b] > 0) \/ pc'[b] = pc[b]
    BY <1>2, <1>5, <2>1, HaltPlaces DEF TypeInv
  <2>3. Onward /\ (\A b \in Agents : pc[b] = 0 => pc'[b] = 0)
        /\ \A b \in Agents : pc'[b] \in 1 .. Last(b) => Stays(b)
    BY <1>2, <2>2 DEF Onward, Stays, Running
  <2>4. PICK code : status' = [status EXCEPT !["main"] = code]
    BY <1>5 DEF Halts
  <2>5. \A b \in Agents : Ended(b) => Ended(b)'
    BY <1>1, <2>2, <2>3, EndedStays DEF Ended, Last, Script
  <2>6. Ended("main")'
    BY <1>1, <1>2, <2>1, <2>2 DEF Ended, Last, Script
  <2>7. TypeInv'
    BY <1>1, <2>2, <2>4 DEF TypeInv, Agents, Script
  <2>8. ProcessInv'
    BY <1>1, <1>2, <2>1, <2>2, <2>3, <2>4, <2>5, <2>6
    DEF ProcessInv, TypeInv, Onward, Agents, Script
  <2> QED BY <1>1, <1>3, <2>3, <2>7, <2>8, QuietStep
<1> QED BY <1>4, <1>5 DEF Deliver, Halt, Halts

LEMMA InvStep == Inv /\ [Next]_vars => Inv'
<1> SUFFICES ASSUME Inv, [Next]_vars PROVE Inv'
  OBVIOUS
<1>1. ASSUME NEW a \in Agents, Step(a) PROVE Inv'
  <2>1. program' = program /\ Effect(a, Op(a)) /\ Running(a)
    BY <1>1, StepEffect DEF Step
  <2> QED BY <2>1, ProcessStep, MutexStep, HandlerStep, LatchStep, SpinStep, HoldsStep,
             SpinsStep, PassedStep, UnbornStep DEF Inv, Effect
<1>2. ASSUME NEW s, Deliver(s) PROVE Inv'
  BY <1>2, DeliverStep
<1>3. CASE UNCHANGED vars
  <2>1. TypeInv' /\ ProcessInv' /\ \A x : Mem(x)' = Mem(x)
    BY <1>3 DEF Inv, vars, TypeInv, ProcessInv, Ended, Last, Agents, Script, Mem
  <2>2. Onward /\ \A b \in Agents : pc'[b] \in 1 .. Last(b) => Stays(b)
    BY <1>3 DEF vars, Onward, Stays, Running
  <2> QED BY <1>3, <2>1, <2>2, QuietStep DEF vars
<1> QED BY <1>1, <1>2, <1>3 DEF Next

LEMMA InvAlways == Spec => []Inv
BY InvInit, InvStep, PTL DEF Spec

\* No program of the catalogue races: a plain variable is written under a lock, or
\* before its reader can be about, in every interleaving.
THEOREM DisciplinePreventsRaces == Spec => []RaceFree
<1>1. Inv => RaceFree
  <2> SUFFICES ASSUME Inv, NEW a \in Agents, NEW b \in Agents, a # b,
                      NEW s \in Touches(a), NEW t \in Touches(b), s[1] = t[1],
                      {s[2], t[2]} # {"r"}
               PROVE  FALSE
    BY DEF RaceFree
  <2> USE DEF Inv
  <2>1. /\ Running(a) /\ s = <<Op(a).x, Use(Op(a))>> /\ Use(Op(a)) \in {"r", "w"}
        /\ Running(b) /\ t = <<Op(b).x, Use(Op(b))>> /\ Use(Op(b)) \in {"r", "w"}
    BY DEF Touches, At, Use
  <2>2. Conflict(Op(a), Op(b))
    BY <2>1 DEF Conflict
  <2>3. /\ Here(a) \in Places(program) /\ Here(a)[1] = a /\ Here(a)[2] = pc[a]
        /\ CallAt(program, Here(a)) = Op(a) /\ Knows(program)[Here(a)] = Known(a)
        /\ Here(b) \in Places(program) /\ Here(b)[1] = b /\ Here(b)[2] = pc[b]
        /\ CallAt(program, Here(b)) = Op(b) /\ Knows(program)[Here(b)] = Known(b)
    BY <2>1, CallHere
  <2>4. \/ Excludes(Knows(program), Here(a), Here(b))
        \/ Precedes(Knows(program), Here(a), Here(b))
        \/ Precedes(Knows(program), Here(b), Here(a))
    <3>1. Disciplined(program, Knows(program))
      BY DisciplineAssumption DEF TypeInv
    <3> QED BY <2>2, <2>3, <3>1 DEF Disciplined
  <2>5. ASSUME Excludes(Knows(program), Here(a), Here(b)) PROVE FALSE
    <3>1. Known(a).spins \cap Known(b).spins = {}
      BY <2>1 DEF SpinsInv
    <3>2. ASSUME NEW g \in Known(a).holds, NEW h \in Known(b).holds, g[1] = h[1]
          PROVE  {g[2], h[2]} = {"s"}
      <4>1. <<g[1], a, g[2]>> \in held /\ <<h[1], b, h[2]>> \in held
        BY <2>1 DEF HoldsInv
      <4> QED BY <3>2, <4>1 DEF MutexInv
    <3> QED BY <2>3, <2>5, <3>1, <3>2 DEF Excludes
  <2>6. ASSUME NEW c \in Agents, NEW d \in Agents, Running(c), Running(d),
               Precedes(Knows(program), Here(c), Here(d)),
               Knows(program)[Here(c)] = Known(c), Knows(program)[Here(d)] = Known(d),
               Here(c)[1] = c, Here(d)[1] = d, Here(d)[2] = pc[d]
        PROVE  FALSE
    <3>1. pc[c] # 0 /\ pc[d] \in Nat
      BY <2>6 DEF Running, TypeInv
    <3>2. c \notin Known(d).unborn
      BY <2>6, <3>1 DEF UnbornInv
    <3>3. PICK u \in Known(c).passed : u[1] = d /\ u[2] > pc[d]
      BY <2>6, <3>2 DEF Precedes
    <3>4. pc[d] >= u[2]
      BY <2>6, <3>3 DEF PassedInv
    <3>5. u[2] \in Int
      <4>1. Sound(program, Here(c), Knows(program))
        BY <2>6, RunningPlace
      <4> QED BY <2>6, <3>3, <4>1, PlaceOf, ScriptsAssumption DEF Sound, TypeInv
    <3> QED BY <3>1, <3>3, <3>4, <3>5
  <2> QED BY <2>1, <2>3, <2>4, <2>5, <2>6
<1> QED BY <1>1, InvAlways, PTL
-----------------------------------------------------------------------------
(* Signals. *)

\* A process that ends with code, as in Halts.
HaltsWith(p, code, next) ==
  /\ pc' = [b \in Agents |-> IF proc[b] = p /\ next[b] > 0 THEN Last(b) + 1 ELSE next[b]]
  /\ status' = [status EXCEPT ![p] = code]
  /\ proc' = proc

MaskEffect(a, op) ==
  \/ op.call = "block" /\ mask' = [mask EXCEPT ![a] = @ \cup op.n]
  \/ op.call = "unblock" /\ mask' = [mask EXCEPT ![a] = @ \ op.n]
  \/ StartEffect(a, op) /\ mask' = [mask EXCEPT ![op.x] = mask[a]]
  \/ op.call \notin {"block", "unblock"} \cup StartCalls /\ mask' = mask

EndEffect(a, op) ==
  \/ MoveEffect(a, op) /\ op.call # "exit"
  \/ StartEffect(a, op)
  \/ \E code : /\ code \notin {Alive, 143} \/ (op.call \in {"exit", "killChild"} /\ code = op.n)
               /\ \/ HaltsWith(proc[a], code, pc)
                  \/ /\ op.call = "killChild" /\ status[op.x] = Alive
                     /\ HaltsWith(op.x, code, [pc EXCEPT ![a] = @ + 1])

SignalEffect(a, op) ==
  /\ MaskEffect(a, op) /\ EndEffect(a, op)
  /\ IF op.call = "handle" THEN handler' = With(handler, op.x, op.n) ELSE handler' = handler
  /\ pending' \subseteq pending \/ (op.call = "kill" /\ pending' \subseteq pending \cup {op.x})

LEMMA StepSignals == ASSUME NEW a, Step(a) PROVE SignalEffect(a, Op(a))
<1> DEFINE op == Op(a)
<1> HIDE DEF op
<1> USE DEF SignalEffect, MaskEffect, EndEffect, MoveEffect, StartEffect, Goes, HaltsWith,
            LockCalls, StoreCalls, StayCalls, StartCalls, Advance, locks, files, signals, Alive
<1>1. ASSUME Jumps(a, op) PROVE SignalEffect(a, op)
  BY <1>1 DEF Jumps
<1>2. ASSUME Starts(a, op) PROVE SignalEffect(a, op)
  BY <1>2 DEF Starts
<1>3. ASSUME Joins(a, op) \/ Locks(a, op) \/ Unlocks(a, op) PROVE SignalEffect(a, op)
  BY <1>3 DEF Joins, Locks, Unlocks
<1>4. ASSUME Stores(a, op) \/ Awaits(a, op) PROVE SignalEffect(a, op)
  BY <1>4 DEF Stores, Awaits
<1>5. ASSUME WaitsOn(a, op) \/ Wakes(a, op) \/ Notifies(a, op) PROVE SignalEffect(a, op)
  BY <1>5 DEF WaitsOn, Wakes, Notifies
<1>6. ASSUME Execs(a, op) PROVE SignalEffect(a, op)
  BY <1>6 DEF Execs, Halt
<1>7. ASSUME Exits(a, op) PROVE SignalEffect(a, op)
  BY <1>7 DEF Exits, Halt
<1>8. ASSUME WaitsFor(a, op) \/ Spawned(a, op) PROVE SignalEffect(a, op)
  BY <1>8 DEF WaitsFor, Spawned
<1>9. ASSUME KillsChild(a, op) PROVE SignalEffect(a, op)
  BY <1>9 DEF KillsChild, Halt
<1>10. ASSUME Opens(a, op) \/ MeetsPeer(a, op) \/ Connects(a, op) PROVE SignalEffect(a, op)
  BY <1>10 DEF Opens, MeetsPeer, Connects
<1>11. ASSUME Redirects(a, op) \/ Closes(a, op) \/ Cancels(a, op) PROVE SignalEffect(a, op)
  BY <1>11 DEF Redirects, Closes, Cancels
<1>12. ASSUME Fills(a, op) \/ Takes(a, op) \/ MeetsEnd(a, op) PROVE SignalEffect(a, op)
  BY <1>12 DEF Fills, Takes, MeetsEnd
<1>13. ASSUME BreaksPipe(a, op) PROVE SignalEffect(a, op)
  BY <1>13 DEF BreaksPipe, Halt
<1>14. ASSUME OpensNamed(a, op) PROVE SignalEffect(a, op)
  BY <1>14 DEF OpensNamed, Halt
<1>15. ASSUME Queues(a, op) \/ Dequeues(a, op) PROVE SignalEffect(a, op)
  BY <1>15 DEF Queues, Dequeues
<1>16. ASSUME Masks(a, op) \/ Handles(a, op) PROVE SignalEffect(a, op)
  BY <1>16 DEF Masks, Handles
<1>17. ASSUME Kills(a, op) \/ SeesHandled(a, op) \/ TakesSignal(a, op) PROVE SignalEffect(a, op)
  BY <1>17 DEF Kills, SeesHandled, TakesSignal
<1>18. ASSUME Creates(a, op) \/ FailsToSave(a, op) PROVE SignalEffect(a, op)
  BY <1>18 DEF Creates, FailsToSave, OnStore
<1>19. ASSUME Saves(a, op) \/ LosesPower(a, op) PROVE SignalEffect(a, op)
  BY <1>19 DEF Saves, LosesPower, OnStore
<1> QED
  BY <1>1, <1>2, <1>3, <1>4, <1>5, <1>6, <1>7, <1>8, <1>9, <1>10, <1>11, <1>12, <1>13,
     <1>14, <1>15, <1>16, <1>17, <1>18, <1>19 DEF Step, op

\* A running agent is one of a process that has not ended.
AliveInv == \A b \in Agents : Running(b) => status[proc[b]] = Alive

\* Another thread of a process is one that some call spawns.
CrewInv == \A b \in Agents : proc[b] # b => Where(program, {"spawn"}, b) # {}

\* What an agent relies on of signals is so.
BlocksInv == /\ mask = [b \in Agents |-> mask[b]]
             /\ \A b \in Agents : Running(b) => Known(b).blocks \subseteq mask[b]
HandlesInv == \A b \in Agents : Running(b) =>
                \A s \in Known(b).handles : Value(handler, s, "default") # "default"

\* The protected part is open only while main runs and does not rely on it being shut.
ShutInv == /\ \A b \in Agents : Running(b) /\ "protected" \in Known(b).shut => Mem("protected") = 0
           /\ status["main"] = Alive /\ ~Running("main") => Mem("protected") = 0

PendingInv == pending \subseteq Sent(program)

SignalInv == /\ AliveInv /\ CrewInv /\ BlocksInv /\ HandlesInv /\ ShutInv /\ PendingInv

LEMMA ShieldHere ==
  ASSUME TypeInv
  PROVE  /\ "main" \in Agents /\ Starters(program, "main") = {} /\ Private(program, "protected")
         /\ \A w \in Writers(program, "protected") :
              w[1] = "main" /\ CallAt(program, w).call = "put"
         /\ Shielded(program, Knows(program))
<1>1. Disciplined(program, Knows(program))
  BY DisciplineAssumption DEF TypeInv
<1>2. Shielded(program, Knows(program))
  BY <1>1 DEF Disciplined
<1> QED BY <1>2 DEF Shielded, Agents, Script

LEMMA AliveStep ==
  ASSUME TypeInv, ProcessInv, UnbornInv, AliveInv, program' = program,
         NEW a \in Agents, Running(a), Effect(a, Op(a))
  PROVE  AliveInv'
<1> DEFINE op == Op(a)
<1>1. pc[a] \in Nat \ {0} /\ pc \in [Agents -> Nat] /\ status[proc[a]] = Alive
  BY RunningPlace DEF TypeInv, AliveInv
<1> SUFFICES ASSUME NEW b \in Agents, Running(b)' PROVE status'[proc'[b]] = Alive
  BY DEF AliveInv, Agents, Script
<1>2. pc'[b] \in 1 .. Last(b) /\ Control(a)
  BY StepControl DEF Running, Last, Script
<1>3. Running(b) \/ Begins(a, b)
  BY <1>2 DEF Control, Stays
<1>4. CASE MoveEffect(a, op)
  BY <1>3, <1>4 DEF MoveEffect, Begins, AliveInv
<1>5. CASE StartEffect(a, op)
  <2>1. op.x \in Agents /\ Begins(a, op.x) /\ pc[op.x] = 0 /\ a # op.x
    BY <1>5, StartControl DEF Begins
  <2>2. Running(b) => b # op.x /\ pc[b] >= 1
    BY <2>1 DEF Running
  <2>3. Begins(a, b) => b = op.x
    BY DEF Begins
  <2>4. CASE op.call = "fork" /\ status' = [status EXCEPT ![op.x] = Alive] /\ proc' = proc
    <3>1. status' = [q \in Agents |-> IF q = op.x THEN Alive ELSE status[q]]
      BY <2>4 DEF TypeInv
    <3>2. proc[op.x] = op.x /\ proc[b] \in Agents
      BY <2>1 DEF ProcessInv, TypeInv
    <3> QED BY <1>3, <2>3, <2>4, <3>1, <3>2 DEF AliveInv
  <2>5. CASE op.call = "spawn" /\ proc' = [proc EXCEPT ![op.x] = proc[a]] /\ status' = status
    <3>1. proc'[op.x] = proc[a] /\ \A c \in Agents \ {op.x} : proc'[c] = proc[c]
      BY <2>1, <2>5 DEF TypeInv
    <3> QED BY <1>1, <1>3, <2>2, <2>3, <2>5, <3>1 DEF AliveInv
  <2> QED BY <1>5, <2>4, <2>5 DEF StartEffect
<1>6. ASSUME NEW p, NEW next \in [Agents -> Nat], Halts(p, next),
             next[b] > 0 => Running(b)
      PROVE  status'[proc'[b]] = Alive
  <2>1. Last(b) \in Nat
    BY ScriptsAssumption DEF TypeInv, Last, Script, Agents
  <2>2. ~(proc[b] = p /\ next[b] > 0) /\ pc'[b] = next[b]
    BY <1>2, <1>6, <2>1, HaltPlaces
  <2>3. Running(b) /\ proc[b] # p /\ proc' = proc
    BY <1>2, <1>6, <2>2 DEF Halts
  <2>4. PICK code : status' = [status EXCEPT ![p] = code]
    BY <1>6 DEF Halts
  <2>5. status'[proc[b]] = status[proc[b]]
    BY <2>3, <2>4 DEF TypeInv
  <2> QED BY <2>3, <2>5 DEF AliveInv
<1>7. CASE HaltEffect(a, op)
  <2>1. CASE Begins(a, b)
    <3>1. pc[b] = 0 /\ pc'[b] = 1 /\ b # a
      BY <2>1 DEF Begins
    <3>2. CASE Halts(proc[a], pc)
      BY <1>1, <1>6, <3>1, <3>2
    <3>3. CASE Halts(op.x, [pc EXCEPT ![a] = @ + 1])
      <4> DEFINE next == [pc EXCEPT ![a] = @ + 1]
      <4>1. next \in [Agents -> Nat] /\ next[b] = pc[b]
        BY <1>1, <3>1
      <4>2. Halts(op.x, next)
        BY <3>3
      <4> HIDE DEF next
      <4>3. next[b] > 0 => Running(b)
        BY <3>1, <4>1
      <4> QED BY <1>6, <4>1, <4>2, <4>3
    <3> QED BY <1>7, <3>2, <3>3 DEF HaltEffect
  <2>2. CASE Running(b)
    <3>1. CASE Halts(proc[a], pc)
      BY <1>1, <1>6, <2>2, <3>1
    <3>2. CASE Halts(op.x, [pc EXCEPT ![a] = @ + 1])
      <4> DEFINE next == [pc EXCEPT ![a] = @ + 1]
      <4>1. next \in [Agents -> Nat]
        BY <1>1
      <4> HIDE DEF next
      <4> QED BY <1>6, <2>2, <3>2, <4>1 DEF next
    <3> QED BY <1>7, <3>1, <3>2 DEF HaltEffect
  <2> QED BY <1>3, <2>1, <2>2
<1> QED BY <1>4, <1>5, <1>7 DEF Effect

LEMMA CrewStep ==
  ASSUME TypeInv, ProcessInv, CrewInv, program' = program,
         NEW a \in Agents, Running(a), Effect(a, Op(a))
  PROVE  CrewInv'
<1>1. CASE proc' = proc
  BY <1>1 DEF CrewInv, Agents, Script
<1>2. CASE Op(a).call = "spawn" /\ proc' = [proc EXCEPT ![Op(a).x] = proc[a]]
  <2>1. Here(a) \in Where(program, {"spawn"}, Op(a).x)
    BY <1>2, CallHere DEF Where
  <2>2. \A b \in Agents : b # Op(a).x => proc'[b] = proc[b]
    BY <1>2 DEF TypeInv
  <2> QED BY <2>1, <2>2 DEF CrewInv, Agents, Script
<1> QED BY <1>1, <1>2 DEF Effect, StartEffect, HaltEffect, MoveEffect, Halts

LEMMA BlocksStep ==
  ASSUME TypeInv, UnbornInv, BlocksInv, program' = program,
         NEW a \in Agents, Running(a), Effect(a, Op(a)), SignalEffect(a, Op(a))
  PROVE  BlocksInv'
<1> DEFINE op == Op(a)
<1>0. MaskEffect(a, op) /\ mask = [b \in Agents |-> mask[b]]
  BY DEF SignalEffect, BlocksInv
<1>1. mask' = [b \in Agents |-> mask'[b]]
  BY <1>0 DEF MaskEffect
<1>2. ASSUME StartEffect(a, op), NEW c \in Agents, Running(c) PROVE c # op.x
  BY <1>2, StartControl DEF Begins, Running
<1> SUFFICES ASSUME NEW b \in Agents, Running(b)' PROVE Known(b)'.blocks \subseteq mask'[b]
  BY <1>1 DEF BlocksInv, Agents, Script
<1>3. CASE b # a /\ Running(b) /\ Known(b)' = Known(b)
  <2>1. mask'[b] = mask[b]
    BY <1>0, <1>2, <1>3 DEF MaskEffect
  <2> QED BY <1>3, <2>1 DEF BlocksInv
<1>4. CASE b = a /\ \E jump \in BOOLEAN : Within(Known(a)', After(program, op, Known(a), jump))
  <2>1. PICK jump \in BOOLEAN : Known(a)'.blocks \subseteq After(program, op, Known(a), jump).blocks
    BY <1>4 DEF Within
  <2>2. Known(a).blocks \subseteq mask[a]
    BY DEF BlocksInv
  <2>3. CASE op.call = "block"
    <3>1. Known(a)'.blocks \subseteq Known(a).blocks \cup op.n
      BY <2>1, <2>3 DEF After
    <3>2. mask'[a] = mask[a] \cup op.n
      BY <1>0, <2>3 DEF MaskEffect, StartEffect, StartCalls
    <3> QED BY <1>4, <2>2, <3>1, <3>2
  <2>4. CASE op.call = "unblock"
    <3>1. Known(a)'.blocks \subseteq Known(a).blocks \ op.n
      BY <2>1, <2>4 DEF After
    <3>2. mask'[a] = mask[a] \ op.n
      BY <1>0, <2>4 DEF MaskEffect, StartEffect, StartCalls
    <3> QED BY <1>4, <2>2, <3>1, <3>2
  <2>5. CASE op.call \notin {"block", "unblock"}
    <3>1. Known(a)'.blocks \subseteq Known(a).blocks
      BY <2>1, <2>5 DEF After
    <3>2. mask'[a] = mask[a]
      BY <1>0, <1>2, <2>5 DEF MaskEffect
    <3> QED BY <1>4, <2>2, <3>1, <3>2
  <2> QED BY <2>3, <2>4, <2>5
<1>5. CASE Begins(a, b) /\ Known(b)'.blocks \subseteq Known(a).blocks
  <2>1. mask'[b] = mask[a]
    BY <1>0, <1>5 DEF Begins, MaskEffect, StartCalls
  <2> QED BY <1>5, <2>1 DEF BlocksInv
<1> QED BY <1>3, <1>4, <1>5, KnownStep

LEMMA HandlesStep ==
  ASSUME TypeInv, UnbornInv, HandlesInv, program' = program,
         NEW a \in Agents, Running(a), Effect(a, Op(a)), SignalEffect(a, Op(a))
  PROVE  HandlesInv'
<1> DEFINE op == Op(a)
<1>0. IF op.call = "handle" THEN handler' = With(handler, op.x, op.n) ELSE handler' = handler
  BY DEF SignalEffect
<1> SUFFICES ASSUME NEW b \in Agents, Running(b)', NEW s \in Known(b)'.handles
             PROVE  Value(handler', s, "default") # "default"
  BY DEF HandlesInv, Agents, Script
<1>1. op.call = "handle" => Value(handler', op.x, "default") = op.n
  BY <1>0 DEF With, Value
<1>2. ~(op.call = "handle" /\ s = op.x) => Value(handler', s, "default") = Value(handler, s, "default")
  BY <1>0 DEF With, Value
<1>3. CASE b # a /\ Running(b) /\ Known(b)' = Known(b)
  <2>1. \A v \in Where(program, {"handle"}, s) : v[1] = b
    <3>1. Sound(program, Here(b), Knows(program)) /\ Here(b)[1] = b /\ Knows(program)[Here(b)] = Known(b)
      BY <1>3, RunningPlace, CallHere
    <3> QED BY <1>3, <3>1 DEF Sound
  <2>2. op.call = "handle" /\ s = op.x => Here(a) \in Where(program, {"handle"}, s) /\ Here(a)[1] = a
    BY CallHere DEF Where
  <2> QED BY <1>2, <1>3, <2>1, <2>2 DEF HandlesInv
<1>4. CASE b = a /\ \E jump \in BOOLEAN : Within(Known(a)', After(program, op, Known(a), jump))
  <2>1. PICK jump \in BOOLEAN : s \in After(program, op, Known(a), jump).handles
    BY <1>4 DEF Within
  <2>2. CASE op.call = "handle" /\ op.n # "default"
    <3>1. s \in Known(a).handles \cup {op.x}
      BY <2>1, <2>2 DEF After
    <3> QED BY <1>1, <1>2, <2>2, <3>1 DEF HandlesInv
  <2>3. CASE op.call = "handle" /\ op.n = "default"
    <3>1. s \in Known(a).handles /\ s # op.x
      BY <2>1, <2>3 DEF After
    <3> QED BY <1>2, <3>1 DEF HandlesInv
  <2>4. CASE op.call # "handle"
    <3>1. s \in Known(a).handles
      BY <2>1, <2>4 DEF After
    <3> QED BY <1>2, <2>4, <3>1 DEF HandlesInv
  <2> QED BY <2>2, <2>3, <2>4
<1>5. CASE Known(b)'.handles = {}
  BY <1>5
<1> QED BY <1>3, <1>4, <1>5, KnownStep

\* How main is after a step that does not end it.
MainMoves(a) ==
  /\ status["main"] = Alive
  /\ \/ a # "main" /\ pc'["main"] = pc["main"]
     \/ a = "main" /\ Op(a).call # "exit" /\ Proceeds(a)

LEMMA MainStep ==
  ASSUME TypeInv, ProcessInv, UnbornInv, AliveInv, program' = program,
         NEW a \in Agents, Running(a), Effect(a, Op(a)), SignalEffect(a, Op(a)),
         status'["main"] = Alive
  PROVE  MainMoves(a)
<1> DEFINE op == Op(a)
<1>1. /\ "main" \in Agents /\ Starters(program, "main") = {}
      /\ \A w \in Places(program) : CallAt(program, w).call \in {"exit", "killChild"} =>
                                      CallAt(program, w).n \notin {Alive, 143}
  BY ShieldHere DEF Shielded
<1>2. pc \in [Agents -> Nat] /\ pc[a] \in Nat \ {0}
  BY RunningPlace DEF TypeInv
<1>3. CASE MoveEffect(a, op) /\ op.call # "exit"
  BY <1>1, <1>2, <1>3 DEF MoveEffect, MainMoves, Proceeds
<1>4. CASE StartEffect(a, op)
  <2>1. Here(a) \in Starters(program, op.x)
    BY <1>4, CallHere DEF StartEffect, StartCalls, Starters, Where
  <2>2. op.x # "main" /\ op.x \in Agents /\ op.x # a /\ op.call # "exit" /\ op.call # "goto"
    BY <1>1, <1>4, <2>1, StartControl DEF Begins, StartEffect, StartCalls
  <2>3. status'["main"] = status["main"]
    BY <1>1, <1>4, <2>2 DEF StartEffect, TypeInv
  <2>4. pc'[a] = pc[a] + 1 /\ (a # "main" => pc'["main"] = pc["main"])
    BY <1>1, <1>2, <1>4, <2>2 DEF StartEffect
  <2>5. Goes(op, 1)
    BY <1>4, <2>2 DEF StartEffect, StartCalls, Goes
  <2> QED BY <2>2, <2>3, <2>4, <2>5 DEF MainMoves, Proceeds
<1>5. ASSUME NEW p, NEW next \in [Agents -> Nat], NEW code, HaltsWith(p, code, next),
             code # Alive, next["main"] = pc["main"] \/ (a = "main" /\ next["main"] = pc["main"] + 1),
             a = "main" /\ p # a => op.call = "killChild" /\ next[a] = pc[a] + 1
      PROVE  MainMoves(a)
  <2>1. p # "main" /\ status["main"] = Alive
    BY <1>1, <1>5 DEF HaltsWith, TypeInv
  <2>2. proc["main"] = "main"
    BY <1>1, <2>1 DEF ProcessInv
  <2>3. pc'["main"] = next["main"]
    BY <1>1, <1>5, <2>1, <2>2 DEF HaltsWith
  <2>4. op.call = "killChild" => Goes(op, 1)
    BY DEF Goes, StoreCalls, StayCalls
  <2> QED BY <1>1, <1>2, <1>5, <2>1, <2>3, <2>4 DEF MainMoves, Proceeds
<1>6. ASSUME NEW code, code \notin {Alive, 143} \/ (op.call \in {"exit", "killChild"} /\ code = op.n)
      PROVE  code \notin {Alive, 143}
  BY <1>1, <1>6, CallHere
<1>7. ASSUME NEW code, code \notin {Alive, 143}, HaltsWith(proc[a], code, pc) PROVE MainMoves(a)
  <2>1. a = "main" => proc[a] = a
    <3>1. a = "main" => status[a] # Alive \/ proc[a] = a
      BY <1>1 DEF ProcessInv
    <3>2. ASSUME a = "main", status[a] # Alive PROVE FALSE
      <4>1. proc[a] \in Agents /\ status[proc[a]] = Alive
        BY DEF AliveInv, TypeInv
      <4>2. proc[a] # "main"
        BY <3>2, <4>1
      <4>3. status'["main"] = status["main"]
        BY <1>1, <1>7, <4>2 DEF HaltsWith, TypeInv
      <4> QED BY <3>2, <4>3
    <3> QED BY <3>1, <3>2
  <2> QED BY <1>2, <1>5, <1>7, <2>1
<1>8. ASSUME NEW code, code \notin {Alive, 143}, op.call = "killChild",
             HaltsWith(op.x, code, [pc EXCEPT ![a] = @ + 1])
      PROVE  MainMoves(a)
  <2> DEFINE next == [pc EXCEPT ![a] = @ + 1]
  <2>1. /\ next \in [Agents -> Nat] /\ next[a] = pc[a] + 1
        /\ next["main"] = pc["main"] \/ (a = "main" /\ next["main"] = pc["main"] + 1)
    BY <1>1, <1>2
  <2>2. HaltsWith(op.x, code, next)
    BY <1>8
  <2> HIDE DEF next
  <2> QED BY <1>5, <1>8, <2>1, <2>2
<1> QED BY <1>3, <1>4, <1>6, <1>7, <1>8 DEF SignalEffect, EndEffect

\* The protected part changes by a call of main.
LEMMA ProtectedStep ==
  ASSUME TypeInv, NEW a \in Agents, Running(a), Effect(a, Op(a)), NEW jump \in BOOLEAN
  PROVE  /\ a # "main" => Mem("protected")' = Mem("protected")
         /\ /\ "protected" \in After(program, Op(a), Known(a), jump).shut
            /\ "protected" \in Known(a).shut => Mem("protected") = 0
            => Mem("protected")' = 0
<1> DEFINE op == Op(a)
<1>1. MemEffect(op)
  BY DEF Effect
<1>2. \/ Mem("protected")' = Mem("protected")
      \/ /\ Here(a) \in Writers(program, "protected") /\ op.x = "protected"
         /\ Mem("protected")' = Stored(op)
  BY <1>1, ShieldHere, PrivateMem
<1>3. Here(a) \in Writers(program, "protected") => a = "main" /\ op.call = "put"
  <2>1. Here(a) \in Writers(program, "protected")
          => Here(a)[1] = "main" /\ CallAt(program, Here(a)).call = "put"
    BY ShieldHere
  <2> QED BY <2>1, CallHere
<1>4. CASE op.call = "put" /\ op.x = "protected"
  <2>1. Mem("protected")' = op.n
    BY <1>1, <1>4, MemWith DEF MemEffect, StoreCalls, Stored
  <2>2. "protected" \in After(program, op, Known(a), jump).shut => op.n = 0
    BY <1>4 DEF After, Resets
  <2>3. a = "main"
    <3>1. Here(a) \in Writers(program, "protected")
      BY <1>4, CallHere DEF Writers, Where
    <3> QED BY <1>3, <3>1
  <2> QED BY <2>1, <2>2, <2>3
<1>5. CASE ~(op.call = "put" /\ op.x = "protected")
  <2>1. Mem("protected")' = Mem("protected")
    BY <1>2, <1>3, <1>5
  <2>2. "protected" \in After(program, op, Known(a), jump).shut => "protected" \in Known(a).shut
    BY <1>5 DEF After
  <2> QED BY <2>1, <2>2
<1> QED BY <1>4, <1>5

LEMMA ShutStep ==
  ASSUME TypeInv, ProcessInv, UnbornInv, AliveInv, ShutInv, program' = program,
         NEW a \in Agents, Running(a), Effect(a, Op(a)), SignalEffect(a, Op(a))
  PROVE  ShutInv'
<1> DEFINE op == Op(a)
<1>1. "main" \in Agents /\ Starters(program, "main") = {}
  BY ShieldHere
<1>2. "protected" \in Known(a).shut => Mem("protected") = 0
  BY DEF ShutInv
<1>3. ASSUME NEW b \in Agents, Running(b)', "protected" \in Known(b)'.shut
      PROVE  Mem("protected")' = 0
  <2>1. CASE b # a /\ Running(b) /\ Known(b)' = Known(b)
    <3>1. Sound(program, Here(b), Knows(program)) /\ Here(b)[1] = b /\ Knows(program)[Here(b)] = Known(b)
      BY <2>1, RunningPlace, CallHere
    <3>2. b = "main" /\ Mem("protected") = 0
      BY <1>3, <2>1, <3>1 DEF Sound, ShutInv
    <3> QED BY <2>1, <3>2, ProtectedStep
  <2>2. CASE b = a /\ \E jump \in BOOLEAN : Within(Known(a)', After(program, op, Known(a), jump))
    <3>1. PICK jump \in BOOLEAN : "protected" \in After(program, op, Known(a), jump).shut
      BY <1>3, <2>2 DEF Within
    <3> QED BY <1>2, <3>1, ProtectedStep
  <2>3. CASE /\ Here(a) \in Starters(program, b) /\ Known(b)' = Knows(program)[<<b, 1>>]
             /\ Sound(program, <<b, 1>>, Knows(program))
    BY <1>1, <1>3, <2>3 DEF Sound
  <2> QED BY <1>3, <2>1, <2>2, <2>3, KnownStep
<1>4. ASSUME status'["main"] = Alive, ~(Running("main")') PROVE Mem("protected")' = 0
  <2>1. MainMoves(a)
    BY <1>4, MainStep
  <2>2. CASE a # "main" /\ pc'["main"] = pc["main"]
    <3>1. ~Running("main")
      BY <1>4, <2>2 DEF Running, Last, Script
    <3>2. Mem("protected") = 0
      BY <2>1, <3>1 DEF MainMoves, ShutInv
    <3> QED BY <2>2, <3>2, ProtectedStep
  <2>3. CASE a = "main" /\ op.call # "exit" /\ Proceeds(a)
    <3>1. PICK d : Goes(op, d) /\ pc'[a] = pc[a] + d
      BY <2>3 DEF Proceeds
    <3>2. d \in Int /\ pc[a] + d \in Nat \ {0} /\ pc[a] \in 1 .. Last(a) /\ Last(a) \in Nat
          /\ op.k \in Int
      BY <3>1, NextCall, RunningPlace
    <3>3. pc'[a] > Last(a)
      BY <1>4, <2>3, <3>1, <3>2 DEF Running, Last, Script
    <3>4. d = 1 \/ d = op.k
      BY <3>1, <3>2, <3>3 DEF Goes
    <3>5. RunsOff(program, Here(a))
      <4>1. CallAt(program, Here(a)) = op /\ Here(a)[1] = a /\ Here(a)[2] = pc[a]
        BY CallHere
      <4> QED BY <2>3, <3>1, <3>3, <3>4, <4>1 DEF RunsOff, Last, Script
    <3>6. "protected" \in After(program, op, Known(a), FALSE).shut
      <4>1. /\ Here(a) \in Places(program) /\ Here(a)[1] = "main"
            /\ CallAt(program, Here(a)) = op /\ Knows(program)[Here(a)] = Known(a)
        BY <2>3, CallHere
      <4>2. Shielded(program, Knows(program))
        BY ShieldHere
      <4> QED BY <3>5, <4>1, <4>2 DEF Shielded
    <3> QED BY <1>2, <3>6, ProtectedStep
  <2> QED BY <2>1, <2>2, <2>3 DEF MainMoves
<1> QED BY <1>3, <1>4 DEF ShutInv, Agents, Script

LEMMA PendingStep ==
  ASSUME TypeInv, PendingInv, program' = program,
         NEW a \in Agents, Running(a), SignalEffect(a, Op(a))
  PROVE  PendingInv'
<1>1. Op(a).call = "kill" => Op(a).x \in Sent(program)
  BY CallHere DEF Sent
<1> QED BY <1>1 DEF SignalEffect, PendingInv

LEMMA SignalInvInit == Init => SignalInv
<1> SUFFICES ASSUME Init PROVE SignalInv
  OBVIOUS
<1>1. /\ TypeInv /\ pending = {} /\ handler = <<>> /\ mem = <<>>
      /\ \A a \in Agents : pc[a] = IF a \in Children THEN 0 ELSE 1
      /\ \A a \in Agents : proc[a] = a /\ status[a] = IF a \in Children THEN Unborn ELSE Alive
      /\ mask = [a \in Agents |-> {}]
  BY DEF Init, TypeInv
<1>2. \A x : Mem(x) = 0
  BY <1>1 DEF Mem, Value
<1>3. ASSUME NEW b \in Agents, Running(b)
      PROVE  status[proc[b]] = Alive /\ Known(b).blocks = {} /\ Known(b).handles = {}
  <2>1. pc[b] = 1 /\ b \notin Children
    BY <1>1, <1>3 DEF Running
  <2>2. Starters(program, b) = {}
    BY <1>1, <2>1, StartedAreChildren
  <2>3. /\ Here(b) \in Places(program) /\ Here(b)[1] = b /\ Here(b)[2] = 1
        /\ Knows(program)[Here(b)] = Known(b)
    BY <1>1, <1>3, <2>1, CallHere
  <2>4. Enters(program, Here(b), Knows(program))
    BY <1>1, <2>3, PlaceOf
  <2> QED BY <1>1, <2>1, <2>2, <2>3, <2>4 DEF Enters
<1> QED BY <1>1, <1>2, <1>3
       DEF SignalInv, AliveInv, CrewInv, BlocksInv, HandlesInv, ShutInv, PendingInv

\* No handler is run, and no process ended, while the protected part is open and the
\* signal is one that would end main.
LEMMA NotWithin ==
  ASSUME Inv, SignalInv, NEW s, Deliver(s), Value(handler, s, "default") = "default"
  PROVE  Mem("protected") = 0
<1> USE DEF Inv, SignalInv
<1>1. PICK a \in Agents : Running(a) /\ proc[a] = "main" /\ s \notin mask[a]
  BY DEF Deliver
<1>2. status["main"] = Alive /\ "main" \in Agents
  BY <1>1, ShieldHere DEF AliveInv
<1> SUFFICES ASSUME Running("main"), "protected" \notin Known("main").shut PROVE FALSE
  BY <1>2 DEF ShutInv
<1>3. /\ Here("main") \in Places(program) /\ Here("main")[1] = "main"
      /\ Knows(program)[Here("main")] = Known("main")
  BY <1>2, CallHere
<1>4. s \in Sent(program)
  BY DEF Deliver, PendingInv
<1>5. \/ s \in Known("main").handles
      \/ s \in Known("main").blocks /\ \A v \in Crew(program) : s \in Knows(program)[v].blocks
  <2>1. Shielded(program, Knows(program))
    BY ShieldHere
  <2> QED BY <1>3, <1>4, <2>1 DEF Shielded
<1>6. s \notin Known("main").handles
  BY <1>2 DEF HandlesInv
<1>7. s \in Known(a).blocks
  <2>1. CASE a = "main"
    BY <1>5, <1>6, <2>1
  <2>2. CASE a # "main"
    <3>1. Where(program, {"spawn"}, a) # {}
      BY <1>1, <2>2 DEF CrewInv
    <3>2. Here(a) \in Places(program) /\ Here(a)[1] = a /\ Knows(program)[Here(a)] = Known(a)
      BY <1>1, CallHere
    <3>3. Here(a) \in Crew(program)
      BY <2>2, <3>1, <3>2 DEF Crew
    <3> QED BY <1>5, <1>6, <3>2, <3>3
  <2> QED BY <2>1, <2>2
<1> QED BY <1>1, <1>7 DEF BlocksInv

LEMMA SignalInvDeliver == ASSUME Inv, SignalInv, NEW s, Deliver(s) PROVE SignalInv'
<1> USE DEF Inv, SignalInv
<1> DEFINE h == Value(handler, s, "default")
<1>1. /\ program' = program /\ handler' = handler /\ proc' = proc /\ mask' = mask
      /\ pending' \subseteq pending
  BY DEF Deliver, Halt
<1>2. Private(program, "protected") /\ "main" \in Agents
  BY ShieldHere
<1>3. Mem("protected")' = Mem("protected")
  <2>1. CASE mem' = mem
    BY <2>1 DEF Mem
  <2>2. CASE h \notin {"default", "exit"} /\ mem' = With(mem, h, 1)
    <3>1. s \in DOMAIN handler /\ h = handler[s]
      BY <2>2 DEF Value
    <3>2. h # "protected"
      BY <1>2, <3>1 DEF HandlerInv, Private
    <3> HIDE DEF h
    <3> QED BY <2>2, <3>2, MemWith
  <2> QED BY <2>1, <2>2 DEF Deliver, Halt
<1>4. CrewInv' /\ PendingInv'
  BY <1>1 DEF CrewInv, PendingInv, Agents, Script
<1>5. CASE UNCHANGED <<pc, status>>
  <2>1. \A b \in Agents : Running(b)' => Running(b) /\ Known(b)' = Known(b)
    BY <1>1, <1>5 DEF Running, Last, Script, Known, Here
  <2>2. Running("main") => Running("main")'
    BY <1>1, <1>5 DEF Running, Last, Script
  <2>3. AliveInv' /\ BlocksInv' /\ HandlesInv'
    BY <1>1, <1>5, <2>1 DEF AliveInv, BlocksInv, HandlesInv, Agents, Script
  <2>4. ShutInv'
    BY <1>1, <1>2, <1>3, <1>5, <2>1, <2>2 DEF ShutInv, Agents, Script
  <2> QED BY <1>4, <2>3, <2>4
<1>6. ASSUME NEW code \in {0, 143}, HaltsWith("main", code, pc) PROVE SignalInv'
  <2>1. Halts("main", pc) /\ code # Alive
    <3>1. Halts("main", pc)
      BY <1>6 DEF Halts, HaltsWith
    <3> QED BY <3>1 DEF Alive
  <2>2. \A b \in Agents : Last(b) \in Nat
    BY ScriptsAssumption DEF TypeInv, Last, Script, Agents
  <2>3. \A b \in Agents : IF proc[b] = "main" /\ pc[b] > 0
                          THEN pc'[b] = Last(b) + 1 ELSE pc'[b] = pc[b]
    BY <2>1, HaltPlaces DEF TypeInv
  <2>4. ASSUME NEW b \in Agents, Running(b)'
        PROVE  Running(b) /\ Known(b)' = Known(b) /\ proc[b] # "main"
    <3>1. pc'[b] \in 1 .. Last(b)
      BY <1>1, <2>4 DEF Running, Last, Script
    <3>2. pc'[b] = pc[b] /\ ~(proc[b] = "main" /\ pc[b] > 0)
      BY <2>2, <2>3, <3>1
    <3> QED BY <1>1, <3>1, <3>2 DEF Running, Known, Here, Last, Script
  <2>5. status'["main"] # Alive /\ \A q \in Agents \ {"main"} : status'[q] = status[q]
    BY <1>2, <1>6, <2>1 DEF HaltsWith, TypeInv
  <2>6. AliveInv'
    <3>1. ASSUME NEW b \in Agents, Running(b)' PROVE status'[proc'[b]] = Alive
      <4>1. proc[b] \in Agents \ {"main"} /\ status[proc[b]] = Alive
        <5>1. Running(b) /\ proc[b] # "main"
          BY <2>4, <3>1
        <5>2. proc[b] \in Agents
          BY DEF TypeInv
        <5> QED BY <5>1, <5>2 DEF AliveInv
      <4> QED BY <1>1, <2>5, <4>1
    <3> QED BY <1>1, <3>1 DEF AliveInv, Agents, Script
  <2>7. BlocksInv' /\ HandlesInv'
    BY <1>1, <2>4 DEF BlocksInv, HandlesInv, Agents, Script
  <2>8. ShutInv'
    BY <1>1, <1>3, <2>4, <2>5 DEF ShutInv, Agents, Script
  <2> QED BY <1>4, <2>6, <2>7, <2>8
<1> QED BY <1>5, <1>6 DEF Deliver, Halt, HaltsWith

LEMMA SignalInvStep == Inv /\ SignalInv /\ [Next]_vars => SignalInv'
<1> SUFFICES ASSUME Inv, SignalInv, [Next]_vars PROVE SignalInv'
  OBVIOUS
<1>1. ASSUME NEW a \in Agents, Step(a) PROVE SignalInv'
  <2>1. program' = program /\ Effect(a, Op(a)) /\ SignalEffect(a, Op(a)) /\ Running(a)
    BY <1>1, StepEffect, StepSignals DEF Step
  <2> QED BY <2>1, AliveStep, CrewStep, BlocksStep, HandlesStep, ShutStep, PendingStep
          DEF Inv, SignalInv
<1>2. ASSUME NEW s, Deliver(s) PROVE SignalInv'
  BY <1>2, SignalInvDeliver
<1>3. CASE UNCHANGED vars
  <2>1. \A b : Running(b)' = Running(b) /\ Known(b)' = Known(b) /\ Mem(b)' = Mem(b)
    BY <1>3 DEF vars, Running, Last, Script, Known, Here, Mem
  <2> QED BY <1>3, <2>1 DEF vars, SignalInv, AliveInv, CrewInv, BlocksInv, HandlesInv, ShutInv,
          PendingInv, Agents, Script
<1> QED BY <1>1, <1>2, <1>3 DEF Next

\* No signal ends a program of the catalogue in the part it protects: whoever sends it
\* and whenever it comes, it finds a handler or every thread of main blocking it.
THEOREM ProtectedPartsComplete == Spec => SignalsCannotCutIn
<1>1. Inv /\ SignalInv /\ [Next]_vars
        => [\A p \in Agents : status[p] = Alive /\ status'[p] = 143 => Mem("protected") = 0]_vars
  <2> SUFFICES ASSUME Inv, SignalInv, Next,
                      NEW p \in Agents, status[p] = Alive, status'[p] = 143
               PROVE  Mem("protected") = 0
    BY DEF vars
  <2> USE DEF Inv
  <2>1. ASSUME NEW a \in Agents, Step(a) PROVE FALSE
    <3>1. Running(a) /\ EndEffect(a, Op(a))
      BY <2>1, StepSignals DEF Step, SignalEffect
    <3>2. ASSUME NEW code, NEW q, NEW next, HaltsWith(q, code, next), code # 143 PROVE FALSE
      BY <3>2 DEF HaltsWith, TypeInv, Alive
    <3>3. Op(a).call \in {"exit", "killChild"} => Op(a).n # 143
      BY <3>1, CallHere, ShieldHere DEF Shielded
    <3>4. StartEffect(a, Op(a)) => FALSE
      BY DEF StartEffect, TypeInv, Alive
    <3>5. MoveEffect(a, Op(a)) => FALSE
      BY DEF MoveEffect, Alive
    <3> QED BY <3>1, <3>2, <3>3, <3>4, <3>5 DEF EndEffect
  <2>2. ASSUME NEW s, Deliver(s) PROVE Mem("protected") = 0
    <3> DEFINE h == Value(handler, s, "default")
    <3>1. CASE h \notin {"default", "exit"}
      BY <2>2, <3>1 DEF Deliver, Alive
    <3>2. CASE h = "exit"
      <4>1. status' = [status EXCEPT !["main"] = 0]
        BY <2>2, <3>2 DEF Deliver, Halt
      <4> QED BY <4>1 DEF TypeInv, Alive
    <3>3. CASE h = "default"
      BY <2>2, <3>3, NotWithin
    <3> QED BY <3>1, <3>2, <3>3
  <2>3. CASE UNCHANGED vars
    BY <2>3 DEF vars, Alive
  <2> QED BY <2>1, <2>2, <2>3 DEF Next
<1>2. SignalInv /\ Inv /\ [Next]_vars => SignalInv'
  BY SignalInvStep
<1> QED BY <1>1, <1>2, InvAlways, SignalInvInit, PTL DEF Spec, SignalsCannotCutIn
=============================================================================
