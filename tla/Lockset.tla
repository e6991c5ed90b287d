------------------------------- MODULE Lockset -------------------------------
(***************************************************************************)
(* A discipline of locks, joins, publications and signals, read off a      *)
(* script alone.  Knows says what an agent may rely on before each of its  *)
(* calls; a program keeps the discipline when what it relies on comes from *)
(* the calls before it, any two accesses that could race are told apart by *)
(* what the two agents rely on, and a signal that may come in the          *)
(* protected part finds a handler or every thread blocking it.             *)
(***************************************************************************)
EXTENDS Machine, FiniteSets

Calls(p, a) == 1 .. Len(Catalogue[p][a])
Places(p) == UNION {{a} \X Calls(p, a) : a \in DOMAIN Catalogue[p]}
CallAt(p, w) == Catalogue[p][w[1]][w[2]]

\* A program is finite, its calls are those of Machine, and name agents it has.
Names == {"spawn", "fork", "join", "waitpid", "killChild"}
ASSUME ScriptsAssumption ==
         \A p \in DOMAIN Catalogue :
           /\ IsFiniteSet(Places(p))
           /\ \A a \in DOMAIN Catalogue[p] : /\ Len(Catalogue[p][a]) \in Nat
                                              /\ DOMAIN Catalogue[p][a] = Calls(p, a)
           /\ \A w \in Places(p) :
                /\ CallAt(p, w).k \in Int
                /\ CallAt(p, w).call \in Names => CallAt(p, w).x \in DOMAIN Catalogue[p]

Where(p, calls, x) == {w \in Places(p) : CallAt(p, w).call \in calls /\ CallAt(p, w).x = x}
Starters(p, b) == Where(p, {"spawn", "fork"}, b)
Writers(p, x) == Where(p, {"write", "put", "bump", "add", "acquire"}, x)
Resets(op) == op.call = "put" /\ op.n = 0

\* Agent b never comes back to a call before its j-th once it is past it.
Gate(p, b, j) == \A i \in Calls(p, b) : i >= j => i + CallAt(p, <<b, i>>).k >= j

\* A variable no signal handler and no connect() writes.
Private(p, x) == /\ x # "connected"
                 /\ \A w \in Places(p) : CallAt(p, w).call = "handle" => CallAt(p, w).n # x

\* A flag or a latch: each of its Raisers raises it by one at most, once, so that it
\* is never above the number of those that are behind.
Raisers(p, x) == {w \in Writers(p, x) : ~Resets(CallAt(p, w))}
Latch(p, x) ==
  /\ Private(p, x)
  /\ \A w \in Raisers(p, x) : /\ CallAt(p, w).call \in {"put", "add"} /\ CallAt(p, w).n = 1
                              /\ Gate(p, w[1], w[2] + 1)

\* A spin lock: taken by exchange(true), given back by store(false).
SpinLock(p, x) == /\ Private(p, x)
                  /\ \A w \in Writers(p, x) :
                      \/ Resets(CallAt(p, w))
                      \/ CallAt(p, w).call = "acquire" /\ CallAt(p, w).n = 1

\* What is behind once agent b has ended, or once the latch x has reached n.
End(p, b) == {<<b, Len(Catalogue[p][b]) + 1>>}
Raised(p, x, n) == IF Latch(p, x) /\ n = Cardinality(Raisers(p, x)) /\ n > 0
                   THEN {<<w[1], w[2] + 1>> : w \in Raisers(p, x)} ELSE {}

\* What the agent relies on after the call op, of what it did before: the mutexes
\* and the spin locks it holds, the places other agents have passed, the agents it has
\* still to start, the signals it blocks and those it has given a handler, and that
\* the protected part is not open.  jump tells the way the call comes out.
After(p, op, know, jump) ==
  [holds |-> CASE op.call = "lock" -> know.holds \cup {<<op.x, op.n>>}
               [] op.call = "unlock" -> {h \in know.holds : h[1] # op.x}
               [] op.call = "wait" -> {h \in know.holds : h[1] # op.n}
               [] OTHER -> know.holds,
   spins |-> CASE op.call = "acquire" /\ SpinLock(p, op.x) -> know.spins \cup {op.x}
               [] op.call = "put" -> know.spins \ {op.x}
               [] OTHER -> know.spins,
   passed |-> CASE op.call \in {"join", "waitpid"} -> know.passed \cup End(p, op.x)
                [] op.call = "await" \/ (op.call = "test" /\ jump)
                     -> know.passed \cup Raised(p, op.x, op.n)
                [] OTHER -> know.passed,
   unborn |-> IF op.call \in {"spawn", "fork"} THEN know.unborn \ {op.x} ELSE know.unborn,
   blocks |-> CASE op.call = "block" -> know.blocks \cup op.n
                [] op.call = "unblock" -> know.blocks \ op.n
                [] OTHER -> know.blocks,
   handles |-> CASE op.call = "handle" /\ op.n # "default" -> know.handles \cup {op.x}
                 [] op.call = "handle" /\ op.n = "default" -> know.handles \ {op.x}
                 [] OTHER -> know.handles,
   shut |-> CASE op.call = "put" /\ op.x = "protected" -> IF Resets(op) THEN {op.x} ELSE {}
              [] OTHER -> know.shut]

Within(know, more) ==
  \A part \in {"holds", "spins", "passed", "unborn", "blocks", "handles", "shut"} :
    know[part] \subseteq more[part]

\* An agent starts with no lock; nobody else starts the agents it starts; it relies
\* on what the one that starts it does, and inherits its mask of signals.
Enters(p, w, K) ==
  /\ K[w].holds = {} /\ K[w].spins = {} /\ K[w].handles = {}
  /\ Starters(p, w[1]) = {} => K[w].passed = {} /\ K[w].blocks = {}
  /\ \A v \in Starters(p, w[1]) : /\ K[w].passed \subseteq K[v].passed
                                   /\ K[w].blocks \subseteq K[v].blocks

\* What is relied on before a call is what the calls it may come from leave.
Follows(p, w, K) ==
  LET op == CallAt(p, w)
      next == <<w[1], w[2] + 1>>
      there == <<w[1], w[2] + op.k>>
  IN /\ w[2] + op.k >= 1
     /\ next \in Places(p) /\ op.call # "goto" => Within(K[next], After(p, op, K[w], FALSE))
     /\ there \in Places(p) => Within(K[there], After(p, op, K[w], TRUE))
     /\ op.call \in {"spawn", "fork"} => op.x \in K[w].unborn
     /\ op.call = "put" /\ SpinLock(p, op.x) => op.x \in K[w].spins

Sound(p, w, K) ==
  /\ \A v \in K[w].passed : /\ v[1] \in DOMAIN Catalogue[p] /\ Gate(p, v[1], v[2])
                             /\ v[2] \in 1 .. Len(Catalogue[p][v[1]]) + 1
  /\ \A b \in K[w].unborn : Starters(p, b) # {} /\ \A v \in Starters(p, b) : v[1] = w[1]
  /\ \A s \in K[w].handles : \A v \in Where(p, {"handle"}, s) : v[1] = w[1]
  /\ K[w].shut # {} => w[1] = "main"

\* Two accesses that could race, and what keeps them apart.
Use(op) == IF op.call \in {"read", "check", "if"} THEN "r"
           ELSE IF op.call \in {"write", "bump"} THEN "w" ELSE "none"
Conflict(op, oq) == op.x = oq.x /\ {Use(op), Use(oq)} \in {{"r", "w"}, {"w"}}
Excludes(K, v, w) == \/ \E g \in K[v].holds, h \in K[w].holds :
                          g[1] = h[1] /\ {g[2], h[2]} # {"s"}
                     \/ K[v].spins \cap K[w].spins # {}
Precedes(K, v, w) == v[1] \in K[w].unborn \/ \E u \in K[v].passed : u[1] = w[1] /\ u[2] > w[2]

\* The part between Protected(1) and Protected(0).  Only main opens and shuts it, and
\* main does not run off its end with the part open.  Of the signals somebody sends,
\* each has a handler while it is open, or main and every thread blocks it.
Sent(p) == {CallAt(p, w).x : w \in {v \in Places(p) : CallAt(p, v).call = "kill"}}
Crew(p) == {w \in Places(p) : w[1] # "main" /\ Where(p, {"spawn"}, w[1]) # {}}
RunsOff(p, w) == /\ CallAt(p, w).call # "exit"
                 /\ \/ w[2] + 1 > Len(Catalogue[p][w[1]])
                    \/ w[2] + CallAt(p, w).k > Len(Catalogue[p][w[1]])
Shielded(p, K) ==
  /\ "main" \in DOMAIN Catalogue[p] /\ Starters(p, "main") = {} /\ Private(p, "protected")
  /\ \A w \in Writers(p, "protected") : w[1] = "main" /\ CallAt(p, w).call = "put"
  /\ \A w \in Places(p) :
       CallAt(p, w).call \in {"exit", "killChild"} => CallAt(p, w).n \notin {Alive, 143}
  /\ \A w \in {v \in Places(p) : v[1] = "main"} :
       /\ RunsOff(p, w) => "protected" \in After(p, CallAt(p, w), K[w], FALSE).shut
       /\ "protected" \notin K[w].shut =>
            \A s \in Sent(p) : \/ s \in K[w].handles
                               \/ s \in K[w].blocks /\ \A v \in Crew(p) : s \in K[v].blocks

Disciplined(p, K) ==
  /\ \A w \in Places(p) : Follows(p, w, K) /\ Sound(p, w, K) /\ (w[2] = 1 => Enters(p, w, K))
  /\ \A v, w \in Places(p) :
       v[1] # w[1] /\ Conflict(CallAt(p, v), CallAt(p, w))
         => Excludes(K, v, w) \/ Precedes(K, v, w) \/ Precedes(K, w, v)
  /\ Shielded(p, K)

\* Read off a script as if it were a straight line.  What follows an exit is reached
\* by a jump, and is taken to know nothing.
OnlyStarts(p, a) == {b \in DOMAIN Catalogue[p] : Starters(p, b) # {} /\
                                                 \A w \in Starters(p, b) : w[1] = a}
Knows(p) ==
  LET K[w \in Places(p)] ==
        LET v == <<w[1], w[2] - 1>>
            nothing == [holds |-> {}, spins |-> {}, passed |-> {}, unborn |-> {},
                        blocks |-> {}, handles |-> {}, shut |-> {}]
            starter == K[CHOOSE u \in Starters(p, w[1]) : TRUE]
        IN IF w[2] = 1
           THEN [nothing EXCEPT
                   !.unborn = OnlyStarts(p, w[1]),
                   !.passed = IF Starters(p, w[1]) = {} THEN {} ELSE starter.passed,
                   !.blocks = IF Starters(p, w[1]) = {} THEN {} ELSE starter.blocks,
                   !.shut = IF w[1] = "main" THEN {"protected"} ELSE {}]
           ELSE IF CallAt(p, v).call = "exit" THEN nothing
           ELSE After(p, CallAt(p, v), K[v], CallAt(p, v).call = "goto")
  IN K

\* Every program of the catalogue keeps the discipline.
ASSUME DisciplineAssumption == \A p \in DOMAIN Catalogue : Disciplined(p, Knows(p))
=============================================================================
