------------------------------- MODULE CasLoop -------------------------------
(***************************************************************************)
(* The compare-and-swap loops of 21-threads-concurrence/exemples/          *)
(* ex25_cas_loop.cpp (value * 2, once per thread) and of                   *)
(* 42-programmation-bas-niveau/exemples/09_cas_counter.cpp (value + 1,     *)
(* many times): load, then compare_exchange_weak until it succeeds.        *)
(***************************************************************************)
EXTENDS Naturals

CONSTANTS Threads,
          Each,        \* updates of each thread (1 in ex25, 100000 in 09)
          Start,       \* the initial value (1 in ex25, 0 in 09)
          Update(_)    \* the desired value for an expected one

ASSUME EachAssumption == Each \in Nat \ {0}

VARIABLES value, pc,
          expected,    \* each thread's local variable expected
          todo         \* each thread's updates still to make

vars == <<value, pc, expected, todo>>

Init == /\ value = Start
        /\ pc = [t \in Threads |-> "load"]
        /\ expected = [t \in Threads |-> 0]
        /\ todo = [t \in Threads |-> Each]

Goto(t, from, to) == pc[t] = from /\ pc' = [pc EXCEPT ![t] = to]

\* Plausible bugs: wrong forms of the actions below.

\* A store instead of a compare-and-swap.
StoreBlindly(t) == /\ Goto(t, "cas", IF todo[t] > 1 THEN "load" ELSE "done")
                   /\ value' = Update(expected[t])
                   /\ todo' = [todo EXCEPT ![t] = @ - 1]
                   /\ UNCHANGED expected

Load(t) == /\ Goto(t, "load", "cas")
           /\ expected' = [expected EXCEPT ![t] = value]
           /\ UNCHANGED <<value, todo>>

CasSucceeds(t) == /\ value = expected[t]
                  /\ Goto(t, "cas", IF todo[t] > 1 THEN "load" ELSE "done")
                  /\ value' = Update(expected[t])
                  /\ todo' = [todo EXCEPT ![t] = @ - 1]
                  /\ UNCHANGED expected

\* The value has changed, or the weak form fails although it has not: expected
\* becomes the current value and the loop goes round.
CasFails(t) == /\ Goto(t, "cas", "cas")
               /\ expected' = [expected EXCEPT ![t] = value]
               /\ UNCHANGED <<value, todo>>

Step(t) == Load(t) \/ CasSucceeds(t) \/ CasFails(t)

Ended == \A t \in Threads : pc[t] = "done"

Joined == Ended /\ UNCHANGED vars

Next == (\E t \in Threads : Step(t)) \/ Joined

\* A thread keeps stepping, and a compare-and-swap whose expectation stays
\* right does not fail spuriously for ever.
Fairness == \A t \in Threads : WF_vars(Step(t)) /\ WF_vars(CasSucceeds(t))

Spec == Init /\ [][Next]_vars /\ Fairness
-----------------------------------------------------------------------------
TypeOK == /\ value \in Nat
          /\ pc \in [Threads -> {"load", "cas", "done"}]
          /\ expected \in [Threads -> Nat]
          /\ todo \in [Threads -> 0 .. Each]
          /\ \A t \in Threads : pc[t] = "done" <=> todo[t] = 0

Atomic == INSTANCE AtomicUpdate

\* "attendu : 1024": each successful compare-and-swap is one atomic update, of
\* the value the previous one left, and every thread makes all of its own.
ImplementsAtomicUpdate == Atomic!Spec
=============================================================================
