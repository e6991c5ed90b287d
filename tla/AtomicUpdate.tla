---------------------------- MODULE AtomicUpdate ----------------------------
(***************************************************************************)
(* A shared value that every thread updates a given number of times, each  *)
(* update applying to the value the last one left.  It is what a counter   *)
(* behind a lock and a counter behind a compare-and-swap both promise.     *)
(***************************************************************************)
EXTENDS Naturals

CONSTANTS Threads,
          Each,        \* the updates each thread makes
          Start,       \* the first value
          Update(_)    \* what one update does

VARIABLES value, todo

vars == <<value, todo>>

Init == /\ value = Start
        /\ todo = [t \in Threads |-> Each]

Apply(t) == /\ todo[t] > 0
            /\ value' = Update(value)
            /\ todo' = [todo EXCEPT ![t] = @ - 1]

Next == \E t \in Threads : Apply(t)

Safety == Init /\ [][Next]_vars

Spec == Safety /\ \A t \in Threads : WF_vars(Apply(t))
=============================================================================
