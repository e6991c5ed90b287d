--------------------------- MODULE ClosableChannel ---------------------------
(***************************************************************************)
(* What a closable FIFO channel promises its users, with no thread, mutex  *)
(* or condition variable in sight: senders append to one history until the *)
(* channel is closed; every element of that history is taken exactly once, *)
(* in order; and a receiver is told that the channel has ended only when   *)
(* it is closed and all of the history has been taken.                     *)
(***************************************************************************)
EXTENDS Naturals, Sequences

CONSTANTS Receivers,  \* the threads that take
          Values      \* what may be sent

VARIABLES sent,    \* everything ever sent, oldest first
          taken,   \* who took what, oldest first
          open,    \* sending is still allowed
          left     \* the receivers that were told the channel has ended

vars == <<sent, taken, open, left>>

Init == /\ sent = <<>>
        /\ taken = <<>>
        /\ open = TRUE
        /\ left = {}

Send == /\ open
        /\ \E v \in Values : sent' = Append(sent, v)
        /\ UNCHANGED <<taken, open, left>>

Close == /\ open' = FALSE
         /\ UNCHANGED <<sent, taken, left>>

\* The oldest element not yet taken goes to one receiver.
Receive(r) == /\ r \notin left
              /\ Len(taken) < Len(sent)
              /\ taken' = Append(taken, [by |-> r, val |-> sent[Len(taken) + 1]])
              /\ UNCHANGED <<sent, open, left>>

Leave(r) == /\ ~open
            /\ Len(taken) = Len(sent)
            /\ left' = left \cup {r}
            /\ UNCHANGED <<sent, taken, open>>

Next == \/ Send
        \/ Close
        \/ \E r \in Receivers : Receive(r) \/ Leave(r)

\* Once closed, the channel is drained and every receiver hears of the end.
Fairness == \A r \in Receivers :
               WF_vars(~open /\ (Receive(r) \/ Leave(r)))

Safety == Init /\ [][Next]_vars

Spec == Safety /\ Fairness
=============================================================================
