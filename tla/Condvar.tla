------------------------------ MODULE Condvar ------------------------------
(***************************************************************************)
(* What the programs rely on of std::condition_variable, as the C++        *)
(* standard describes it.  A condition variable is its wait set: the       *)
(* threads blocked in wait().  A thread that leaves the set has been woken *)
(* but must still reacquire the mutex before wait() returns.               *)
(***************************************************************************)

\* notify_one(): the wait sets it may leave.  Which waiter wakes is not
\* specified, and a notification that finds nobody waiting is lost.
NotifyOne(waiting) ==
    IF waiting = {} THEN {waiting} ELSE {waiting \ {t} : t \in waiting}

\* notify_all(): nobody is left waiting.
NotifyAll(waiting) == {}
=============================================================================
