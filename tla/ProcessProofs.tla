--------------------------- MODULE ProcessProofs ---------------------------
(***************************************************************************)
(* Three ways in which processes or threads share something.  The robust   *)
(* mutex: for any number of processes and increments, and whoever          *)
(* is killed whenever, it excludes and recovers, the text agrees with the  *)
(* counter, the counter counts every increment, and one of the survivors   *)
(* can go on until they have all ended.  The compare-and-swap              *)
(* loop: for any threads, updates and update function, a success is one    *)
(* update.  The class Process: for any objects, children and sequence of   *)
(* calls, each child to be collected has one object that will do it, and   *)
(* no signal is sent to a pid that may have become another process's.      *)
(***************************************************************************)
EXTENDS RobustMutex, ProcessObjects, TLAPS

Holding == {"recover", "read", "write", "format", "write_text", "unlock"}

\* The mutex is held exactly by the process that is past its lock().
HolderInv == \A p \in Processes : pc[p] \in Holding <=> owner = p

\* Its holder makes it consistent first, so that it is so ever after.
ConsistentInv == /\ NeverUnrecoverable
                 /\ \A p \in Processes : pc[p] \in Holding =>
                      (mutex = "ownerdead" <=> pc[p] = "recover")

\* How far the holder is tells what is in the segment.
ProgressInv ==
  \A p \in Processes :
    /\ pc[p] \in {"lock", "recover", "read", "write"} => made[p] < PerProcess
    /\ pc[p] = "write" => seen[p] = counter
    /\ pc[p] = "unlock" => ~torn /\ data = counter

Inv == TypeOK /\ HolderInv /\ ConsistentInv /\ ProgressInv /\ TextAgrees

LEMMA InvInit == Init => Inv
<1> SUFFICES ASSUME Init PROVE Inv
  OBVIOUS
<1> USE ProcessesAssumption, PerProcessAssumption DEF Init
<1>1. torn \in BOOLEAN
  OBVIOUS
<1>2. TypeOK
  BY <1>1 DEF TypeOK
<1>3. HolderInv
  BY DEF HolderInv, Holding
<1>4. ConsistentInv /\ ProgressInv /\ TextAgrees
  BY DEF ConsistentInv, NeverUnrecoverable, ProgressInv, TextAgrees, Holding
<1> QED BY <1>2, <1>3, <1>4 DEF Inv

LEMMA InvStep == Inv /\ [Next]_vars => Inv'
<1> SUFFICES ASSUME Inv, [Next]_vars PROVE Inv'
  OBVIOUS
<1> USE ProcessesAssumption, PerProcessAssumption
    DEF Inv, TypeOK, HolderInv, ConsistentInv, NeverUnrecoverable, ProgressInv,
        TextAgrees, Holding, shared
<1>1. CASE UNCHANGED vars
  BY <1>1 DEF vars
<1>2. ASSUME NEW p \in Processes, Lock(p) PROVE Inv'
  BY <1>2 DEF Lock, Goto
<1>3. ASSUME NEW p \in Processes, Recover(p) PROVE Inv'
  BY <1>3 DEF Recover, Goto
<1>4. ASSUME NEW p \in Processes, Read(p) PROVE Inv'
  BY <1>4 DEF Read, Goto
<1>5. ASSUME NEW p \in Processes, Write(p) PROVE Inv'
  BY <1>5 DEF Write, Goto
<1>6. ASSUME NEW p \in Processes, Format(p) PROVE Inv'
  BY <1>6 DEF Format, Goto
<1>7. ASSUME NEW p \in Processes, WriteText(p) PROVE Inv'
  BY <1>7 DEF WriteText, Goto
<1>8. ASSUME NEW p \in Processes, Unlock(p) PROVE Inv'
  BY <1>8 DEF Unlock, Goto
<1>9. ASSUME NEW p \in Processes, Exit(p) PROVE Inv'
  BY <1>9 DEF Exit, Goto
<1>10. ASSUME NEW p \in Processes, Crash(p) PROVE Inv'
  BY <1>10 DEF Crash, Kill
<1> QED BY <1>1, <1>2, <1>3, <1>4, <1>5, <1>6, <1>7, <1>8, <1>9, <1>10
        DEF Next, Step, Stop

LEMMA InvAlways == Spec => []Inv
BY InvInit, InvStep, PTL DEF Spec

\* The state keeps its types, whoever is killed.
THEOREM TypeCorrect == Spec => []TypeOK
BY InvAlways, PTL DEF Inv

\* The mutex stays recoverable: EOWNERDEAD is always followed by
\* pthread_mutex_consistent() before an unlock (l.41-50).
THEOREM StaysRecoverable == Spec => []NeverUnrecoverable
BY InvAlways, PTL DEF Inv, ConsistentInv

\* A free and consistent mutex guards a whole text that shows the counter
\* (l.46-48).
THEOREM TextShowsCounter == Spec => []TextAgrees
BY InvAlways, PTL DEF Inv

\* A process that no step of its own takes on: at the mutex that another holds,
\* or the parent while one of its children lives.
Stuck(p) == \/ pc[p] = "lock" /\ owner # Nobody
            \/ /\ p = Parent /\ pc[p] = "waitpid"
               /\ \E c \in Processes \ {p} : pc[c] \notin {"done", "dead"}

\* One of the processes that are left can go on.
SurvivorGoesOn == Ended \/ \E p \in Processes : pc[p] \notin {"done", "dead"} /\ ~Stuck(p)

\* Nobody waits for the dead: the robust list gives the mutex of a killed owner
\* back (l.41), and waitpid() takes its death for an end.
THEOREM DeadlockFree == Spec => []SurvivorGoesOn
<1>1. Inv => SurvivorGoesOn
  <2> SUFFICES ASSUME Inv, ~Ended
               PROVE  \E p \in Processes : pc[p] \notin {"done", "dead"} /\ ~Stuck(p)
    BY DEF SurvivorGoesOn
  <2> USE ProcessesAssumption DEF Inv, TypeOK, Stuck
  <2>1. CASE owner # Nobody
    <3>1. owner \in Processes /\ pc[owner] \in Holding
      BY <2>1 DEF HolderInv
    <3> QED BY <3>1 DEF Holding
  <2>2. CASE owner = Nobody /\ \E c \in Processes \ {Parent} : pc[c] \notin {"done", "dead"}
    BY <2>2
  <2>3. CASE owner = Nobody /\ \A c \in Processes \ {Parent} : pc[c] \in {"done", "dead"}
    <3>1. pc[Parent] \notin {"done", "dead"}
      BY <2>3 DEF Ended
    <3> QED BY <2>3, <3>1
  <2> QED BY <2>1, <2>2, <2>3
<1> QED BY <1>1, InvAlways, PTL

LEMMA CounterStep == Inv /\ [Next]_vars => [Counter!Next]_(Counter!vars)
<1> SUFFICES ASSUME Inv, [Next]_vars PROVE [Counter!Next]_(Counter!vars)
  OBVIOUS
<1> USE PerProcessAssumption DEF Inv, TypeOK
<1>1. ASSUME NEW p \in Processes, Write(p) PROVE Counter!Apply(p)
  <2>1. /\ counter' = counter + 1 /\ made[p] < PerProcess
        /\ made' = [made EXCEPT ![p] = @ + 1]
    BY <1>1 DEF Write, Goto, ProgressInv
  <2>2. made[p] \in Nat /\ PerProcess - (made[p] + 1) = (PerProcess - made[p]) - 1
    BY <2>1
  <2>3. PerProcess - made[p] > 0
    BY <2>1
  <2> QED BY <2>1, <2>2, <2>3 DEF Counter!Apply
<1>2. ASSUME UNCHANGED <<counter, made>> PROVE UNCHANGED (Counter!vars)
  BY <1>2 DEF Counter!vars
<1>3. ASSUME NEW p \in Processes,
             \/ Lock(p) \/ Recover(p) \/ Read(p) \/ Format(p) \/ WriteText(p)
             \/ Unlock(p) \/ Exit(p) \/ Crash(p)
      PROVE  UNCHANGED <<counter, made>>
  BY <1>3 DEF Lock, Recover, Read, Format, WriteText, Unlock, Exit, Crash, Kill, shared
<1>4. CASE UNCHANGED vars
  BY <1>2, <1>4 DEF vars
<1> QED BY <1>1, <1>2, <1>3, <1>4 DEF Next, Step, Stop, Counter!Next

\* Crash or not, every change of the counter is one whole increment (l.46).
THEOREM EveryIncrementCounts == Spec => CountsEveryIncrement
<1>1. Init => Counter!Init
  BY PerProcessAssumption DEF Init, Counter!Init
<1> QED BY <1>1, InvAlways, CounterStep, PTL
        DEF Spec, CountsEveryIncrement, Counter!Safety
-----------------------------------------------------------------------------
(* The compare-and-swap loop: its control is place here, pc is taken. *)

CONSTANTS Threads, Each, Start, Update(_)
VARIABLES value, place, expected, todo

Cas == INSTANCE CasLoop WITH pc <- place

\* What the loop knows of the updates it still has to make.
CasInv == /\ place \in [Threads -> {"load", "cas", "done"}]
          /\ todo \in [Threads -> 0 .. Each]
          /\ \A t \in Threads : place[t] = "done" <=> todo[t] = 0

LEMMA CasInvInit == ASSUME Each \in Nat \ {0} PROVE Cas!Init => CasInv
BY DEF Cas!Init, CasInv

LEMMA CasInvStep ==
  ASSUME Each \in Nat \ {0} PROVE CasInv /\ [Cas!Next]_(Cas!vars) => CasInv'
<1> SUFFICES ASSUME CasInv, [Cas!Next]_(Cas!vars) PROVE CasInv'
  OBVIOUS
<1> USE DEF CasInv, Cas!Goto
<1>1. ASSUME NEW t \in Threads, Cas!Load(t) PROVE CasInv'
  BY <1>1 DEF Cas!Load
<1>2. ASSUME NEW t \in Threads, Cas!CasSucceeds(t) PROVE CasInv'
  BY <1>2 DEF Cas!CasSucceeds
<1>3. ASSUME NEW t \in Threads, Cas!CasFails(t) PROVE CasInv'
  BY <1>3 DEF Cas!CasFails
<1>4. CASE UNCHANGED (Cas!vars)
  BY <1>4 DEF Cas!vars
<1> QED BY <1>1, <1>2, <1>3, <1>4 DEF Cas!Next, Cas!Step, Cas!Joined

LEMMA CasInvAlways == ASSUME Each \in Nat \ {0} PROVE Cas!Spec => []CasInv
BY CasInvInit, CasInvStep, PTL DEF Cas!Spec

\* Values and expectations are naturals when the update keeps naturals natural.
THEOREM CasTypeCorrect ==
  ASSUME Each \in Nat \ {0}, Start \in Nat, \A v \in Nat : Update(v) \in Nat
  PROVE  Cas!Spec => []Cas!TypeOK
<1>1. Cas!Init => Cas!TypeOK
  BY DEF Cas!Init, Cas!TypeOK
<1>2. Cas!TypeOK /\ [Cas!Next]_(Cas!vars) => Cas!TypeOK'
  <2> SUFFICES ASSUME Cas!TypeOK, [Cas!Next]_(Cas!vars) PROVE Cas!TypeOK'
    OBVIOUS
  <2> USE DEF Cas!TypeOK, Cas!Goto
  <2>1. ASSUME NEW t \in Threads, Cas!Load(t) PROVE Cas!TypeOK'
    BY <2>1 DEF Cas!Load
  <2>2. ASSUME NEW t \in Threads, Cas!CasSucceeds(t) PROVE Cas!TypeOK'
    BY <2>2 DEF Cas!CasSucceeds
  <2>3. ASSUME NEW t \in Threads, Cas!CasFails(t) PROVE Cas!TypeOK'
    BY <2>3 DEF Cas!CasFails
  <2>4. CASE UNCHANGED Cas!vars
    BY <2>4 DEF Cas!vars
  <2> QED BY <2>1, <2>2, <2>3, <2>4 DEF Cas!Next, Cas!Step, Cas!Joined
<1> QED BY <1>1, <1>2, PTL DEF Cas!Spec

LEMMA AtomicStep ==
  ASSUME Each \in Nat \ {0}
  PROVE  CasInv /\ [Cas!Next]_(Cas!vars) => [Cas!Atomic!Next]_(Cas!Atomic!vars)
<1> SUFFICES ASSUME CasInv, [Cas!Next]_(Cas!vars)
             PROVE  [Cas!Atomic!Next]_(Cas!Atomic!vars)
  OBVIOUS
<1>1. ASSUME NEW t \in Threads, Cas!CasSucceeds(t) PROVE Cas!Atomic!Apply(t)
  BY <1>1 DEF Cas!CasSucceeds, Cas!Goto, CasInv, Cas!Atomic!Apply
<1>2. ASSUME NEW t \in Threads, Cas!Load(t) \/ Cas!CasFails(t)
      PROVE  UNCHANGED (Cas!Atomic!vars)
  BY <1>2 DEF Cas!Load, Cas!CasFails, Cas!Atomic!vars
<1>3. CASE UNCHANGED (Cas!vars)
  BY <1>3 DEF Cas!vars, Cas!Atomic!vars
<1> QED BY <1>1, <1>2, <1>3 DEF Cas!Next, Cas!Step, Cas!Joined, Cas!Atomic!Next

\* No update is lost: each success applies to the value the last one left.
THEOREM AtomicUpdates == ASSUME Each \in Nat \ {0} PROVE Cas!Spec => Cas!Atomic!Safety
<1>1. Cas!Init => Cas!Atomic!Init
  BY DEF Cas!Init, Cas!Atomic!Init
<1> QED BY <1>1, CasInvAlways, AtomicStep, PTL DEF Cas!Spec, Cas!Atomic!Safety

-----------------------------------------------------------------------------
(* The class Process. *)

Guard == INSTANCE ProcessGuard

\* Both modules have the None of ProcessObjects.
USE DEF None, Guard!None

\* An object with something to collect holds the pid of a child that is there,
\* no two the same, and no such child is left without.
OwnsInv == \A o \in alive : ~waited_[o] =>
             pid_[o] \in Children /\ child[pid_[o]] \in {"running", "zombie"}
UniqueInv == \A o, p \in alive : ~waited_[o] /\ ~waited_[p] /\ pid_[o] = pid_[p] => o = p
NoOrphanInv == \A c \in Children : child[c] \in {"running", "zombie"} =>
                 \E o \in alive : pid_[o] = c /\ ~waited_[o]

\* The object of the call in progress is alive, its child is still to collect
\* while the call deals with it, and collected or absent once it has.
CallInv == /\ called # "idle" => this \in alive
           /\ other # None => other \in alive /\ other # this /\ called # "idle"
           /\ called \in {"wait", "kill", "reap"} => ~waited_[this]
           /\ called = "rest" => waited_[this]

GuardInv == ObjectTypeOK /\ OwnsInv /\ UniqueInv /\ NoOrphanInv /\ CallInv

LEMMA GuardInit == Guard!Init => GuardInv
BY DEF Guard!Init, GuardInv, ObjectTypeOK, OwnsInv, UniqueInv,
      NoOrphanInv, CallInv

\* The steps, named as the proofs split them.
LEMMA NextCases ==
  ASSUME [Guard!Next]_(Guard!vars)
  PROVE  \/ \E o \in Objects, c \in Children : Guard!Spawn(o, c)
         \/ \E o, p \in Objects : Guard!MoveConstruct(o, p) \/ Guard!Assign(o, p)
         \/ \E o \in Objects : \/ Guard!Wait(o) \/ Guard!TryGetResult(o) \/ Guard!WaitFor(o)
                               \/ Guard!SendSignal(o) \/ Guard!Destroy(o)
         \/ Guard!WaitReturns \/ Guard!Poll \/ Guard!Timeout
         \/ Guard!NothingToWait \/ Guard!AlreadyEnded \/ Guard!StillRunning
         \/ Guard!Kill \/ Guard!Reap
         \/ Guard!AssignReturns \/ Guard!DestroyReturns
         \/ \E c \in Children : Guard!Exits(c)
         \/ UNCHANGED (Guard!vars)
BY DEF Guard!Next, Guard!InCall, Guard!TryWait

\* Collecting the child of an object that owns one keeps what is said of all
\* objects: the child is gone and nobody else held its pid.
LEMMA CollectKeeps ==
  ASSUME GuardInv, NEW o \in alive, ~waited_[o], Guard!Collect(o), UNCHANGED <<alive, pid_>>
  PROVE  /\ child' \in [Children -> {"unborn", "running", "zombie", "gone"}]
         /\ waited_' \in [Objects -> BOOLEAN]
         /\ OwnsInv' /\ UniqueInv' /\ NoOrphanInv'
BY DEF GuardInv, ObjectTypeOK, OwnsInv, UniqueInv, NoOrphanInv, Guard!Collect

\* A move from p hands over what p owned, if o owns nothing.
LEMMA TakeKeeps ==
  ASSUME GuardInv, NEW o \in Objects, NEW p \in alive, o # p,
         o \in alive => waited_[o],
         Guard!Take(o, p), alive' = alive \cup {o}, UNCHANGED child
  PROVE  /\ pid_' \in [Objects -> Children \cup {None}]
         /\ waited_' \in [Objects -> BOOLEAN]
         /\ OwnsInv' /\ UniqueInv' /\ NoOrphanInv'
<1> USE NoneAssumption DEF GuardInv, ObjectTypeOK, Guard!Take
<1>0. p \in Objects /\ pid_[p] \in Children \cup {None} /\ waited_[p] \in BOOLEAN
  OBVIOUS
<1>1. /\ pid_' \in [Objects -> Children \cup {None}]
      /\ waited_' \in [Objects -> BOOLEAN]
  BY <1>0
<1>2. /\ pid_'[o] = pid_[p] /\ waited_'[o] = waited_[p]
      /\ pid_'[p] = None /\ waited_'[p] = TRUE
      /\ \A x \in Objects \ {o, p} : pid_'[x] = pid_[x] /\ waited_'[x] = waited_[x]
  BY <1>0
<1>3. OwnsInv'
  BY <1>2 DEF OwnsInv
<1>4. UniqueInv'
  BY <1>2 DEF UniqueInv
<1>5. NoOrphanInv'
  <2> SUFFICES ASSUME NEW c \in Children, child[c] \in {"running", "zombie"}
               PROVE  \E x \in alive' : pid_'[x] = c /\ ~waited_'[x]
    BY DEF NoOrphanInv
  <2>1. PICK x \in alive : pid_[x] = c /\ ~waited_[x]
    BY DEF NoOrphanInv
  <2>2. CASE x = p
    BY <1>2, <2>1, <2>2
  <2>3. CASE x # p
    BY <1>2, <2>1, <2>3
  <2> QED BY <2>2, <2>3
<1> QED BY <1>1, <1>3, <1>4, <1>5
-----------------------------------------------------------------------------
LEMMA GuardStep == GuardInv /\ [Guard!Next]_(Guard!vars) => GuardInv'
<1> SUFFICES ASSUME GuardInv, [Guard!Next]_(Guard!vars) PROVE GuardInv'
  OBVIOUS
<1> USE NoneAssumption DEF GuardInv
<1>1. ASSUME NEW o \in Objects, NEW c \in Children, Guard!Spawn(o, c) PROVE GuardInv'
  <2> USE <1>1 DEF Guard!Spawn, ObjectTypeOK, Guard!call
  <2>1. ObjectTypeOK' /\ CallInv'
    BY DEF CallInv
  <2>2. OwnsInv' /\ UniqueInv'
    BY DEF OwnsInv, UniqueInv
  <2>3. NoOrphanInv'
    BY DEF NoOrphanInv
  <2> QED BY <2>1, <2>2, <2>3
<1>2. ASSUME NEW o \in Objects, NEW p \in Objects, Guard!MoveConstruct(o, p) PROVE GuardInv'
  <2>1. /\ o \notin alive /\ p \in alive /\ alive' = alive \cup {o}
        /\ Guard!Take(o, p) /\ UNCHANGED <<child, signalled, called, this, other>>
        /\ called = "idle"
    BY <1>2 DEF Guard!MoveConstruct, Guard!Now, Guard!call
  <2>2. /\ pid_' \in [Objects -> Children \cup {None}]
        /\ waited_' \in [Objects -> BOOLEAN]
        /\ OwnsInv' /\ UniqueInv' /\ NoOrphanInv'
    BY <2>1, TakeKeeps
  <2>3. ObjectTypeOK' /\ CallInv'
    BY <2>1, <2>2 DEF ObjectTypeOK, CallInv
  <2> QED BY <2>2, <2>3
<1>3. ASSUME NEW o \in Objects, NEW p \in Objects, Guard!Assign(o, p) PROVE GuardInv'
  BY <1>3 DEF Guard!Assign, Guard!Enter, ObjectTypeOK, OwnsInv, UniqueInv,
      NoOrphanInv, CallInv
<1>4. ASSUME NEW o \in Objects, Guard!Wait(o) \/ Guard!WaitFor(o) \/ Guard!Destroy(o) PROVE GuardInv'
  BY <1>4
  DEF Guard!Wait, Guard!WaitFor, Guard!Destroy, Guard!Enter, ObjectTypeOK, OwnsInv,
      UniqueInv, NoOrphanInv, CallInv
<1>5. ASSUME NEW o \in Objects, Guard!TryGetResult(o) PROVE GuardInv'
  <2>1. /\ o \in alive /\ ~waited_[o] /\ Guard!Collect(o) /\ called = "idle"
        /\ UNCHANGED <<signalled, alive, pid_, called, this, other>>
    BY <1>5 DEF Guard!TryGetResult, Guard!Now, Guard!call
  <2>2. ObjectTypeOK' /\ CallInv'
    BY <2>1, CollectKeeps DEF ObjectTypeOK, CallInv
  <2> QED BY <2>1, <2>2, CollectKeeps
<1>6. ASSUME NEW o \in Objects, Guard!SendSignal(o) PROVE GuardInv'
  BY <1>6
  DEF Guard!SendSignal, Guard!Now, Guard!call, ObjectTypeOK, OwnsInv, UniqueInv,
      NoOrphanInv, CallInv
<1>7. ASSUME Guard!WaitReturns \/ Guard!Poll \/ Guard!AlreadyEnded \/ Guard!Reap PROVE GuardInv'
  <2>1. /\ this \in alive /\ ~waited_[this] /\ Guard!Collect(this)
        /\ UNCHANGED <<signalled, alive, pid_>>
        /\ \/ called' = "idle" /\ this' = None /\ other' = None
           \/ called' = "rest" /\ called # "idle" /\ UNCHANGED <<this, other>>
    BY <1>7 DEF Guard!WaitReturns, Guard!Poll, Guard!AlreadyEnded, Guard!Reap, Guard!Return, CallInv
  <2>2. waited_'[this]
    BY <2>1 DEF Guard!Collect, ObjectTypeOK
  <2>3. ObjectTypeOK'
    BY <2>1, CollectKeeps DEF ObjectTypeOK
  <2>4. CallInv'
    BY <2>1, <2>2 DEF CallInv
  <2> QED BY <2>1, <2>3, <2>4, CollectKeeps
<1>8. CASE Guard!Timeout
  BY <1>8 DEF Guard!Timeout, Guard!Return, ObjectTypeOK, OwnsInv, UniqueInv,
      NoOrphanInv, CallInv
<1>9. CASE Guard!NothingToWait
  BY <1>9 DEF Guard!NothingToWait, ObjectTypeOK, OwnsInv, UniqueInv,
      NoOrphanInv, CallInv
<1>10. CASE Guard!StillRunning
  BY <1>10 DEF Guard!StillRunning, ObjectTypeOK, OwnsInv, UniqueInv,
      NoOrphanInv, CallInv
<1>11. CASE Guard!Kill
  BY <1>11 DEF Guard!Kill, ObjectTypeOK, OwnsInv, UniqueInv,
      NoOrphanInv, CallInv
<1>12. CASE Guard!AssignReturns
  <2>1. /\ this \in alive /\ other \in alive /\ other # this /\ waited_[this]
        /\ Guard!Take(this, other) /\ UNCHANGED <<child, signalled, alive>>
        /\ called' = "idle" /\ this' = None /\ other' = None
    BY <1>12 DEF Guard!AssignReturns, Guard!Return, CallInv
  <2>2. /\ pid_' \in [Objects -> Children \cup {None}]
        /\ waited_' \in [Objects -> BOOLEAN]
        /\ OwnsInv' /\ UniqueInv' /\ NoOrphanInv'
    BY <2>1, TakeKeeps DEF ObjectTypeOK
  <2>3. ObjectTypeOK' /\ CallInv'
    BY <2>1, <2>2 DEF ObjectTypeOK, CallInv
  <2> QED BY <2>2, <2>3
<1>13. CASE Guard!DestroyReturns
  BY <1>13 DEF Guard!DestroyReturns, Guard!Return, ObjectTypeOK, OwnsInv, UniqueInv,
      NoOrphanInv, CallInv
<1>14. ASSUME NEW c \in Children, Guard!Exits(c) PROVE GuardInv'
  BY <1>14 DEF Guard!Exits, Guard!call, ObjectTypeOK, OwnsInv, UniqueInv,
      NoOrphanInv, CallInv
<1>15. CASE UNCHANGED (Guard!vars)
  BY <1>15 DEF Guard!vars, ObjectTypeOK, OwnsInv, UniqueInv,
      NoOrphanInv, CallInv
<1> QED
  BY <1>1, <1>2, <1>3, <1>4, <1>5, <1>6, <1>7, <1>8, <1>9, <1>10, <1>11, <1>12,
     <1>13, <1>14, <1>15, NextCases

LEMMA GuardAlways == Guard!Spec => []GuardInv
BY GuardInit, GuardStep, PTL DEF Guard!Spec

\* The members of every object and the call in progress keep their types.
THEOREM GuardTypeCorrect == Guard!Spec => []ObjectTypeOK
BY GuardAlways, PTL DEF GuardInv

\* Moves, waits and destructions in any order leave each child that runs or has
\* ended exactly one object that will collect it (l.63-121).
THEOREM OneOwnerEach == Guard!Spec => []OwnedUntilCollected
<1>1. GuardInv => OwnedUntilCollected
  <2> SUFFICES ASSUME GuardInv, NEW c \in Children
               PROVE  IF child[c] \in {"running", "zombie"}
                      THEN \E o \in alive : Owners(c) = {o}
                      ELSE Owners(c) = {}
    BY DEF OwnedUntilCollected
  <2> USE DEF GuardInv, Owners
  <2>1. CASE child[c] \in {"running", "zombie"}
    <3>1. PICK o \in alive : pid_[o] = c /\ ~waited_[o]
      BY <2>1 DEF NoOrphanInv
    <3>2. Owners(c) = {o}
      BY <3>1 DEF UniqueInv
    <3> QED BY <2>1, <3>2
  <2>2. CASE child[c] \notin {"running", "zombie"}
    BY <2>2 DEF OwnsInv
  <2> QED BY <2>1, <2>2
<1> QED BY <1>1, GuardAlways, PTL

\* terminate(), force_kill() and the destructor signal a pid only while it is
\* the object's own child (l.139-160).
THEOREM SignalsOwnChild == Guard!Spec => SignalsItsOwnChild
<1> DEFINE OwnSignal == \A c \in signalled' \ signalled : child[c] \in {"running", "zombie"}
<1>1. GuardInv /\ [Guard!Next]_(Guard!vars) => [OwnSignal]_signalled
  <2> SUFFICES ASSUME GuardInv, [Guard!Next]_(Guard!vars)
               PROVE  OwnSignal \/ UNCHANGED signalled
    OBVIOUS
  <2> USE DEF GuardInv
  <2>1. ASSUME NEW o \in Objects, Guard!SendSignal(o) PROVE OwnSignal
    BY <2>1 DEF Guard!SendSignal, Guard!Now, OwnsInv
  <2>2. CASE Guard!Kill
    BY <2>2 DEF Guard!Kill, OwnsInv, CallInv
  <2>3. CASE UNCHANGED signalled
    BY <2>3
  <2> QED
    BY <2>1, <2>2, <2>3, NextCases
    DEF Guard!Spawn, Guard!MoveConstruct, Guard!Assign, Guard!Wait, Guard!TryGetResult,
        Guard!WaitFor, Guard!Destroy, Guard!WaitReturns, Guard!Poll, Guard!Timeout,
        Guard!NothingToWait, Guard!AlreadyEnded, Guard!StillRunning, Guard!Reap,
        Guard!AssignReturns, Guard!DestroyReturns, Guard!Exits, Guard!vars
<1> QED BY <1>1, GuardAlways, PTL DEF Guard!Spec, SignalsItsOwnChild
=============================================================================
