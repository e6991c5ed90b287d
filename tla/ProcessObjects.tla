--------------------------- MODULE ProcessObjects ---------------------------
(***************************************************************************)
(* The objects of the class Process of 23-processus-ipc/exemples/          *)
(* ex05_process_raii.cpp and the children they own: the state, and what    *)
(* must be true of it.  ProcessGuard says what the calls do.               *)
(***************************************************************************)

CONSTANTS Objects,    \* the variables of type Process
          Children    \* the processes they can spawn

None == "none"        \* pid_ == -1, and no object
ASSUME NoneAssumption == None \notin Children \cup Objects

VARIABLES child,      \* the state of each child
          signalled,  \* the children that were sent SIGTERM or SIGKILL
          alive,      \* the objects constructed and not destroyed
          pid_, waited_,
          called,     \* the call the program is in
          this,       \* its object
          other       \* what operator= moves from; None in the destructor

-----------------------------------------------------------------------------
\* The members of every object and the call in progress.
ObjectTypeOK == /\ child \in [Children -> {"unborn", "running", "zombie", "gone"}]
                /\ signalled \subseteq Children
                /\ alive \subseteq Objects
                /\ pid_ \in [Objects -> Children \cup {None}]
                /\ waited_ \in [Objects -> BOOLEAN]
                /\ called \in {"idle", "wait", "wait_for", "try_wait", "kill", "reap", "rest"}
                /\ this \in Objects \cup {None} /\ other \in Objects \cup {None}

\* "recolte l'enfant pour eviter les zombies" (l.79): as long as a child is to
\* be collected, exactly one living object will do it, and none takes a gone
\* child for its own.
Owners(c) == {o \in alive : pid_[o] = c /\ ~waited_[o]}
OwnedUntilCollected ==
    \A c \in Children : IF child[c] \in {"running", "zombie"}
                         THEN \E o \in alive : Owners(c) = {o}
                         ELSE Owners(c) = {}

\* Nobody is sent a signal meant for a child that is gone (l.139-145).
SignalsItsOwnChild ==
    [][\A c \in signalled' \ signalled : child[c] \in {"running", "zombie"}]_signalled
=============================================================================
