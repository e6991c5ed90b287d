------------------------------ MODULE MCPrograms ------------------------------
(* Every program, on a machine whose pipes hold two items. *)
EXTENDS Lockset, ThreadPrograms, ProcessPrograms, SignalPrograms,
        NetworkPrograms, FilePrograms, TLC

AllPrograms == Threads @@ Processes @@ SignalHandling @@ Networks @@ Files

\* No program hides another of the same name.
Parts == <<Threads, Processes, SignalHandling, Networks, Files>>
ASSUME DistinctNames ==
         \A i, j \in DOMAIN Parts : i # j => DOMAIN Parts[i] \cap DOMAIN Parts[j] = {}
=============================================================================
