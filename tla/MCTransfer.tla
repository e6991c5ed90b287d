----------------------------- MODULE MCTransfer -----------------------------
EXTENDS Transfer, TLC

CONSTANTS alice, bob, charlie, t1, t2, t3, t4

AllAccounts == {alice, bob, charlie}
AllThreads == {t1, t2, t3, t4}

\* The four kinds of transfer that main() crosses (l.39-42).
MCFrom == (t1 :> alice) @@ (t2 :> bob) @@ (t3 :> bob) @@ (t4 :> charlie)
MCTo == (t1 :> bob) @@ (t2 :> alice) @@ (t3 :> charlie) @@ (t4 :> alice)
MCAmount == (t1 :> 2) @@ (t2 :> 2) @@ (t3 :> 1) @@ (t4 :> 1)
=============================================================================
