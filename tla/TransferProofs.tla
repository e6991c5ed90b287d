--------------------------- MODULE TransferProofs ---------------------------
(***************************************************************************)
(* For every set of accounts, threads and transfers: the two mutexes keep  *)
(* what a transfer has read true until it has written, so no update is     *)
(* lost, no account is overdrawn, and no money made or lost; and whoever   *)
(* waits for a mutex waits for a thread that goes on.                      *)
(***************************************************************************)
EXTENDS Transfer, FiniteSetTheorems, WellFoundedInduction, TLAPS

\* Where a thread owns both of its accounts.
Inside == {"test", "debit", "credit"}

\* A thread between its two lock attempts owns the first account, a thread
\* inside owns both.
OwnerInv == \A t \in Threads :
              /\ pc[t] = "try" => owner[first[t]] = t
              /\ pc[t] \in Inside => owner[From[t]] = t /\ owner[To[t]] = t

\* Who owns an account is on its way through its own transfer: a thread that
\* blocks, or has ended, owns none.
HoldsInv == \A t \in Threads, a \in Accounts : owner[a] = t =>
              /\ a \in Pair(t)
              /\ pc[t] \notin {"lock", "done"}
              /\ pc[t] = "try" => a = first[t]

\* What a thread has read is what the account holds, until it has written.
ReadInv == \A t \in Threads :
             /\ pc[t] = "debit" => /\ debited[t] = balance[From[t]]
                                   /\ debited[t] >= Amount[t]
             /\ pc[t] = "credit" => credited[t] = balance[To[t]]

Inv == TypeOK /\ OwnerInv /\ ReadInv /\ NeverOverdrawn

LEMMA PairOther ==
  ASSUME TypeOK, NEW t \in Threads
  PROVE  /\ Other(t) \in Accounts
         /\ {first[t], Other(t)} = {From[t], To[t]}
<1>1. first[t] \in Pair(t) /\ From[t] # To[t] /\ Pair(t) \subseteq Accounts
  BY TransfersAssumption DEF TypeOK, Pair
<1>2. Other(t) \in Pair(t) /\ Other(t) # first[t]
  <2>1. \E a \in Pair(t) : a # first[t]
    BY <1>1 DEF Pair
  <2> QED BY <2>1 DEF Other
<1> QED BY <1>1, <1>2 DEF Pair

LEMMA InvInit == Init => Inv
BY TransfersAssumption, AmountsAssumption
DEF Init, Inv, TypeOK, OwnerInv, ReadInv, NeverOverdrawn, Inside, Pair

LEMMA InvStep == Inv /\ [Next]_vars => Inv'
<1> SUFFICES ASSUME Inv, [Next]_vars PROVE Inv'
  OBVIOUS
<1> USE TransfersAssumption, AmountsAssumption, FreeAssumption
    DEF Inv, TypeOK, OwnerInv, ReadInv, NeverOverdrawn, Inside, Pair
<1>1. CASE UNCHANGED vars
  BY <1>1 DEF vars
<1>2. ASSUME NEW t \in Threads, BlockOnFirst(t) PROVE Inv'
  BY <1>2 DEF BlockOnFirst, Goto
<1>3. ASSUME NEW t \in Threads, TrySucceeds(t) PROVE Inv'
  <2> DEFINE o == Other(t)
  <2>1. o \in Accounts /\ {first[t], o} = {From[t], To[t]}
    BY PairOther
  <2>2. /\ owner[o] = Free /\ owner' = [owner EXCEPT ![o] = t]
        /\ pc[t] = "try" /\ pc' = [pc EXCEPT ![t] = "test"]
        /\ UNCHANGED <<balance, first, debited, credited>>
    BY <1>3 DEF TrySucceeds, Goto
  <2> HIDE DEF o
  <2>3. owner'[first[t]] = t /\ owner'[o] = t
    BY <2>1, <2>2
  <2>4. \A u \in Threads, a \in Accounts : owner[a] = u => owner'[a] = u
    BY <2>1, <2>2
  <2>5. owner'[From[t]] = t /\ owner'[To[t]] = t
    BY <2>1, <2>3
  <2> QED BY <2>1, <2>2, <2>4, <2>5
<1>4. ASSUME NEW t \in Threads, TryFails(t) PROVE Inv'
  BY <1>4 DEF TryFails, Goto
<1>5. ASSUME NEW t \in Threads, Test(t) PROVE Inv'
  BY <1>5 DEF Test, Goto
<1>6. ASSUME NEW t \in Threads, Refused(t) PROVE Inv'
  BY <1>6 DEF Refused, Goto
<1>7. ASSUME NEW t \in Threads, Debit(t) PROVE Inv'
  BY <1>7 DEF Debit, Goto
<1>8. ASSUME NEW t \in Threads, Credit(t) PROVE Inv'
  BY <1>8 DEF Credit, Goto
<1>9. ASSUME NEW t \in Threads, UnlockOne(t) PROVE Inv'
  BY <1>9 DEF UnlockOne
<1> QED
  BY <1>1, <1>2, <1>3, <1>4, <1>5, <1>6, <1>7, <1>8, <1>9 DEF Next, Step, Joined

LEMMA HoldsInit == Init => HoldsInv
BY FreeAssumption DEF Init, HoldsInv

LEMMA HoldsStep == Inv /\ HoldsInv /\ [Next]_vars => HoldsInv'
<1> SUFFICES ASSUME Inv, HoldsInv, [Next]_vars PROVE HoldsInv'
  OBVIOUS
<1> USE TransfersAssumption, FreeAssumption DEF Inv, TypeOK, HoldsInv, Pair
<1>1. CASE UNCHANGED vars
  BY <1>1 DEF vars
<1>2. ASSUME NEW t \in Threads, BlockOnFirst(t) PROVE HoldsInv'
  BY <1>2 DEF BlockOnFirst, Goto
<1>3. ASSUME NEW t \in Threads, TrySucceeds(t) PROVE HoldsInv'
  <2>1. Other(t) \in Accounts /\ Other(t) \in {From[t], To[t]}
    BY PairOther
  <2> QED BY <1>3, <2>1 DEF TrySucceeds, Goto
\* The first mutex, given back, was the only one it owned.
<1>4. ASSUME NEW t \in Threads, TryFails(t) PROVE HoldsInv'
  BY <1>4 DEF TryFails, Goto
<1>5. ASSUME NEW t \in Threads, Test(t) \/ Refused(t) \/ Debit(t) \/ Credit(t)
      PROVE  HoldsInv'
  BY <1>5 DEF Test, Refused, Debit, Credit, Goto
\* A transfer ends with the second of its two accounts given back.
<1>6. ASSUME NEW t \in Threads, UnlockOne(t) PROVE HoldsInv'
  BY <1>6 DEF UnlockOne
<1> QED
  BY <1>1, <1>2, <1>3, <1>4, <1>5, <1>6 DEF Next, Step, Joined

LEMMA InvAlways == Spec => []Inv
BY InvInit, InvStep, PTL DEF Spec

\* Balances stay integers and every thread locks accounts of its own transfer.
THEOREM TypeCorrect == Spec => []TypeOK
BY InvAlways, PTL DEF Inv

\* std::lock keeps no mutex while it blocks (l.37), so whoever a transfer waits
\* for goes on: for any number of accounts, threads and crossings.
THEOREM DeadlockFree == Spec => []NoDeadlock
<1>1. Inv /\ HoldsInv => NoDeadlock
  BY FreeAssumption DEF Inv, TypeOK, HoldsInv, NoDeadlock, Blocked
<1> QED BY <1>1, InvInit, InvStep, HoldsInit, HoldsStep, PTL DEF Spec

\* The test of l.23 protects the debit of l.24 from every other transfer.
THEOREM NoOverdraft == Spec => []NeverOverdrawn
BY InvAlways, PTL DEF Inv

LEMMA ExactStep ==
  ASSUME Inv, [Next]_vars, NEW t \in Threads
  PROVE  /\ pc[t] = "debit" /\ pc'[t] = "credit"
              => balance' = [balance EXCEPT ![From[t]] = @ - Amount[t]]
         /\ pc[t] = "credit" /\ pc'[t] = "unlock"
              => balance' = [balance EXCEPT ![To[t]] = @ + Amount[t]]
<1> USE DEF Inv, TypeOK
<1>1. CASE \/ UNCHANGED pc
           \/ \E u \in Threads : u # t /\ Step(u)
  <2>1. pc'[t] = pc[t]
    BY <1>1 DEF Step, Goto, BlockOnFirst, TrySucceeds, TryFails, Test, Refused,
                Debit, Credit, UnlockOne
  <2> QED BY <2>1
<1>2. CASE Step(t)
  BY <1>2 DEF Step, Goto, BlockOnFirst, TrySucceeds, TryFails, Test, Refused,
              Debit, Credit, UnlockOne, ReadInv
<1> QED BY <1>1, <1>2 DEF Next, Joined, vars

\* Each debit and each credit applies to the account's value at that moment:
\* with it, the sum of the balances changes by what is in transit and no more.
THEOREM ExactTransfers == Spec => NoLostUpdate
<1>1. Inv /\ [Next]_vars
        => [\A t \in Threads :
              /\ pc[t] = "debit" /\ pc'[t] = "credit"
                   => balance' = [balance EXCEPT ![From[t]] = @ - Amount[t]]
              /\ pc[t] = "credit" /\ pc'[t] = "unlock"
                   => balance' = [balance EXCEPT ![To[t]] = @ + Amount[t]]]_vars
  BY ExactStep
<1> QED BY <1>1, InvAlways, PTL DEF Spec, NoLostUpdate
-----------------------------------------------------------------------------
(* Sums over a finite set.  The library's induction theorems take an operator, so
   induction is over a set of naturals or of subsets here. *)

LEMMA NatSetInduction ==
  ASSUME NEW A, 0 \in A, \A n \in Nat : n \in A => n + 1 \in A
  PROVE  Nat \subseteq A
<1> DEFINE R == OpToRel(<, Nat)
<1>1. \A n, m \in Nat : n < m => <<n, m>> \in R
  <2>1. R = {ss \in Nat \X Nat : ss[1] < ss[2]}
    BY Zenon DEF OpToRel
  <2> QED BY <2>1
<1>2. IsWellFoundedOn(R, Nat)
  BY NatLessThanWellFounded
<1> HIDE DEF R
<1> SUFFICES ASSUME Nat \ A # {} PROVE FALSE
  OBVIOUS
<1>3. PICK m \in Nat \ A : \A n \in Nat \ A : ~(<<n, m>> \in R)
  BY <1>2, WFMin
<1>4. m # 0 /\ m - 1 \in Nat /\ m - 1 < m
  OBVIOUS
<1>5. m - 1 \in A
  BY <1>1, <1>3, <1>4
<1> QED BY <1>4, <1>5

\* The recursion SumFunctionOnSet is defined by.
Some(s) == CHOOSE x \in s : TRUE
Body(f, g, s) == IF s = {} THEN 0 ELSE f[Some(s)] + g[s \ {Some(s)}]

LEMMA SumDef ==
  ASSUME NEW S, NEW f
  PROVE  SumFunctionOnSet(f, S) = (CHOOSE g : g = [s \in SUBSET S |-> Body(f, g, s)])[S]
BY DEF SumFunctionOnSet, FoldFunctionOnSet, MapThenFoldSet, Body, Some

Iter(f, S) == CHOOSE g : g = [s \in SUBSET S |-> Body(f, g, s)]

Small(S, n) == {s \in SUBSET S : Cardinality(s) <= n}

LEMMA SomeIn == \A s : s # {} => Some(s) \in s
BY DEF Some

\* The recursion has a solution: one for the subsets of up to n elements, for each n.
LEMMA SumExists ==
  ASSUME NEW S, IsFiniteSet(S), NEW f
  PROVE  \E g : g = [s \in SUBSET S |-> Body(f, g, s)]
<1> DEFINE A == {n \in Nat : \E g : g = [s \in Small(S, n) |-> Body(f, g, s)]}
<1>1. 0 \in A
  <2>1. \A s \in Small(S, 0) : s = {}
    BY FS_Subset, FS_EmptySet, FS_CardinalityType DEF Small
  <2> DEFINE g == [s \in Small(S, 0) |-> 0]
  <2>2. g = [s \in Small(S, 0) |-> Body(f, g, s)]
    BY <2>1 DEF Body
  <2> QED BY <2>2
<1>2. ASSUME NEW n \in Nat, n \in A PROVE n + 1 \in A
  <2>1. PICK h : h = [s \in Small(S, n) |-> Body(f, h, s)]
    BY <1>2
  <2> DEFINE g == [s \in Small(S, n + 1) |-> Body(f, h, s)]
  <2>2. \A s \in Small(S, n + 1) : s # {} => s \ {Some(s)} \in Small(S, n)
    BY SomeIn, FS_Subset, FS_RemoveElement, FS_CardinalityType DEF Small
  <2>3. \A s \in Small(S, n) : s \in Small(S, n + 1) /\ g[s] = h[s]
    <3>1. Small(S, n) \subseteq Small(S, n + 1)
      BY FS_Subset, FS_CardinalityType DEF Small
    <3> QED BY <3>1, <2>1
  <2>4. \A s \in Small(S, n + 1) : Body(f, h, s) = Body(f, g, s)
    BY <2>2, <2>3 DEF Body
  <2>5. g = [s \in Small(S, n + 1) |-> Body(f, g, s)]
    BY <2>4
  <2> HIDE DEF g
  <2> QED BY <2>5
<1> HIDE DEF A
<1>3. Cardinality(S) \in A
  BY <1>1, <1>2, NatSetInduction, FS_CardinalityType
<1>4. Small(S, Cardinality(S)) = SUBSET S
  BY FS_Subset DEF Small
<1> QED BY <1>3, <1>4 DEF A

LEMMA SumIter ==
  ASSUME NEW S, IsFiniteSet(S), NEW f
  PROVE  /\ SumFunctionOnSet(f, S) = Iter(f, S)[S]
         /\ \A s \in SUBSET S : Iter(f, S)[s] = Body(f, Iter(f, S), s)
<1>1. Iter(f, S) = [s \in SUBSET S |-> Body(f, Iter(f, S), s)]
  BY SumExists DEF Iter
<1>2. SumFunctionOnSet(f, S) = Iter(f, S)[S]
  BY SumDef DEF Iter
<1> HIDE DEF Iter
<1> QED BY <1>1, <1>2

\* Induction over the subsets of a finite set, taking one element out.
LEMMA SubsetInduction ==
  ASSUME NEW S, IsFiniteSet(S), NEW A, {} \in A,
         \A s \in SUBSET S : s # {} /\ s \ {Some(s)} \in A => s \in A
  PROVE  SUBSET S \subseteq A
<1> DEFINE N == {n \in Nat : \A s \in SUBSET S : Cardinality(s) = n => s \in A}
<1>1. 0 \in N
  BY FS_Subset, FS_EmptySet
<1>2. ASSUME NEW n \in Nat, n \in N PROVE n + 1 \in N
  <2> SUFFICES ASSUME NEW s \in SUBSET S, Cardinality(s) = n + 1 PROVE s \in A
    OBVIOUS
  <2>1. s # {}
    BY FS_EmptySet
  <2>2. Cardinality(s \ {Some(s)}) = n
    <3>1. IsFiniteSet(s) /\ Some(s) \in s
      BY <2>1, SomeIn, FS_Subset
    <3>2. Cardinality(s \ {Some(s)}) = Cardinality(s) - 1
      BY <3>1, FS_RemoveElement
    <3> QED BY <3>2
  <2>3. s \ {Some(s)} \in A
    BY <1>2, <2>2
  <2> QED BY <2>1, <2>3
<1> HIDE DEF N
<1>3. \A s \in SUBSET S : Cardinality(s) \in N
  BY <1>1, <1>2, NatSetInduction, FS_Subset, FS_CardinalityType
<1> QED BY <1>3 DEF N

\* The recursion, unfolded once.
LEMMA SumUnfold ==
  ASSUME NEW S, IsFiniteSet(S), NEW f
  PROVE  /\ Iter(f, S)[{}] = 0
         /\ \A s \in SUBSET S : s # {} =>
              /\ Some(s) \in s
              /\ Iter(f, S)[s] = f[Some(s)] + Iter(f, S)[s \ {Some(s)}]
<1>1. \A s \in SUBSET S : Iter(f, S)[s] = Body(f, Iter(f, S), s)
  BY SumIter
<1> QED BY <1>1, SomeIn DEF Body

LEMMA SumType ==
  ASSUME NEW S, IsFiniteSet(S), NEW f \in [S -> Int]
  PROVE  \A s \in SUBSET S : Iter(f, S)[s] \in Int
<1> DEFINE A == {s \in SUBSET S : Iter(f, S)[s] \in Int}
<1>1. {} \in A
  BY SumUnfold
<1>2. ASSUME NEW s \in SUBSET S, s # {}, s \ {Some(s)} \in A PROVE s \in A
  <2>1. Some(s) \in s /\ Iter(f, S)[s] = f[Some(s)] + Iter(f, S)[s \ {Some(s)}]
    BY <1>2, SumUnfold
  <2> QED BY <1>2, <2>1
<1> HIDE DEF A
<1>3. SUBSET S \subseteq A
  BY <1>1, <1>2, SubsetInduction
<1> QED BY <1>3 DEF A

\* g is f with d added to its term x.
Adds(S, f, g, x, d) == /\ f \in [S -> Int] /\ g \in [S -> Int]
                       /\ x \in S /\ d \in Int
                       /\ g[x] = f[x] + d /\ \A y \in S \ {x} : g[y] = f[y]

\* A sum changes by what one of its terms does.
LEMMA SumChanges ==
  ASSUME NEW S, IsFiniteSet(S), NEW f, NEW g, NEW x, NEW d, Adds(S, f, g, x, d)
  PROVE  SumFunction(f) \in Int /\ SumFunction(g) = SumFunction(f) + d
<1> USE DEF Adds
<1> DEFINE A == {s \in SUBSET S : Iter(g, S)[s] = Iter(f, S)[s] + (IF x \in s THEN d ELSE 0)}
<1>1. {} \in A
  <2>1. Iter(g, S)[{}] = 0 /\ Iter(f, S)[{}] = 0
    BY SumUnfold
  <2> QED BY <2>1
<1>2. ASSUME NEW s \in SUBSET S, s # {}, s \ {Some(s)} \in A PROVE s \in A
  <2> DEFINE y == Some(s)
             r == s \ {y}
  <2>1. /\ y \in s
        /\ Iter(f, S)[s] = f[y] + Iter(f, S)[r]
        /\ Iter(g, S)[s] = g[y] + Iter(g, S)[r]
    <3>1. /\ Some(s) \in s
          /\ Iter(f, S)[s] = f[Some(s)] + Iter(f, S)[s \ {Some(s)}]
      BY <1>2, SumUnfold
    <3>2. Iter(g, S)[s] = g[Some(s)] + Iter(g, S)[s \ {Some(s)}]
      BY <1>2, SumUnfold
    <3> QED BY <3>1, <3>2
  <2>2. Iter(f, S)[r] \in Int /\ Iter(g, S)[r] = Iter(f, S)[r] + (IF x \in r THEN d ELSE 0)
    BY <1>2, SumType
  <2>3. f[y] \in Int /\ g[y] = IF y = x THEN f[x] + d ELSE f[y]
    BY <2>1
  <2> QED BY <2>1, <2>2, <2>3
<1> HIDE DEF A
<1>3. S \in A
  BY <1>1, <1>2, SubsetInduction
<1>4. Iter(g, S)[S] = Iter(f, S)[S] + d /\ Iter(f, S)[S] \in Int
  BY <1>3, SumType DEF A
<1>5. SumFunctionOnSet(g, S) = Iter(g, S)[S] /\ SumFunctionOnSet(f, S) = Iter(f, S)[S]
  BY SumIter
<1>6. DOMAIN f = S /\ DOMAIN g = S
  OBVIOUS
<1> QED BY <1>4, <1>5, <1>6 DEF SumFunction

\* The sum of equal terms.
LEMMA SumConstant ==
  ASSUME NEW S, IsFiniteSet(S), NEW k \in Int, NEW f \in [S -> Int], \A x \in S : f[x] = k
  PROVE  SumFunction(f) = k * Cardinality(S)
<1> DEFINE A == {s \in SUBSET S : Iter(f, S)[s] = k * Cardinality(s)}
<1>1. {} \in A
  BY SumUnfold, FS_EmptySet
<1>2. ASSUME NEW s \in SUBSET S, s # {}, s \ {Some(s)} \in A PROVE s \in A
  <2> DEFINE r == s \ {Some(s)}
             n == Cardinality(r)
  <2>1. Some(s) \in s /\ Iter(f, S)[s] = f[Some(s)] + Iter(f, S)[r]
    BY <1>2, SumUnfold
  <2>2. IsFiniteSet(s) /\ IsFiniteSet(r) /\ n \in Nat /\ Cardinality(s) = n + 1
    BY <2>1, FS_Subset, FS_RemoveElement, FS_CardinalityType
  <2>3. Iter(f, S)[s] = k + k * n
    BY <1>2, <2>1
  <2>4. k * (n + 1) = k + k * n
    BY <2>2
  <2> QED BY <2>2, <2>3, <2>4
<1> HIDE DEF A
<1>3. S \in A
  BY <1>1, <1>2, SubsetInduction
<1>4. SumFunctionOnSet(f, S) = Iter(f, S)[S] /\ DOMAIN f = S
  BY SumIter
<1> QED BY <1>3, <1>4 DEF A, SumFunction
-----------------------------------------------------------------------------
Transit == [t \in Threads |-> InTransit(t)]

LEMMA TransitType == Transit \in [Threads -> Int]
BY AmountsAssumption DEF Transit, InTransit

LEMMA TransitFrame ==
  ASSUME \A t \in Threads : InTransit(t)' = InTransit(t)
  PROVE  Transit' = Transit
BY DEF Transit

LEMMA MoneyInit == Init => MoneyConserved
<1> SUFFICES ASSUME Init PROVE MoneyConserved
  OBVIOUS
<1>1. balance = [a \in Accounts |-> Opening]
  BY DEF Init
<1>2. Transit = [t \in Threads |-> 0]
  BY DEF Init, Transit, InTransit
<1>3. Opening \in Nat /\ 0 * Cardinality(Threads) = 0 /\ Opening * Cardinality(Accounts) \in Int
  BY AmountsAssumption, FiniteAssumption, FS_CardinalityType
<1>4. SumFunction(balance) = Opening * Cardinality(Accounts)
  <2>1. balance \in [Accounts -> Int] /\ \A a \in Accounts : balance[a] = Opening
    BY <1>1, <1>3
  <2> QED BY <1>3, <2>1, SumConstant, FiniteAssumption
<1>5. SumFunction(Transit) = 0 * Cardinality(Threads)
  <2>1. \A t \in Threads : Transit[t] = 0
    BY <1>2
  <2> QED BY <2>1, SumConstant, TransitType, FiniteAssumption
<1> QED BY <1>3, <1>4, <1>5 DEF MoneyConserved, Transit

\* What an account loses is in transit, and what is in transit an account gains.
LEMMA MoneyMoves ==
  ASSUME NEW f, NEW g, NEW a, NEW d, Adds(Accounts, f, g, a, d),
         NEW i, NEW j, NEW t, NEW e, Adds(Threads, i, j, t, e), d + e = 0
  PROVE  SumFunction(g) + SumFunction(j) = SumFunction(f) + SumFunction(i)
<1>1. SumFunction(f) \in Int /\ SumFunction(g) = SumFunction(f) + d
  BY SumChanges, FiniteAssumption
<1>2. SumFunction(i) \in Int /\ SumFunction(j) = SumFunction(i) + e
  BY SumChanges, FiniteAssumption
<1>3. d \in Int /\ e \in Int
  BY DEF Adds
<1> QED BY <1>1, <1>2, <1>3

LEMMA MoneyStep == Inv /\ MoneyConserved /\ [Next]_vars => MoneyConserved'
<1> SUFFICES ASSUME Inv, MoneyConserved, [Next]_vars PROVE MoneyConserved'
  OBVIOUS
<1> USE FiniteAssumption, TransfersAssumption, AmountsAssumption DEF Inv, TypeOK
<1>1. ASSUME UNCHANGED balance, \A t \in Threads : InTransit(t)' = InTransit(t)
      PROVE  MoneyConserved'
  BY <1>1, TransitFrame DEF MoneyConserved, Transit
<1>2. ASSUME NEW t \in Threads, Debit(t) PROVE MoneyConserved'
  <2>1. Adds(Accounts, balance, balance', From[t], -Amount[t])
    BY <1>2 DEF Debit, Goto, ReadInv, Adds
  <2>2. Adds(Threads, Transit, Transit', t, Amount[t])
    BY <1>2 DEF Debit, Goto, Transit, InTransit, Adds
  <2>3. -Amount[t] + Amount[t] = 0 /\ Amount[t] + -Amount[t] = 0
    OBVIOUS
  <2>4. SumFunction(balance') + SumFunction(Transit') = SumFunction(balance) + SumFunction(Transit)
    BY <2>1, <2>2, <2>3, MoneyMoves
  <2> QED BY <2>4 DEF MoneyConserved, Transit
<1>3. ASSUME NEW t \in Threads, Credit(t) PROVE MoneyConserved'
  <2>1. Adds(Accounts, balance, balance', To[t], Amount[t])
    BY <1>3 DEF Credit, Goto, ReadInv, Adds
  <2>2. Adds(Threads, Transit, Transit', t, -Amount[t])
    BY <1>3 DEF Credit, Goto, Transit, InTransit, Adds
  <2>3. -Amount[t] + Amount[t] = 0 /\ Amount[t] + -Amount[t] = 0
    OBVIOUS
  <2>4. SumFunction(balance') + SumFunction(Transit') = SumFunction(balance) + SumFunction(Transit)
    BY <2>1, <2>2, <2>3, MoneyMoves
  <2> QED BY <2>4 DEF MoneyConserved, Transit
<1>4. ASSUME NEW t \in Threads,
             \/ BlockOnFirst(t) \/ TrySucceeds(t) \/ TryFails(t)
             \/ Test(t) \/ Refused(t) \/ UnlockOne(t)
      PROVE  UNCHANGED balance /\ \A u \in Threads : InTransit(u)' = InTransit(u)
  BY <1>4 DEF BlockOnFirst, TrySucceeds, TryFails, Test, Refused, UnlockOne, Goto, InTransit
<1>5. CASE UNCHANGED vars
  BY <1>1, <1>5 DEF vars, InTransit
<1> QED BY <1>1, <1>2, <1>3, <1>4, <1>5 DEF Next, Step, Joined

\* The total that main() prints (l.48-52) is right at every moment and for any number
\* of accounts and transfers, what is between a debit and its credit counted in.
THEOREM MoneyIsConserved == Spec => []MoneyConserved
BY MoneyInit, MoneyStep, InvAlways, PTL DEF Spec
=============================================================================
