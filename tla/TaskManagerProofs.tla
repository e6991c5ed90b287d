-------------------------- MODULE TaskManagerProofs --------------------------
(***************************************************************************)
(* For every number of clients and calls: the id a CreateTask allocates    *)
(* before it takes the mutex is nobody else's when it inserts its task,    *)
(* and a listing that follows the page tokens while others create gives no *)
(* task twice and misses none but the tokens themselves.                   *)
(***************************************************************************)
EXTENDS TaskManager, FiniteSetTheorems, SequenceTheorems, TLAPS

(* The order of the ids, the map's iteration and its pages. *)

LEMMA RankInjective == \A m, n \in Nat : Rank(m) = Rank(n) => m = n
BY DEF Rank

LEMMA RankType == \A n \in Nat : Rank(n) \in Nat
BY DEF Rank

Has(s, n) == \E k \in DOMAIN s : s[k] = n

\* s goes through the ids in the order of their names.
Ascends(s) == \A j, k \in DOMAIN s : j < k => Rank(s[j]) < Rank(s[k])

LEMMA AscendsInjective ==
  ASSUME NEW s \in Seq(Nat), Ascends(s) PROVE IsInjective(s)
<1> SUFFICES ASSUME NEW j \in DOMAIN s, NEW k \in DOMAIN s, s[j] = s[k], j < k PROVE FALSE
  BY DEF IsInjective
<1>1. Rank(s[j]) < Rank(s[k]) /\ s[j] \in Nat
  BY DEF Ascends
<1> QED BY <1>1, RankType

LEMMA AscendsConcat ==
  ASSUME NEW s \in Seq(Nat), NEW t \in Seq(Nat), Ascends(s), Ascends(t),
         \A j \in DOMAIN s, k \in DOMAIN t : Rank(s[j]) < Rank(t[k])
  PROVE  /\ s \o t \in Seq(Nat) /\ Ascends(s \o t)
         /\ \A n \in Nat : Has(s \o t, n) <=> Has(s, n) \/ Has(t, n)
<1> DEFINE u == s \o t
           l == Len(s)
           m == Len(t)
<1>1. /\ u \in Seq(Nat) /\ DOMAIN u = 1 .. l + m
      /\ DOMAIN s = 1 .. l /\ DOMAIN t = 1 .. m /\ l \in Nat /\ m \in Nat
      /\ \A k \in 1 .. l + m : u[k] = IF k <= l THEN s[k] ELSE t[k - l]
  <2>1. u \in Seq(Nat) /\ Len(u) = l + m
    BY ConcatProperties
  <2>2. \A k \in 1 .. l + m : u[k] = IF k <= l THEN s[k] ELSE t[k - l]
    BY ConcatProperties
  <2> QED BY <2>1, <2>2
<1> HIDE DEF u, l, m
<1>2. ASSUME NEW k \in DOMAIN u
      PROVE  \/ k \in DOMAIN s /\ u[k] = s[k]
             \/ l < k /\ k - l \in DOMAIN t /\ u[k] = t[k - l]
  <2>1. k \in Int /\ 1 <= k /\ k <= l + m
    BY <1>1
  <2> QED BY <1>1, <2>1
<1>3. ASSUME NEW k \in DOMAIN s PROVE k \in DOMAIN u /\ u[k] = s[k]
  <2>1. k \in Int /\ 1 <= k /\ k <= l /\ k <= l + m
    BY <1>1
  <2> QED BY <1>1, <2>1
<1>4. ASSUME NEW k \in DOMAIN t PROVE k + l \in DOMAIN u /\ u[k + l] = t[k]
  <2>1. /\ k \in Int /\ 1 <= k + l /\ k + l <= l + m
        /\ ~(k + l <= l) /\ (k + l) - l = k
    BY <1>1
  <2> QED BY <1>1, <2>1
<1>5. ASSUME NEW j \in DOMAIN u, NEW k \in DOMAIN u, j < k PROVE Rank(u[j]) < Rank(u[k])
  <2>1. j \in Int /\ k \in Int /\ l \in Int
    BY <1>1
  <2>2. CASE k \in DOMAIN s /\ u[k] = s[k]
    <3>1. j \in DOMAIN s /\ u[j] = s[j]
      BY <1>1, <1>2, <1>5, <2>1, <2>2
    <3> QED BY <1>5, <2>2, <3>1 DEF Ascends
  <2>3. CASE l < k /\ k - l \in DOMAIN t /\ u[k] = t[k - l]
    <3>1. CASE j \in DOMAIN s /\ u[j] = s[j]
      BY <2>3, <3>1
    <3>2. CASE l < j /\ j - l \in DOMAIN t /\ u[j] = t[j - l]
      <4>1. j - l < k - l
        BY <1>5, <2>1
      <4> QED BY <2>3, <3>2, <4>1 DEF Ascends
    <3> QED BY <1>2, <3>1, <3>2
  <2> QED BY <1>2, <2>2, <2>3
<1>6. ASSUME NEW n \in Nat PROVE Has(u, n) <=> Has(s, n) \/ Has(t, n)
  BY <1>2, <1>3, <1>4 DEF Has
<1> QED BY <1>1, <1>5, <1>6 DEF u, Ascends

\* What a map of tasks is: its ids are naturals, and finitely many.
IsMap(map) == DOMAIN map \subseteq Nat /\ IsFiniteSet(DOMAIN map)

LEMMA BeforeCounts ==
  ASSUME NEW map, IsMap(map), NEW n \in DOMAIN map
  PROVE  /\ Cardinality(DOMAIN map) \in Nat
         /\ Cardinality(Before(map, n)) \in 0 .. Cardinality(DOMAIN map) - 1
         /\ \A m \in DOMAIN map :
              Rank(m) < Rank(n) <=> Cardinality(Before(map, m)) < Cardinality(Before(map, n))
<1> USE DEF IsMap
<1>1. ASSUME NEW x \in DOMAIN map, NEW y \in DOMAIN map, Rank(x) < Rank(y)
      PROVE  Cardinality(Before(map, x)) < Cardinality(Before(map, y))
  <2>1. Before(map, x) \cup {x} \in SUBSET Before(map, y) /\ x \notin Before(map, x)
    BY <1>1, RankType DEF Before
  <2>2. IsFiniteSet(Before(map, x)) /\ IsFiniteSet(Before(map, y))
    BY FS_Subset DEF Before
  <2>3. /\ Cardinality(Before(map, x) \cup {x}) = Cardinality(Before(map, x)) + 1
        /\ Cardinality(Before(map, x) \cup {x}) <= Cardinality(Before(map, y))
    BY <2>1, <2>2, FS_AddElement, FS_Subset
  <2>4. Cardinality(Before(map, x)) \in Nat /\ Cardinality(Before(map, y)) \in Nat
    BY <2>2, FS_CardinalityType
  <2> QED BY <2>3, <2>4
<1>2. ASSUME NEW x \in DOMAIN map PROVE Cardinality(Before(map, x)) \in Nat
  BY FS_Subset, FS_CardinalityType DEF Before
<1>3. Cardinality(Before(map, n)) < Cardinality(DOMAIN map)
  <2>1. Before(map, n) \in SUBSET DOMAIN map /\ n \notin Before(map, n)
    BY RankType DEF Before
  <2>2. Cardinality(Before(map, n)) # Cardinality(DOMAIN map)
    BY <2>1, FS_Subset
  <2> QED BY <2>1, <2>2, <1>2, FS_Subset, FS_CardinalityType
<1>4. ASSUME NEW m \in DOMAIN map
      PROVE  Rank(m) < Rank(n) <=> Cardinality(Before(map, m)) < Cardinality(Before(map, n))
  <2>1. Rank(m) < Rank(n) \/ m = n \/ Rank(n) < Rank(m)
    BY RankType, RankInjective
  <2>2. Rank(m) < Rank(n) => Cardinality(Before(map, m)) < Cardinality(Before(map, n))
    BY <1>1
  <2>3. Rank(n) < Rank(m) => Cardinality(Before(map, n)) < Cardinality(Before(map, m))
    BY <1>1
  <2>4. Cardinality(Before(map, m)) \in Nat /\ Cardinality(Before(map, n)) \in Nat
    BY <1>2
  <2> QED BY <2>1, <2>2, <2>3, <2>4
<1>5. Cardinality(DOMAIN map) \in Nat
  BY FS_CardinalityType
<1>6. Cardinality(Before(map, n)) \in 0 .. Cardinality(DOMAIN map) - 1
  BY <1>2, <1>3, <1>5
<1> QED BY <1>4, <1>5, <1>6

\* Every place of the map has its key.
LEMMA PlaceHasKey ==
  ASSUME NEW map, IsMap(map), NEW k \in 1 .. Cardinality(DOMAIN map)
  PROVE  \E n \in DOMAIN map : Cardinality(Before(map, n)) = k - 1
<1> DEFINE S == DOMAIN map
           T == 0 .. Cardinality(S) - 1
           f == [n \in S |-> Cardinality(Before(map, n))]
<1>1. Cardinality(S) \in Nat
  BY FS_CardinalityType DEF IsMap
<1>2. f \in [S -> T]
  BY BeforeCounts
<1>3. ASSUME NEW m \in S, NEW n \in S, f[m] = f[n] PROVE m = n
  <2>1. ~(Rank(m) < Rank(n)) /\ ~(Rank(n) < Rank(m))
    <3>1. f[m] \in Int /\ f[n] \in Int
      BY <1>1, <1>2
    <3> QED BY <1>3, <3>1, BeforeCounts
  <2> QED BY <2>1, RankType, RankInjective DEF IsMap
<1>4. IsFiniteSet(T) /\ Cardinality(T) = Cardinality(S)
  <2>1. ASSUME NEW c \in Nat PROVE IsFiniteSet(0 .. c - 1) /\ Cardinality(0 .. c - 1) = c
    BY FS_Interval, c - 1 \in Int
  <2> QED BY <1>1, <2>1
<1> HIDE DEF f, T
<1>5. f \in Injection(S, T)
  <2>1. DOMAIN f = S
    BY <1>2
  <2>2. IsInjective(f)
    BY <1>3, <2>1 DEF IsInjective
  <2> QED BY <1>2, <2>2 DEF Injection
<1>6. f \in Surjection(S, T)
  BY <1>4, <1>5, FS_Injection
<1>7. k - 1 \in T
  BY <1>1 DEF T
<1>8. \E n \in S : f[n] = k - 1
  BY <1>6, <1>7 DEF Surjection
<1> QED BY <1>8 DEF f

\* Iterating goes through every key of the map, in order.
LEMMA KeysAscend ==
  ASSUME NEW map, IsMap(map)
  PROVE  /\ Keys(map) \in Seq(DOMAIN map)
         /\ Len(Keys(map)) = Cardinality(DOMAIN map)
         /\ Ascends(Keys(map))
         /\ \A n \in DOMAIN map :
              /\ Cardinality(Before(map, n)) + 1 \in 1 .. Cardinality(DOMAIN map)
              /\ Keys(map)[Cardinality(Before(map, n)) + 1] = n
<1> DEFINE C == Cardinality(DOMAIN map)
           K == Keys(map)
<1>0. C \in Nat
  BY FS_CardinalityType DEF IsMap
<1>1. \A k \in 1 .. C : K[k] \in DOMAIN map /\ Cardinality(Before(map, K[k])) = k - 1
  BY PlaceHasKey DEF Keys
<1>2. K \in Seq(DOMAIN map) /\ Len(K) = C /\ DOMAIN K = 1 .. C
  BY <1>0, <1>1 DEF Keys
<1> HIDE DEF K
<1>3. Ascends(K)
  BY <1>0, <1>1, <1>2, BeforeCounts DEF Ascends
<1>4. ASSUME NEW n \in DOMAIN map
      PROVE  /\ Cardinality(Before(map, n)) + 1 \in 1 .. C
             /\ K[Cardinality(Before(map, n)) + 1] = n
  <2> DEFINE k == Cardinality(Before(map, n)) + 1
  <2>1. k \in 1 .. C /\ Cardinality(Before(map, n)) \in Int
    BY <1>0, BeforeCounts
  <2>2. K[k] \in DOMAIN map /\ Cardinality(Before(map, K[k])) = Cardinality(Before(map, n))
    BY <1>1, <2>1
  <2>3. ~(Rank(K[k]) < Rank(n)) /\ ~(Rank(n) < Rank(K[k]))
    BY <2>1, <2>2, BeforeCounts
  <2>4. K[k] = n
    BY <2>2, <2>3, RankType, RankInjective DEF IsMap
  <2> QED BY <2>1, <2>4
<1> QED BY <1>2, <1>3, <1>4 DEF K

\* What a page begins after the token with: the tasks that sort after it.
Beyond(tok, n) == tok = NoToken \/ Rank(tok) < Rank(n)

LEMMA RestBeyond ==
  ASSUME NEW map, IsMap(map), NEW tok \in DOMAIN map \cup {NoToken}
  PROVE  /\ FromToken(map, tok) \in Seq(DOMAIN map)
         /\ Ascends(FromToken(map, tok))
         /\ \A k \in DOMAIN FromToken(map, tok) : Beyond(tok, FromToken(map, tok)[k])
         /\ \A n \in DOMAIN map :
              Beyond(tok, n) => Has(FromToken(map, tok), n)
<1> DEFINE C == Cardinality(DOMAIN map)
           K == Keys(map)
           R == FromToken(map, tok)
           P(n) == Cardinality(Before(map, n))
<1>1. /\ C \in Nat /\ K \in Seq(DOMAIN map) /\ Len(K) = C /\ DOMAIN K = 1 .. C
      /\ Ascends(K)
      /\ \A n \in DOMAIN map : P(n) \in Nat /\ P(n) + 1 \in 1 .. C /\ K[P(n) + 1] = n
      /\ \A k \in 1 .. C : K[k] \in DOMAIN map
  <2>1. C \in Nat
    BY FS_CardinalityType DEF IsMap
  <2>2. \A n \in DOMAIN map : P(n) \in Nat
    BY FS_Subset, FS_CardinalityType DEF Before, IsMap
  <2> QED BY <2>1, <2>2, KeysAscend
<1>2. CASE tok = NoToken
  <2>1. R = K
    BY <1>2 DEF FromToken
  <2> HIDE DEF R, K, P
  <2>2. \A n \in DOMAIN map : Has(R, n)
    BY <1>1, <2>1 DEF Has
  <2> QED BY <1>1, <1>2, <2>1, <2>2 DEF Beyond, R
<1>3. CASE tok # NoToken
  <2> DEFINE m == P(tok) + 2
  <2>1. /\ R = SubSeq(K, m, C) /\ m \in Nat /\ tok \in DOMAIN map
        /\ m - 1 \in 1 .. C /\ K[m - 1] = tok
    <3>1. tok \in DOMAIN map
      BY <1>3
    <3>2. P(tok) \in Nat /\ P(tok) + 1 \in 1 .. C /\ K[P(tok) + 1] = tok
      BY <1>1, <3>1
    <3>3. R = SubSeq(K, m, C)
      BY <1>3, <3>1 DEF FromToken
    <3> HIDE DEF P
    <3> QED BY <3>1, <3>2, <3>3
  <2> HIDE DEF R, K, P, C, m
  <2>2. /\ R \in Seq(DOMAIN map) /\ Len(R) = IF m <= C THEN C - m + 1 ELSE 0
        /\ \A i \in 1 .. C - m + 1 : R[i] = K[m + i - 1]
    <3>1. \A i \in m .. C : K[i] \in DOMAIN map
      BY <1>1, <2>1
    <3> QED BY <1>1, <2>1, <3>1, SubSeqProperties
  <2>3. /\ DOMAIN R = 1 .. C - m + 1
        /\ \A i \in DOMAIN R : m + i - 1 \in 1 .. C /\ R[i] = K[m + i - 1]
        /\ \A k \in 1 .. C : k >= m => k - m + 1 \in DOMAIN R /\ R[k - m + 1] = K[k]
    <3>1. m \in Nat /\ C \in Nat /\ m - 1 \in 1 .. C /\ DOMAIN R = 1 .. Len(R)
      BY <1>1, <2>1, <2>2
    <3>2. DOMAIN R = 1 .. C - m + 1
      BY <2>2, <3>1
    <3>3. \A i \in 1 .. C - m + 1 : m + i - 1 \in 1 .. C
      BY <3>1
    <3>4. ASSUME NEW k \in 1 .. C, k >= m
          PROVE  k - m + 1 \in 1 .. C - m + 1 /\ m + (k - m + 1) - 1 = k
      BY <3>1, <3>4
    <3>5. \A k \in 1 .. C : k >= m => R[k - m + 1] = K[k]
      BY <2>2, <3>4
    <3> QED BY <2>2, <3>2, <3>3, <3>4, <3>5
  <2>4. Ascends(R)
    <3> SUFFICES ASSUME NEW i \in DOMAIN R, NEW j \in DOMAIN R, i < j
                 PROVE  Rank(R[i]) < Rank(R[j])
      BY DEF Ascends
    <3>1. m + i - 1 < m + j - 1
      BY <1>1, <2>1, <2>3
    <3> QED BY <1>1, <2>1, <2>3, <3>1 DEF Ascends
  <2>5. ASSUME NEW i \in DOMAIN R PROVE Beyond(tok, R[i])
    <3>1. m - 1 < m + i - 1 /\ m + i - 1 \in DOMAIN K /\ m - 1 \in DOMAIN K
      BY <1>1, <2>1, <2>3
    <3>2. Rank(K[m - 1]) < Rank(K[m + i - 1])
      BY <1>1, <3>1 DEF Ascends
    <3> QED BY <2>1, <2>3, <3>2 DEF Beyond
  <2>6. ASSUME NEW n \in DOMAIN map, Beyond(tok, n)
        PROVE  Has(R, n)
    <3>1. PICK k \in 1 .. C : K[k] = n
      BY <1>1
    <3>2. ~(k < m - 1) /\ k # m - 1
      <4>1. Rank(tok) < Rank(n) /\ Rank(n) \in Nat /\ Rank(tok) \in Nat
        BY <1>3, <2>1, <2>6, RankType DEF Beyond, IsMap
      <4>2. k < m - 1 => Rank(n) < Rank(tok)
        BY <1>1, <2>1, <3>1 DEF Ascends
      <4> QED BY <2>1, <3>1, <4>1, <4>2
    <3>3. k >= m
      BY <2>1, <3>1, <3>2
    <3> QED BY <2>3, <3>1, <3>3 DEF Has
  <2> QED BY <2>2, <2>4, <2>5, <2>6 DEF R
<1> QED BY <1>2, <1>3

\* A page is in order, stops before its token, and leaves out nothing between.
LEMMA PageBeyond ==
  ASSUME NEW map, IsMap(map), NoToken \notin DOMAIN map,
         NEW tok \in DOMAIN map \cup {NoToken}, NEW size \in Int
  PROVE  LET page == Page(map, size, tok)
         IN  /\ page.ids \in Seq(DOMAIN map) /\ Ascends(page.ids)
             /\ page.next \in DOMAIN map \cup {NoToken}
             /\ \A k \in DOMAIN page.ids :
                  /\ Beyond(tok, page.ids[k])
                  /\ page.next # NoToken => Rank(page.ids[k]) < Rank(page.next)
             /\ page.next # NoToken => Beyond(tok, page.next)
             /\ \A n \in DOMAIN map :
                  /\ Beyond(tok, n)
                  /\ page.next = NoToken \/ Rank(n) < Rank(page.next)
                  => Has(page.ids, n)
<1> DEFINE R == FromToken(map, tok)
           max == IF size > 0 THEN size ELSE 10
           page == Page(map, size, tok)
<1>1. /\ R \in Seq(DOMAIN map) /\ Ascends(R)
      /\ \A k \in DOMAIN R : Beyond(tok, R[k])
      /\ \A n \in DOMAIN map : Beyond(tok, n) => Has(R, n)
  BY RestBeyond
<1>2. max \in Nat \ {0}
  OBVIOUS
<1>3. page = IF Len(R) <= max THEN [ids |-> R, next |-> NoToken]
             ELSE [ids |-> SubSeq(R, 1, max), next |-> R[max + 1]]
  BY DEF Page
<1> HIDE DEF R, max, page
<1>4. CASE Len(R) <= max
  <2>1. page.ids = R /\ page.next = NoToken
    BY <1>3, <1>4
  <2> QED BY <1>1, <2>1 DEF page
<1>5. CASE ~(Len(R) <= max)
  <2> DEFINE I == SubSeq(R, 1, max)
  <2>1. page.ids = I /\ page.next = R[max + 1]
    BY <1>3, <1>5
  <2>2. DOMAIN R = 1 .. Len(R) /\ Len(R) \in Nat /\ max + 1 \in DOMAIN R
        /\ \A k \in DOMAIN R : R[k] \in DOMAIN map
    BY <1>1, <1>2, <1>5
  <2>3. I \in Seq(DOMAIN map) /\ Len(I) = max /\ \A k \in 1 .. max : I[k] = R[k]
    <3>1. \A k \in 1 .. max : R[k] \in DOMAIN map
      BY <1>2, <2>2
    <3> QED BY <1>2, <3>1, SubSeqProperties
  <2> HIDE DEF I
  <2>4. DOMAIN I = 1 .. max /\ \A k \in 1 .. max : k \in DOMAIN R /\ k < max + 1
    BY <1>2, <2>2, <2>3
  <2>5. Ascends(I) /\ \A k \in DOMAIN I : Rank(I[k]) < Rank(R[max + 1])
    BY <1>1, <2>2, <2>3, <2>4 DEF Ascends
  <2>6. R[max + 1] \in DOMAIN map /\ R[max + 1] # NoToken
    BY <2>2
  <2>7. ASSUME NEW n \in DOMAIN map, Beyond(tok, n), Rank(n) < Rank(R[max + 1])
        PROVE  Has(I, n)
    <3>1. PICK k \in DOMAIN R : R[k] = n
      BY <1>1, <2>7 DEF Has
    <3>2. ~(max + 1 < k) /\ k # max + 1
      <4>1. Rank(n) \in Nat /\ Rank(R[max + 1]) \in Nat
        BY <2>6, RankType DEF IsMap
      <4>2. max + 1 < k => Rank(R[max + 1]) < Rank(n)
        BY <1>1, <2>2, <3>1 DEF Ascends
      <4> QED BY <2>7, <3>1, <4>1, <4>2
    <3>3. k \in 1 .. max
      BY <1>2, <2>2, <3>2
    <3> QED BY <2>3, <2>4, <3>1, <3>3 DEF Has
  <2> QED BY <1>1, <2>1, <2>2, <2>3, <2>4, <2>5, <2>6, <2>7 DEF page
<1> QED BY <1>4, <1>5
-----------------------------------------------------------------------------
Points == {"ready", "insert", "reply", "more", "done"}

TypeOK == /\ next_id_ \in Nat \ {0}
          /\ pc \in [Creators \cup {"lister"} -> Points]
          /\ id \in [Creators -> Nat]
          /\ answers \in [Creators -> SUBSET Nat]
          /\ DOMAIN tasks_ \subseteq Nat

\* Every id in use has been allocated.
AllocatedInv == \A n \in DOMAIN tasks_ : 0 < n /\ n < next_id_

\* An id allocated and not inserted yet is one call's own, and not in the map.
InsertInv ==
  /\ \A c \in Creators : pc[c] = "insert" =>
       0 < id[c] /\ id[c] < next_id_ /\ id[c] \notin DOMAIN tasks_
  /\ \A c, d \in Creators : pc[c] = "insert" /\ pc[d] = "insert" /\ id[c] = id[d] => c = d

\* A call about to be answered has its task in the map.
ReplyInv == \A c \in Creators : pc[c] = "reply" => Found(id[c]) /\ tasks_[id[c]] = c

Inv == TypeOK /\ AllocatedInv /\ InsertInv /\ ReplyInv /\ AnsweredTasksKept

LEMMA InvInit == Init => Inv
<1> SUFFICES ASSUME Init PROVE Inv
  OBVIOUS
<1>1. pc \in [Creators \cup {"lister"} -> Points] /\ \A c \in Creators : pc[c] = "ready"
  BY CreatorsAssumption DEF Init, Points
<1>2. DOMAIN tasks_ = {}
  BY DEF Init
<1>3. TypeOK
  BY <1>1, <1>2 DEF Init, TypeOK
<1> QED BY <1>1, <1>2, <1>3
        DEF Init, Inv, AllocatedInv, InsertInv, ReplyInv, AnsweredTasksKept

\* A task already in the map stays as it is.
LEMMA InsertKeeps ==
  ASSUME Inv, NEW c \in Creators, Insert(c)
  PROVE  /\ DOMAIN tasks_' = DOMAIN tasks_ \cup {id[c]}
         /\ tasks_'[id[c]] = c
         /\ \A n \in DOMAIN tasks_ : tasks_'[n] = tasks_[n]
<1>1. id[c] \notin DOMAIN tasks_
  BY DEF Inv, InsertInv, Insert, Goto
<1> QED BY <1>1 DEF Insert

LEMMA InvStep == Inv /\ [Next]_vars => Inv'
<1> SUFFICES ASSUME Inv, [Next]_vars PROVE Inv'
  OBVIOUS
<1> USE CreatorsAssumption
    DEF Inv, TypeOK, AllocatedInv, InsertInv, ReplyInv, AnsweredTasksKept, Found, Points
<1>1. ASSUME NEW c \in Creators, Allocate(c) PROVE Inv'
  BY <1>1 DEF Allocate, Goto
<1>2. ASSUME NEW c \in Creators, Insert(c) PROVE Inv'
  <2>1. /\ DOMAIN tasks_' = DOMAIN tasks_ \cup {id[c]}
        /\ tasks_'[id[c]] = c
        /\ \A n \in DOMAIN tasks_ : tasks_'[n] = tasks_[n]
    BY <1>2, InsertKeeps
  <2>2. /\ pc[c] = "insert" /\ pc' = [pc EXCEPT ![c] = "reply"]
        /\ UNCHANGED <<next_id_, id, answers>>
    BY <1>2 DEF Insert, Goto
  <2>3. id[c] \in Nat /\ 0 < id[c] /\ id[c] < next_id_
    BY <2>2
  <2>4. TypeOK' /\ AllocatedInv'
    BY <2>1, <2>2, <2>3
  <2>5. InsertInv' /\ ReplyInv'
    BY <2>1, <2>2
  <2>6. AnsweredTasksKept'
    BY <2>1, <2>2
  <2> QED BY <2>4, <2>5, <2>6
<1>3. ASSUME NEW c \in Creators, Reply(c) PROVE Inv'
  <2>1. /\ pc[c] = "reply" /\ answers' = [answers EXCEPT ![c] = @ \cup {id[c]}]
        /\ pc' = [pc EXCEPT ![c] = pc'[c]] /\ pc'[c] \in {"ready", "done"}
        /\ UNCHANGED <<tasks_, next_id_, id>>
    BY <1>3 DEF Reply, Goto
  <2> QED BY <2>1
<1>4. CASE List
  <2>1. /\ \A c \in Creators : pc'[c] = pc[c]
        /\ pc' \in [Creators \cup {"lister"} -> Points]
        /\ UNCHANGED <<tasks_, next_id_, id, answers>>
    BY <1>4 DEF List
  <2> QED BY <2>1
<1>5. CASE UNCHANGED vars
  BY <1>5 DEF vars
<1> QED BY <1>1, <1>2, <1>3, <1>4, <1>5 DEF Next, Ended

LEMMA InvAlways == Spec => []Inv
BY InvInit, InvStep, PTL DEF Spec

\* A CreateTask that was answered can be read back as the caller's own task,
\* although the id is allocated (l.30) before the mutex is taken (l.43).
THEOREM TasksKept == Spec => []AnsweredTasksKept
BY InvAlways, PTL DEF Inv
-----------------------------------------------------------------------------
(* The listing. *)

\* What the lister has is in order and sorts before its token; what was there
\* when it began and sorts before the token was given or was itself a token.
ListInv ==
  /\ listed \in Seq(Nat) /\ Ascends(listed)
  /\ present \subseteq DOMAIN tasks_
  /\ pc["lister"] \in {"ready", "more", "done"}
  /\ pc["lister"] = "ready" => listed = <<>> /\ token = NoToken
  /\ pc["lister"] = "more" => token \in tokens /\ token \in DOMAIN tasks_
  /\ pc["lister"] = "done" => token = NoToken
  /\ token # NoToken => \A k \in DOMAIN listed : Rank(listed[k]) < Rank(token)
  /\ pc["lister"] # "ready" =>
       \A n \in present : token = NoToken \/ Rank(n) < Rank(token) =>
                            n \in tokens \/ Has(listed, n)

LEMMA MapIsMap == Inv => IsMap(tasks_) /\ NoToken \notin DOMAIN tasks_
<1> SUFFICES ASSUME Inv PROVE IsMap(tasks_) /\ NoToken \notin DOMAIN tasks_
  OBVIOUS
<1>1. DOMAIN tasks_ \in SUBSET Nat /\ next_id_ \in Nat
  BY DEF Inv, TypeOK
<1>2. \A n \in DOMAIN tasks_ : n <= next_id_ /\ n # 0
  BY <1>1 DEF Inv, AllocatedInv
<1>3. IsFiniteSet(DOMAIN tasks_)
  BY <1>1, <1>2, FS_BoundedSetOfNaturals
<1> QED BY <1>1, <1>2, <1>3 DEF IsMap, NoToken

LEMMA ListInit == Init => ListInv
<1> SUFFICES ASSUME Init PROVE ListInv
  OBVIOUS
<1>1. /\ pc["lister"] = "ready" /\ listed = <<>> /\ token = NoToken /\ present = {}
      /\ listed \in Seq(Nat) /\ DOMAIN listed = {}
  BY DEF Init
<1> QED BY <1>1 DEF ListInv, Ascends

\* A creator leaves the lister where it is and only adds to the map.
LEMMA CreateListInv ==
  ASSUME ListInv, pc'["lister"] = pc["lister"], DOMAIN tasks_ \subseteq DOMAIN tasks_',
         UNCHANGED <<token, listed, present, tokens>>
  PROVE  ListInv'
BY DEF ListInv, Ascends, Has

LEMMA PageListInv == ASSUME Inv, ListInv, List PROVE ListInv'
<1> PICK size \in PageSizes :
      LET page == Page(tasks_, size, token)
      IN /\ listed' = listed \o page.ids
         /\ token' = page.next
         /\ pc' = [pc EXCEPT !["lister"] = IF page.next = NoToken THEN "done" ELSE "more"]
         /\ tokens' = tokens \cup ({page.next} \ {NoToken})
  BY DEF List
<1> DEFINE page == Page(tasks_, size, token)
           ids == page.ids
           next == page.next
<1>1. /\ listed' = listed \o ids /\ token' = next
      /\ pc'["lister"] = IF next = NoToken THEN "done" ELSE "more"
      /\ tokens' = tokens \cup ({next} \ {NoToken})
      /\ UNCHANGED tasks_ /\ pc["lister"] \in {"ready", "more"}
      /\ present' = IF pc["lister"] = "ready" THEN DOMAIN tasks_ ELSE present
  BY DEF List, Inv, TypeOK
<1>2. /\ IsMap(tasks_) /\ NoToken \notin DOMAIN tasks_
      /\ token \in DOMAIN tasks_ \cup {NoToken} /\ size \in Int
      /\ DOMAIN tasks_ \subseteq Nat
  BY <1>1, MapIsMap, PageSizesAssumption DEF ListInv, IsMap
<1>3. /\ ids \in Seq(DOMAIN tasks_) /\ Ascends(ids)
      /\ next \in DOMAIN tasks_ \cup {NoToken}
      /\ \A k \in DOMAIN ids : /\ Beyond(token, ids[k])
                               /\ next # NoToken => Rank(ids[k]) < Rank(next)
      /\ next # NoToken => Beyond(token, next)
      /\ \A n \in DOMAIN tasks_ :
           Beyond(token, n) /\ (next = NoToken \/ Rank(n) < Rank(next)) => Has(ids, n)
  BY <1>2, PageBeyond
<1> HIDE DEF page, ids, next
<1>4. \A k \in DOMAIN ids : ids[k] \in Nat
  BY <1>2, <1>3
<1>5. ids \in Seq(Nat)
  BY <1>2, <1>3
<1>6. \A j \in DOMAIN listed : listed[j] \in Nat
  BY DEF ListInv
<1>7. ASSUME NEW j \in DOMAIN listed, NEW k \in DOMAIN ids
      PROVE  Rank(listed[j]) < Rank(ids[k])
  <2>1. pc["lister"] # "ready"
    BY <1>7 DEF ListInv
  <2>2. token # NoToken /\ token \in Nat
    BY <1>1, <1>2, <2>1 DEF ListInv
  <2>3. Rank(listed[j]) < Rank(token) /\ Rank(token) < Rank(ids[k])
    BY <1>3, <2>2 DEF ListInv, Beyond
  <2>4. Rank(listed[j]) \in Nat /\ Rank(token) \in Nat /\ Rank(ids[k]) \in Nat
    BY <1>4, <1>6, <2>2, RankType
  <2> QED BY <2>3, <2>4
<1>8. /\ listed' \in Seq(Nat) /\ Ascends(listed)'
      /\ \A n \in Nat : Has(listed', n) <=> Has(listed, n) \/ Has(ids, n)
  <2>1. /\ listed \o ids \in Seq(Nat) /\ Ascends(listed \o ids)
        /\ \A n \in Nat : Has(listed \o ids, n) <=> Has(listed, n) \/ Has(ids, n)
    BY <1>5, <1>7, <1>3, AscendsConcat DEF ListInv
  <2> QED BY <1>1, <2>1
<1>9. ASSUME next # NoToken, NEW k \in DOMAIN listed' PROVE Rank(listed'[k]) < Rank(next)
  <2>1. listed'[k] \in Nat /\ Has(listed', listed'[k])
    BY <1>8 DEF Has
  <2>2. CASE Has(ids, listed'[k])
    <3>1. PICK i \in DOMAIN ids : ids[i] = listed'[k]
      BY <2>2 DEF Has
    <3>2. Rank(ids[i]) < Rank(next)
      BY <1>3, <1>9
    <3> QED BY <3>1, <3>2
  <2>3. CASE Has(listed, listed'[k])
    <3>1. PICK j \in DOMAIN listed : listed[j] = listed'[k]
      BY <2>3 DEF Has
    <3>2. pc["lister"] # "ready"
      BY <3>1 DEF ListInv
    <3>3. token # NoToken /\ token \in Nat /\ next \in Nat
      BY <1>1, <1>2, <1>3, <1>9, <3>2 DEF ListInv
    <3>4. Rank(listed[j]) < Rank(token) /\ Rank(token) < Rank(next)
      BY <1>3, <1>9, <3>3 DEF ListInv, Beyond
    <3>5. Rank(listed[j]) \in Nat /\ Rank(token) \in Nat /\ Rank(next) \in Nat
      BY <1>6, <3>3, RankType
    <3> QED BY <3>1, <3>4, <3>5
  <2> QED BY <1>8, <2>1, <2>2, <2>3
<1>10. ASSUME NEW n \in present', next = NoToken \/ Rank(n) < Rank(next)
       PROVE  n \in tokens' \/ Has(listed', n)
  <2>1. n \in DOMAIN tasks_ /\ n \in Nat
    BY <1>1, <1>2 DEF ListInv
  <2>2. CASE Beyond(token, n)
    BY <1>3, <1>8, <1>10, <2>1, <2>2
  <2>3. CASE ~Beyond(token, n)
    <3>1. token # NoToken /\ token \in Nat /\ ~(Rank(token) < Rank(n))
      BY <1>2, <2>3 DEF Beyond
    <3>2. pc["lister"] = "more" /\ token \in tokens /\ n \in present
      BY <1>1, <3>1 DEF ListInv
    <3>3. n = token \/ Rank(n) < Rank(token)
      BY <2>1, <3>1, RankType, RankInjective
    <3>4. n \in tokens \/ Has(listed, n)
      BY <3>2, <3>3 DEF ListInv
    <3> QED BY <1>1, <1>8, <2>1, <3>4
  <2> QED BY <2>2, <2>3
<1>11. present' \subseteq DOMAIN tasks_'
  BY <1>1 DEF ListInv
<1>12. next # NoToken => next \in tokens' /\ next \in DOMAIN tasks_'
  BY <1>1, <1>3
<1> QED BY <1>1, <1>8, <1>9, <1>10, <1>11, <1>12 DEF ListInv

LEMMA ListStep == Inv /\ ListInv /\ [Next]_vars => ListInv'
<1> SUFFICES ASSUME Inv, ListInv, [Next]_vars PROVE ListInv'
  OBVIOUS
<1>1. ASSUME NEW c \in Creators, Allocate(c) \/ Insert(c) \/ Reply(c) PROVE ListInv'
  <2>1. pc'["lister"] = pc["lister"]
    BY <1>1, CreatorsAssumption DEF Allocate, Insert, Reply, Goto, Inv, TypeOK
  <2>2. DOMAIN tasks_ \subseteq DOMAIN tasks_' /\ UNCHANGED <<token, listed, present, tokens>>
    BY <1>1 DEF Allocate, Insert, Reply
  <2> QED BY <2>1, <2>2, CreateListInv
<1>2. CASE UNCHANGED vars
  BY <1>2, CreateListInv DEF vars
<1> QED BY <1>1, <1>2, PageListInv DEF Next, Ended

LEMMA ListAlways == Spec => []ListInv
BY InvAlways, ListInit, ListStep, PTL DEF Spec

\* The pages of a listing give no task twice, whatever was inserted between
\* them (l.84-90).
THEOREM ListsOnce == Spec => []NothingListedTwice
<1>1. ListInv => NothingListedTwice
  BY AscendsInjective DEF ListInv, NothingListedTwice
<1> QED BY <1>1, ListAlways, PTL

\* A complete listing gives every task that was there when it began, except at
\* most those whose ids were its page tokens (l.86-93).
THEOREM ListMissesOnlyTokens == Spec => []MissesOnlyTokens
<1>1. ListInv => MissesOnlyTokens
  BY DEF ListInv, MissesOnlyTokens, ToSet, Has
<1> QED BY <1>1, ListAlways, PTL
=============================================================================
