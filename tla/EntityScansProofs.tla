-------------------------- MODULE EntityScansProofs --------------------------
(***************************************************************************)
(* Proofs about EntityScans, for any number of keys, entities, creators    *)
(* and passes, any page size, cap and number of faults.                    *)
(***************************************************************************)
EXTENDS EntityScans, FiniteSetTheorems, WellFoundedInduction, TLAPS

-----------------------------------------------------------------------------
(* Sets of numbers, in ascending order. *)

(* A set of natural numbers has a least element: what the proofs below use *)
(* in the place of an induction.                                           *)
LEMMA Least ==
  ASSUME NEW S \in SUBSET Nat, S # {}
  PROVE  \E m \in S : \A n \in S : m <= n
  <1> DEFINE R == OpToRel(<, Nat)
  <1>1. IsWellFoundedOn(R, Nat)
    BY NatLessThanWellFounded
  <1>2. \A x \in Nat, y \in Nat : y < x => <<y, x>> \in R
    BY DEF OpToRel
  <1> HIDE DEF R
  <1>3. \E x \in S : \A y \in S : ~ (<<y, x>> \in R)
    BY <1>1, WFMin
  <1>4. PICK x \in S : \A y \in S : ~ (<<y, x>> \in R)
    BY <1>3
  <1>5. \A y \in S : ~ (y < x)
    BY <1>2, <1>4, Zenon
  <1>6. ASSUME NEW y \in S PROVE x <= y
    <2>1. x \in Nat /\ y \in Nat
      BY <1>4
    <2>2. ~ (y < x)
      BY <1>5
    <2>3. QED
      BY <2>1, <2>2
  <1>7. QED
    BY <1>4, <1>6, Zenon

Below(S, k) == {j \in S : j < k}
Rank(S, k) == Cardinality(Below(S, k))

(* The greater of two members has more members below it, and as many of    *)
(* them as there are others at most.                                       *)
LEMMA RankGrows ==
  ASSUME NEW S \in SUBSET Nat, IsFiniteSet(S)
  PROVE  /\ Cardinality(S) \in Nat
         /\ \A k \in S : Rank(S, k) \in Nat /\ Rank(S, k) < Cardinality(S)
         /\ \A j, k \in S : j < k <=> Rank(S, j) < Rank(S, k)
  <1>1. Cardinality(S) \in Nat
    BY FS_CardinalityType
  <1>2. ASSUME NEW k \in Nat
        PROVE  IsFiniteSet(Below(S, k)) /\ Rank(S, k) \in Nat
    <2>1. Below(S, k) \in SUBSET S
      BY DEF Below
    <2>2. QED
      BY <2>1, FS_Subset, FS_CardinalityType DEF Rank
  <1>3. ASSUME NEW T \in SUBSET S, NEW k \in S, k \notin Below(S, k), k \in T,
               Below(S, k) \subseteq T
        PROVE  Rank(S, k) < Cardinality(T)
    <2>1. k \in Nat
      OBVIOUS
    <2>2. IsFiniteSet(Below(S, k)) /\ Rank(S, k) \in Nat
      BY <1>2
    <2>3. /\ IsFiniteSet(Below(S, k) \cup {k})
          /\ Cardinality(Below(S, k) \cup {k}) = Rank(S, k) + 1
      BY <1>3, <2>2, FS_AddElement DEF Rank
    <2>4. IsFiniteSet(T) /\ Cardinality(T) \in Nat
      BY FS_Subset, FS_CardinalityType
    <2>5. Below(S, k) \cup {k} \in SUBSET T
      BY <1>3
    <2>6. Cardinality(Below(S, k) \cup {k}) <= Cardinality(T)
      BY <2>4, <2>5, FS_Subset
    <2>7. QED
      BY <2>2, <2>3, <2>4, <2>6
  <1>4. ASSUME NEW k \in S PROVE k \in Nat /\ k \notin Below(S, k) /\ Below(S, k) \subseteq S
    BY DEF Below
  <1>5. ASSUME NEW k \in S PROVE Rank(S, k) \in Nat /\ Rank(S, k) < Cardinality(S)
    BY <1>2, <1>3, <1>4
  <1>6. ASSUME NEW j \in S, NEW k \in S, j < k PROVE Rank(S, j) < Rank(S, k)
    <2>1. Below(S, k) \in SUBSET S /\ j \in Below(S, k)
      BY <1>6 DEF Below
    <2>2. ASSUME NEW i \in Below(S, j) PROVE i \in Below(S, k)
      <3>1. i \in S /\ i < j
        BY DEF Below
      <3>2. i \in Nat /\ j \in Nat /\ k \in Nat
        BY <3>1
      <3>3. i < k
        BY <1>6, <3>1, <3>2
      <3>4. QED
        BY <3>1, <3>3 DEF Below
    <2>3. j \notin Below(S, j)
      BY <1>4
    <2>4. Rank(S, j) < Cardinality(Below(S, k))
      BY <1>3, <2>1, <2>2, <2>3
    <2>5. QED
      BY <2>4 DEF Rank
  <1>7. ASSUME NEW j \in S, NEW k \in S, Rank(S, j) < Rank(S, k) PROVE j < k
    <2>1. j \in Nat /\ k \in Nat /\ Rank(S, j) \in Nat /\ Rank(S, k) \in Nat
      BY <1>5
    <2>2. ~ (k < j)
      BY <1>6, <1>7, <2>1
    <2>3. j # k
      BY <1>7, <2>1
    <2>4. QED
      BY <2>1, <2>2, <2>3
  <1>8. QED
    BY <1>1, <1>5, <1>6, <1>7

(* And every rank is taken. *)
LEMMA RankTaken ==
  ASSUME NEW S \in SUBSET Nat, IsFiniteSet(S), NEW n \in Nat, n < Cardinality(S)
  PROVE  \E k \in S : Rank(S, k) = n
  <1> DEFINE Missing == {m \in Nat : m < Cardinality(S) /\ ~ \E k \in S : Rank(S, k) = m}
  <1> SUFFICES ASSUME Missing # {} PROVE FALSE
    OBVIOUS
  <1>1. PICK m \in Missing : \A l \in Missing : m <= l
    BY Least
  <1>2. m \in Nat /\ m < Cardinality(S) /\ Cardinality(S) \in Nat
    BY <1>1, FS_CardinalityType
  <1>3. CASE m = 0
    <2>1. S # {}
      BY <1>2, <1>3, FS_EmptySet
    <2>2. PICK k \in S : \A j \in S : k <= j
      BY <2>1, Least
    <2>3. Below(S, k) = {}
      <3>1. ASSUME NEW j \in S, j < k PROVE FALSE
        <4>1. j \in Nat /\ k \in Nat /\ k <= j
          BY <2>2
        <4>2. QED
          BY <3>1, <4>1
      <3>2. QED
        BY <3>1 DEF Below
    <2>4. Rank(S, k) = 0
      BY <2>3, FS_EmptySet DEF Rank
    <2>5. QED
      BY <1>1, <1>3, <2>4
  <1>4. CASE m # 0
    <2>1. m - 1 \in Nat /\ m - 1 < Cardinality(S) /\ ~ (m <= m - 1)
      BY <1>2, <1>4
    <2>2. m - 1 \notin Missing
      BY <1>1, <2>1
    <2>3. PICK k \in S : Rank(S, k) = m - 1
      BY <2>1, <2>2
    <2> DEFINE T == {j \in S : k < j}
    <2>4. IsFiniteSet(Below(S, k))
      BY FS_Subset DEF Below
    <2>5. k \in Nat /\ k \notin Below(S, k)
      BY DEF Below
    <2>6. IsFiniteSet(Below(S, k) \cup {k}) /\ Cardinality(Below(S, k) \cup {k}) = m
      <3>1. Cardinality(Below(S, k)) = m - 1
        BY <2>3 DEF Rank
      <3>2. /\ IsFiniteSet(Below(S, k) \cup {k})
            /\ Cardinality(Below(S, k) \cup {k}) = Cardinality(Below(S, k)) + 1
        BY <2>4, <2>5, FS_AddElement
      <3>3. QED
        BY <1>2, <3>1, <3>2
    <2>7. Below(S, k) \cup {k} # S
      BY <1>2, <2>6
    <2>8. T # {}
      <3>1. ASSUME NEW j \in S, ~ (k < j), j # k PROVE j \in Below(S, k)
        <4>1. j \in Nat
          OBVIOUS
        <4>2. j < k
          BY <2>5, <3>1, <4>1
        <4>3. QED
          BY <4>2 DEF Below
      <3>2. Below(S, k) \subseteq S
        BY DEF Below
      <3>3. QED
        BY <2>7, <3>1, <3>2
    <2>9. PICK l \in T : \A j \in T : l <= j
      BY <2>8, Least
    <2>10. Below(S, l) = Below(S, k) \cup {k}
      <3>1. l \in Nat /\ l \in S /\ k < l
        BY <2>9
      <3>2. ASSUME NEW j \in S PROVE j < l <=> (j < k \/ j = k)
        <4>1. j \in Nat
          OBVIOUS
        <4>2. k < j => l <= j
          BY <2>9
        <4>3. QED
          BY <2>5, <3>1, <4>1, <4>2
      <3>3. QED
        BY <3>2 DEF Below
    <2>11. Rank(S, l) = m
      BY <2>6, <2>10 DEF Rank
    <2>12. QED
      BY <1>1, <2>9, <2>11
  <1>5. QED
    BY <1>3, <1>4

(* Ascending lists a finite set of numbers in their order, each once. *)
LEMMA AscendingLists ==
  ASSUME NEW S \in SUBSET Nat, IsFiniteSet(S)
  PROVE  /\ Cardinality(S) \in Nat
         /\ DOMAIN Ascending[S] = 1..Cardinality(S)
         /\ Ascending[S] \in Seq(S) /\ Len(Ascending[S]) = Cardinality(S)
         /\ \A i \in 1..Cardinality(S) : Ascending[S][i] \in S
         /\ \A i, j \in 1..Cardinality(S) : i < j => Ascending[S][i] < Ascending[S][j]
         /\ \A k \in S : \E i \in 1..Cardinality(S) : Ascending[S][i] = k
  <1> DEFINE n == Cardinality(S)
             At1(i) == CHOOSE k \in S : Cardinality({j \in S : j < k}) = i - 1
  <1>1. n \in Nat
    BY RankGrows
  <1>2. Ascending[S] = [i \in 1..n |-> At1(i)]
    BY DEF Ascending
  <1>3. ASSUME NEW i \in 1..n PROVE At1(i) \in S /\ Rank(S, At1(i)) = i - 1
    <2>1. i - 1 \in Nat /\ i - 1 < n
      BY <1>1
    <2>2. \E k \in S : Rank(S, k) = i - 1
      BY <2>1, RankTaken
    <2>3. QED
      BY <2>2 DEF Rank, Below
  <1> HIDE DEF At1
  <1>4. ASSUME NEW i \in 1..n PROVE Ascending[S][i] \in S /\ Rank(S, Ascending[S][i]) = i - 1
    BY <1>2, <1>3
  <1>5. ASSUME NEW i \in 1..n, NEW j \in 1..n, i < j
        PROVE  Ascending[S][i] < Ascending[S][j]
    <2>1. i - 1 < j - 1
      BY <1>5
    <2>2. QED
      BY <1>4, <2>1, RankGrows
  <1>6. ASSUME NEW k \in S PROVE \E i \in 1..n : Ascending[S][i] = k
    <2>1. Rank(S, k) \in Nat /\ Rank(S, k) < n
      BY RankGrows
    <2>2. Rank(S, k) + 1 \in 1..n
      BY <1>1, <2>1
    <2> DEFINE l == Ascending[S][Rank(S, k) + 1]
    <2>3. l \in S /\ Rank(S, l) = Rank(S, k)
      BY <1>4, <2>1, <2>2
    <2> HIDE DEF l
    <2>4. ~ (Rank(S, l) < Rank(S, k)) /\ ~ (Rank(S, k) < Rank(S, l))
      BY <2>1, <2>3
    <2>5. l = k
      <3>1. ~ (l < k) /\ ~ (k < l)
        BY <2>3, <2>4, RankGrows
      <3>2. l \in Nat /\ k \in Nat
        BY <2>3
      <3>3. QED
        BY <3>1, <3>2
    <2>6. QED
      BY <2>2, <2>5 DEF l
  <1>7. Ascending[S] \in Seq(S) /\ Len(Ascending[S]) = n
    BY <1>1, <1>2, <1>3
  <1>8. QED
    BY <1>1, <1>2, <1>4, <1>5, <1>6, <1>7

-----------------------------------------------------------------------------
(* Pages of keys. *)

LEMMA KeysFinite ==
  /\ Keys \subseteq Nat /\ IsFiniteSet(Keys) /\ NKeys \in Nat
  /\ \A S \in SUBSET Keys : IsFiniteSet(S) /\ Cardinality(S) \in Nat
  <1>1. NKeys \in Nat /\ Keys \subseteq Nat
    BY ListingAssumption DEF Keys
  <1>2. IsFiniteSet(Keys)
    BY <1>1, FS_Interval DEF Keys
  <1>3. \A S \in SUBSET Keys : IsFiniteSet(S) /\ Cardinality(S) \in Nat
    BY <1>2, FS_Subset, FS_CardinalityType
  <1>4. QED
    BY <1>1, <1>2, <1>3

(* First cuts a set of keys down to its n least members. *)
LEMMA FirstCuts ==
  ASSUME NEW S \in SUBSET Keys, NEW n \in Nat
  PROVE  /\ First[S][n] \subseteq S
         /\ \A j \in S : \A k \in First[S][n] : j < k => j \in First[S][n]
         /\ Cardinality(First[S][n]) <= n
         /\ Cardinality(First[S][n]) < n => First[S][n] = S
  <1> DEFINE F == First[S][n]
  <1>1. F = {k \in S : Rank(S, k) < n}
    BY DEF First, Rank, Below
  <1>2. F \subseteq S /\ S \in SUBSET Nat /\ IsFiniteSet(S) /\ IsFiniteSet(F)
    BY <1>1, KeysFinite
  <1> HIDE DEF F
  <1>3. Cardinality(F) \in Nat /\ Cardinality(S) \in Nat
    BY <1>2, FS_CardinalityType
  <1>4. ASSUME NEW j \in S, NEW k \in F, j < k PROVE j \in F
    <2>1. k \in S /\ Rank(S, k) < n
      BY <1>1
    <2>2. Rank(S, j) < Rank(S, k)
      BY <1>2, <1>4, <2>1, RankGrows
    <2>3. Rank(S, j) \in Nat /\ Rank(S, k) \in Nat
      BY <1>2, <2>1, RankGrows
    <2>4. QED
      BY <1>1, <2>1, <2>2, <2>3
  <1>5. ASSUME NEW k \in F PROVE Rank(F, k) = Rank(S, k)
    <2>1. Below(F, k) = Below(S, k)
      BY <1>2, <1>4 DEF Below
    <2>2. QED
      BY <2>1 DEF Rank
  <1>6. Cardinality(F) <= n
    <2> SUFFICES ASSUME n < Cardinality(F) PROVE FALSE
      BY <1>3
    <2>1. PICK k \in F : Rank(F, k) = n
      BY <1>2, RankTaken
    <2>2. Rank(S, k) < n
      BY <1>1
    <2>3. QED
      BY <1>5, <2>1, <2>2
  <1>7. ASSUME Cardinality(F) < n PROVE F = S
    <2> SUFFICES ASSUME S \ F # {} PROVE FALSE
      BY <1>2
    <2>1. PICK m \in S \ F : \A k \in S \ F : m <= k
      BY <1>2, Least
    <2>2. Below(S, m) \in SUBSET F
      <3>1. ASSUME NEW k \in S, k < m, k \notin F PROVE FALSE
        <4>1. k \in Nat /\ m \in Nat /\ m <= k
          BY <1>2, <2>1, <3>1
        <4>2. QED
          BY <3>1, <4>1
      <3>2. QED
        BY <3>1 DEF Below
    <2>3. Rank(S, m) <= Cardinality(F)
      BY <1>2, <2>2, FS_Subset DEF Rank
    <2>4. Rank(S, m) \in Nat
      BY <1>2, RankGrows
    <2>5. Rank(S, m) < n
      BY <1>3, <1>7, <2>3, <2>4
    <2>6. QED
      BY <1>1, <2>1, <2>5
  <1>8. QED
    BY <1>2, <1>4, <1>6, <1>7 DEF F

(* The keys a page may hold: those of the entity's objects after a cursor. *)
Ahead(b, e, start) == {k \in Under(e) : b[k] # 0 /\ k > start}

(* list_page returns the first of them, up to its limit, whether or not    *)
(* the object its cursor names is still there.                             *)
LEMMA ListKeysAreFirst ==
  ASSUME NEW b, NEW e, NEW start \in 0..NKeys, NEW limit \in Nat
  PROVE  LET keys == ListKeys(b, e, start, limit)
             ahead == Ahead(b, e, start)
         IN  /\ keys \subseteq ahead
             /\ \A j \in ahead : \A k \in keys : j < k => j \in keys
             /\ Cardinality(keys) <= limit
             /\ Cardinality(keys) < limit => keys = ahead
  <1> DEFINE P == {k \in Under(e) : b[k] # 0 /\ k >= start}
             A == First[P][limit + 1]
             K == First[A \ {start}][limit]
             Q == Ahead(b, e, start)
  <1>1. ListKeys(b, e, start, limit) = K
    BY DEF ListKeys, ListBlobs
  <1>2. P \in SUBSET Keys /\ Q \in SUBSET Keys
    BY DEF Under, Ahead
  <1>3. start \in Nat /\ limit + 1 \in Nat
    BY KeysFinite
  <1>4. Q = P \ {start}
    <2>1. ASSUME NEW k \in Keys PROVE k > start <=> (k >= start /\ k # start)
      BY <1>3, KeysFinite
    <2>2. QED
      BY <2>1 DEF Ahead, Under
  <1> HIDE DEF P, Q
  <1>5. /\ A \subseteq P
        /\ \A j \in P : \A k \in A : j < k => j \in A
        /\ Cardinality(A) <= limit + 1
        /\ Cardinality(A) < limit + 1 => A = P
    BY <1>2, <1>3, FirstCuts
  <1> HIDE DEF A
  <1>6. A \ {start} \in SUBSET Keys
    BY <1>2, <1>5
  <1>7. /\ K \subseteq A \ {start}
        /\ \A j \in A \ {start} : \A k \in K : j < k => j \in K
        /\ Cardinality(K) <= limit
        /\ Cardinality(K) < limit => K = A \ {start}
    BY <1>6, FirstCuts
  <1> HIDE DEF K
  <1>8. ASSUME Cardinality(K) < limit PROVE K = Q
    <2>1. IsFiniteSet(A) /\ Cardinality(A) \in Nat /\ Cardinality(K) \in Nat
      <3>1. A \in SUBSET Keys
        BY <1>2, <1>5
      <3>2. K \in SUBSET Keys
        BY <3>1, <1>7
      <3>3. QED
        BY <3>1, <3>2, KeysFinite
    <2>2. Cardinality(A \ {start}) =
            IF start \in A THEN Cardinality(A) - 1 ELSE Cardinality(A)
      BY <2>1, FS_RemoveElement
    <2>3. Cardinality(A) < limit + 1
      <3>1. Cardinality(A \ {start}) < limit
        BY <1>7, <1>8
      <3>2. QED
        BY <2>1, <2>2, <3>1
    <2>4. QED
      BY <1>4, <1>5, <1>7, <1>8, <2>3
  <1>9. ASSUME NEW j \in Q, NEW k \in K, j < k PROVE j \in K
    BY <1>4, <1>5, <1>7, <1>9
  <1>10. QED
    BY <1>1, <1>4, <1>5, <1>7, <1>8, <1>9 DEF Q

(* A page in the terms the proofs use: whose objects they are, their       *)
(* order, and what is not on the page.                                     *)
LEMMA Pages ==
  ASSUME NEW b \in [Keys -> Nat], NEW e, NEW start \in 0..NKeys, NEW limit \in Nat
  PROVE  LET p == ListPage(b, e, start, limit)
         IN  /\ p \in Seq(Object) /\ Len(p) <= limit
             /\ \A i \in 1..Len(p) : p[i].key \in Ahead(b, e, start) /\ p[i].gen = b[p[i].key]
             /\ \A i, j \in 1..Len(p) : i < j => p[i].key < p[j].key
             /\ \A k \in Ahead(b, e, start) :
                  \/ \E i \in 1..Len(p) : p[i].key = k
                  \/ Len(p) = limit /\ \A i \in 1..Len(p) : p[i].key < k
  <1> DEFINE K == ListKeys(b, e, start, limit)
             Q == Ahead(b, e, start)
             s == Ascending[K]
             p == ListPage(b, e, start, limit)
  <1>1. /\ K \subseteq Q
        /\ \A j \in Q : \A k \in K : j < k => j \in K
        /\ Cardinality(K) <= limit
        /\ Cardinality(K) < limit => K = Q
    BY ListKeysAreFirst
  <1>2. Q \in SUBSET Keys /\ K \in SUBSET Nat /\ IsFiniteSet(K) /\ Keys \subseteq Nat
    BY <1>1, KeysFinite DEF Ahead, Under
  <1>3. p = [i \in DOMAIN s |-> [key |-> s[i], gen |-> b[s[i]]]]
    BY DEF ListPage
  <1> HIDE DEF K, Q, p
  <1>4. /\ Cardinality(K) \in Nat
        /\ DOMAIN s = 1..Cardinality(K)
        /\ \A i \in 1..Cardinality(K) : s[i] \in K
        /\ \A i, j \in 1..Cardinality(K) : i < j => s[i] < s[j]
        /\ \A k \in K : \E i \in 1..Cardinality(K) : s[i] = k
    BY <1>2, AscendingLists
  <1> HIDE DEF s
  <1>5. \A i \in 1..Cardinality(K) : s[i] \in Keys /\ b[s[i]] \in Nat
    BY <1>1, <1>2, <1>4
  <1>6. /\ p \in [1..Cardinality(K) -> Object]
        /\ \A i \in 1..Cardinality(K) : p[i].key = s[i] /\ p[i].gen = b[s[i]]
    BY <1>3, <1>4, <1>5 DEF Object
  <1>7. p \in Seq(Object) /\ Len(p) = Cardinality(K)
    BY <1>3, <1>4, <1>6
  <1>8. ASSUME NEW k \in Q, ~ \E i \in 1..Len(p) : p[i].key = k
        PROVE  Len(p) = limit /\ \A i \in 1..Len(p) : p[i].key < k
    <2>1. k \notin K
      BY <1>4, <1>6, <1>7, <1>8
    <2>2. Len(p) = limit
      <3>1. ~ (Cardinality(K) < limit)
        BY <1>1, <2>1
      <3>2. QED
        BY <1>1, <1>4, <1>7, <3>1
    <2>3. ASSUME NEW i \in 1..Len(p) PROVE p[i].key < k
      <3>1. s[i] \in K /\ p[i].key = s[i]
        BY <1>4, <1>6, <1>7
      <3>2. s[i] # k /\ ~ (k < s[i])
        BY <1>1, <2>1, <3>1
      <3>3. s[i] \in Nat /\ k \in Nat
        BY <1>2, <3>1
      <3>4. QED
        BY <3>1, <3>2, <3>3
    <2>4. QED
      BY <2>2, <2>3
  <1>9. QED
    BY <1>1, <1>4, <1>6, <1>7, <1>8 DEF p, Q

-----------------------------------------------------------------------------
(* The shape of a scan and of a create. *)

Sweeping == {"list", "object", "download", "end"}

(* Where the scanner's locals are set, and which calls reach which request. *)
ScanFits ==
  /\ pc # "idle" => todo # <<>> /\ call # "none"
  /\ pc # "idle" /\ call # "index" => Len(todo) = 1
  /\ \A i, j \in 1..Len(todo) : i < j => todo[i] < todo[j]
  /\ pc \in {"object", "download"} => page # <<>>
  /\ pc \in {"list", "end", "last"} => page = <<>>
  /\ pc \in {"end", "last"} => cursor = 0
  /\ pc \in Sweeping => passes < MaxPasses
  /\ pc = "last" => passes = MaxPasses
  /\ pc \in {"last", "invalidate"} => call = "purge"
  /\ pc = "download" => call = "export"
  /\ call = "index" => pc \in {"idle", "list"}
  /\ pc \in Sweeping \cup {"last"} => answer = "none"
  /\ pc = "invalidate" => answer \in {"ok", "incomplete", "unavailable"}

(* The page holds objects of the entity, in order, up to the cursor if     *)
(* there is one.                                                           *)
PageFits ==
  pc # "idle" =>
    /\ \A i \in 1..Len(page) :
         /\ EntityOf[page[i].key] = Entity
         /\ cursor # 0 => page[i].key <= cursor
    /\ \A i, j \in 1..Len(page) : i < j => page[i].key < page[j].key

CreateFits(c) ==
  /\ cpc[c] # "idle" => target[c] \in NewFiles /\ canswer[c] = "none"

(* The puts still to land, each known by the fault that set it adrift. *)
LateFits == IsFiniteSet(late) /\ \A s \in late : s.fault <= faults

IInv ==
  /\ TypeOK /\ ScanFits /\ PageFits
  /\ \A c \in Creators : CreateFits(c)
  /\ LateFits

(***************************************************************************)
(* The purge.                                                              *)
(***************************************************************************)
Purging == call = "purge" /\ pc # "idle"
Left == Present(bucket) \cap Under(Entity)

(* Whoever finds the entity empty knows that it has been. *)
EmptyIsKnown ==
  /\ Purging /\ Left = {} => emptied
  /\ Purging /\ (cursor # 0 \/ pc = "object") => found
  /\ Purging /\ pc = "end" /\ ~found => emptied
  /\ Purging /\ pc = "invalidate" /\ answer = "ok" => emptied
  /\ call = "purge" /\ pc = "idle" /\ answer \in {"ok", "cacheError"} => emptied
  /\ owing => Purging

(* What the pass in progress has still to come to, as it found it. *)
ToSweep ==
  {k \in Left :
     \/ pc = "list" /\ k > cursor
     \/ /\ pc = "object"
        /\ \/ \E i \in 1..Len(page) : page[i].key = k /\ page[i].gen = bucket[k]
           \/ cursor # 0 /\ k > cursor}

(* Every pass but the first needs a put before it to find something, and   *)
(* what is left behind it is one put more.                                 *)
PassesArePaid ==
  /\ written \in Nat
  /\ Purging /\ pc \in Sweeping \cup {"last"} =>
       IF found
         THEN /\ written >= passes
              /\ Left \ ToSweep # {} => written >= passes + 1
         ELSE /\ written + 1 >= passes
              /\ Left # {} => written >= passes
  /\ pc = "last" => ~found
  /\ call = "purge" /\ answer = "incomplete" => written >= MaxPasses

(***************************************************************************)
(* The creates.                                                            *)
(***************************************************************************)

(* The creators that would add their file if the entity had those of M. *)
Admitted(e, M) ==
  {c \in Creators :
     /\ cpc[c] \in {"count", "put"} /\ EntityOf[target[c]] = e /\ target[c] \notin M
     /\ cpc[c] = "count" =>
          count[c] + Cardinality({k \in M : k > after[c]}) < FileLimit}

(* The puts still to land that would add theirs. *)
Adrift(e, M) == {s \in Straying(e) : s.key \notin M}

(* However few of its files one looks at, they and those still to be added *)
(* to them are not more than the cap allows.  A put that has landed and is *)
(* sent again adds its file to those that do not include it.               *)
RoomIsShared ==
  \A e \in Entities : \A M \in SUBSET CountedIn(bucket, e) :
    Cardinality(M) + Cardinality(Admitted(e, M)) + Cardinality(Adrift(e, M))
      <= FileLimit + races[e] - 1

(* What a creator has counted existed while it counted. *)
HonestCount(c) ==
  /\ cpc[c] \in {"count", "get"} => CountedIn(bucket, EntityOf[target[c]]) \subseteq cseen[c]
  /\ cpc[c] = "count" => count[c] <= Cardinality({k \in cseen[c] : k <= after[c]})
  /\ cpc[c] = "get" \/ canswer[c] = "quota" => Cardinality(cseen[c]) >= FileLimit

CountIsHonest ==
  cseen \in [Creators -> SUBSET Keys] /\ \A c \in Creators : HonestCount(c)

(***************************************************************************)
(* What an index or an export collects.                                    *)
(***************************************************************************)
Collecting == pc # "idle" /\ call \in {"index", "export"}

OutIsTrue ==
  /\ Collecting => Versions(bucket) \subseteq lived
  /\ pc = "download" => [key |-> page[1].key, gen |-> blob] \in lived
  /\ call \in {"index", "export"} =>
       \A i \in 1..Len(out) :
         /\ [key |-> out[i].key, gen |-> out[i].gen] \in lived
         /\ out[i].data = out[i].gen

(* A key the scan has still to come to. *)
ToCollect(k) ==
  \/ \E i \in 2..Len(todo) : todo[i] = EntityOf[k]
  \/ /\ EntityOf[k] = Entity
     /\ \/ pc = "list" /\ k > cursor
        \/ /\ pc \in {"object", "download"}
           /\ \/ \E i \in 1..Len(page) : page[i].key = k
              \/ cursor # 0 /\ k > cursor

Sought == IF call = "index" THEN stable \ Malformed ELSE stable

(* Nothing that stays is passed over, and nothing comes twice. *)
OutIsOrdered ==
  /\ pc # "idle" => stable \subseteq Present(bucket)
  /\ call \in {"index", "export"} =>
       \A i, j \in 1..Len(out) :
         i < j /\ EntityOf[out[i].key] = EntityOf[out[j].key] => out[i].key < out[j].key
  /\ Collecting =>
       /\ \A k \in Sought : ToCollect(k) \/ \E i \in 1..Len(out) : out[i].key = k
       /\ \A i \in 1..Len(out) :
            /\ \A j \in 2..Len(todo) : todo[j] # EntityOf[out[i].key]
            /\ EntityOf[out[i].key] = Entity =>
                 /\ pc = "list" => out[i].key <= cursor
                 /\ \A j \in 1..Len(page) : out[i].key < page[j].key
  /\ Listing => \A k \in Sought : \E i \in 1..Len(out) : out[i].key = k

-----------------------------------------------------------------------------
(* Types and shapes. *)

LEMMA Constants ==
  /\ PageSize \in Nat /\ PageSize >= 1 /\ FileLimit \in Nat /\ FileLimit >= 1
  /\ MaxPasses \in Nat /\ MaxPasses >= 1 /\ GetAttempts \in Nat /\ GetAttempts >= 1
  /\ NKeys \in Nat /\ MaxCalls \in Nat /\ MaxFaults \in Nat
  /\ Keys = 1..NKeys /\ NewFiles \subseteq Keys /\ NewFiles \subseteq Counted
  /\ EntityOf \in [Keys -> Entities] /\ Entities \subseteq Nat
  <1>1. /\ NKeys \in Nat /\ NEntities \in Nat /\ EntityOf \in [Keys -> Entities]
        /\ PageSize \in Nat \ {0} /\ FileLimit \in Nat \ {0}
    BY ListingAssumption
  <1>2. /\ MaxPasses \in Nat \ {0} /\ GetAttempts \in Nat \ {0}
        /\ NewFiles \subseteq Counted /\ MaxCalls \in Nat /\ MaxFaults \in Nat
    BY ScanAssumption
  <1>3. PageSize >= 1 /\ FileLimit >= 1 /\ MaxPasses >= 1 /\ GetAttempts >= 1
    BY <1>1, <1>2
  <1>4. Keys = 1..NKeys /\ NewFiles \subseteq Keys
    BY <1>2 DEF Keys, Counted, WellFormed
  <1>5. Entities \subseteq Nat
    BY <1>1 DEF Entities
  <1>6. QED
    BY <1>1, <1>2, <1>3, <1>4, <1>5

(* The entities of a scan, in their order. *)
LEMMA Tours ==
  ASSUME NEW S \in SUBSET Entities, S # {}
  PROVE  /\ Ascending[S] \in Seq(Entities) /\ Ascending[S] # <<>>
         /\ Len(Ascending[S]) = Cardinality(S)
         /\ \A i \in 1..Len(Ascending[S]) : Ascending[S][i] \in S
         /\ \A i, j \in 1..Len(Ascending[S]) : i < j => Ascending[S][i] < Ascending[S][j]
         /\ \A e \in S : \E i \in 1..Len(Ascending[S]) : Ascending[S][i] = e
  <1>1. NEntities \in Nat /\ IsFiniteSet(Entities) /\ S \in SUBSET Nat
    BY ListingAssumption, FS_Interval DEF Entities
  <1>2. IsFiniteSet(S)
    BY <1>1, FS_Subset
  <1> DEFINE s == Ascending[S]
  <1>3. /\ Cardinality(S) \in Nat
        /\ s \in Seq(S) /\ Len(s) = Cardinality(S)
        /\ \A i \in 1..Cardinality(S) : s[i] \in S
        /\ \A i, j \in 1..Cardinality(S) : i < j => s[i] < s[j]
        /\ \A k \in S : \E i \in 1..Cardinality(S) : s[i] = k
    BY <1>1, <1>2, AscendingLists
  <1> HIDE DEF s
  <1>4. s \in Seq(Entities)
    BY <1>3
  <1>5. s # <<>>
    BY <1>3
  <1>6. QED
    BY <1>3, <1>4, <1>5 DEF s

(* What a page of the index contributes: its well-formed keys, in order. *)
LEMMA EntriesOfPage ==
  ASSUME NEW p \in Seq(Object)
  PROVE  /\ Entries(p) \in Seq(Collected)
         /\ \A i \in 1..Len(Entries(p)) :
              \E l \in 1..Len(p) :
                /\ l <= PageSize
                /\ Entries(p)[i].key = p[l].key /\ Entries(p)[i].gen = p[l].gen
                /\ Entries(p)[i].data = p[l].gen
         /\ (\A i, j \in 1..Len(p) : i < j => p[i].key < p[j].key) =>
              \A i, j \in 1..Len(Entries(p)) : i < j => Entries(p)[i].key < Entries(p)[j].key
         /\ \A l \in 1..Len(p) :
              l <= PageSize /\ p[l].key \notin Malformed =>
                \E i \in 1..Len(Entries(p)) : Entries(p)[i].key = p[l].key
  <1> DEFINE I == {i \in DOMAIN Shown(p) : p[i].key \in WellFormed}
             at == Ascending[I]
             s == Entries(p)
  <1>1. DOMAIN Shown(p) = {i \in 1..Len(p) : i <= PageSize}
    <2>1. PageSize \in Nat /\ Len(p) \in Nat
      BY Constants
    <2>2. CASE Len(p) > PageSize
      <3>1. Shown(p) = SubSeq(p, 1, PageSize)
        BY <2>2 DEF Shown
      <3>2. DOMAIN Shown(p) = 1..PageSize
        BY <2>1, <3>1
      <3>3. QED
        BY <2>1, <2>2, <3>2
    <2>3. CASE ~ (Len(p) > PageSize)
      <3>1. Shown(p) = SubSeq(p, 1, Len(p))
        BY <2>3 DEF Shown
      <3>2. DOMAIN Shown(p) = 1..Len(p)
        BY <2>1, <3>1
      <3>3. QED
        BY <2>1, <2>3, <3>2
    <2>4. QED
      BY <2>2, <2>3
  <1>2. I = {i \in 1..Len(p) : i <= PageSize /\ p[i].key \in WellFormed}
    BY <1>1
  <1>3. I \in SUBSET Nat /\ IsFiniteSet(I)
    <2>1. IsFiniteSet(1..Len(p)) /\ I \in SUBSET (1..Len(p))
      BY <1>2, FS_Interval
    <2>2. QED
      BY <2>1, FS_Subset
  <1>4. s = [j \in DOMAIN at |-> [key |-> p[at[j]].key, gen |-> p[at[j]].gen,
                                   data |-> p[at[j]].gen]]
    BY DEF Entries
  <1> HIDE DEF I, s
  <1> DEFINE n == Cardinality(I)
  <1>5. /\ n \in Nat
        /\ DOMAIN at = 1..n
        /\ \A i \in 1..n : at[i] \in I
        /\ \A i, j \in 1..n : i < j => at[i] < at[j]
        /\ \A k \in I : \E i \in 1..n : at[i] = k
    BY <1>3, AscendingLists
  <1> HIDE DEF at, n
  <1>6. ASSUME NEW i \in 1..n
        PROVE  /\ s[i] \in Collected
               /\ at[i] \in 1..Len(p) /\ at[i] <= PageSize
               /\ s[i].key = p[at[i]].key /\ s[i].gen = p[at[i]].gen /\ s[i].data = p[at[i]].gen
    <2>1. at[i] \in 1..Len(p) /\ at[i] <= PageSize
      BY <1>2, <1>5
    <2>2. p[at[i]] \in Object
      BY <2>1
    <2>3. s[i] = [key |-> p[at[i]].key, gen |-> p[at[i]].gen, data |-> p[at[i]].gen]
      BY <1>4, <1>5
    <2>4. QED
      BY <2>1, <2>2, <2>3 DEF Object, Collected
  <1>7. s \in Seq(Collected) /\ Len(s) = n
    BY <1>4, <1>5, <1>6
  <1>8. ASSUME \A i, j \in 1..Len(p) : i < j => p[i].key < p[j].key,
               NEW i \in 1..n, NEW j \in 1..n, i < j
        PROVE  s[i].key < s[j].key
    BY <1>5, <1>6, <1>8
  <1>9. ASSUME NEW l \in 1..Len(p), l <= PageSize, p[l].key \notin Malformed
        PROVE  \E i \in 1..n : s[i].key = p[l].key
    <2>1. l \in I
      <3>1. p[l] \in Object
        OBVIOUS
      <3>2. p[l].key \in WellFormed
        BY <1>9, <3>1 DEF WellFormed, Object
      <3>3. QED
        BY <1>2, <1>9, <3>2
    <2>2. QED
      BY <1>5, <1>6, <2>1
  <1>10. QED
    BY <1>6, <1>7, <1>8, <1>9 DEF s

BucketType == bucket \in [Keys -> 0..gens] /\ gens \in Nat

ScanType ==
  /\ call \in {"none", "index", "export", "purge"}
  /\ pc \in {"idle", "list", "object", "download", "end", "last", "invalidate"}
  /\ todo \in Seq(Entities) /\ cursor \in 0..NKeys /\ page \in Seq(Object)
  /\ out \in Seq(Collected) /\ blob \in Nat /\ tries \in 0..(GetAttempts - 1)
  /\ found \in BOOLEAN /\ passes \in 0..MaxPasses
  /\ answer \in {"none", "ok", "corrupt", "unavailable", "incomplete", "cacheError"}

CreateType ==
  /\ cpc \in [Creators -> {"idle", "count", "get", "put"}]
  /\ target \in [Creators -> 0..NKeys]
  /\ count \in [Creators -> Nat]
  /\ after \in [Creators -> 0..NKeys]
  /\ canswer \in [Creators ->
       {"none", "created", "refused", "exists", "quota", "unavailable"}]
  /\ late \subseteq [fault : 1..MaxFaults, key : NewFiles]
  /\ races \in [Entities -> Nat \ {0}]

BoundsType == calls \in 0..MaxCalls /\ faults \in 0..MaxFaults

LEMMA TypeParts == TypeOK <=> BucketType /\ ScanType /\ CreateType /\ BoundsType
  BY DEF TypeOK, BucketType, ScanType, CreateType, BoundsType

(* Who moves: the scanner, or somebody else. *)
ScanStep == Scan \/ \E s \in Scans : Begin(s.kind, s.of)

OtherStep ==
  \/ \E c \in Creators : (\E k \in NewFiles : CreateFile(c, k)) \/ Create(c)
  \/ LatePut
  \/ \E k \in Keys : Overwrite(k) \/ Remove(k) \/ Seed(k)

LEMMA Movers == Next <=> ScanStep \/ OtherStep
  BY Zenon DEF Next, ScanStep, OtherStep

(* The object a scan deals with next, and what it leaves of the page. *)
LEMMA PageHead ==
  IInv /\ pc \in {"object", "download"} =>
    /\ page \in Seq(Object) /\ Len(page) >= 1 /\ page[1] \in Object
    /\ page[1].key \in Keys /\ page[1].gen \in Nat
    /\ Tail(page) \in Seq(Object) /\ Len(Tail(page)) = Len(page) - 1
    /\ \A i \in 1..Len(Tail(page)) : Tail(page)[i] = page[i + 1]
  <1> SUFFICES ASSUME IInv, pc \in {"object", "download"}
               PROVE  /\ page \in Seq(Object) /\ Len(page) >= 1 /\ page[1] \in Object
                      /\ page[1].key \in Keys /\ page[1].gen \in Nat
                      /\ Tail(page) \in Seq(Object) /\ Len(Tail(page)) = Len(page) - 1
                      /\ \A i \in 1..Len(Tail(page)) : Tail(page)[i] = page[i + 1]
    OBVIOUS
  <1>1. page \in Seq(Object) /\ page # <<>>
    BY DEF IInv, TypeOK, ScanFits
  <1>2. Len(page) \in Nat /\ Len(page) >= 1
    BY <1>1
  <1>3. page[1] \in Object
    BY <1>1, <1>2
  <1>4. /\ Tail(page) \in Seq(Object) /\ Len(Tail(page)) = Len(page) - 1
        /\ \A i \in 1..Len(Tail(page)) : Tail(page)[i] = page[i + 1]
    BY <1>1
  <1>5. QED
    BY <1>1, <1>2, <1>3, <1>4 DEF Object

(* The others put, delete, or leave the bucket as it is. *)
Quiet == UNCHANGED <<bucket, gens, stable, lived, emptied, owing, written>>
Disturbed == \E k \in Keys : Put(k) \/ Drop(k, FALSE)

LEMMA OtherMoves ==
  ASSUME IInv, OtherStep
  PROVE  UNCHANGED scan /\ (Quiet \/ Disturbed)
  <1>1. CASE \E k \in Keys : Overwrite(k) \/ Remove(k) \/ Seed(k)
    BY <1>1 DEF Overwrite, Remove, Seed, Disturbed
  <1>2. CASE \E c \in Creators : (\E k \in NewFiles : CreateFile(c, k)) \/ Create(c)
    <2>1. PICK c \in Creators : (\E k \in NewFiles : CreateFile(c, k)) \/ Create(c)
      BY <1>2
    <2>2. CASE \E k \in NewFiles : CreateFile(c, k)
      BY <2>2 DEF CreateFile, Quiet
    <2>3. CASE CountPage(c)
      BY <2>3 DEF CountPage, Quiet
    <2>4. CASE CapGet(c)
      BY <2>4 DEF CapGet, Quiet, history
    <2>5. CASE CreatePut(c) \/ CreateResent(c) \/ CreatePutFails(c)
      <3>1. target[c] \in Keys
        <4>1. cpc[c] # "idle"
          BY <2>5 DEF CreatePut, CreateResent, CreatePutFails
        <4>2. target[c] \in NewFiles
          BY <4>1 DEF IInv, CreateFits
        <4>3. QED
          BY <4>2, Constants
      <3>2. QED
        BY <2>5, <3>1 DEF CreatePut, CreateResent, CreatePutFails, Quiet, Disturbed, history
    <2>6. CASE CreateFails(c)
      BY <2>6 DEF CreateFails, Quiet
    <2>7. QED
      BY <2>1, <2>2, <2>3, <2>4, <2>5, <2>6 DEF Create
  <1>3. CASE LatePut
    <2>1. PICK s \in late :
            IF bucket[s.key] = 0 THEN Put(s.key) ELSE UNCHANGED <<bucket, gens, history>>
      BY <1>3 DEF LatePut
    <2>2. s.key \in NewFiles
      BY DEF IInv, TypeOK
    <2>3. s.key \in Keys
      BY <2>2, Constants
    <2>4. QED
      BY <1>3, <2>1, <2>3 DEF LatePut, Quiet, Disturbed, history
  <1>4. QED
    BY <1>1, <1>2, <1>3 DEF OtherStep

(* The scanner deletes, as a purge only, or leaves the bucket as it is. *)
LEMMA ScanMoves ==
  ASSUME IInv, ScanStep
  PROVE  /\ UNCHANGED create
         /\ \/ UNCHANGED <<bucket, gens, cseen>>
            \/ \E k \in Keys : call = "purge" /\ pc = "object" /\ Drop(k, TRUE)
  <1>1. CASE \E s \in Scans : Begin(s.kind, s.of)
    BY <1>1 DEF Begin
  <1>2. CASE Drain
    BY <1>2 DEF Drain, DrainPage, DrainLastPage, DrainRaises, Raises, history
  <1>3. CASE ExportPage \/ GetBlob \/ ExportEnd
    BY <1>3 DEF ExportPage, GetBlob, ExportEnd, history
  <1>4. CASE Download
    BY <1>4 DEF Download, Downloaded, AnotherAttempt, Raises, history
  <1>5. CASE PurgePage \/ PassEnds \/ LastLook \/ Invalidate
    BY <1>5 DEF PurgePage, PassEnds, LastLook, Invalidate, history
  <1>6. CASE StorageFails
    BY <1>6 DEF StorageFails, Raises
  <1>7. CASE PurgeDeletes \/ PurgeFails
    <2>1. pc = "object" => page[1].key \in Keys
      BY PageHead
    <2>2. QED
      BY <1>7, <2>1 DEF PurgeDeletes, PurgeFails, At, history
  <1>8. QED
    BY <1>1, <1>2, <1>3, <1>4, <1>5, <1>6, <1>7 DEF ScanStep, Scan

(* What a put or a delete makes of the bucket. *)
LEMMA PutMakes ==
  ASSUME BucketType, NEW k \in Keys, Put(k)
  PROVE  /\ BucketType' /\ bucket' = [bucket EXCEPT ![k] = gens + 1]
         /\ bucket' \in [Keys -> Nat] /\ bucket'[k] = gens + 1
         /\ \A j \in Keys \ {k} : bucket'[j] = bucket[j]
         /\ Present(bucket') = Present(bucket) \cup {k}
  <1>1. bucket' = [bucket EXCEPT ![k] = gens + 1] /\ gens' = gens + 1
    BY DEF Put, Change
  <1>2. QED
    BY <1>1 DEF BucketType, Present

LEMMA DropMakes ==
  ASSUME BucketType, NEW k \in Keys, NEW mine, Drop(k, mine)
  PROVE  /\ BucketType' /\ bucket' = [bucket EXCEPT ![k] = 0]
         /\ \A j \in Keys \ {k} : bucket'[j] = bucket[j]
         /\ Present(bucket') = Present(bucket) \ {k}
  <1>1. bucket' = [bucket EXCEPT ![k] = 0] /\ gens' = gens
    BY DEF Drop, Change
  <1>2. QED
    BY <1>1 DEF BucketType, Present

LEMMA BucketTypeKept ==
  ASSUME IInv, [Next]_vars
  PROVE  BucketType'
  <1>1. BucketType
    BY TypeParts DEF IInv
  <1>2. CASE UNCHANGED <<bucket, gens>>
    BY <1>1, <1>2 DEF BucketType
  <1>3. CASE \E k \in Keys : Put(k) \/ \E mine \in BOOLEAN : Drop(k, mine)
    BY <1>1, <1>3, PutMakes, DropMakes
  <1>4. CASE OtherStep
    BY <1>2, <1>3, <1>4, OtherMoves DEF Quiet, Disturbed
  <1>5. CASE ScanStep
    BY <1>2, <1>3, <1>5, ScanMoves
  <1>6. QED
    BY <1>2, <1>4, <1>5, Movers DEF vars

(* The page a scan gets. *)
LEMMA NextPage ==
  ASSUME IInv, pc = "list", NEW limit \in Nat, NEW p, p = ListPage(bucket, Entity, cursor, limit)
  PROVE  /\ p \in Seq(Object) /\ Len(p) \in Nat /\ Len(p) <= limit
         /\ \A i \in 1..Len(p) :
              /\ p[i] \in Object /\ p[i].key \in Keys /\ EntityOf[p[i].key] = Entity
              /\ p[i].key > cursor /\ p[i].gen = bucket[p[i].key] /\ p[i].gen # 0
              /\ p[i].key \in Left
         /\ \A i, j \in 1..Len(p) : i < j => p[i].key < p[j].key
         /\ \A k \in Left :
              k > cursor =>
                \/ \E i \in 1..Len(p) : p[i].key = k
                \/ Len(p) = limit /\ \A i \in 1..Len(p) : p[i].key < k
  <1>1. bucket \in [Keys -> Nat] /\ cursor \in 0..NKeys
    BY DEF IInv, TypeOK
  <1>2. /\ p \in Seq(Object) /\ Len(p) <= limit
        /\ \A i \in 1..Len(p) :
             p[i].key \in Ahead(bucket, Entity, cursor) /\ p[i].gen = bucket[p[i].key]
        /\ \A i, j \in 1..Len(p) : i < j => p[i].key < p[j].key
        /\ \A k \in Ahead(bucket, Entity, cursor) :
             \/ \E i \in 1..Len(p) : p[i].key = k
             \/ Len(p) = limit /\ \A i \in 1..Len(p) : p[i].key < k
    <2> DEFINE q == ListPage(bucket, Entity, cursor, limit)
    <2>1. /\ q \in Seq(Object) /\ Len(q) <= limit
          /\ \A i \in 1..Len(q) :
               q[i].key \in Ahead(bucket, Entity, cursor) /\ q[i].gen = bucket[q[i].key]
          /\ \A i, j \in 1..Len(q) : i < j => q[i].key < q[j].key
          /\ \A k \in Ahead(bucket, Entity, cursor) :
               \/ \E i \in 1..Len(q) : q[i].key = k
               \/ Len(q) = limit /\ \A i \in 1..Len(q) : q[i].key < k
      BY <1>1, Pages
    <2>2. p = q
      OBVIOUS
    <2> HIDE DEF q
    <2>3. QED
      BY <2>1, <2>2
  <1>3. Ahead(bucket, Entity, cursor) = {k \in Left : k > cursor}
    BY DEF Ahead, Left, Present, Under
  <1>4. \A i \in 1..Len(p) : p[i] \in Object
    BY <1>2
  <1>5. Left \subseteq {k \in Keys : EntityOf[k] = Entity /\ bucket[k] # 0}
    BY DEF Left, Present, Under
  <1>6. Len(p) \in Nat
    BY <1>2
  <1>7. \A i \in 1..Len(p) :
          /\ p[i].key \in Left /\ p[i].key > cursor /\ p[i].key \in Keys
          /\ EntityOf[p[i].key] = Entity /\ p[i].gen # 0
    BY <1>2, <1>3, <1>5
  <1>8. ASSUME NEW k \in Left, k > cursor
        PROVE  \/ \E i \in 1..Len(p) : p[i].key = k
               \/ Len(p) = limit /\ \A i \in 1..Len(p) : p[i].key < k
    <2>1. k \in Ahead(bucket, Entity, cursor)
      BY <1>3, <1>8
    <2>2. QED
      BY <1>2, <2>1
  <1>9. \A i \in 1..Len(p) : p[i].gen = bucket[p[i].key]
    BY <1>2
  <1>10. /\ p \in Seq(Object) /\ Len(p) <= limit
         /\ \A i, j \in 1..Len(p) : i < j => p[i].key < p[j].key
    BY <1>2
  <1>11. QED
    BY <1>4, <1>6, <1>7, <1>8, <1>9, <1>10

LEMMA CursorOf ==
  ASSUME NEW p \in Seq(Object), Len(p) <= PageSize
  PROVE  /\ Cursor(p) \in 0..NKeys
         /\ Cursor(p) = 0 => Len(p) < PageSize
         /\ Cursor(p) # 0 => Len(p) = PageSize /\ p # <<>> /\ Cursor(p) = p[Len(p)].key
  <1>1. Len(p) \in Nat /\ PageSize \in Nat /\ PageSize >= 1
    BY Constants
  <1>2. CASE Len(p) < PageSize
    BY <1>1, <1>2, Constants DEF Cursor
  <1>3. CASE ~ (Len(p) < PageSize)
    <2>1. Len(p) = PageSize /\ Len(p) \in 1..Len(p)
      BY <1>1, <1>3
    <2>2. p[Len(p)] \in Object
      BY <2>1
    <2>3. p[Len(p)].key \in 1..NKeys
      BY <2>2, Constants DEF Object
    <2>4. Cursor(p) = p[Len(p)].key /\ p # <<>>
      BY <1>1, <1>3, <2>1 DEF Cursor
    <2>5. QED
      BY <2>1, <2>3, <2>4, Constants
  <1>4. QED
    BY <1>2, <1>3

(* Proceed goes to the request that suits what is left of the page. *)
LEMMA Proceeds ==
  ASSUME NEW rest \in Seq(Object), NEW next \in 0..NKeys, Proceed(rest, next)
  PROVE  /\ page' = rest
         /\ \/ pc' = "object" /\ rest # <<>> /\ Len(rest) >= 1
            \/ pc' = "list" /\ rest = <<>> /\ next # 0
            \/ pc' = "end" /\ rest = <<>> /\ next = 0
  BY DEF Proceed

(* Ends leaves the locals of an idle scanner. *)
LEMMA EndsFit ==
  ASSUME IInv, NEW how, how \in {"ok", "corrupt", "unavailable", "incomplete", "cacheError"},
         Ends(how), UNCHANGED call, out' \in Seq(Collected)
  PROVE  ScanType' /\ ScanFits' /\ PageFits'
  <1>1. /\ answer' = how /\ pc' = "idle"
        /\ todo' = <<>> /\ cursor' = 0 /\ page' = <<>> /\ blob' = 0 /\ tries' = 0
        /\ found' = FALSE /\ passes' = 0
    BY DEF Ends
  <1>2. ScanType
    BY TypeParts DEF IInv
  <1>3. ScanType'
    <2>1. 0 \in 0..NKeys /\ 0 \in 0..(GetAttempts - 1) /\ 0 \in 0..MaxPasses
      BY Constants
    <2>2. todo' \in Seq(Entities) /\ page' \in Seq(Object)
      BY <1>1
    <2>3. /\ cursor' \in 0..NKeys /\ tries' \in 0..(GetAttempts - 1)
          /\ passes' \in 0..MaxPasses /\ found' \in BOOLEAN /\ blob' \in Nat
      BY <1>1, <2>1
    <2>4. QED
      BY <1>1, <1>2, <2>2, <2>3 DEF ScanType
  <1>4. Len(todo') = 0
    BY <1>1
  <1>5. ScanFits' /\ PageFits'
    BY <1>1, <1>4 DEF ScanFits, PageFits, Sweeping
  <1>6. QED
    BY <1>3, <1>5

LEMMA RaisesFit ==
  ASSUME IInv, NEW how, how \in {"corrupt", "unavailable"}, Raises(how), UNCHANGED call
  PROVE  ScanType' /\ ScanFits' /\ PageFits'
  <1>1. Ends(how) /\ out' \in Seq(Collected)
    BY DEF Raises
  <1>2. QED
    BY <1>1, EndsFit

(* The last look finds a file if there is one. *)
LEMMA LookSees ==
  ASSUME NEW b \in [Keys -> Nat], NEW e
  PROVE  ListPage(b, e, 0, 1) = <<>> <=> Present(b) \cap Under(e) = {}
  <1> DEFINE p == ListPage(b, e, 0, 1)
  <1>1. /\ p \in Seq(Object)
        /\ \A i \in 1..Len(p) : p[i].key \in Ahead(b, e, 0)
        /\ \A k \in Ahead(b, e, 0) :
             \/ \E i \in 1..Len(p) : p[i].key = k
             \/ Len(p) = 1 /\ \A i \in 1..Len(p) : p[i].key < k
    <2>1. 0 \in 0..NKeys /\ 1 \in Nat
      BY Constants
    <2>2. QED
      BY <2>1, Pages
  <1> HIDE DEF p
  <1>2. Ahead(b, e, 0) = Present(b) \cap Under(e)
    BY Constants DEF Ahead, Present, Under
  <1>3. p = <<>> => Len(p) = 0
    OBVIOUS
  <1>4. p # <<>> => 1 \in 1..Len(p)
    BY <1>1
  <1>5. QED
    BY <1>1, <1>2, <1>3, <1>4 DEF p

(* A page arrives, and a page is worked off. *)
LEMMA PageTaken ==
  ASSUME IInv, pc = "list", call \in {"export", "purge"},
         NEW p, p = ListPage(bucket, Entity, cursor, PageSize),
         Proceed(p, Cursor(p)), cursor' = Cursor(p), found' \in BOOLEAN,
         UNCHANGED <<call, todo, out, blob, tries, passes, answer>>
  PROVE  ScanType' /\ ScanFits' /\ PageFits'
  <1> USE DEF Sweeping
  <1>1. ScanType /\ ScanFits /\ PageFits
    BY TypeParts DEF IInv
  <1>2. /\ p \in Seq(Object) /\ Len(p) \in Nat /\ Len(p) <= PageSize
        /\ \A i \in 1..Len(p) : p[i].key \in Keys /\ EntityOf[p[i].key] = Entity
        /\ \A i, j \in 1..Len(p) : i < j => p[i].key < p[j].key
    <2>1. PageSize \in Nat
      BY Constants
    <2>2. QED
      BY <2>1, NextPage
  <1>3. /\ Cursor(p) \in 0..NKeys
        /\ Cursor(p) # 0 => Len(p) = PageSize /\ p # <<>> /\ Cursor(p) = p[Len(p)].key
    BY <1>2, CursorOf
  <1>4. /\ page' = p
        /\ \/ pc' = "object" /\ p # <<>>
           \/ pc' = "list" /\ p = <<>> /\ Cursor(p) # 0
           \/ pc' = "end" /\ p = <<>> /\ Cursor(p) = 0
    BY <1>2, <1>3, Proceeds
  <1>5. ScanType'
    BY <1>1, <1>2, <1>3, <1>4 DEF ScanType
  <1>6. ScanFits'
    BY <1>1, <1>3, <1>4 DEF ScanFits
  <1>7. Entity' = Entity
    BY DEF Entity
  <1>8. ASSUME cursor' # 0, NEW i \in 1..Len(p) PROVE p[i].key <= cursor'
    <2>1. cursor' = p[Len(p)].key /\ Len(p) \in 1..Len(p)
      BY <1>2, <1>3, <1>8
    <2>2. i = Len(p) \/ i < Len(p)
      BY <1>2
    <2>3. p[i].key \in Nat /\ p[Len(p)].key \in Nat
      BY <1>2, <2>1, KeysFinite
    <2>4. QED
      BY <1>2, <2>1, <2>2, <2>3
  <1>9. PageFits'
    BY <1>2, <1>4, <1>7, <1>8 DEF PageFits
  <1>10. QED
    BY <1>5, <1>6, <1>9

LEMMA PageTurned ==
  ASSUME IInv, pc \in {"object", "download"}, call \in {"export", "purge"},
         Proceed(Tail(page), cursor), out' \in Seq(Collected), blob' \in Nat,
         tries' \in 0..(GetAttempts - 1), found' \in BOOLEAN,
         UNCHANGED <<call, todo, cursor, passes, answer>>
  PROVE  ScanType' /\ ScanFits' /\ PageFits'
  <1> USE DEF Sweeping
  <1>1. ScanType /\ ScanFits /\ PageFits
    BY TypeParts DEF IInv
  <1>2. /\ page \in Seq(Object) /\ Len(page) \in Nat /\ Len(page) >= 1
        /\ Tail(page) \in Seq(Object) /\ Len(Tail(page)) = Len(page) - 1
        /\ \A i \in 1..Len(Tail(page)) : Tail(page)[i] = page[i + 1]
    BY PageHead
  <1> DEFINE rest == Tail(page)
  <1> HIDE DEF rest
  <1>3. cursor \in 0..NKeys
    BY <1>1 DEF ScanType
  <1>4. /\ page' = rest
        /\ \/ pc' = "object" /\ rest # <<>>
           \/ pc' = "list" /\ rest = <<>> /\ cursor # 0
           \/ pc' = "end" /\ rest = <<>> /\ cursor = 0
    BY <1>2, <1>3, Proceeds DEF rest
  <1>5. ScanType'
    BY <1>1, <1>2, <1>4 DEF ScanType, rest
  <1>6. ScanFits'
    BY <1>1, <1>4 DEF ScanFits
  <1>7. Entity' = Entity
    BY DEF Entity
  <1>8. PageFits'
    <2>1. \A i \in 1..Len(page') : page'[i] = page[i + 1] /\ i + 1 \in 1..Len(page)
      BY <1>2, <1>4 DEF rest
    <2>2. /\ \A i \in 1..Len(page) :
               EntityOf[page[i].key] = Entity /\ (cursor # 0 => page[i].key <= cursor)
          /\ \A i, j \in 1..Len(page) : i < j => page[i].key < page[j].key
      BY <1>1 DEF PageFits
    <2>3. ASSUME NEW i \in 1..Len(page'), NEW j \in 1..Len(page'), i < j
          PROVE  page'[i].key < page'[j].key
      BY <2>1, <2>2, <2>3
    <2>4. QED
      BY <1>7, <2>1, <2>2, <2>3 DEF PageFits
  <1>9. QED
    BY <1>5, <1>6, <1>8

LEMMA ScanKept ==
  ASSUME IInv, ScanStep
  PROVE  ScanType' /\ ScanFits' /\ PageFits'
  <1> USE DEF Sweeping
  <1>1. ScanType /\ ScanFits /\ PageFits
    BY TypeParts DEF IInv
  <1>2. CASE \E s \in Scans : Begin(s.kind, s.of)
    <2>1. PICK s \in Scans : Begin(s.kind, s.of)
      BY <1>2
    <2>2. /\ s.kind \in {"index", "export", "purge"}
          /\ s.of \in SUBSET Entities /\ s.of # {}
          /\ s.kind = "index" \/ Cardinality(s.of) = 1
      BY ScanAssumption
    <2>3. /\ call' = s.kind /\ pc' = "list" /\ todo' = Ascending[s.of]
          /\ cursor' = 0 /\ page' = <<>> /\ out' = <<>> /\ blob' = 0 /\ tries' = 0
          /\ found' = FALSE /\ passes' = 0 /\ answer' = "none"
      BY <2>1 DEF Begin
    <2>4. /\ todo' \in Seq(Entities) /\ todo' # <<>>
          /\ Len(todo') = Cardinality(s.of)
          /\ \A i, j \in 1..Len(todo') : i < j => todo'[i] < todo'[j]
      BY <2>2, <2>3, Tours
    <2>5. 0 \in 0..NKeys /\ 0 \in 0..(GetAttempts - 1) /\ 0 \in 0..MaxPasses /\ 0 < MaxPasses
      BY Constants
    <2>6. Len(page') = 0 /\ page' \in Seq(Object) /\ out' \in Seq(Collected)
      BY <2>3
    <2>7. ScanType'
      BY <2>2, <2>3, <2>4, <2>5, <2>6 DEF ScanType
    <2>8. ScanFits'
      BY <2>2, <2>3, <2>4, <2>5 DEF ScanFits
    <2>9. PageFits'
      BY <2>3, <2>6 DEF PageFits
    <2>10. QED
      BY <2>7, <2>8, <2>9
  <1>3. CASE Drain
    <2>1. call = "index" /\ pc = "list" /\ UNCHANGED call
      BY <1>3 DEF Drain, At, DrainPage, DrainLastPage, DrainRaises
    <2>2. PICK p \in {ListPage(bucket, Entity, cursor, PageSize + 1)} :
            DrainPage(p) \/ DrainLastPage(p) \/ DrainRaises(p)
      BY <1>3 DEF Drain
    <2>3. PageSize + 1 \in Nat
      BY Constants
    <2>4. p \in Seq(Object) /\ Len(p) \in Nat
      BY <2>1, <2>2, <2>3, NextPage
    <2>5. out \o Entries(p) \in Seq(Collected)
      BY <1>1, <2>4, EntriesOfPage DEF ScanType
    <2>6. CASE DrainPage(p)
      <3>1. NextCursor(p) \in 0..NKeys
        <4>1. CASE Len(p) > PageSize
          <5>1. PageSize \in 1..Len(p)
            BY <2>4, <4>1, Constants
          <5>2. p[PageSize] \in Object
            BY <2>4, <5>1
          <5>3. QED
            BY <4>1, <5>2, Constants DEF NextCursor, Object
        <4>2. CASE ~ (Len(p) > PageSize)
          BY <4>2, Constants DEF NextCursor
        <4>3. QED
          BY <4>1, <4>2
      <3>2. /\ out' \in Seq(Collected) /\ cursor' \in 0..NKeys
            /\ UNCHANGED <<call, pc, todo, page, blob, tries, found, passes, answer>>
        BY <2>5, <2>6, <3>1 DEF DrainPage
      <3>3. ScanType'
        BY <1>1, <3>2 DEF ScanType
      <3>4. page' = <<>> /\ Len(page') = 0
        BY <1>1, <2>1, <3>2 DEF ScanFits
      <3>5. ScanFits' /\ PageFits'
        BY <1>1, <2>1, <3>2, <3>4 DEF ScanFits, PageFits
      <3>6. QED
        BY <3>3, <3>5
    <2>7. CASE DrainLastPage(p) /\ Len(todo) > 1
      <3>1. /\ out' \in Seq(Collected) /\ todo' = Tail(todo) /\ cursor' = 0
            /\ UNCHANGED <<call, pc, page, blob, tries, found, passes, answer>>
        BY <2>5, <2>7 DEF DrainLastPage
      <3>2. todo \in Seq(Entities) /\ Len(todo) \in Nat
        BY <1>1 DEF ScanType
      <3>3. /\ todo' \in Seq(Entities) /\ Len(todo') = Len(todo) - 1 /\ todo' # <<>>
            /\ \A i \in 1..Len(todo') : todo'[i] = todo[i + 1]
        BY <2>7, <3>1, <3>2
      <3>4. \A i, j \in 1..Len(todo') : i < j => todo'[i] < todo'[j]
        <4>1. \A i, j \in 1..Len(todo) : i < j => todo[i] < todo[j]
          BY <1>1 DEF ScanFits
        <4>2. QED
          BY <3>2, <3>3, <4>1
      <3>5. 0 \in 0..NKeys
        BY Constants
      <3>6. ScanType'
        BY <1>1, <3>1, <3>3, <3>5 DEF ScanType
      <3>7. page' = <<>> /\ Len(page') = 0
        BY <1>1, <2>1, <3>1 DEF ScanFits
      <3>8. ScanFits' /\ PageFits'
        BY <1>1, <2>1, <3>1, <3>3, <3>4, <3>7 DEF ScanFits, PageFits
      <3>9. QED
        BY <3>6, <3>8
    <2>8. CASE DrainLastPage(p) /\ ~ (Len(todo) > 1)
      <3>1. Ends("ok") /\ out' \in Seq(Collected)
        BY <2>5, <2>8 DEF DrainLastPage
      <3>2. QED
        BY <2>1, <3>1, EndsFit
    <2>9. CASE DrainRaises(p)
      BY <2>1, <2>9, RaisesFit DEF DrainRaises
    <2>10. QED
      BY <2>2, <2>6, <2>7, <2>8, <2>9
  <1>4. CASE ExportPage
    <2>1. PICK p \in {ListPage(bucket, Entity, cursor, PageSize)} :
            Proceed(p, Cursor(p)) /\ cursor' = Cursor(p)
      BY <1>4 DEF ExportPage
    <2>2. /\ call = "export" /\ pc = "list" /\ found' = found
          /\ UNCHANGED <<call, todo, out, blob, tries, passes, answer>>
      BY <1>4 DEF ExportPage, At
    <2>3. found' \in BOOLEAN
      BY <1>1, <2>2 DEF ScanType
    <2>4. QED
      BY <2>1, <2>2, <2>3, PageTaken
  <1>5. CASE PurgePage
    <2>1. PICK p \in {ListPage(bucket, Entity, cursor, PageSize)} :
            Proceed(p, Cursor(p)) /\ cursor' = Cursor(p) /\ found' = (found \/ p # <<>>)
      BY <1>5 DEF PurgePage
    <2>2. /\ call = "purge" /\ pc = "list"
          /\ UNCHANGED <<call, todo, out, blob, tries, passes, answer>>
      BY <1>5 DEF PurgePage, At
    <2>3. found' \in BOOLEAN
      BY <2>1
    <2>4. QED
      BY <2>1, <2>2, <2>3, PageTaken
  <1>6. CASE GetBlob
    <2>1. call = "export" /\ pc = "object"
          /\ UNCHANGED <<call, todo, cursor, out, found, passes, answer>>
      BY <1>6 DEF GetBlob, At
    <2>2. out' \in Seq(Collected) /\ found' \in BOOLEAN /\ 0 \in 0..(GetAttempts - 1)
      BY <1>1, <2>1, Constants DEF ScanType
    <2>3. CASE bucket[page[1].key] = 0
      <3>1. Proceed(Tail(page), cursor) /\ tries' = 0 /\ UNCHANGED blob
        BY <1>6, <2>3 DEF GetBlob
      <3>2. blob' \in Nat
        BY <1>1, <3>1 DEF ScanType
      <3>3. QED
        BY <2>1, <2>2, <3>1, <3>2, PageTurned
    <2>4. CASE bucket[page[1].key] # 0
      <3>1. /\ blob' = bucket[page[1].key] /\ pc' = "download"
            /\ UNCHANGED <<call, todo, cursor, page, out, tries, found, passes, answer>>
        BY <1>6, <2>4 DEF GetBlob
      <3>2. page[1].key \in Keys
        BY <2>1, PageHead
      <3>3. blob' \in Nat
        BY <3>1, <3>2 DEF IInv, TypeOK
      <3>4. ScanType'
        BY <1>1, <3>1, <3>3 DEF ScanType
      <3>5. ScanFits'
        BY <1>1, <2>1, <3>1 DEF ScanFits
      <3>6. PageFits'
        BY <1>1, <2>1, <3>1 DEF PageFits, Entity
      <3>7. QED
        BY <3>4, <3>5, <3>6
    <2>5. QED
      BY <2>3, <2>4
  <1>7. CASE Download
    <2>1. call = "export" /\ pc = "download" /\ UNCHANGED call
      BY <1>7 DEF Download, At
    <2>2. 0 \in 0..(GetAttempts - 1)
      BY Constants
    <2>3. CASE Downloaded(blob)
      <3>1. /\ out' = Append(out, [key |-> page[1].key, gen |-> blob, data |-> blob])
            /\ Proceed(Tail(page), cursor) /\ blob' = 0 /\ tries' = 0
            /\ UNCHANGED <<todo, cursor, found, passes, answer>>
        BY <2>3 DEF Downloaded
      <3>2. [key |-> page[1].key, gen |-> blob, data |-> blob] \in Collected
        BY <1>1, <2>1, PageHead DEF ScanType, Collected
      <3>3. out' \in Seq(Collected) /\ found' \in BOOLEAN
        BY <1>1, <3>1, <3>2 DEF ScanType
      <3>4. QED
        BY <2>1, <2>2, <3>1, <3>3, PageTurned
    <2>4. CASE AnotherAttempt /\ tries + 1 < GetAttempts
      <3>1. /\ tries' = tries + 1 /\ blob' = 0 /\ pc' = "object"
            /\ UNCHANGED <<todo, cursor, page, out, found, passes, answer>>
        BY <2>4 DEF AnotherAttempt
      <3>2. tries' \in 0..(GetAttempts - 1)
        BY <1>1, <2>4, <3>1, Constants DEF ScanType
      <3>3. ScanType'
        BY <1>1, <2>1, <3>1, <3>2 DEF ScanType
      <3>4. ScanFits'
        BY <1>1, <2>1, <3>1 DEF ScanFits
      <3>5. PageFits'
        BY <1>1, <2>1, <3>1 DEF PageFits, Entity
      <3>6. QED
        BY <3>3, <3>4, <3>5
    <2>5. CASE AnotherAttempt /\ ~ (tries + 1 < GetAttempts)
      BY <2>1, <2>5, RaisesFit DEF AnotherAttempt
    <2>6. QED
      BY <1>7, <2>3, <2>4, <2>5 DEF Download
  <1>8. CASE ExportEnd
    <2>1. Ends("ok") /\ UNCHANGED <<call, out>>
      BY <1>8 DEF ExportEnd
    <2>2. out' \in Seq(Collected)
      BY <1>1, <2>1 DEF ScanType
    <2>3. QED
      BY <2>1, <2>2, EndsFit
  <1>9. CASE PurgeDeletes
    <2>1. /\ call = "purge" /\ pc = "object" /\ Proceed(Tail(page), cursor)
          /\ UNCHANGED <<call, todo, cursor, out, blob, tries, found, passes, answer>>
      BY <1>9 DEF PurgeDeletes, At
    <2>2. /\ out' \in Seq(Collected) /\ blob' \in Nat
          /\ tries' \in 0..(GetAttempts - 1) /\ found' \in BOOLEAN
      BY <1>1, <2>1 DEF ScanType
    <2>3. QED
      BY <2>1, <2>2, PageTurned
  <1>10. CASE PassEnds
    <2>1. /\ call = "purge" /\ pc = "end"
          /\ UNCHANGED <<call, todo, cursor, page, out, blob, tries>>
      BY <1>10 DEF PassEnds, At
    <2>2. \/ ~found /\ answer' = "ok" /\ pc' = "invalidate" /\ UNCHANGED <<found, passes>>
          \/ /\ passes' = passes + 1 /\ found' = FALSE /\ UNCHANGED answer
             /\ pc' = IF passes + 1 < MaxPasses THEN "list" ELSE "last"
      BY <1>10 DEF PassEnds
    <2>3. passes \in Nat /\ passes < MaxPasses /\ MaxPasses \in Nat
      BY <1>1, <2>1, Constants DEF ScanType, ScanFits
    <2>4. passes' \in 0..MaxPasses /\ (pc' = "list" => passes' < MaxPasses)
          /\ (pc' = "last" => passes' = MaxPasses)
      BY <1>1, <2>2, <2>3 DEF ScanType
    <2>5. ScanType'
      BY <1>1, <2>1, <2>2, <2>4 DEF ScanType
    <2>6. ScanFits'
      BY <1>1, <2>1, <2>2, <2>4 DEF ScanFits
    <2>7. PageFits'
      BY <1>1, <2>1 DEF PageFits, Entity
    <2>8. QED
      BY <2>5, <2>6, <2>7
  <1>11. CASE LastLook
    <2>1. /\ call = "purge" /\ pc = "last" /\ pc' = "invalidate"
          /\ answer' \in {"ok", "incomplete"}
          /\ UNCHANGED <<call, todo, cursor, page, out, blob, tries, found, passes>>
      BY <1>11 DEF LastLook, At
    <2>2. ScanType'
      BY <1>1, <2>1 DEF ScanType
    <2>3. ScanFits' /\ PageFits'
      BY <1>1, <2>1 DEF ScanFits, PageFits, Entity
    <2>4. QED
      BY <2>2, <2>3
  <1>12. CASE Invalidate
    <2>1. /\ pc = "invalidate" /\ UNCHANGED <<call, out>>
          /\ Ends(answer) \/ Ends(IF answer = "ok" THEN "cacheError" ELSE answer)
      BY <1>12 DEF Invalidate, At
    <2>2. answer \in {"ok", "incomplete", "unavailable"}
      BY <1>1, <2>1 DEF ScanFits
    <2>3. out' \in Seq(Collected)
      BY <1>1, <2>1 DEF ScanType
    <2>4. QED
      BY <2>1, <2>2, <2>3, EndsFit
  <1>13. CASE StorageFails
    BY <1>13, RaisesFit DEF StorageFails
  <1>14. CASE PurgeFails
    <2>1. /\ call = "purge" /\ pc \in {"list", "object", "last"}
          /\ answer' = "unavailable" /\ pc' = "invalidate"
          /\ UNCHANGED <<call, todo, cursor, page, out, blob, tries, found, passes>>
      BY <1>14 DEF PurgeFails, AbandonPurge
    <2>2. ScanType'
      BY <1>1, <2>1 DEF ScanType
    <2>3. ScanFits' /\ PageFits'
      BY <1>1, <2>1 DEF ScanFits, PageFits, Entity
    <2>4. QED
      BY <2>2, <2>3
  <1>15. QED
    BY <1>2, <1>3, <1>4, <1>5, <1>6, <1>7, <1>8, <1>9, <1>10, <1>11, <1>12, <1>13, <1>14
       DEF ScanStep, Scan

(* The page a create counts. *)
LEMMA CountedPage ==
  ASSUME IInv, NEW c \in Creators, cpc[c] = "count",
         NEW limit \in Nat, NEW p, p = ListPage(bucket, EntityOf[target[c]], after[c], limit)
  PROVE  /\ p \in Seq(Object) /\ Len(p) \in Nat /\ Len(p) <= limit
         /\ \A i \in 1..Len(p) :
              /\ p[i] \in Object /\ p[i].key \in Keys /\ p[i].key > after[c]
              /\ p[i].key \in Present(bucket) \cap Under(EntityOf[target[c]])
         /\ \A i, j \in 1..Len(p) : i < j => p[i].key < p[j].key
         /\ \A k \in Present(bucket) \cap Under(EntityOf[target[c]]) :
              k > after[c] =>
                \/ \E i \in 1..Len(p) : p[i].key = k
                \/ Len(p) = limit /\ \A i \in 1..Len(p) : p[i].key < k
  <1> DEFINE e == EntityOf[target[c]]
             q == ListPage(bucket, e, after[c], limit)
  <1>1. bucket \in [Keys -> Nat] /\ after[c] \in 0..NKeys
    BY DEF IInv, TypeOK
  <1>2. /\ q \in Seq(Object) /\ Len(q) <= limit
        /\ \A i \in 1..Len(q) : q[i].key \in Ahead(bucket, e, after[c])
        /\ \A i, j \in 1..Len(q) : i < j => q[i].key < q[j].key
        /\ \A k \in Ahead(bucket, e, after[c]) :
             \/ \E i \in 1..Len(q) : q[i].key = k
             \/ Len(q) = limit /\ \A i \in 1..Len(q) : q[i].key < k
    BY <1>1, Pages
  <1>3. Ahead(bucket, e, after[c]) = {k \in Present(bucket) \cap Under(e) : k > after[c]}
    BY DEF Ahead, Present, Under
  <1>4. p = q
    OBVIOUS
  <1> HIDE DEF q, e
  <1>5. Present(bucket) \subseteq Keys
    BY DEF Present
  <1>6. \A i \in 1..Len(p) :
          /\ p[i] \in Object /\ p[i].key \in Keys /\ p[i].key > after[c]
          /\ p[i].key \in Present(bucket) \cap Under(e)
    BY <1>2, <1>3, <1>4, <1>5
  <1>7. ASSUME NEW k \in Present(bucket) \cap Under(e), k > after[c]
        PROVE  \/ \E i \in 1..Len(p) : p[i].key = k
               \/ Len(p) = limit /\ \A i \in 1..Len(p) : p[i].key < k
    BY <1>2, <1>3, <1>4, <1>7
  <1>8. /\ p \in Seq(Object) /\ Len(p) \in Nat /\ Len(p) <= limit
        /\ \A i, j \in 1..Len(p) : i < j => p[i].key < p[j].key
    BY <1>2, <1>4
  <1>9. QED
    BY <1>6, <1>7, <1>8 DEF e

(* What a count asks for, and when it stops. *)
PageLimit(c) == IF FileLimit - count[c] > PageSize THEN FileLimit - count[c] ELSE PageSize

LEMMA CountSteps ==
  ASSUME IInv, NEW c \in Creators, CountPage(c)
  PROVE  /\ cpc[c] = "count" /\ PageLimit(c) \in Nat /\ PageLimit(c) >= 1
         /\ UNCHANGED <<target, canswer>>
         /\ \E p \in {ListPage(bucket, EntityOf[target[c]], after[c], PageLimit(c))} :
              /\ Counts(p) \in Nat
              /\ count' = [count EXCEPT ![c] = count[c] + Counts(p)]
              /\ \/ /\ count[c] + Counts(p) >= FileLimit
                    /\ cpc' = [cpc EXCEPT ![c] = "get"] /\ UNCHANGED <<after, cseen>>
                 \/ /\ count[c] + Counts(p) < FileLimit /\ Len(p) < PageLimit(c)
                    /\ cpc' = [cpc EXCEPT ![c] = "put"]
                    /\ cseen' = [cseen EXCEPT ![c] = {}] /\ UNCHANGED after
                 \/ /\ count[c] + Counts(p) < FileLimit /\ Len(p) = PageLimit(c)
                    /\ after' = [after EXCEPT ![c] = p[Len(p)].key]
                    /\ p[Len(p)].key \in 1..NKeys /\ UNCHANGED <<cpc, cseen>>
  <1>1. cpc[c] = "count" /\ UNCHANGED <<target, canswer>>
    BY DEF CountPage
  <1>2. count[c] \in Nat
    BY DEF IInv, TypeOK
  <1>3. PageLimit(c) \in Nat /\ PageLimit(c) >= 1
    BY <1>2, Constants DEF PageLimit
  <1>4. PICK p \in {ListPage(bucket, EntityOf[target[c]], after[c], PageLimit(c))} :
          \E n \in {count[c] + Counts(p)} :
            /\ count' = [count EXCEPT ![c] = n]
            /\ \/ /\ n >= FileLimit
                  /\ cpc' = [cpc EXCEPT ![c] = "get"] /\ UNCHANGED <<after, cseen>>
               \/ /\ n < FileLimit /\ IsLast(p, PageLimit(c))
                  /\ cpc' = [cpc EXCEPT ![c] = "put"]
                  /\ cseen' = [cseen EXCEPT ![c] = {}] /\ UNCHANGED after
               \/ /\ n < FileLimit /\ ~IsLast(p, PageLimit(c))
                  /\ ResumeAfter(c, p) /\ UNCHANGED <<cpc, cseen>>
    BY Zenon DEF CountPage, PageLimit
  <1>5. /\ p \in Seq(Object) /\ Len(p) \in Nat /\ Len(p) <= PageLimit(c)
        /\ \A i \in 1..Len(p) : p[i].key \in Keys
    BY <1>1, <1>3, <1>4, CountedPage
  <1>6. Counts(p) \in Nat
    <2>1. IsFiniteSet(1..Len(p)) /\ DOMAIN p = 1..Len(p)
      BY <1>5, FS_Interval
    <2>2. QED
      BY <2>1, FS_Subset, FS_CardinalityType DEF Counts
  <1>7. Len(p) = PageLimit(c) => p[Len(p)].key \in 1..NKeys
    BY <1>3, <1>5, Constants
  <1>8. IsLast(p, PageLimit(c)) <=> Len(p) < PageLimit(c)
    BY DEF IsLast
  <1>9. ~IsLast(p, PageLimit(c)) => Len(p) = PageLimit(c)
    BY <1>3, <1>5, <1>8
  <1>10. ResumeAfter(c, p) => after' = [after EXCEPT ![c] = p[Len(p)].key]
    BY DEF ResumeAfter
  <1>11. QED
    BY <1>1, <1>3, <1>4, <1>6, <1>7, <1>8, <1>9, <1>10

(* How many creates are in flight, and what a new one makes of the most    *)
(* there have been.                                                        *)
LEMMA RacesCount ==
  ASSUME IInv, NEW e \in Entities
  PROVE  /\ IsFiniteSet(Racing(e)) /\ Cardinality(Racing(e)) \in Nat
         /\ IsFiniteSet(Straying(e)) /\ Cardinality(Straying(e)) \in Nat
         /\ InFlight(e) \in Nat /\ races[e] \in Nat
         /\ Races(e) \in Nat \ {0} /\ Races(e) >= InFlight(e) + 1
         /\ \/ Races(e) >= races[e]
            \/ InFlight(e) = 0 /\ Cardinality(CountedIn(bucket, e)) <= FileLimit
  <1>1. Racing(e) \in SUBSET Creators
    BY DEF Racing
  <1>2. IsFiniteSet(Racing(e)) /\ Cardinality(Racing(e)) \in Nat
    BY <1>1, ScanAssumption, FS_Subset, FS_CardinalityType
  <1>3. Straying(e) \in SUBSET late /\ IsFiniteSet(late)
    BY DEF Straying, IInv, LateFits
  <1>4. IsFiniteSet(Straying(e)) /\ Cardinality(Straying(e)) \in Nat
    BY <1>3, FS_Subset, FS_CardinalityType
  <1>5. races[e] \in Nat
    BY DEF IInv, TypeOK
  <1>6. InFlight(e) \in Nat
    BY <1>2, <1>4 DEF InFlight
  <1>7. CASE InFlight(e) = 0 /\ Cardinality(CountedIn(bucket, e)) <= FileLimit
    <2>1. Races(e) = 1
      BY <1>7 DEF Races
    <2>2. QED
      BY <1>2, <1>4, <1>5, <1>6, <1>7, <2>1
  <1>8. CASE ~(InFlight(e) = 0 /\ Cardinality(CountedIn(bucket, e)) <= FileLimit)
    <2>1. Races(e) = IF InFlight(e) + 1 > races[e] THEN InFlight(e) + 1 ELSE races[e]
      BY <1>8 DEF Races
    <2> HIDE DEF InFlight
    <2>2. Races(e) \in Nat \ {0} /\ Races(e) >= InFlight(e) + 1 /\ Races(e) >= races[e]
      BY <1>5, <1>6, <2>1
    <2>3. QED
      BY <1>2, <1>4, <1>5, <1>6, <2>2
  <1>9. QED
    BY <1>7, <1>8

LEMMA CreateKept ==
  ASSUME IInv, OtherStep
  PROVE  CreateType' /\ \A c \in Creators : CreateFits(c)'
  <1>1. CreateType /\ (\A c \in Creators : CreateFits(c)) /\ BoundsType
    BY TypeParts DEF IInv
  <1>2. CASE \E k \in Keys : Overwrite(k) \/ Remove(k) \/ Seed(k)
    <2>1. UNCHANGED create
      BY <1>2 DEF Overwrite, Remove, Seed
    <2>2. QED
      BY <1>1, <2>1 DEF create, CreateType, CreateFits
  <1>3. CASE \E c \in Creators : (\E k \in NewFiles : CreateFile(c, k)) \/ Create(c)
    <2>1. PICK c \in Creators : (\E k \in NewFiles : CreateFile(c, k)) \/ Create(c)
      BY <1>3
    <2>2. 0 \in 0..NKeys
      BY Constants
    <2>3. CASE \E k \in NewFiles : CreateFile(c, k)
      <3>1. PICK k \in NewFiles : CreateFile(c, k)
        BY <2>3
      <3>2. k \in 0..NKeys /\ EntityOf[k] \in Entities
        BY Constants
      <3>3. races' \in [Entities -> Nat \ {0}]
        BY <1>1, <3>1, <3>2, RacesCount DEF CreateFile, CreateType
      <3>4. QED
        BY <1>1, <2>2, <3>1, <3>2, <3>3 DEF CreateFile, CreateType, CreateFits
    <2>4. CASE CountPage(c)
      <3>1. cpc[c] = "count" /\ count[c] \in Nat
        BY <1>1, <2>4, CountSteps DEF CreateType
      <3>2. PICK p : /\ Counts(p) \in Nat
                     /\ count' = [count EXCEPT ![c] = count[c] + Counts(p)]
                     /\ \/ cpc' = [cpc EXCEPT ![c] = "get"] /\ UNCHANGED after
                        \/ cpc' = [cpc EXCEPT ![c] = "put"] /\ UNCHANGED after
                        \/ /\ after' = [after EXCEPT ![c] = p[Len(p)].key]
                           /\ p[Len(p)].key \in 1..NKeys /\ UNCHANGED cpc
        BY <2>4, CountSteps
      <3>3. UNCHANGED <<target, canswer, late, races>>
        BY <2>4, CountSteps DEF CountPage
      <3>4. count[c] + Counts(p) \in Nat
        BY <3>1, <3>2
      <3>5. CreateType'
        <4>1. count' \in [Creators -> Nat]
          BY <1>1, <3>2, <3>4 DEF CreateType
        <4>2. cpc' \in [Creators -> {"idle", "count", "get", "put"}]
          BY <1>1, <3>2 DEF CreateType
        <4>3. after' \in [Creators -> 0..NKeys]
          <5>1. \A k \in 1..NKeys : k \in 0..NKeys
            BY Constants
          <5>2. QED
            BY <1>1, <3>2, <5>1 DEF CreateType
        <4>4. QED
          BY <1>1, <3>3, <4>1, <4>2, <4>3 DEF CreateType
      <3>6. \A d \in Creators : CreateFits(d)'
        BY <1>1, <3>1, <3>2, <3>3 DEF CreateType, CreateFits
      <3>7. QED
        BY <3>5, <3>6
    <2>5. CASE CapGet(c) \/ CreatePut(c) \/ CreateFails(c) \/ CreatePutFails(c)
      <3>1. PICK how \in {"created", "refused", "exists", "quota", "unavailable"} : Answers(c, how)
        BY <2>5 DEF CapGet, CreatePut, CreateFails, CreatePutFails
      <3>2. races' = races
        BY <2>5 DEF CapGet, CreatePut, CreateFails, CreatePutFails
      <3>3. late' \subseteq [fault : 1..MaxFaults, key : NewFiles]
        <4>1. CASE late' = late \cup {[fault |-> faults', key |-> target[c]]}
                   /\ cpc[c] = "put" /\ Fails
          <5>1. faults' \in 1..MaxFaults
            BY <1>1, <4>1, Constants DEF Fails, BoundsType
          <5>2. target[c] \in NewFiles
            BY <1>1, <4>1 DEF CreateFits
          <5>3. QED
            BY <1>1, <4>1, <5>1, <5>2 DEF CreateType
        <4>2. CASE late' = late
          BY <1>1, <4>2 DEF CreateType
        <4>3. QED
          BY <2>5, <4>1, <4>2 DEF CapGet, CreatePut, CreateFails, CreatePutFails
      <3>4. QED
        BY <1>1, <2>2, <3>1, <3>2, <3>3 DEF Answers, CreateType, CreateFits
    <2>6. CASE CreateResent(c)
      BY <1>1, <2>6 DEF CreateResent, create, CreateType, CreateFits
    <2>7. QED
      BY <2>1, <2>3, <2>4, <2>5, <2>6 DEF Create
  <1>4. CASE LatePut
    BY <1>1, <1>4 DEF LatePut, CreateType, CreateFits
  <1>5. QED
    BY <1>2, <1>3, <1>4 DEF OtherStep

LEMMA BoundsMove ==
  ASSUME Next
  PROVE  (BeginCall \/ UNCHANGED calls) /\ (Fails \/ UNCHANGED faults)
  <1>1. CASE \E s \in Scans : Begin(s.kind, s.of)
    BY <1>1 DEF Begin
  <1>2. CASE Drain
    BY <1>2 DEF Drain, DrainPage, DrainLastPage, DrainRaises, bounds
  <1>3. CASE ExportPage \/ GetBlob \/ Download \/ ExportEnd
    BY <1>3 DEF ExportPage, GetBlob, Download, ExportEnd, bounds
  <1>4. CASE PurgePage \/ PurgeDeletes \/ PassEnds \/ LastLook
    BY <1>4 DEF PurgePage, PurgeDeletes, PassEnds, LastLook, bounds
  <1>5. CASE Invalidate
    BY <1>5 DEF Invalidate
  <1>6. CASE StorageFails \/ PurgeFails
    BY <1>6 DEF StorageFails, PurgeFails
  <1>7. CASE \E k \in Keys : Overwrite(k) \/ Remove(k) \/ Seed(k)
    BY <1>7 DEF Overwrite, Remove, Seed, Disturb
  <1>8. CASE \E c \in Creators : (\E k \in NewFiles : CreateFile(c, k)) \/ Create(c)
    BY <1>8 DEF CreateFile, Create, CountPage, CapGet, CreatePut, CreateFails, CreateResent,
              CreatePutFails, bounds
  <1>9. CASE LatePut
    BY <1>9 DEF LatePut, bounds
  <1>10. QED
    BY <1>1, <1>2, <1>3, <1>4, <1>5, <1>6, <1>7, <1>8, <1>9, Movers
    DEF ScanStep, Scan, OtherStep

LEMMA BoundsKept ==
  ASSUME BoundsType, Next
  PROVE  BoundsType'
  BY BoundsMove, Constants DEF BoundsType, BeginCall, Fails

(* A put set adrift is known by a fault of its own. *)
LEMMA LateKept ==
  ASSUME IInv, BoundsType, Next
  PROVE  LateFits'
  <1>1. LateFits
    BY DEF IInv
  <1>2. faults \in Nat /\ faults' \in Nat /\ faults <= faults'
    BY BoundsMove, Constants DEF BoundsType, Fails
  <1>3. \A s \in late : s.fault \in Nat
    BY Constants DEF IInv, TypeOK
  <1>4. CASE late' \subseteq late
    <2>1. IsFiniteSet(late')
      BY <1>1, <1>4, FS_Subset DEF LateFits
    <2>2. QED
      BY <1>1, <1>2, <1>3, <1>4, <2>1 DEF LateFits
  <1>5. ASSUME NEW c \in Creators, late' = late \cup {[fault |-> faults', key |-> target[c]]}
        PROVE  LateFits'
    <2>1. IsFiniteSet(late')
      BY <1>1, <1>5, FS_AddElement DEF LateFits
    <2>2. QED
      BY <1>1, <1>2, <1>3, <1>5, <2>1 DEF LateFits
  <1>6. CASE ScanStep
    BY <1>4, <1>6, ScanMoves DEF create
  <1>7. CASE OtherStep
    <2>1. CASE \E k \in Keys : Overwrite(k) \/ Remove(k) \/ Seed(k)
      BY <1>4, <2>1 DEF Overwrite, Remove, Seed, create
    <2>2. CASE LatePut
      BY <1>4, <2>2 DEF LatePut
    <2>3. ASSUME NEW c \in Creators, (\E k \in NewFiles : CreateFile(c, k)) \/ Create(c)
          PROVE  LateFits'
      <3>1. CASE CreatePutFails(c)
        BY <1>4, <1>5, <3>1 DEF CreatePutFails
      <3>2. CASE \/ \E k \in NewFiles : CreateFile(c, k)
                 \/ CountPage(c) \/ CapGet(c) \/ CreatePut(c) \/ CreateFails(c)
                 \/ CreateResent(c)
        BY <1>4, <3>2 DEF CreateFile, CountPage, CapGet, CreatePut, CreateFails, CreateResent,
                          create
      <3>3. QED
        BY <2>3, <3>1, <3>2 DEF Create
    <2>4. QED
      BY <1>7, <2>1, <2>2, <2>3 DEF OtherStep
  <1>8. QED
    BY <1>6, <1>7, Movers

LEMMA InitFits == Init => IInv
  <1> SUFFICES ASSUME Init PROVE IInv
    OBVIOUS
  <1>1. PICK S \in SUBSET Keys : bucket = [k \in Keys |-> IF k \in S THEN k ELSE 0]
    BY DEF Init
  <1>2. BucketType
    BY <1>1, Constants DEF Init, BucketType
  <1>3. 0 \in 0..NKeys /\ 0 \in 0..(GetAttempts - 1) /\ 0 \in 0..MaxPasses
        /\ 0 \in 0..MaxCalls /\ 0 \in 0..MaxFaults
    BY Constants
  <1>4. ScanType /\ CreateType /\ BoundsType
    <2>1. todo \in Seq(Entities) /\ page \in Seq(Object) /\ out \in Seq(Collected)
      BY DEF Init
    <2>2. ScanType
      BY <1>3, <2>1 DEF Init, ScanType
    <2>3. CreateType
      BY <1>3 DEF Init, CreateType
    <2>4. BoundsType
      BY <1>3 DEF Init, BoundsType
    <2>5. QED
      BY <2>2, <2>3, <2>4
  <1>5. Len(todo) = 0 /\ pc = "idle" /\ call = "none"
    BY DEF Init
  <1>6. ScanFits /\ PageFits
    BY <1>5 DEF Init, ScanFits, PageFits, Sweeping
  <1>7. \A c \in Creators : CreateFits(c)
    BY DEF Init, CreateFits
  <1>8. LateFits
    BY FS_EmptySet DEF Init, LateFits
  <1>9. QED
    BY <1>2, <1>4, <1>6, <1>7, <1>8, TypeParts DEF IInv

LEMMA StepFits == IInv /\ [Next]_vars => IInv'
  <1> SUFFICES ASSUME IInv, [Next]_vars PROVE IInv'
    OBVIOUS
  <1>1. BucketType'
    BY BucketTypeKept
  <1>2. ScanType /\ CreateType /\ BoundsType
    BY TypeParts DEF IInv
  <1>3. ScanType' /\ ScanFits' /\ PageFits'
    <2>1. CASE UNCHANGED scan
      BY <1>2, <2>1 DEF IInv, scan, ScanType, ScanFits, PageFits, Entity
    <2>2. QED
      BY <2>1, ScanKept, OtherMoves, Movers DEF vars
  <1>4. CreateType' /\ \A c \in Creators : CreateFits(c)'
    <2>1. CASE UNCHANGED create
      BY <1>2, <2>1 DEF IInv, create, CreateType, CreateFits
    <2>2. QED
      BY <2>1, ScanMoves, CreateKept, Movers DEF vars
  <1>5. BoundsType'
    BY <1>2, BoundsKept DEF vars, bounds, BoundsType
  <1>6. TypeOK'
    BY <1>1, <1>3, <1>4, <1>5, TypeParts, PTL
  <1>7. LateFits'
    BY <1>2, LateKept DEF IInv, LateFits, vars, create, bounds
  <1>8. QED
    BY <1>3, <1>4, <1>6, <1>7 DEF IInv

LEMMA AlwaysFits == Spec => []IInv
  BY InitFits, StepFits, PTL DEF Spec

(* Every variable keeps its type; in particular a get never exceeds its    *)
(* attempts and a purge its passes (core.py 1087, gcs.py 74).              *)
THEOREM TypesKept == Spec => []TypeOK
  <1>1. IInv => TypeOK
    BY DEF IInv
  <1>2. QED
    BY <1>1, AlwaysFits, PTL

-----------------------------------------------------------------------------
(* The purge: what a successful one has seen. *)

LEMMA Changes ==
  ASSUME NEW b, NEW mine \in BOOLEAN, Change(b, mine), UNCHANGED todo
  PROVE  /\ bucket' = b
         /\ Purging => /\ emptied' <=> (emptied /\ ~mine) \/ Left' = {}
                       /\ owing' <=> owing \/ mine
                       /\ written' = written + Cardinality({k \in Left' : b[k] # bucket[k]})
         /\ ~Purging => UNCHANGED <<emptied, owing, written>>
  <1>1. bucket' = b
    BY DEF Change
  <1>2. Left' = Present(b) \cap Under(Entity)
    BY <1>1 DEF Left, Entity
  <1>3. CASE Purging
    <2>1. /\ emptied' = ((emptied /\ ~mine) \/ Present(b) \cap Under(Entity) = {})
          /\ owing' = (owing \/ mine)
          /\ written' = written
               + Cardinality({k \in Present(b) \cap Under(Entity) : b[k] # bucket[k]})
      BY <1>3 DEF Change, Purging
    <2>2. QED
      BY <1>1, <1>2, <1>3, <2>1
  <1>4. CASE ~Purging
    <2>1. UNCHANGED <<emptied, owing, written>>
      BY <1>4 DEF Change, Purging
    <2>2. QED
      BY <1>1, <1>4, <2>1
  <1>5. QED
    BY <1>3, <1>4

(* The scanner's steps that are not a purge's leave its history alone. *)
LEMMA NotPurging ==
  ASSUME IInv, call # "purge", Scan
  PROVE  UNCHANGED <<call, bucket, gens, emptied, owing, written>>
  <1>1. CASE Drain
    BY <1>1 DEF Drain, DrainPage, DrainLastPage, DrainRaises, Raises, history
  <1>2. CASE ExportPage \/ GetBlob \/ ExportEnd
    BY <1>2 DEF ExportPage, GetBlob, ExportEnd, history
  <1>3. CASE Download
    BY <1>3 DEF Download, Downloaded, AnotherAttempt, Raises, history
  <1>4. CASE StorageFails
    BY <1>4 DEF StorageFails, Raises
  <1>5. CASE PurgePage \/ PurgeDeletes \/ PassEnds \/ LastLook \/ Invalidate \/ PurgeFails
    BY <1>5 DEF PurgePage, PurgeDeletes, PassEnds, LastLook, Invalidate, PurgeFails, At
  <1>6. QED
    BY <1>1, <1>2, <1>3, <1>4, <1>5 DEF Scan

LEMMA NotYetPurging ==
  ASSUME IInv, NEW s \in Scans, Begin(s.kind, s.of)
  PROVE  /\ ~Purging /\ UNCHANGED bucket
         /\ call' = s.kind /\ pc' = "list" /\ cursor' = 0 /\ page' = <<>> /\ out' = <<>>
         /\ found' = FALSE /\ passes' = 0 /\ answer' = "none"
         /\ owing' = FALSE /\ written' = 0
         /\ s.kind \in {"index", "export", "purge"} /\ s.of \in SUBSET Entities
         /\ todo' \in Seq(Entities) /\ todo' # <<>> /\ Entity' \in s.of
         /\ \A i \in 1..Len(todo') : todo'[i] \in s.of
         /\ \A e \in s.of : \E i \in 1..Len(todo') : todo'[i] = e
         /\ s.kind # "index" => s.of = {Entity'}
         /\ emptied' <=> s.kind = "purge" /\ \A e \in s.of : Present(bucket) \cap Under(e) = {}
         /\ s.kind # "purge" => /\ stable' = {k \in Present(bucket) : EntityOf[k] \in s.of}
                                /\ lived' = Versions(bucket)
  <1>1. /\ s.kind \in {"index", "export", "purge"}
        /\ s.of \in SUBSET Entities /\ s.of # {}
        /\ s.kind = "index" \/ Cardinality(s.of) = 1
    BY ScanAssumption
  <1>2. /\ ~Purging /\ UNCHANGED bucket
        /\ call' = s.kind /\ pc' = "list" /\ cursor' = 0 /\ page' = <<>> /\ out' = <<>>
        /\ found' = FALSE /\ passes' = 0 /\ answer' = "none"
        /\ owing' = FALSE /\ written' = 0 /\ todo' = Ascending[s.of]
    BY DEF Begin, Purging
  <1>3. emptied' = (s.kind = "purge" /\ \A e \in s.of : Present(bucket) \cap Under(e) = {})
    BY DEF Begin
  <1>4. s.kind # "purge" => /\ stable' = {k \in Present(bucket) : EntityOf[k] \in s.of}
                            /\ lived' = Versions(bucket)
    BY DEF Begin
  <1>5. /\ todo' \in Seq(Entities) /\ todo' # <<>>
        /\ \A i \in 1..Len(todo') : todo'[i] \in s.of
        /\ \A e \in s.of : \E i \in 1..Len(todo') : todo'[i] = e
    BY <1>1, <1>2, Tours
  <1>6. Entity' \in s.of
    <2>1. 1 \in 1..Len(todo')
      BY <1>5
    <2>2. QED
      BY <1>5, <2>1 DEF Entity
  <1>7. ASSUME s.kind # "index" PROVE s.of = {Entity'}
    <2>1. IsFiniteSet(s.of) /\ Cardinality(s.of) = 1
      <3>1. IsFiniteSet(Entities)
        BY ListingAssumption, FS_Interval DEF Entities
      <3>2. QED
        BY <1>1, <1>7, <3>1, FS_Subset
    <2>2. PICK e : s.of = {e}
      BY <2>1, FS_Singleton
    <2>3. QED
      BY <1>6, <2>2
  <1>8. QED
    BY <1>1, <1>2, <1>3, <1>4, <1>5, <1>6, <1>7

LEMMA EmptyStaysKnown == IInv /\ EmptyIsKnown /\ [Next]_vars => EmptyIsKnown'
  <1> SUFFICES ASSUME IInv, EmptyIsKnown, [Next]_vars PROVE EmptyIsKnown'
    OBVIOUS
  <1>1. ScanType /\ ScanFits
    BY TypeParts DEF IInv
  <1>2. CASE UNCHANGED <<bucket, scan, emptied, owing>>
    BY <1>2 DEF EmptyIsKnown, Purging, Left, Entity, scan
  <1>3. CASE OtherStep
    <2>1. UNCHANGED scan /\ (Quiet \/ Disturbed)
      BY <1>3, OtherMoves
    <2>2. CASE Quiet
      BY <1>2, <2>1, <2>2 DEF Quiet
    <2>3. CASE Disturbed
      <3>1. PICK b : Change(b, FALSE)
        BY <2>3 DEF Disturbed, Put, Drop
      <3>2. UNCHANGED <<call, pc, todo, cursor, found, answer>>
        BY <2>1 DEF scan
      <3>3. /\ Purging => (emptied' <=> emptied \/ Left' = {}) /\ (owing' <=> owing)
            /\ ~Purging => UNCHANGED <<emptied, owing>>
        BY <3>1, <3>2, Changes
      <3>4. QED
        BY <3>2, <3>3 DEF EmptyIsKnown, Purging
    <2>4. QED
      BY <2>1, <2>2, <2>3
  <1>4. CASE \E s \in Scans : Begin(s.kind, s.of)
    <2>1. PICK s \in Scans : Begin(s.kind, s.of)
      BY <1>4
    <2>2. /\ call' = s.kind /\ pc' = "list" /\ cursor' = 0 /\ answer' = "none" /\ owing' = FALSE
          /\ UNCHANGED bucket
          /\ s.kind # "index" => s.of = {Entity'}
          /\ emptied' <=> s.kind = "purge" /\ \A e \in s.of : Present(bucket) \cap Under(e) = {}
      BY <2>1, NotYetPurging
    <2>3. Left' = Present(bucket) \cap Under(Entity')
      BY <2>2 DEF Left
    <2>4. QED
      BY <2>2, <2>3 DEF EmptyIsKnown, Purging
  <1>5. CASE Scan /\ call # "purge"
    BY <1>5, NotPurging DEF EmptyIsKnown, Purging
  <1>6. CASE PurgePage
    <2>1. PICK p \in {ListPage(bucket, Entity, cursor, PageSize)} :
            Proceed(p, Cursor(p)) /\ cursor' = Cursor(p) /\ found' = (found \/ p # <<>>)
      BY <1>6 DEF PurgePage
    <2>2. /\ call = "purge" /\ pc = "list"
          /\ UNCHANGED <<call, todo, answer, bucket, emptied, owing>>
      BY <1>6 DEF PurgePage, At, history
    <2>3. /\ p \in Seq(Object) /\ Len(p) \in Nat /\ Len(p) <= PageSize
          /\ \A k \in Left : k > cursor =>
               \/ \E i \in 1..Len(p) : p[i].key = k
               \/ Len(p) = PageSize
      BY <2>1, <2>2, Constants, NextPage
    <2>4. Cursor(p) \in 0..NKeys /\ (Cursor(p) # 0 => p # <<>>)
      BY <2>3, CursorOf
    <2>5. \/ pc' = "object" /\ p # <<>>
          \/ pc' = "list" /\ p = <<>> /\ Cursor(p) # 0
          \/ pc' = "end" /\ p = <<>> /\ Cursor(p) = 0
      BY <2>1, <2>3, <2>4, Proceeds
    <2>6. Left' = Left
      BY <2>2 DEF Left, Entity
    <2>7. ASSUME p = <<>>, ~found PROVE Left = {}
      <3>1. cursor = 0
        BY <2>2, <2>7 DEF EmptyIsKnown, Purging
      <3>2. Len(p) = 0 /\ PageSize >= 1
        BY <2>7, Constants
      <3>3. \A k \in Left : k \in Nat /\ k > 0
        BY Constants DEF Left, Present
      <3>4. QED
        BY <2>3, <3>1, <3>2, <3>3
    <2>8. QED
      BY <2>1, <2>2, <2>4, <2>5, <2>6, <2>7 DEF EmptyIsKnown, Purging
  <1>7. CASE PurgeDeletes
    <2>1. /\ call = "purge" /\ pc = "object" /\ Proceed(Tail(page), cursor)
          /\ UNCHANGED <<call, todo, cursor, found, answer>>
      BY <1>7 DEF PurgeDeletes, At
    <2>2. pc' \in {"object", "list", "end"}
      BY <2>1 DEF Proceed
    <2>3. found
      BY <2>1 DEF EmptyIsKnown, Purging
    <2>4. \/ \E b : Change(b, TRUE)
          \/ UNCHANGED <<bucket, emptied, owing>>
      BY <1>7 DEF PurgeDeletes, Drop, history
    <2>5. CASE \E b : Change(b, TRUE)
      <3>1. PICK b : Change(b, TRUE)
        BY <2>5
      <3>2. emptied' <=> Left' = {}
        BY <2>1, <3>1, Changes DEF Purging
      <3>3. QED
        BY <2>1, <2>2, <2>3, <3>2 DEF EmptyIsKnown, Purging
    <2>6. CASE UNCHANGED <<bucket, emptied, owing>>
      <3>1. Left' = Left
        BY <2>1, <2>6 DEF Left, Entity
      <3>2. QED
        BY <2>1, <2>2, <2>3, <2>6, <3>1 DEF EmptyIsKnown, Purging
    <2>7. QED
      BY <2>4, <2>5, <2>6
  <1>8. CASE PassEnds
    <2>1. /\ call = "purge" /\ pc = "end" /\ cursor = 0
          /\ UNCHANGED <<call, todo, cursor, bucket, emptied, owing>>
      BY <1>1, <1>8 DEF PassEnds, At, history, ScanFits
    <2>2. answer = "none"
      BY <1>1, <2>1 DEF ScanFits, Sweeping
    <2>3. \/ ~found /\ answer' = "ok" /\ pc' = "invalidate" /\ UNCHANGED <<found, passes>>
          \/ /\ found' = FALSE /\ UNCHANGED answer /\ pc' \in {"list", "last"}
      BY <1>8 DEF PassEnds
    <2>4. Left' = Left
      BY <2>1 DEF Left, Entity
    <2>5. QED
      BY <2>1, <2>2, <2>3, <2>4 DEF EmptyIsKnown, Purging
  <1>9. CASE LastLook
    <2>1. /\ call = "purge" /\ pc = "last" /\ pc' = "invalidate"
          /\ answer' = IF ListPage(bucket, Entity, 0, 1) = <<>> THEN "ok" ELSE "incomplete"
          /\ UNCHANGED <<call, todo, cursor, found, bucket, emptied, owing>>
      BY <1>9 DEF LastLook, At, history
    <2>2. ASSUME ListPage(bucket, Entity, 0, 1) = <<>> PROVE Left = {}
      <3>1. bucket \in [Keys -> Nat]
        BY DEF IInv, TypeOK
      <3>2. QED
        BY <2>2, <3>1, LookSees DEF Left
    <2>3. Left' = Left
      BY <2>1 DEF Left, Entity
    <2>4. QED
      BY <2>1, <2>2, <2>3 DEF EmptyIsKnown, Purging
  <1>10. CASE Invalidate
    <2>1. /\ call = "purge" /\ pc = "invalidate" /\ pc' = "idle" /\ UNCHANGED <<call, emptied>>
          /\ owing' = FALSE
          /\ answer' = answer \/ answer' = IF answer = "ok" THEN "cacheError" ELSE answer
      BY <1>10 DEF Invalidate, At, Ends
    <2>2. answer \in {"ok", "incomplete", "unavailable"}
      BY <1>1, <2>1 DEF ScanFits
    <2>3. QED
      BY <2>1, <2>2 DEF EmptyIsKnown, Purging
  <1>11. CASE PurgeFails
    <2>1. /\ call = "purge" /\ pc \in {"list", "object", "last"}
          /\ answer' = "unavailable" /\ pc' = "invalidate"
          /\ UNCHANGED <<call, todo, cursor, found>>
      BY <1>11 DEF PurgeFails, AbandonPurge
    <2>2. \/ UNCHANGED <<bucket, emptied, owing>>
          \/ pc = "object" /\ \E b : Change(b, TRUE)
      BY <1>11 DEF PurgeFails, Drop, history
    <2>3. CASE UNCHANGED <<bucket, emptied, owing>>
      <3>1. Left' = Left
        BY <2>1, <2>3 DEF Left, Entity
      <3>2. QED
        BY <2>1, <2>3, <3>1 DEF EmptyIsKnown, Purging
    <2>4. CASE pc = "object" /\ \E b : Change(b, TRUE)
      <3>1. PICK b : Change(b, TRUE)
        BY <2>4
      <3>2. emptied' <=> Left' = {}
        BY <2>1, <3>1, Changes DEF Purging
      <3>3. found
        BY <2>1, <2>4 DEF EmptyIsKnown, Purging
      <3>4. QED
        BY <2>1, <3>2, <3>3 DEF EmptyIsKnown, Purging
    <2>5. QED
      BY <2>2, <2>3, <2>4
  <1>12. CASE UNCHANGED vars
    BY <1>2, <1>12 DEF vars, history
  <1>13. CASE Scan /\ call = "purge"
    BY <1>6, <1>7, <1>8, <1>9, <1>10, <1>11, <1>13
       DEF Scan, Drain, ExportPage, GetBlob, Download, ExportEnd, StorageFails, At
  <1>14. QED
    BY <1>3, <1>4, <1>5, <1>12, <1>13, Movers DEF ScanStep

(* A purge that returns has had the entity empty at an instant after its   *)
(* last delete, and no exit leaves one of its deletes without an           *)
(* invalidation after it, whatever others write and whatever fails         *)
(* (core.py 1081-1129).                                                    *)
THEOREM PurgesErase == Spec => []PurgeErases
  <1>1. Init => EmptyIsKnown
    BY DEF Init, EmptyIsKnown, Purging
  <1>2. EmptyIsKnown => PurgeErases
    BY DEF EmptyIsKnown, Purging, PurgeErases
  <1>3. QED
    BY <1>1, <1>2, AlwaysFits, EmptyStaysKnown, PTL DEF Spec

-----------------------------------------------------------------------------
(* The purge: what one that gives up has met. *)

(* A put under the entity is counted, and nothing else is. *)
LEMMA PutsCount ==
  ASSUME IInv, Purging, UNCHANGED todo, NEW k \in Keys, Put(k)
  PROVE  /\ Left' = IF k \in Under(Entity) THEN Left \cup {k} ELSE Left
         /\ \A j \in Keys \ {k} : bucket'[j] = bucket[j]
         /\ written' = IF k \in Under(Entity) THEN written + 1 ELSE written + 0
  <1>1. BucketType
    BY TypeParts DEF IInv
  <1>2. /\ bucket'[k] = gens + 1 /\ \A j \in Keys \ {k} : bucket'[j] = bucket[j]
        /\ Present(bucket') = Present(bucket) \cup {k}
    BY <1>1, PutMakes
  <1>3. Left' = IF k \in Under(Entity) THEN Left \cup {k} ELSE Left
    BY <1>2 DEF Left, Entity
  <1>4. PICK b : Change(b, FALSE)
    BY DEF Put
  <1>5. bucket' = b /\ written' = written + Cardinality({j \in Left' : b[j] # bucket[j]})
    BY <1>4, Changes
  <1>6. {j \in Left' : b[j] # bucket[j]} = IF k \in Under(Entity) THEN {k} ELSE {}
    <2>1. bucket[k] \in 0..gens /\ gens \in Nat
      BY <1>1 DEF BucketType
    <2>2. b[k] # bucket[k]
      BY <1>2, <1>5, <2>1
    <2>3. Left \subseteq Keys /\ Left \subseteq Under(Entity)
      BY DEF Left, Present
    <2>4. QED
      BY <1>2, <1>3, <1>5, <2>2, <2>3
  <1>7. QED
    BY <1>2, <1>3, <1>5, <1>6, FS_Singleton, FS_EmptySet

LEMMA DropsDoNotCount ==
  ASSUME IInv, Purging, UNCHANGED todo, NEW k \in Keys, NEW mine \in BOOLEAN, Drop(k, mine)
  PROVE  /\ Left' = Left \ {k}
         /\ \A j \in Keys \ {k} : bucket'[j] = bucket[j]
         /\ written' = written + 0
  <1>1. BucketType
    BY TypeParts DEF IInv
  <1>2. /\ \A j \in Keys \ {k} : bucket'[j] = bucket[j]
        /\ Present(bucket') = Present(bucket) \ {k}
    BY <1>1, DropMakes
  <1>3. Left' = Left \ {k}
    BY <1>2 DEF Left, Entity
  <1>4. PICK b : Change(b, mine)
    BY DEF Drop
  <1>5. bucket' = b /\ written' = written + Cardinality({j \in Left' : b[j] # bucket[j]})
    BY <1>4, Changes
  <1>6. {j \in Left' : b[j] # bucket[j]} = {}
    <2>1. Left \subseteq Keys
      BY DEF Left, Present
    <2>2. QED
      BY <1>2, <1>3, <1>5, <2>1
  <1>7. QED
    BY <1>2, <1>3, <1>5, <1>6, FS_EmptySet

(* What the passes owe, said of a state in which a pass goes on. *)
LEMMA PassesStayPaid == IInv /\ EmptyIsKnown /\ PassesArePaid /\ [Next]_vars => PassesArePaid'
  <1> SUFFICES ASSUME IInv, EmptyIsKnown, PassesArePaid, [Next]_vars PROVE PassesArePaid'
    OBVIOUS
  <1> USE DEF Sweeping
  <1>1. /\ ScanType /\ ScanFits /\ passes \in Nat /\ MaxPasses \in Nat
        /\ written \in Nat
    BY TypeParts, Constants DEF IInv, ScanType, PassesArePaid
  <1>2. CASE UNCHANGED <<bucket, scan, written>>
    BY <1>2 DEF PassesArePaid, Purging, Left, Entity, ToSweep, scan
  <1>3. CASE OtherStep
    <2>1. UNCHANGED scan /\ (Quiet \/ Disturbed)
      BY <1>3, OtherMoves
    <2>2. UNCHANGED <<call, pc, todo, cursor, page, found, passes, answer>>
      BY <2>1 DEF scan
    <2>3. CASE Quiet
      BY <1>2, <2>1, <2>3 DEF Quiet
    <2>4. CASE Disturbed /\ ~Purging
      <3>1. PICK b : Change(b, FALSE)
        BY <2>4 DEF Disturbed, Put, Drop
      <3>2. written' = written
        BY <2>2, <2>4, <3>1, Changes
      <3>3. QED
        BY <2>2, <2>4, <3>2 DEF PassesArePaid, Purging
    <2>5. ASSUME Purging, NEW k \in Keys, Put(k) PROVE PassesArePaid'
      <3>1. /\ Left' = IF k \in Under(Entity) THEN Left \cup {k} ELSE Left
            /\ \A j \in Keys \ {k} : bucket'[j] = bucket[j]
            /\ written' = IF k \in Under(Entity) THEN written + 1 ELSE written + 0
        BY <2>2, <2>5, PutsCount
      <3>2. CASE k \in Under(Entity)
        BY <1>1, <2>2, <3>1, <3>2 DEF PassesArePaid, Purging
      <3>3. CASE k \notin Under(Entity)
        <4>1. Left' = Left /\ written' = written
          BY <1>1, <3>1, <3>3
        <4>2. \A j \in Left : bucket'[j] = bucket[j]
          BY <3>1, <3>3 DEF Left, Present
        <4>3. ToSweep' = ToSweep
          BY <2>2, <4>1, <4>2 DEF ToSweep
        <4>4. QED
          BY <2>2, <4>1, <4>3 DEF PassesArePaid, Purging
      <3>4. QED
        BY <3>2, <3>3
    <2>6. ASSUME Purging, NEW k \in Keys, Drop(k, FALSE) PROVE PassesArePaid'
      <3>1. /\ Left' = Left \ {k} /\ \A j \in Keys \ {k} : bucket'[j] = bucket[j]
            /\ written' = written
        <4>1. /\ Left' = Left \ {k} /\ \A j \in Keys \ {k} : bucket'[j] = bucket[j]
              /\ written' = written + 0
          BY <2>2, <2>6, DropsDoNotCount
        <4>2. QED
          BY <1>1, <4>1
      <3>2. ASSUME NEW j \in Left', j \in ToSweep PROVE j \in ToSweep'
        <4>1. bucket'[j] = bucket[j]
          BY <3>1 DEF Left, Present
        <4>2. QED
          BY <2>2, <3>1, <3>2, <4>1 DEF ToSweep
      <3>3. Left' \ ToSweep' \subseteq Left \ ToSweep
        BY <3>1, <3>2
      <3>4. QED
        BY <2>2, <3>1, <3>3 DEF PassesArePaid, Purging
    <2>7. QED
      BY <2>1, <2>3, <2>4, <2>5, <2>6 DEF Disturbed
  <1>4. CASE \E s \in Scans : Begin(s.kind, s.of)
    <2>1. PICK s \in Scans : Begin(s.kind, s.of)
      BY <1>4
    <2>2. /\ pc' = "list" /\ found' = FALSE /\ passes' = 0 /\ answer' = "none" /\ written' = 0
      BY <2>1, NotYetPurging
    <2>3. QED
      BY <2>2 DEF PassesArePaid
  <1>5. CASE Scan /\ call # "purge"
    <2>1. UNCHANGED <<call, written>>
      BY <1>5, NotPurging
    <2>2. pc' # "last"
      <3>1. ScanFits'
        BY <1>5, ScanKept DEF ScanStep
      <3>2. QED
        BY <1>5, <2>1, <3>1 DEF ScanFits
    <2>3. QED
      BY <1>1, <1>5, <2>1, <2>2 DEF PassesArePaid, Purging
  <1>6. CASE PurgePage
    <2>1. PICK p \in {ListPage(bucket, Entity, cursor, PageSize)} :
            Proceed(p, Cursor(p)) /\ cursor' = Cursor(p) /\ found' = (found \/ p # <<>>)
      BY <1>6 DEF PurgePage
    <2>2. /\ call = "purge" /\ pc = "list"
          /\ UNCHANGED <<call, todo, passes, answer, bucket, written>>
      BY <1>6 DEF PurgePage, At, history
    <2>3. /\ p \in Seq(Object) /\ Len(p) \in Nat /\ Len(p) <= PageSize
          /\ \A i \in 1..Len(p) : p[i].gen = bucket[p[i].key] /\ p[i].key \in Left
          /\ \A k \in Left : k > cursor =>
               \/ \E i \in 1..Len(p) : p[i].key = k
               \/ Len(p) = PageSize /\ \A i \in 1..Len(p) : p[i].key < k
      BY <2>1, <2>2, Constants, NextPage
    <2>4. /\ Cursor(p) \in 0..NKeys
          /\ Cursor(p) = 0 => Len(p) < PageSize
          /\ Cursor(p) # 0 => Len(p) = PageSize /\ p # <<>> /\ Cursor(p) = p[Len(p)].key
      BY <2>3, CursorOf
    <2>5. /\ page' = p
          /\ \/ pc' = "object" /\ p # <<>>
             \/ pc' = "list" /\ p = <<>> /\ Cursor(p) # 0
             \/ pc' = "end" /\ p = <<>> /\ Cursor(p) = 0
      BY <2>1, <2>3, <2>4, Proceeds
    <2>6. Left' = Left
      BY <2>2 DEF Left, Entity
    <2>7. ASSUME NEW k \in Left, k > cursor PROVE k \in ToSweep'
      <3>1. CASE \E i \in 1..Len(p) : p[i].key = k
        <4>1. PICK i \in 1..Len(p) : p[i].key = k
          BY <3>1
        <4>2. p # <<>> /\ p[i].gen = bucket[k]
          BY <2>3, <4>1
        <4>3. pc' = "object" /\ page'[i].key = k /\ page'[i].gen = bucket'[k] /\ i \in 1..Len(page')
          BY <2>2, <2>5, <4>1, <4>2
        <4>4. QED
          BY <2>6, <4>3 DEF ToSweep
      <3>2. CASE Len(p) = PageSize /\ \A i \in 1..Len(p) : p[i].key < k
        <4>1. cursor' # 0 /\ p # <<>> /\ cursor' = p[Len(p)].key
          BY <2>1, <2>3, <2>4, <3>2
        <4>2. Len(p) \in 1..Len(p)
          BY <2>3, <3>2, Constants
        <4>3. cursor' < k /\ pc' = "object"
          BY <2>5, <3>2, <4>1, <4>2
        <4>4. k \in Nat /\ cursor' \in Nat
          BY <2>1, <2>4, Constants DEF Left, Present
        <4>5. QED
          BY <2>6, <4>1, <4>3, <4>4 DEF ToSweep
      <3>3. QED
        BY <2>3, <2>7, <3>1, <3>2
    <2>8. CASE found
      <3>1. Left' \ ToSweep' \subseteq Left \ ToSweep
        BY <2>2, <2>6, <2>7 DEF ToSweep
      <3>2. QED
        BY <1>1, <2>1, <2>2, <2>5, <2>6, <2>8, <3>1 DEF PassesArePaid, Purging
    <2>9. CASE ~found
      <3>1. cursor = 0
        BY <2>2, <2>9 DEF EmptyIsKnown, Purging
      <3>2. \A k \in Left : k > cursor
        BY <3>1, Constants DEF Left, Present
      <3>3. Left' \ ToSweep' = {}
        BY <2>6, <2>7, <3>2
      <3>4. p # <<>> => Left # {}
        <4>1. p # <<>> => 1 \in 1..Len(p)
          BY <2>3
        <4>2. QED
          BY <2>3, <4>1
      <3>5. QED
        BY <1>1, <2>1, <2>2, <2>5, <2>6, <2>9, <3>3, <3>4 DEF PassesArePaid, Purging
    <2>10. QED
      BY <2>8, <2>9
  <1>7. CASE PurgeDeletes
    <2>1. /\ call = "purge" /\ pc = "object" /\ Proceed(Tail(page), cursor)
          /\ UNCHANGED <<call, todo, cursor, found, passes, answer>>
      BY <1>7 DEF PurgeDeletes, At
    <2>2. found /\ Purging
      BY <2>1 DEF EmptyIsKnown, Purging
    <2>3. /\ page \in Seq(Object) /\ Len(page) \in Nat /\ page[1].key \in Keys
          /\ Tail(page) \in Seq(Object) /\ Len(Tail(page)) = Len(page) - 1
          /\ \A i \in 1..Len(Tail(page)) : Tail(page)[i] = page[i + 1]
      BY <2>1, PageHead
    <2>4. cursor \in 0..NKeys
      BY <1>1 DEF ScanType
    <2>5. /\ page' = Tail(page)
          /\ \/ pc' = "object" /\ page' # <<>>
             \/ pc' = "list" /\ page' = <<>> /\ cursor # 0
             \/ pc' = "end" /\ page' = <<>> /\ cursor = 0
      BY <2>1, <2>3, <2>4, Proceeds
    <2>6. /\ written' = written /\ Left' \subseteq Left
          /\ \A k \in Left' : bucket'[k] = bucket[k]
          /\ bucket[page[1].key] = page[1].gen => page[1].key \notin Left'
      <3>1. CASE bucket[page[1].key] = page[1].gen
        <4>1. Drop(page[1].key, TRUE)
          BY <1>7, <3>1 DEF PurgeDeletes
        <4>2. /\ Left' = Left \ {page[1].key} /\ written' = written + 0
              /\ \A j \in Keys \ {page[1].key} : bucket'[j] = bucket[j]
          BY <2>1, <2>2, <2>3, <4>1, DropsDoNotCount
        <4>3. QED
          BY <1>1, <4>2 DEF Left, Present
      <3>2. CASE bucket[page[1].key] # page[1].gen
        <4>1. UNCHANGED <<bucket, written>>
          BY <1>7, <3>2 DEF PurgeDeletes, history
        <4>2. QED
          BY <2>1, <3>2, <4>1 DEF Left, Entity
      <3>3. QED
        BY <3>1, <3>2
    <2>7. ASSUME NEW k \in Left', k \in ToSweep PROVE k \in ToSweep'
      <3>1. CASE \E i \in 1..Len(page) : page[i].key = k /\ page[i].gen = bucket[k]
        <4>1. PICK i \in 1..Len(page) : page[i].key = k /\ page[i].gen = bucket[k]
          BY <3>1
        <4>2. i # 1
          BY <2>6, <2>7, <4>1
        <4>3. i - 1 \in 1..Len(page') /\ page'[i - 1] = page[i]
          <5>1. i - 1 \in 1..Len(Tail(page)) /\ (i - 1) + 1 = i
            BY <2>3, <4>2
          <5>2. Tail(page)[i - 1] = page[(i - 1) + 1]
            BY <2>3, <5>1
          <5>3. QED
            BY <2>5, <5>1, <5>2
        <4>4. pc' = "object"
          <5>1. Len(page') # 0
            BY <2>3, <2>5, <4>3
          <5>2. page' # <<>>
            BY <5>1
          <5>3. QED
            BY <2>5, <5>2
        <4>5. page'[i - 1].key = k /\ page'[i - 1].gen = bucket'[k]
          BY <2>6, <4>1, <4>3
        <4>6. QED
          BY <4>3, <4>4, <4>5 DEF ToSweep
      <3>2. CASE cursor # 0 /\ k > cursor
        BY <2>1, <2>5, <3>2 DEF ToSweep
      <3>3. QED
        BY <2>1, <2>7, <3>1, <3>2 DEF ToSweep
    <2>8. Left' \ ToSweep' \subseteq Left \ ToSweep
      BY <2>6, <2>7
    <2>9. pc' # "last" /\ answer' # "incomplete"
      BY <1>1, <2>1, <2>5 DEF ScanFits
    <2>10. QED
      BY <1>1, <2>1, <2>2, <2>6, <2>8, <2>9 DEF PassesArePaid, Purging
  <1>8. CASE PassEnds
    <2>1. /\ call = "purge" /\ pc = "end" /\ answer = "none"
          /\ UNCHANGED <<call, todo, bucket, written>>
      BY <1>1, <1>8 DEF PassEnds, At, history, ScanFits
    <2>2. \/ answer' = "ok" /\ pc' = "invalidate"
          \/ /\ found /\ passes' = passes + 1 /\ found' = FALSE /\ UNCHANGED answer
      BY <1>8 DEF PassEnds
    <2>3. Left' = Left /\ ToSweep = {} /\ Purging
      BY <2>1 DEF Left, Entity, ToSweep, Purging
    <2>4. found => /\ written >= passes
                   /\ Left # {} => written >= passes + 1
      BY <2>1, <2>3 DEF PassesArePaid
    <2>5. QED
      BY <1>1, <2>1, <2>2, <2>3, <2>4 DEF PassesArePaid
  <1>9. CASE LastLook
    <2>1. /\ call = "purge" /\ pc = "last" /\ pc' = "invalidate"
          /\ answer' = IF ListPage(bucket, Entity, 0, 1) = <<>> THEN "ok" ELSE "incomplete"
          /\ UNCHANGED <<call, written>>
      BY <1>9 DEF LastLook, At, history
    <2>2. ASSUME ListPage(bucket, Entity, 0, 1) # <<>> PROVE Left # {}
      <3>1. bucket \in [Keys -> Nat]
        BY DEF IInv, TypeOK
      <3>2. QED
        BY <2>2, <3>1, LookSees DEF Left
    <2>3. Left # {} => written >= MaxPasses
      BY <1>1, <2>1 DEF PassesArePaid, Purging, ScanFits
    <2>4. QED
      BY <1>1, <2>1, <2>2, <2>3 DEF PassesArePaid, Purging
  <1>10. CASE Invalidate
    <2>1. /\ call = "purge" /\ pc = "invalidate" /\ pc' = "idle" /\ UNCHANGED <<call, written>>
          /\ answer' = answer \/ answer' = IF answer = "ok" THEN "cacheError" ELSE answer
      BY <1>10 DEF Invalidate, At, Ends
    <2>2. QED
      BY <1>1, <2>1 DEF PassesArePaid, Purging
  <1>11. CASE PurgeFails
    <2>1. /\ call = "purge" /\ pc # "idle"
          /\ answer' = "unavailable" /\ pc' = "invalidate" /\ UNCHANGED todo
      BY <1>11 DEF PurgeFails, AbandonPurge
    <2>2. pc = "object" => page[1].key \in Keys
      BY PageHead
    <2>3. \/ UNCHANGED <<bucket, written>>
          \/ \E k \in Keys : Drop(k, TRUE)
      BY <1>11, <2>2 DEF PurgeFails, history
    <2>4. written' \in Nat
      <3>1. Purging /\ UNCHANGED todo
        BY <2>1 DEF Purging
      <3>2. ASSUME NEW k \in Keys, Drop(k, TRUE) PROVE written' = written + 0
        BY <3>1, <3>2, DropsDoNotCount
      <3>3. CASE UNCHANGED <<bucket, written>>
        BY <1>1, <3>3
      <3>4. CASE \E k \in Keys : Drop(k, TRUE)
        <4>1. written' = written + 0
          BY <3>2, <3>4
        <4>2. QED
          BY <1>1, <4>1
      <3>5. QED
        BY <2>3, <3>3, <3>4
    <2>5. QED
      BY <2>1, <2>4 DEF PassesArePaid
  <1>12. CASE UNCHANGED vars
    BY <1>2, <1>12 DEF vars, history
  <1>13. CASE Scan /\ call = "purge"
    BY <1>6, <1>7, <1>8, <1>9, <1>10, <1>11, <1>13
       DEF Scan, Drain, ExportPage, GetBlob, Download, ExportEnd, StorageFails, At
  <1>14. QED
    BY <1>3, <1>4, <1>5, <1>12, <1>13, Movers DEF ScanStep

(* A purge that reports itself incomplete has had a put under the entity   *)
(* for each of its passes, however the deletes, the puts and the pages     *)
(* interleave: the error never blames writers that were not there          *)
(* (core.py 1130).                                                         *)
THEOREM BlameIsFair == Spec => []IncompleteNeedsWriters
  <1>1. Init => EmptyIsKnown /\ PassesArePaid
    BY DEF Init, EmptyIsKnown, PassesArePaid, Purging
  <1>2. PassesArePaid => IncompleteNeedsWriters
    BY DEF PassesArePaid, IncompleteNeedsWriters
  <1>3. QED
    BY <1>1, <1>2, AlwaysFits, EmptyStaysKnown, PassesStayPaid, PTL DEF Spec

-----------------------------------------------------------------------------
(* The file cap. *)

(* Counting the positions of a page counts its keys. *)
LEMMA CountsAreKeys ==
  ASSUME NEW p \in Seq(Object), \A i, j \in 1..Len(p) : i < j => p[i].key < p[j].key
  PROVE  Cardinality({k \in Counted : \E i \in 1..Len(p) : p[i].key = k}) = Counts(p)
  <1> DEFINE I == {i \in DOMAIN p : p[i].key \in Counted}
             K == {k \in Counted : \E i \in 1..Len(p) : p[i].key = k}
             f == [i \in I |-> p[i].key]
  <1>1. DOMAIN p = 1..Len(p) /\ IsFiniteSet(1..Len(p)) /\ I \in SUBSET (1..Len(p))
    BY FS_Interval
  <1>2. IsFiniteSet(I)
    BY <1>1, FS_Subset
  <1>3. f \in Surjection(I, K)
    BY <1>1 DEF Surjection
  <1>4. ASSUME NEW i \in I, NEW j \in I, f[i] = f[j] PROVE i = j
    <2>1. i \in 1..Len(p) /\ j \in 1..Len(p) /\ p[i].key = p[j].key
      BY <1>1, <1>4
    <2>2. p[i] \in Object /\ p[j] \in Object
      BY <2>1
    <2>3. p[i].key \in Nat /\ p[j].key \in Nat
      BY <2>2, KeysFinite DEF Object
    <2>4. ~ (p[i].key < p[j].key) /\ ~ (p[j].key < p[i].key)
      BY <2>1, <2>3
    <2>5. ~ (i < j) /\ ~ (j < i)
      BY <2>1, <2>4
    <2>6. QED
      BY <2>1, <2>5
  <1>5. f \in Injection(I, K)
    BY <1>3, <1>4 DEF Surjection, Injection, IsInjective
  <1>6. Cardinality(K) = Cardinality(I)
    BY <1>2, <1>3, <1>5, FS_Surjection
  <1>7. QED
    BY <1>6 DEF Counts

(* What a page adds to a count. *)
LEMMA PageCounts ==
  ASSUME IInv, NEW c \in Creators, cpc[c] = "count", NEW limit \in Nat, limit >= 1,
         NEW p \in {ListPage(bucket, EntityOf[target[c]], after[c], limit)}
  PROVE  \E K \in SUBSET CountedIn(bucket, EntityOf[target[c]]) :
           /\ Cardinality(K) = Counts(p)
           /\ \A k \in K : k > after[c]
           /\ \A k \in CountedIn(bucket, EntityOf[target[c]]) \ K :
                k > after[c] => Len(p) = limit /\ k > p[Len(p)].key
           /\ Len(p) = limit => \A k \in K : k <= p[Len(p)].key
  <1> DEFINE e == EntityOf[target[c]]
             K == {k \in Counted : \E i \in 1..Len(p) : p[i].key = k}
  <1>1. /\ p \in Seq(Object) /\ Len(p) \in Nat
        /\ \A i \in 1..Len(p) :
             /\ p[i].key \in Keys /\ p[i].key > after[c]
             /\ p[i].key \in Present(bucket) \cap Under(e)
        /\ \A i, j \in 1..Len(p) : i < j => p[i].key < p[j].key
        /\ \A k \in Present(bucket) \cap Under(e) :
             k > after[c] =>
               \/ \E i \in 1..Len(p) : p[i].key = k
               \/ Len(p) = limit /\ \A i \in 1..Len(p) : p[i].key < k
    BY CountedPage
  <1>2. Cardinality(K) = Counts(p)
    BY <1>1, CountsAreKeys
  <1>3. K \in SUBSET CountedIn(bucket, e) /\ \A k \in K : k > after[c]
    BY <1>1 DEF CountedIn
  <1>4. ASSUME NEW k \in CountedIn(bucket, e) \ K, k > after[c]
        PROVE  Len(p) = limit /\ k > p[Len(p)].key
    <2>1. k \in Counted /\ k \in Present(bucket) \cap Under(e)
      BY DEF CountedIn
    <2>2. Len(p) = limit /\ \A i \in 1..Len(p) : p[i].key < k
      BY <1>1, <1>4, <2>1
    <2>3. Len(p) \in 1..Len(p)
      BY <1>1, <2>2
    <2>4. p[Len(p)].key < k /\ p[Len(p)].key \in Nat /\ k \in Nat
      BY <1>1, <2>1, <2>2, <2>3, KeysFinite DEF Present
    <2>5. QED
      BY <2>2, <2>4
  <1>5. ASSUME Len(p) = limit, NEW k \in K PROVE k <= p[Len(p)].key
    <2>1. PICK i \in 1..Len(p) : p[i].key = k
      OBVIOUS
    <2>2. Len(p) \in 1..Len(p) /\ (i = Len(p) \/ i < Len(p))
      BY <1>1, <1>5
    <2>3. p[i].key \in Nat /\ p[Len(p)].key \in Nat
      BY <1>1, <2>2, KeysFinite
    <2>4. QED
      BY <1>1, <2>1, <2>2, <2>3
  <1>6. QED
    BY <1>2, <1>3, <1>4, <1>5

LEMMA AdmittedFinite ==
  \A e, M : IsFiniteSet(Admitted(e, M)) /\ Cardinality(Admitted(e, M)) \in Nat
  <1>1. \A e, M : Admitted(e, M) \in SUBSET Creators
    BY DEF Admitted
  <1>2. QED
    BY <1>1, ScanAssumption, FS_Subset, FS_CardinalityType

LEMMA AdriftFinite ==
  ASSUME IInv, NEW e \in Entities, NEW M
  PROVE  /\ IsFiniteSet(Adrift(e, M)) /\ Cardinality(Adrift(e, M)) \in Nat
         /\ Cardinality(Adrift(e, M)) <= Cardinality(Straying(e))
  <1>1. Adrift(e, M) \in SUBSET Straying(e)
    BY DEF Adrift
  <1>2. QED
    BY <1>1, RacesCount, FS_Subset, FS_CardinalityType

(* Fewer files, creators admitted and puts adrift need no more room. *)
LEMMA RoomFor ==
  ASSUME IInv, RoomIsShared, NEW e \in Entities, NEW M \in SUBSET CountedIn(bucket, e),
         NEW A \in SUBSET Admitted(e, M), NEW S \in SUBSET Adrift(e, M)
  PROVE  /\ IsFiniteSet(A) /\ Cardinality(A) \in Nat
         /\ IsFiniteSet(S) /\ Cardinality(S) \in Nat
         /\ Cardinality(M) \in Nat /\ races[e] \in Nat
         /\ Cardinality(M) + Cardinality(A) + Cardinality(S) <= FileLimit + races[e] - 1
  <1>1. Cardinality(M) + Cardinality(Admitted(e, M)) + Cardinality(Adrift(e, M))
          <= FileLimit + races[e] - 1
    BY DEF RoomIsShared
  <1>2. /\ IsFiniteSet(A) /\ Cardinality(A) \in Nat
        /\ Cardinality(Admitted(e, M)) \in Nat /\ Cardinality(A) <= Cardinality(Admitted(e, M))
    BY AdmittedFinite, FS_Subset, FS_CardinalityType
  <1>3. /\ IsFiniteSet(S) /\ Cardinality(S) \in Nat
        /\ Cardinality(Adrift(e, M)) \in Nat /\ Cardinality(S) <= Cardinality(Adrift(e, M))
    BY AdriftFinite, FS_Subset, FS_CardinalityType
  <1>4. M \in SUBSET Keys
    BY DEF CountedIn, Present
  <1>5. Cardinality(M) \in Nat
    BY <1>4, KeysFinite
  <1>6. FileLimit \in Nat /\ races[e] \in Nat
    BY Constants, RacesCount
  <1>7. QED
    BY <1>1, <1>2, <1>3, <1>5, <1>6

(* With fewer files as many creators are admitted and puts adrift, at least. *)
LEMMA FewerFilesAdmitMore ==
  ASSUME CreateType, NEW e, NEW M \in SUBSET Keys, NEW N \in SUBSET M
  PROVE  Admitted(e, M) \subseteq Admitted(e, N) /\ Adrift(e, M) \subseteq Adrift(e, N)
  <1> SUFFICES ASSUME NEW d \in Admitted(e, M) PROVE d \in Admitted(e, N)
    BY DEF Adrift
  <1>1. /\ d \in Creators /\ cpc[d] \in {"count", "put"} /\ EntityOf[target[d]] = e
        /\ target[d] \notin N
        /\ cpc[d] = "count" => count[d] + Cardinality({k \in M : k > after[d]}) < FileLimit
    BY DEF Admitted
  <1>2. count[d] \in Nat /\ FileLimit \in Nat
    BY <1>1, Constants DEF CreateType
  <1>3. /\ {k \in N : k > after[d]} \in SUBSET {k \in M : k > after[d]}
        /\ {k \in N : k > after[d]} \in SUBSET Keys
        /\ {k \in M : k > after[d]} \in SUBSET Keys
    OBVIOUS
  <1>4. /\ IsFiniteSet({k \in M : k > after[d]})
        /\ Cardinality({k \in N : k > after[d]}) \in Nat
        /\ Cardinality({k \in M : k > after[d]}) \in Nat
    BY <1>3, KeysFinite
  <1>5. Cardinality({k \in N : k > after[d]}) <= Cardinality({k \in M : k > after[d]})
    BY <1>3, <1>4, FS_Subset
  <1>6. cpc[d] = "count" => count[d] + Cardinality({k \in N : k > after[d]}) < FileLimit
    BY <1>1, <1>2, <1>4, <1>5
  <1>7. QED
    BY <1>1, <1>6 DEF Admitted

(* A creator that a page moves on was admitted already. *)
LEMMA CountingAdmits ==
  ASSUME IInv, NEW c \in Creators, CountPage(c), NEW e \in Entities,
         NEW M \in SUBSET CountedIn(bucket, e)
  PROVE  Admitted(e, M)' \subseteq Admitted(e, M)
  <1> DEFINE AheadOf(n) == {k \in M : k > n}
  <1>1. /\ cpc[c] = "count" /\ PageLimit(c) \in Nat /\ PageLimit(c) >= 1
        /\ UNCHANGED target
    BY CountSteps
  <1>2. PICK p \in {ListPage(bucket, EntityOf[target[c]], after[c], PageLimit(c))} :
              /\ Counts(p) \in Nat
              /\ count' = [count EXCEPT ![c] = count[c] + Counts(p)]
              /\ \/ cpc' = [cpc EXCEPT ![c] = "get"] /\ UNCHANGED after
                 \/ /\ count[c] + Counts(p) < FileLimit /\ Len(p) < PageLimit(c)
                    /\ cpc' = [cpc EXCEPT ![c] = "put"] /\ UNCHANGED after
                 \/ /\ Len(p) = PageLimit(c)
                    /\ after' = [after EXCEPT ![c] = p[Len(p)].key]
                    /\ p[Len(p)].key \in 1..NKeys /\ UNCHANGED cpc
    BY CountSteps
  <1>3. PICK K \in SUBSET CountedIn(bucket, EntityOf[target[c]]) :
           /\ Cardinality(K) = Counts(p)
           /\ \A k \in CountedIn(bucket, EntityOf[target[c]]) \ K :
                k > after[c] => Len(p) = PageLimit(c) /\ k > p[Len(p)].key
    <2> DEFINE limit == PageLimit(c)
    <2>1. limit \in Nat /\ limit >= 1 /\ p \in {ListPage(bucket, EntityOf[target[c]], after[c], limit)}
      BY <1>1, <1>2
    <2> HIDE DEF limit
    <2>2. \E K \in SUBSET CountedIn(bucket, EntityOf[target[c]]) :
             /\ Cardinality(K) = Counts(p)
             /\ \A k \in CountedIn(bucket, EntityOf[target[c]]) \ K :
                  k > after[c] => Len(p) = limit /\ k > p[Len(p)].key
      BY <1>1, <2>1, PageCounts
    <2>3. QED
      BY <2>2 DEF limit
  <1>4. CreateType
    BY TypeParts DEF IInv
  <1>5. M \in SUBSET Keys /\ K \in SUBSET Keys
    BY DEF CountedIn, Present
  <1>6. \A n : IsFiniteSet(AheadOf(n)) /\ Cardinality(AheadOf(n)) \in Nat
    BY <1>5, KeysFinite
  <1>7. IsFiniteSet(K) /\ Cardinality(K) \in Nat
    BY <1>5, KeysFinite
  <1> HIDE DEF AheadOf
  <1>8. ASSUME NEW d \in Creators \ {c}, d \in Admitted(e, M)' PROVE d \in Admitted(e, M)
    <2>1. cpc'[d] = cpc[d] /\ target'[d] = target[d] /\ count'[d] = count[d] /\ after'[d] = after[d]
      BY <1>1, <1>2, <1>4 DEF CreateType
    <2>2. QED
      BY <1>8, <2>1 DEF Admitted
  <1>9. ASSUME c \in Admitted(e, M)' PROVE c \in Admitted(e, M)
    <2>1. EntityOf[target[c]] = e /\ target[c] \notin M /\ cpc'[c] \in {"count", "put"}
      BY <1>1, <1>9 DEF Admitted
    <2>2. \A k \in M \ K : k > after[c] => Len(p) = PageLimit(c) /\ k > p[Len(p)].key
      BY <1>3, <2>1
    <2>3. count[c] \in Nat
      BY <1>4 DEF CreateType
    <2>4. count[c] + Cardinality(AheadOf(after[c])) < FileLimit
      <3>1. CASE count[c] + Counts(p) < FileLimit /\ Len(p) < PageLimit(c)
        <4>1. Len(p) # PageLimit(c)
          <5>1. Len(p) \in Nat
            BY <1>1, <1>2, CountedPage
          <5>2. QED
            BY <1>1, <3>1, <5>1
        <4>2. AheadOf(after[c]) \in SUBSET K
          BY <2>2, <4>1 DEF AheadOf
        <4>3. Cardinality(AheadOf(after[c])) <= Cardinality(K)
          BY <1>7, <4>2, FS_Subset
        <4>4. QED
          BY <1>3, <1>6, <1>7, <2>3, <3>1, <4>3, Constants
      <3>2. CASE /\ Len(p) = PageLimit(c)
                 /\ after' = [after EXCEPT ![c] = p[Len(p)].key]
                 /\ UNCHANGED cpc
        <4>1. after'[c] = p[Len(p)].key /\ cpc'[c] = "count"
          BY <1>1, <1>4, <3>2 DEF CreateType
        <4>2. count'[c] = count[c] + Counts(p)
          BY <1>2, <1>4 DEF CreateType
        <4>3. count'[c] + Cardinality(AheadOf(after'[c])) < FileLimit
          BY <1>9, <4>1 DEF Admitted, AheadOf
        <4>4. AheadOf(after[c]) \subseteq K \cup AheadOf(after'[c])
          BY <2>2, <4>1 DEF AheadOf
        <4>5. /\ IsFiniteSet(K \cup AheadOf(after'[c]))
              /\ Cardinality(K \cup AheadOf(after'[c]))
                   = Cardinality(K) + Cardinality(AheadOf(after'[c]))
                      - Cardinality(K \cap AheadOf(after'[c]))
          BY <1>6, <1>7, FS_Union
        <4>6. Cardinality(AheadOf(after[c])) <= Cardinality(K \cup AheadOf(after'[c]))
          BY <4>4, <4>5, FS_Subset
        <4>7. Cardinality(K \cap AheadOf(after'[c])) \in Nat
          BY <1>5, KeysFinite
        <4>8. /\ Cardinality(K \cup AheadOf(after'[c])) \in Nat
              /\ Cardinality(AheadOf(after[c])) \in Nat
              /\ Cardinality(AheadOf(after'[c])) \in Nat
          BY <1>6, <4>5, FS_CardinalityType
        <4>9. FileLimit \in Nat
          BY Constants
        <4>10. QED
          BY <1>2, <1>3, <1>7, <2>3, <4>2, <4>3, <4>5, <4>6, <4>7, <4>8, <4>9
      <3>3. cpc' # [cpc EXCEPT ![c] = "get"]
        BY <1>4, <2>1 DEF CreateType
      <3>4. QED
        BY <1>2, <3>1, <3>2, <3>3
    <2>5. QED
      BY <1>1, <2>1, <2>4 DEF Admitted, AheadOf
  <1>10. Admitted(e, M)' \subseteq Creators
    BY DEF Admitted
  <1>11. QED
    BY <1>8, <1>9, <1>10

(* Where the entity gains no file, nobody is admitted anew and no put set  *)
(* adrift, the bound stays.                                                *)
LEMMA NoneGained ==
  ASSUME IInv, RoomIsShared, UNCHANGED races,
         \A e \in Entities : CountedIn(bucket, e)' \subseteq CountedIn(bucket, e),
         \A e \in Entities : \A M \in SUBSET CountedIn(bucket, e) :
           Admitted(e, M)' \subseteq Admitted(e, M),
         late' \subseteq late
  PROVE  RoomIsShared'
  <1>1. ASSUME NEW e \in Entities, NEW M \in SUBSET CountedIn(bucket', e)
        PROVE  Cardinality(M) + Cardinality(Admitted(e, M)') + Cardinality(Adrift(e, M)')
                 <= FileLimit + races'[e] - 1
    <2>1. M \in SUBSET CountedIn(bucket, e)
      OBVIOUS
    <2>2. Admitted(e, M)' \in SUBSET Admitted(e, M)
      BY <2>1
    <2>3. Adrift(e, M)' \in SUBSET Adrift(e, M)
      BY DEF Adrift, Straying
    <2>4. QED
      BY <2>1, <2>2, <2>3, RoomFor
  <1>2. QED
    BY <1>1 DEF RoomIsShared

(* Where a file is put, the bound stays if the put was one of those that   *)
(* had room: of a creator that was admitted, or adrift.                    *)
LEMMA OneLands ==
  ASSUME IInv, RoomIsShared, UNCHANGED races, NEW k \in Keys, Put(k),
         \A e \in Entities : \A M \in SUBSET Keys : Admitted(e, M)' \subseteq Admitted(e, M),
         late' \subseteq late,
         \/ \E c \in Creators : cpc[c] = "put" /\ target[c] = k
         \/ \E s \in late : s.key = k
  PROVE  RoomIsShared'
  <1>1. BucketType /\ CreateType
    BY TypeParts DEF IInv
  <1>2. Present(bucket') = Present(bucket) \cup {k}
    BY <1>1, PutMakes
  <1> SUFFICES ASSUME NEW e \in Entities, NEW M \in SUBSET CountedIn(bucket', e)
               PROVE  Cardinality(M) + Cardinality(Admitted(e, M)') + Cardinality(Adrift(e, M)')
                        <= FileLimit + races'[e] - 1
    BY DEF RoomIsShared
  <1> DEFINE N == M \ {k}
             A == Admitted(e, M)'
             S == Adrift(e, M)'
  <1>3. M \in SUBSET Keys /\ N \in SUBSET Keys
    BY DEF CountedIn, Present
  <1>4. IsFiniteSet(M) /\ Cardinality(M) \in Nat
    BY <1>3, KeysFinite
  <1>5. N \in SUBSET CountedIn(bucket, e)
    BY <1>2 DEF CountedIn
  <1>6. A \in SUBSET Admitted(e, M) /\ S \in SUBSET Adrift(e, M)
    BY <1>3 DEF Adrift, Straying
  <1>7. A \in SUBSET Admitted(e, N) /\ S \in SUBSET Adrift(e, N)
    BY <1>1, <1>3, <1>6, FewerFilesAdmitMore
  <1>8. /\ IsFiniteSet(A) /\ Cardinality(A) \in Nat /\ IsFiniteSet(S) /\ Cardinality(S) \in Nat
        /\ Cardinality(N) \in Nat /\ races[e] \in Nat
        /\ Cardinality(N) + Cardinality(A) + Cardinality(S) <= FileLimit + races[e] - 1
    BY <1>5, <1>7, RoomFor
  <1>9. FileLimit \in Nat
    BY Constants
  <1>10. CASE k \notin M
    <2>1. N = M
      BY <1>10
    <2> HIDE DEF A, N, S
    <2>2. Cardinality(M) + Cardinality(A) + Cardinality(S) <= FileLimit + races'[e] - 1
      BY <1>8, <2>1
    <2>3. QED
      BY <2>2 DEF A, S
  <1>11. CASE k \in M
    <2>1. Cardinality(N) = Cardinality(M) - 1
      BY <1>4, <1>11, FS_RemoveElement
    <2>2. EntityOf[k] = e /\ k \notin N
      BY <1>11 DEF CountedIn, Under
    <2>3. ASSUME NEW s \in late, s.key = k
          PROVE  Cardinality(M) + Cardinality(A) + Cardinality(S) <= FileLimit + races'[e] - 1
      <3>1. s \notin S
        BY <1>6, <1>11, <2>3 DEF Adrift
      <3>2. S \cup {s} \in SUBSET Adrift(e, N)
        BY <1>7, <2>2, <2>3 DEF Adrift, Straying
      <3>3. Cardinality(S \cup {s}) = Cardinality(S) + 1
        BY <1>8, <3>1, FS_AddElement
      <3> HIDE DEF A, N, S
      <3>4. Cardinality(N) + Cardinality(A) + Cardinality(S \cup {s}) <= FileLimit + races[e] - 1
        BY <1>5, <1>7, <3>2, RoomFor
      <3>5. QED
        BY <1>4, <1>8, <1>9, <2>1, <3>3, <3>4
    <2>4. ASSUME NEW c \in Creators, cpc[c] = "put", target[c] = k
          PROVE  Cardinality(M) + Cardinality(A) + Cardinality(S) <= FileLimit + races'[e] - 1
      <3>1. c \notin A
        BY <1>6, <1>11, <2>4 DEF Admitted
      <3>2. A \cup {c} \in SUBSET Admitted(e, N)
        <4>1. c \in Admitted(e, N)
          BY <2>2, <2>4 DEF Admitted
        <4>2. QED
          BY <1>7, <4>1
      <3> HIDE DEF A, N, S
      <3>3. Cardinality(A \cup {c}) = Cardinality(A) + 1
        BY <1>8, <3>1, FS_AddElement
      <3>4. Cardinality(N) + Cardinality(A \cup {c}) + Cardinality(S) <= FileLimit + races[e] - 1
        BY <1>5, <1>7, <3>2, RoomFor
      <3>5. QED
        BY <1>4, <1>8, <1>9, <2>1, <3>3, <3>4
    <2>5. QED
      BY <2>3, <2>4
  <1>12. QED
    BY <1>10, <1>11

LEMMA RoomStaysShared == IInv /\ RoomIsShared /\ [Next]_vars => RoomIsShared'
  <1> SUFFICES ASSUME IInv, RoomIsShared, [Next]_vars PROVE RoomIsShared'
    OBVIOUS
  <1>1. BucketType /\ CreateType
    BY TypeParts DEF IInv
  <1>2. FileLimit \in Nat
    BY Constants
  <1>3. ASSUME UNCHANGED create
        PROVE  (\A e, M : Admitted(e, M)' = Admitted(e, M)) /\ UNCHANGED <<late, races>>
    BY <1>3 DEF create, Admitted
  <1>4. ASSUME Present(bucket') \subseteq Present(bucket)
        PROVE  \A e \in Entities : CountedIn(bucket, e)' \subseteq CountedIn(bucket, e)
    BY <1>4 DEF CountedIn
  <1>5. ASSUME NEW k \in Keys, NEW mine, Drop(k, mine)
        PROVE  Present(bucket') \subseteq Present(bucket)
    BY <1>1, <1>5, DropMakes
  <1>6. CASE UNCHANGED <<bucket, create>>
    BY <1>3, <1>4, <1>6, NoneGained
  <1>7. CASE ScanStep
    <2>1. UNCHANGED create
      BY <1>7, ScanMoves
    <2>2. Present(bucket') \subseteq Present(bucket)
      BY <1>5, <1>7, ScanMoves
    <2>3. QED
      BY <1>3, <1>4, <2>1, <2>2, NoneGained
  <1>8. CASE \E k \in Keys : Overwrite(k) \/ Remove(k) \/ Seed(k)
    <2>1. PICK k \in Keys : Overwrite(k) \/ Remove(k) \/ Seed(k)
      BY <1>8
    <2>2. UNCHANGED create
      BY <2>1 DEF Overwrite, Remove, Seed
    <2>3. \A e \in Entities : CountedIn(bucket, e)' \subseteq CountedIn(bucket, e)
      <3>1. CASE Overwrite(k)
        <4>1. Put(k) /\ k \in Present(bucket)
          BY <3>1 DEF Overwrite, Present
        <4>2. Present(bucket') = Present(bucket) \cup {k}
          BY <1>1, <4>1, PutMakes
        <4>3. QED
          BY <1>4, <4>1, <4>2
      <3>2. CASE Remove(k)
        <4>1. Drop(k, FALSE)
          BY <3>2 DEF Remove
        <4>2. Present(bucket') \subseteq Present(bucket)
          BY <1>5, <4>1
        <4>3. QED
          BY <1>4, <4>2
      <3>3. CASE Seed(k)
        <4>1. Put(k) /\ k \notin Counted
          BY <3>3 DEF Seed
        <4>2. Present(bucket') = Present(bucket) \cup {k}
          BY <1>1, <4>1, PutMakes
        <4>3. QED
          BY <4>1, <4>2 DEF CountedIn
      <3>4. QED
        BY <2>1, <3>1, <3>2, <3>3
    <2>4. QED
      BY <1>3, <2>2, <2>3, NoneGained
  <1>9. ASSUME NEW c \in Creators, NEW k \in NewFiles, CreateFile(c, k) PROVE RoomIsShared'
    <2>1. /\ UNCHANGED <<bucket, late>> /\ target' = [target EXCEPT ![c] = k] /\ cpc[c] = "idle"
          /\ cpc' = [cpc EXCEPT ![c] = "count"] /\ count' = [count EXCEPT ![c] = 0]
          /\ after' = [after EXCEPT ![c] = 0]
          /\ races' = [races EXCEPT ![EntityOf[k]] = Races(EntityOf[k])]
      BY <1>9 DEF CreateFile
    <2>2. /\ target'[c] = k /\ cpc'[c] = "count" /\ count'[c] = 0 /\ after'[c] = 0
          /\ \A d \in Creators \ {c} :
               target'[d] = target[d] /\ cpc'[d] = cpc[d] /\ count'[d] = count[d]
                 /\ after'[d] = after[d]
          /\ \A e \in Entities :
               races'[e] = IF e = EntityOf[k] THEN Races(e) ELSE races[e]
      BY <1>1, <2>1 DEF CreateType
    <2>3. ASSUME NEW e \in Entities, NEW M \in SUBSET CountedIn(bucket', e)
          PROVE  Cardinality(M) + Cardinality(Admitted(e, M)') + Cardinality(Adrift(e, M)')
                   <= FileLimit + races'[e] - 1
      <3> DEFINE A == Admitted(e, M)'
                 S == Adrift(e, M)
      <3>1. M \in SUBSET CountedIn(bucket, e) /\ M \in SUBSET Keys /\ Adrift(e, M)' = S
        BY <2>1 DEF CountedIn, Present, Adrift, Straying
      <3>2. Cardinality(M) \in Nat
        BY <3>1, KeysFinite
      <3>3. /\ IsFiniteSet(Racing(e)) /\ Cardinality(Racing(e)) \in Nat /\ Cardinality(S) \in Nat
            /\ Cardinality(Straying(e)) \in Nat /\ Cardinality(S) <= Cardinality(Straying(e))
            /\ InFlight(e) = Cardinality(Racing(e)) + Cardinality(Straying(e))
            /\ races[e] \in Nat /\ Races(e) \in Nat /\ Races(e) >= InFlight(e) + 1
        BY RacesCount, AdriftFinite DEF InFlight
      <3>4. A \ {c} \in SUBSET Racing(e) /\ c \notin Racing(e)
        BY <2>1, <2>2 DEF Admitted, Racing
      <3>5. CASE c \in A
        <4>1. 0 + Cardinality({j \in M : j > 0}) < FileLimit /\ e = EntityOf[k]
          BY <2>2, <3>5 DEF Admitted
        <4>2. {j \in M : j > 0} = M
          <5>1. ASSUME NEW j \in M PROVE j > 0
            <6>1. j \in 1..NKeys
              BY <3>1, Constants
            <6>2. QED
              BY <6>1, Constants
          <5>2. QED
            BY <5>1
        <4>3. Cardinality(M) < FileLimit
          BY <3>2, <4>1, <4>2
        <4>4. /\ IsFiniteSet(Racing(e) \cup {c})
              /\ Cardinality(Racing(e) \cup {c}) = Cardinality(Racing(e)) + 1
          BY <3>3, <3>4, FS_AddElement
        <4>5. A \in SUBSET (Racing(e) \cup {c})
          BY <3>4
        <4> HIDE DEF A, S
        <4>6. Cardinality(A) \in Nat /\ Cardinality(A) <= Cardinality(Racing(e)) + 1
          BY <4>4, <4>5, FS_Subset, FS_CardinalityType
        <4>7. races'[e] = Races(e)
          BY <2>2, <4>1
        <4>8. Cardinality(M) + Cardinality(A) + Cardinality(S) <= FileLimit + races'[e] - 1
          BY <1>2, <3>2, <3>3, <4>3, <4>6, <4>7
        <4>9. QED
          BY <3>1, <4>8 DEF A
      <3>6. CASE c \notin A
        <4>1. A \in SUBSET Admitted(e, M) /\ A \in SUBSET Racing(e)
          <5>1. ASSUME NEW d \in A PROVE d \in Admitted(e, M)
            <6>1. d \in Creators \ {c}
              BY <3>6, <5>1 DEF Admitted
            <6>2. QED
              BY <2>2, <5>1, <6>1 DEF Admitted
          <5> HIDE DEF A
          <5>2. A \in SUBSET Racing(e)
            BY <3>4, <3>6
          <5>3. QED
            BY <5>1, <5>2
        <4>2. CASE races'[e] >= races[e]
          <5>1. S \in SUBSET Adrift(e, M)
            OBVIOUS
          <5>2. /\ Cardinality(A) \in Nat
                /\ Cardinality(M) + Cardinality(A) + Cardinality(S) <= FileLimit + races[e] - 1
            BY <3>1, <4>1, <5>1, RoomFor
          <5>3. races'[e] \in Nat
            BY <2>2, <3>3
          <5> HIDE DEF A, S
          <5>4. Cardinality(M) + Cardinality(A) + Cardinality(S) <= FileLimit + races'[e] - 1
            BY <1>2, <3>2, <3>3, <4>2, <5>2, <5>3
          <5>5. QED
            BY <3>1, <5>4 DEF A
        <4>3. CASE /\ e = EntityOf[k] /\ InFlight(e) = 0
                   /\ Cardinality(CountedIn(bucket, e)) <= FileLimit
          <5>1. Cardinality(Racing(e)) = 0 /\ Cardinality(S) = 0
            BY <3>3, <4>3
          <5>2. Racing(e) = {}
            BY <3>3, <5>1, FS_EmptySet
          <5>3. A = {} /\ Cardinality(A) = 0
            BY <4>1, <5>2, FS_EmptySet
          <5>4. CountedIn(bucket, e) \in SUBSET Keys
            BY DEF CountedIn, Present
          <5>5. /\ Cardinality(M) <= Cardinality(CountedIn(bucket, e))
                /\ Cardinality(CountedIn(bucket, e)) \in Nat
            BY <3>1, <5>4, KeysFinite, FS_Subset
          <5>6. races'[e] \in Nat /\ races'[e] >= 1
            BY <2>2, <3>3, <4>3
          <5> HIDE DEF A, S
          <5>7. Cardinality(M) + Cardinality(A) + Cardinality(S) <= FileLimit + races'[e] - 1
            BY <1>2, <3>2, <4>3, <5>1, <5>3, <5>5, <5>6
          <5>8. QED
            BY <3>1, <5>7 DEF A
        <4>4. \/ Races(e) >= races[e]
              \/ InFlight(e) = 0 /\ Cardinality(CountedIn(bucket, e)) <= FileLimit
          BY RacesCount
        <4>5. races'[e] = IF e = EntityOf[k] THEN Races(e) ELSE races[e]
          BY <2>2
        <4> HIDE DEF A, S
        <4>6. e # EntityOf[k] => races'[e] >= races[e]
          BY <3>3, <4>5
        <4>7. QED
          BY <4>2, <4>3, <4>4, <4>5, <4>6 DEF A, S
      <3>7. QED
        BY <3>5, <3>6
    <2>4. QED
      BY <2>3 DEF RoomIsShared
  <1>10. ASSUME NEW c \in Creators, CountPage(c) PROVE RoomIsShared'
    <2>1. UNCHANGED <<bucket, late, races>>
      BY <1>10 DEF CountPage
    <2>2. \A e \in Entities : \A M \in SUBSET CountedIn(bucket, e) :
            Admitted(e, M)' \subseteq Admitted(e, M)
      BY <1>10, CountingAdmits
    <2>3. QED
      BY <1>4, <2>1, <2>2, NoneGained
  <1>11. ASSUME NEW c \in Creators, NEW how, Answers(c, how)
         PROVE  \A e, M : c \notin Admitted(e, M)' /\ Admitted(e, M)' \subseteq Admitted(e, M)
    <2>1. /\ cpc' = [cpc EXCEPT ![c] = "idle"] /\ target' = [target EXCEPT ![c] = 0]
          /\ count' = [count EXCEPT ![c] = 0] /\ after' = [after EXCEPT ![c] = 0]
      BY <1>11 DEF Answers
    <2>2. /\ cpc'[c] = "idle"
          /\ \A d \in Creators \ {c} :
               target'[d] = target[d] /\ cpc'[d] = cpc[d] /\ count'[d] = count[d]
                 /\ after'[d] = after[d]
      BY <1>1, <2>1 DEF CreateType
    <2>3. QED
      BY <2>2 DEF Admitted
  <1>12. ASSUME NEW c \in Creators, CapGet(c) \/ CreateFails(c) PROVE RoomIsShared'
    <2>1. UNCHANGED <<bucket, late, races>> /\ \E how : Answers(c, how)
      BY <1>12 DEF CapGet, CreateFails
    <2>2. QED
      BY <1>4, <1>11, <2>1, NoneGained
  <1>13. ASSUME NEW c \in Creators, CreateResent(c) PROVE RoomIsShared'
    <2>1. cpc[c] = "put" /\ target[c] \in Keys /\ Put(target[c]) /\ UNCHANGED create
      BY <1>13, Constants DEF CreateResent, IInv, CreateFits
    <2>2. QED
      BY <1>3, <2>1, OneLands
  <1>14. ASSUME NEW c \in Creators, CreatePut(c) \/ CreatePutFails(c) PROVE RoomIsShared'
    <2>1. cpc[c] = "put" /\ target[c] \in Keys /\ UNCHANGED races /\ \E how : Answers(c, how)
      BY <1>14, Constants DEF CreatePut, CreatePutFails, IInv, CreateFits
    <2>2. CASE UNCHANGED <<bucket, late>>
      BY <1>4, <1>11, <2>1, <2>2, NoneGained
    <2>3. CASE Put(target[c]) /\ UNCHANGED late
      BY <1>11, <2>1, <2>3, OneLands
    <2>4. CASE UNCHANGED bucket /\ late' = late \cup {[fault |-> faults', key |-> target[c]]}
                 /\ Fails
      <3> DEFINE new == [fault |-> faults', key |-> target[c]]
      <3>1. new \notin late
        <4>1. faults \in Nat /\ faults' = faults + 1
          BY <2>4, TypeParts, Constants DEF IInv, BoundsType, Fails
        <4>2. new.fault > faults
          BY <4>1
        <4>3. \A s \in late : s.fault <= faults /\ s.fault \in Nat
          BY Constants DEF IInv, LateFits, TypeOK
        <4> HIDE DEF new
        <4>4. QED
          BY <4>1, <4>2, <4>3
      <3>2. new.key = target[c]
        OBVIOUS
      <3> HIDE DEF new
      <3>3. ASSUME NEW e \in Entities, NEW M \in SUBSET CountedIn(bucket', e)
            PROVE  Cardinality(M) + Cardinality(Admitted(e, M)') + Cardinality(Adrift(e, M)')
                     <= FileLimit + races'[e] - 1
        <4> DEFINE A == Admitted(e, M)'
                   S == Adrift(e, M)
        <4>1. M \in SUBSET CountedIn(bucket, e) /\ S \in SUBSET Adrift(e, M)
          BY <2>4
        <4>2. A \in SUBSET Admitted(e, M) /\ c \notin A
          BY <1>11, <2>1
        <4>3. /\ IsFiniteSet(A) /\ Cardinality(A) \in Nat
              /\ IsFiniteSet(S) /\ Cardinality(S) \in Nat /\ Cardinality(M) \in Nat
              /\ races[e] \in Nat
              /\ Cardinality(M) + Cardinality(A) + Cardinality(S) <= FileLimit + races[e] - 1
          BY <4>1, <4>2, RoomFor
        <4>4. CASE EntityOf[target[c]] # e \/ target[c] \in M
          <5>1. Adrift(e, M)' = S
            BY <2>4, <3>2, <4>4 DEF Adrift, Straying, new
          <5>2. QED
            BY <2>1, <4>3, <5>1
        <4>5. CASE EntityOf[target[c]] = e /\ target[c] \notin M
          <5>1. Adrift(e, M)' = S \cup {new} /\ new \notin S
            BY <2>4, <3>1, <3>2, <4>5 DEF Adrift, Straying, new
          <5>2. Cardinality(Adrift(e, M)') = Cardinality(S) + 1
            BY <4>3, <5>1, FS_AddElement
          <5>3. A \cup {c} \in SUBSET Admitted(e, M)
            BY <2>1, <4>2, <4>5 DEF Admitted
          <5>4. Cardinality(A \cup {c}) = Cardinality(A) + 1
            BY <4>2, <4>3, FS_AddElement
          <5> HIDE DEF A, S
          <5>5. Cardinality(M) + Cardinality(A \cup {c}) + Cardinality(S)
                  <= FileLimit + races[e] - 1
            BY <4>1, <5>3, RoomFor
          <5>6. Cardinality(M) + Cardinality(A) + Cardinality(Adrift(e, M)')
                  <= FileLimit + races'[e] - 1
            BY <1>2, <2>1, <4>3, <5>2, <5>4, <5>5
          <5>7. QED
            BY <5>6 DEF A
        <4>6. QED
          BY <4>4, <4>5
      <3>4. QED
        BY <3>3 DEF RoomIsShared
    <2>5. QED
      BY <1>14, <2>2, <2>3, <2>4 DEF CreatePut, CreatePutFails
  <1>15. CASE LatePut
    <2>1. PICK s \in late :
            /\ late' = late \ {s}
            /\ IF bucket[s.key] = 0 THEN Put(s.key) ELSE UNCHANGED bucket
      BY <1>15 DEF LatePut
    <2>2. UNCHANGED races /\ \A e, M : Admitted(e, M)' = Admitted(e, M)
      BY <1>15 DEF LatePut, Admitted
    <2>3. s.key \in Keys
      BY Constants DEF IInv, TypeOK
    <2>4. CASE UNCHANGED bucket
      BY <1>4, <2>1, <2>2, <2>4, NoneGained
    <2>5. CASE Put(s.key)
      BY <2>1, <2>2, <2>3, <2>5, OneLands
    <2>6. QED
      BY <2>1, <2>4, <2>5
  <1>16. CASE UNCHANGED vars
    BY <1>6, <1>16 DEF vars
  <1>17. QED
    BY <1>7, <1>8, <1>9, <1>10, <1>12, <1>13, <1>14, <1>15, <1>16, Movers
    DEF OtherStep, Create

(* Creates that race past the cap exceed it by their number at most, less  *)
(* one, the puts whose call failed and that land later among them, for any *)
(* number of creators, pages, concurrent deletes and failures              *)
(* (core.py 742, gcs.py 138).                                              *)
THEOREM RaceIsBounded == Spec => []CapHolds
  <1>1. Init => RoomIsShared
    <2> SUFFICES ASSUME Init, NEW e \in Entities, NEW M \in SUBSET CountedIn(bucket, e)
                 PROVE  Cardinality(M) + Cardinality(Admitted(e, M)) + Cardinality(Adrift(e, M))
                          <= FileLimit + races[e] - 1
      BY DEF RoomIsShared
    <2>1. PICK S \in SUBSET Keys :
            /\ Cardinality(S \cap Counted \cap Under(e)) <= FileLimit
            /\ bucket = [k \in Keys |-> IF k \in S THEN k ELSE 0]
      BY DEF Init
    <2>2. M \in SUBSET (S \cap Counted \cap Under(e))
      BY <2>1 DEF CountedIn, Present
    <2>3. S \cap Counted \cap Under(e) \in SUBSET Keys /\ M \in SUBSET Keys
      BY <2>2
    <2>4. /\ IsFiniteSet(S \cap Counted \cap Under(e))
          /\ Cardinality(S \cap Counted \cap Under(e)) \in Nat
          /\ Cardinality(M) \in Nat
      BY <2>3, KeysFinite
    <2>5. Cardinality(M) <= Cardinality(S \cap Counted \cap Under(e))
      BY <2>2, <2>4, FS_Subset
    <2>6. Admitted(e, M) = {} /\ Adrift(e, M) = {} /\ races[e] = 1
      BY DEF Init, Admitted, Adrift, Straying
    <2>7. Cardinality(Admitted(e, M)) = 0 /\ Cardinality(Adrift(e, M)) = 0
      BY <2>6, FS_EmptySet
    <2>8. QED
      BY <2>1, <2>4, <2>5, <2>6, <2>7, Constants
  <1>2. IInv /\ RoomIsShared => CapHolds
    <2> SUFFICES ASSUME IInv, RoomIsShared, NEW e \in Entities
                 PROVE  Cardinality(CountedIn(bucket, e)) <= FileLimit + races[e] - 1
      BY DEF CapHolds
    <2>1. /\ {} \in SUBSET Admitted(e, CountedIn(bucket, e))
          /\ {} \in SUBSET Adrift(e, CountedIn(bucket, e))
          /\ Cardinality({}) = 0
      BY FS_EmptySet
    <2>2. /\ Cardinality(CountedIn(bucket, e)) \in Nat /\ races[e] \in Nat
          /\ Cardinality(CountedIn(bucket, e)) + 0 + 0 <= FileLimit + races[e] - 1
      BY <2>1, RoomFor
    <2>3. QED
      BY <2>2
  <1>3. QED
    BY <1>1, <1>2, AlwaysFits, RoomStaysShared, PTL DEF Spec

-----------------------------------------------------------------------------
(* The quota error. *)

(* What changes in the bucket while a creator counts is seen by it. *)
LEMMA SeenGrows ==
  ASSUME IInv, CountIsHonest, NEW b, NEW mine, Change(b, mine)
  PROVE  /\ cseen' \in [Creators -> SUBSET Keys]
         /\ \A c \in Creators :
              /\ cpc'[c] = cpc[c] /\ target'[c] = target[c] /\ count'[c] = count[c]
              /\ after'[c] = after[c] /\ canswer'[c] = canswer[c]
              => HonestCount(c)'
         /\ \A c \in Creators : cpc[c] \notin {"count", "get"} => cseen'[c] = cseen[c]
  <1>1. /\ bucket' = b
        /\ cseen' = [c \in Creators |->
             IF cpc[c] \notin {"count", "get"} THEN cseen[c]
             ELSE cseen[c] \cup CountedIn(b, EntityOf[target[c]])]
    BY DEF Change
  <1>2. \A e : CountedIn(b, e) \subseteq Keys
    BY DEF CountedIn, Present
  <1>3. cseen \in [Creators -> SUBSET Keys] /\ CreateType
    BY TypeParts DEF CountIsHonest, IInv
  <1>4. cseen' \in [Creators -> SUBSET Keys]
    BY <1>1, <1>2, <1>3
  <1>5. ASSUME NEW c \in Creators,
               cpc'[c] = cpc[c], target'[c] = target[c], count'[c] = count[c],
               after'[c] = after[c], canswer'[c] = canswer[c]
        PROVE  HonestCount(c)'
    <2> DEFINE old == {k \in cseen[c] : k <= after[c]}
               new == {k \in cseen'[c] : k <= after'[c]}
    <2>1. HonestCount(c)
      BY DEF CountIsHonest
    <2>2. cseen[c] \subseteq cseen'[c]
      BY <1>1
    <2>3. /\ IsFiniteSet(cseen'[c]) /\ Cardinality(cseen'[c]) \in Nat
          /\ IsFiniteSet(cseen[c]) /\ Cardinality(cseen[c]) \in Nat
      BY <1>3, <1>4, KeysFinite
    <2>4. /\ old \in SUBSET Keys /\ new \in SUBSET Keys /\ old \in SUBSET new
      BY <1>3, <1>4, <1>5, <2>2
    <2>5. IsFiniteSet(new) /\ Cardinality(new) \in Nat /\ Cardinality(old) \in Nat
      BY <2>4, KeysFinite
    <2>6. Cardinality(old) <= Cardinality(new) /\ Cardinality(cseen[c]) <= Cardinality(cseen'[c])
      BY <2>2, <2>3, <2>4, <2>5, FS_Subset
    <2>7. count[c] \in Nat /\ FileLimit \in Nat
      BY <1>3, Constants DEF CreateType
    <2>8. cpc'[c] \in {"count", "get"} =>
            CountedIn(bucket', EntityOf[target'[c]]) \subseteq cseen'[c]
      BY <1>1, <1>5
    <2>9. cpc'[c] = "count" => count'[c] <= Cardinality(new)
      <3>1. cpc[c] = "count" => count[c] <= Cardinality(old)
        BY <2>1 DEF HonestCount
      <3>2. QED
        BY <1>5, <2>5, <2>6, <2>7, <3>1
    <2>10. cpc'[c] = "get" \/ canswer'[c] = "quota" => Cardinality(cseen'[c]) >= FileLimit
      <3>1. cpc[c] = "get" \/ canswer[c] = "quota" => Cardinality(cseen[c]) >= FileLimit
        BY <2>1 DEF HonestCount
      <3>2. QED
        BY <1>5, <2>3, <2>6, <2>7, <3>1
    <2>11. QED
      BY <2>8, <2>9, <2>10 DEF HonestCount
  <1>6. QED
    BY <1>1, <1>3, <1>4, <1>5

(* A page counts what has been seen. *)
LEMMA PageIsSeen ==
  ASSUME IInv, CountIsHonest, NEW c \in Creators, CountPage(c)
  PROVE  HonestCount(c)'
  <1>1. /\ cpc[c] = "count" /\ PageLimit(c) \in Nat /\ PageLimit(c) >= 1
        /\ UNCHANGED <<target, canswer>>
    BY CountSteps
  <1>2. PICK p \in {ListPage(bucket, EntityOf[target[c]], after[c], PageLimit(c))} :
              /\ Counts(p) \in Nat
              /\ count' = [count EXCEPT ![c] = count[c] + Counts(p)]
              /\ \/ /\ count[c] + Counts(p) >= FileLimit
                    /\ cpc' = [cpc EXCEPT ![c] = "get"] /\ UNCHANGED <<after, cseen>>
                 \/ /\ count[c] + Counts(p) < FileLimit /\ Len(p) < PageLimit(c)
                    /\ cpc' = [cpc EXCEPT ![c] = "put"]
                    /\ cseen' = [cseen EXCEPT ![c] = {}] /\ UNCHANGED after
                 \/ /\ count[c] + Counts(p) < FileLimit /\ Len(p) = PageLimit(c)
                    /\ after' = [after EXCEPT ![c] = p[Len(p)].key]
                    /\ p[Len(p)].key \in 1..NKeys /\ UNCHANGED <<cpc, cseen>>
    BY CountSteps
  <1>3. PICK K \in SUBSET CountedIn(bucket, EntityOf[target[c]]) :
           /\ Cardinality(K) = Counts(p)
           /\ \A k \in K : k > after[c]
           /\ Len(p) = PageLimit(c) => \A k \in K : k <= p[Len(p)].key
           /\ \A k \in CountedIn(bucket, EntityOf[target[c]]) \ K :
                k > after[c] => Len(p) = PageLimit(c) /\ k > p[Len(p)].key
    <2> DEFINE limit == PageLimit(c)
    <2>1. cpc[c] = "count" /\ limit \in Nat /\ limit >= 1
      BY <1>1
    <2>2. p \in {ListPage(bucket, EntityOf[target[c]], after[c], limit)}
      BY <1>2
    <2> HIDE DEF limit
    <2>3. \E K \in SUBSET CountedIn(bucket, EntityOf[target[c]]) :
            /\ Cardinality(K) = Counts(p)
            /\ \A k \in K : k > after[c]
            /\ \A k \in CountedIn(bucket, EntityOf[target[c]]) \ K :
                 k > after[c] => Len(p) = limit /\ k > p[Len(p)].key
            /\ Len(p) = limit => \A k \in K : k <= p[Len(p)].key
      BY <2>1, <2>2, PageCounts
    <2>4. QED
      BY <2>3 DEF limit
  <1>4. CreateType /\ cseen \in [Creators -> SUBSET Keys] /\ HonestCount(c)
    BY TypeParts DEF IInv, CountIsHonest
  <1>5. /\ count[c] \in Nat /\ after[c] \in 0..NKeys /\ canswer[c] = "none" /\ UNCHANGED bucket
    BY <1>1, <1>4 DEF CreateType, IInv, CreateFits, CountPage
  <1> DEFINE old == {k \in cseen[c] : k <= after[c]}
  <1>6. /\ CountedIn(bucket, EntityOf[target[c]]) \subseteq cseen[c]
        /\ count[c] <= Cardinality(old)
    BY <1>1, <1>4 DEF HonestCount
  <1>7. K \in SUBSET Keys /\ old \in SUBSET Keys
    BY <1>4, <1>6
  <1>8. old \cap K = {}
    <2>1. ASSUME NEW k \in K, k <= after[c] PROVE FALSE
      <3>1. k \in Nat
        BY <1>7, KeysFinite
      <3>2. after[c] \in Nat
        BY <1>5, Constants
      <3>3. k > after[c]
        BY <1>3
      <3>4. QED
        BY <2>1, <3>1, <3>2, <3>3
    <2>2. QED
      BY <2>1
  <1>9. /\ IsFiniteSet(old) /\ IsFiniteSet(K)
        /\ Cardinality(old) \in Nat /\ Cardinality(K) \in Nat
    BY <1>7, KeysFinite
  <1>10. /\ IsFiniteSet(old \cup K)
         /\ Cardinality(old \cup K) = Cardinality(old) + Cardinality(K)
    BY <1>8, <1>9, FS_Union, FS_EmptySet
  <1>11. ASSUME NEW T \in SUBSET Keys, old \cup K \subseteq T
         PROVE  count[c] + Counts(p) <= Cardinality(T)
    <2>1. IsFiniteSet(T) /\ Cardinality(T) \in Nat
      BY KeysFinite
    <2>2. Cardinality(old \cup K) <= Cardinality(T)
      BY <1>11, <2>1, FS_Subset
    <2>3. QED
      BY <1>2, <1>3, <1>5, <1>6, <1>9, <1>10, <2>1, <2>2
  <1>12. count[c] + Counts(p) <= Cardinality(cseen[c])
    BY <1>4, <1>6, <1>11
  <1>13. count'[c] = count[c] + Counts(p) /\ canswer'[c] = "none"
    BY <1>1, <1>2, <1>4, <1>5 DEF CreateType
  <1>14. CASE /\ count[c] + Counts(p) >= FileLimit
              /\ cpc' = [cpc EXCEPT ![c] = "get"] /\ UNCHANGED <<after, cseen>>
    <2>1. cpc'[c] = "get" /\ cseen'[c] = cseen[c]
      BY <1>4, <1>14 DEF CreateType
    <2>2. Cardinality(cseen[c]) >= FileLimit
      <3>1. Cardinality(cseen[c]) \in Nat
        BY <1>4, KeysFinite
      <3>2. QED
        BY <1>2, <1>5, <1>12, <1>14, <3>1, Constants
    <2>3. QED
      BY <1>1, <1>5, <1>6, <2>1, <2>2 DEF HonestCount
  <1>15. CASE cpc' = [cpc EXCEPT ![c] = "put"]
    <2>1. cpc'[c] = "put"
      BY <1>4, <1>15 DEF CreateType
    <2>2. QED
      BY <1>13, <2>1 DEF HonestCount
  <1>16. CASE /\ Len(p) = PageLimit(c)
              /\ after' = [after EXCEPT ![c] = p[Len(p)].key]
              /\ p[Len(p)].key \in 1..NKeys /\ UNCHANGED <<cpc, cseen>>
    <2>1. cpc'[c] = "count" /\ cseen'[c] = cseen[c] /\ after'[c] = p[Len(p)].key
      BY <1>1, <1>4, <1>16 DEF CreateType
    <2> DEFINE new == {k \in cseen[c] : k <= after'[c]}
    <2>2. K \subseteq new
      BY <1>3, <1>6, <1>16, <2>1
    <2>3. after[c] <= after'[c]
      <3>1. p[Len(p)].key > after[c]
        <4>1. Len(p) \in 1..Len(p)
          BY <1>1, <1>2, <1>16, CountedPage
        <4>2. QED
          BY <1>1, <1>2, <4>1, CountedPage
      <3>2. after[c] \in Nat /\ p[Len(p)].key \in Nat
        BY <1>5, <1>16, Constants
      <3>3. QED
        BY <2>1, <3>1, <3>2
    <2>4. old \subseteq new
      <3>1. ASSUME NEW k \in old PROVE k <= after'[c]
        <4>1. k \in Nat /\ after[c] \in Nat /\ after'[c] \in Nat /\ k <= after[c]
          BY <1>5, <1>7, <1>16, <2>1, KeysFinite, Constants
        <4>2. QED
          BY <2>3, <4>1
      <3>2. QED
        BY <3>1
    <2>5. new \in SUBSET Keys
      BY <1>4
    <2>6. count'[c] <= Cardinality(new)
      BY <1>11, <1>13, <2>2, <2>4, <2>5
    <2>7. QED
      BY <1>1, <1>5, <1>6, <1>13, <2>1, <2>6 DEF HonestCount
  <1>17. QED
    BY <1>2, <1>14, <1>15, <1>16

LEMMA HonestStays == IInv /\ CountIsHonest /\ [Next]_vars => CountIsHonest'
  <1> SUFFICES ASSUME IInv, CountIsHonest, [Next]_vars PROVE CountIsHonest'
    OBVIOUS
  <1>1. CreateType /\ cseen \in [Creators -> SUBSET Keys]
    BY TypeParts DEF IInv, CountIsHonest
  <1>2. \A c \in Creators : HonestCount(c)
    BY DEF CountIsHonest
  <1>3. CASE UNCHANGED <<bucket, create, cseen>>
    BY <1>1, <1>2, <1>3 DEF CountIsHonest, HonestCount, create
  <1>4. CASE UNCHANGED create /\ \E b : \E mine \in BOOLEAN : Change(b, mine)
    BY <1>4, SeenGrows DEF CountIsHonest, create
  <1>5. ASSUME NEW k \in Keys, Put(k) \/ Drop(k, FALSE) \/ Drop(k, TRUE)
        PROVE  \E b : \E mine \in BOOLEAN : Change(b, mine)
    <2>1. CASE Put(k)
      BY <2>1 DEF Put
    <2>2. CASE Drop(k, FALSE) \/ Drop(k, TRUE)
      BY <2>2 DEF Drop
    <2>3. QED
      BY <1>5, <2>1, <2>2
  <1>6. CASE ScanStep
    BY <1>3, <1>4, <1>5, <1>6, ScanMoves
  <1>7. CASE \E k \in Keys : Overwrite(k) \/ Remove(k) \/ Seed(k)
    BY <1>4, <1>5, <1>7 DEF Overwrite, Remove, Seed
  <1>8. ASSUME NEW c \in Creators, NEW k \in NewFiles, CreateFile(c, k)
        PROVE  CountIsHonest'
    <2>1. /\ cpc' = [cpc EXCEPT ![c] = "count"] /\ target' = [target EXCEPT ![c] = k]
          /\ count' = [count EXCEPT ![c] = 0] /\ after' = [after EXCEPT ![c] = 0]
          /\ canswer' = [canswer EXCEPT ![c] = "none"]
          /\ cseen' = [cseen EXCEPT ![c] = CountedIn(bucket, EntityOf[k])]
          /\ bucket' = bucket
      BY <1>8 DEF CreateFile
    <2>2. cseen' \in [Creators -> SUBSET Keys]
      BY <1>1, <2>1 DEF CountedIn, Present
    <2>3. HonestCount(c)'
      <3>1. /\ cpc'[c] = "count" /\ target'[c] = k /\ count'[c] = 0 /\ canswer'[c] = "none"
            /\ cseen'[c] = CountedIn(bucket', EntityOf[target'[c]])
        BY <1>1, <2>1 DEF CreateType
      <3>2. {j \in cseen'[c] : j <= after'[c]} \in SUBSET Keys
        BY <2>2
      <3>3. Cardinality({j \in cseen'[c] : j <= after'[c]}) \in Nat
        BY <3>2, KeysFinite
      <3>4. count'[c] <= Cardinality({j \in cseen'[c] : j <= after'[c]})
        BY <3>1, <3>3
      <3>5. QED
        BY <3>1, <3>4 DEF HonestCount
    <2>4. \A d \in Creators \ {c} : HonestCount(d)'
      BY <1>1, <1>2, <2>1 DEF HonestCount, CreateType
    <2>5. QED
      BY <2>2, <2>3, <2>4 DEF CountIsHonest
  <1>9. ASSUME NEW c \in Creators, CountPage(c)
        PROVE  CountIsHonest'
    <2>1. HonestCount(c)'
      BY <1>9, PageIsSeen
    <2>2. PICK p \in {ListPage(bucket, EntityOf[target[c]], after[c], PageLimit(c))} :
               /\ UNCHANGED <<target, canswer>>
               /\ count' = [count EXCEPT ![c] = count[c] + Counts(p)]
               /\ cpc' = [cpc EXCEPT ![c] = "get"] \/ cpc' = [cpc EXCEPT ![c] = "put"] \/ cpc' = cpc
               /\ after' = [after EXCEPT ![c] = p[Len(p)].key] \/ after' = after
               /\ cseen' = [cseen EXCEPT ![c] = {}] \/ cseen' = cseen
      BY <1>9, CountSteps
    <2>3. bucket' = bucket
      BY <1>9 DEF CountPage
    <2>4. cseen' \in [Creators -> SUBSET Keys]
      BY <1>1, <2>2
    <2>5. ASSUME NEW d \in Creators \ {c} PROVE HonestCount(d)'
      <3>1. cpc'[d] = cpc[d] /\ cseen'[d] = cseen[d] /\ after'[d] = after[d]
        BY <1>1, <2>2 DEF CreateType
      <3>2. count'[d] = count[d] /\ target'[d] = target[d] /\ canswer'[d] = canswer[d]
        BY <1>1, <2>2 DEF CreateType
      <3>3. HonestCount(d)
        BY <1>2
      <3>4. QED
        BY <2>3, <3>1, <3>2, <3>3 DEF HonestCount
    <2>6. QED
      BY <2>1, <2>4, <2>5 DEF CountIsHonest
  <1>10. ASSUME NEW c \in Creators, NEW how, Answers(c, how)
         PROVE  /\ cpc'[c] = "idle" /\ canswer'[c] = how
                /\ \A d \in Creators \ {c} :
                     /\ cpc'[d] = cpc[d] /\ target'[d] = target[d] /\ count'[d] = count[d]
                     /\ after'[d] = after[d] /\ canswer'[d] = canswer[d]
    BY <1>1, <1>10 DEF Answers, CreateType
  <1>11. ASSUME NEW c \in Creators, CapGet(c)
         PROVE  CountIsHonest'
    <2>1. PICK how : Answers(c, how)
      BY <1>11 DEF CapGet
    <2>2. cpc[c] = "get" /\ bucket' = bucket /\ cseen' = cseen
      BY <1>11 DEF CapGet, history
    <2>3. Cardinality(cseen[c]) >= FileLimit
      BY <1>2, <2>2 DEF HonestCount
    <2>4. HonestCount(c)'
      BY <1>10, <2>1, <2>2, <2>3 DEF HonestCount
    <2>5. ASSUME NEW d \in Creators \ {c} PROVE HonestCount(d)'
      <3>1. HonestCount(d)
        BY <1>2
      <3>2. QED
        BY <1>10, <2>1, <2>2, <3>1 DEF HonestCount
    <2>6. QED
      BY <1>1, <2>2, <2>4, <2>5 DEF CountIsHonest
  <1>12. ASSUME NEW c \in Creators, CreatePut(c) \/ CreatePutFails(c)
         PROVE  CountIsHonest'
    <2>1. PICK how \in {"created", "refused", "unavailable"} : Answers(c, how)
      BY <1>12 DEF CreatePut, CreatePutFails
    <2>2. HonestCount(c)'
      BY <1>10, <2>1 DEF HonestCount
    <2>3. CASE UNCHANGED <<bucket, cseen>>
      <3>1. ASSUME NEW d \in Creators \ {c} PROVE HonestCount(d)'
        <4>1. HonestCount(d)
          BY <1>2
        <4>2. QED
          BY <1>10, <2>1, <2>3, <4>1 DEF HonestCount
      <3>2. QED
        BY <1>1, <2>2, <2>3, <3>1 DEF CountIsHonest
    <2>4. CASE Put(target[c])
      <3>1. PICK b : Change(b, FALSE)
        BY <2>4 DEF Put
      <3>2. cseen' \in [Creators -> SUBSET Keys] /\ \A d \in Creators \ {c} : HonestCount(d)'
        BY <1>10, <2>1, <3>1, SeenGrows
      <3>3. QED
        BY <2>2, <3>2 DEF CountIsHonest
    <2>5. QED
      BY <1>12, <2>3, <2>4 DEF CreatePut, CreatePutFails, history
  <1>13. ASSUME NEW c \in Creators, CreateFails(c)
         PROVE  CountIsHonest'
    <2>1. /\ Answers(c, "unavailable") /\ bucket' = bucket
          /\ cseen' = [cseen EXCEPT ![c] = {}]
      BY <1>13 DEF CreateFails
    <2>2. cseen' \in [Creators -> SUBSET Keys] /\ \A d \in Creators \ {c} : cseen'[d] = cseen[d]
      BY <1>1, <2>1
    <2>3. HonestCount(c)'
      BY <1>10, <2>1 DEF HonestCount
    <2>4. ASSUME NEW d \in Creators \ {c} PROVE HonestCount(d)'
      <3>1. HonestCount(d)
        BY <1>2
      <3>2. QED
        BY <1>10, <2>1, <2>2, <3>1 DEF HonestCount
    <2>5. QED
      BY <2>2, <2>3, <2>4 DEF CountIsHonest
  <1>14. CASE LatePut
    <2>1. PICK s \in late :
            IF bucket[s.key] = 0 THEN Put(s.key) ELSE UNCHANGED <<bucket, gens, history>>
      BY <1>14 DEF LatePut
    <2>2. UNCHANGED <<cpc, target, count, after, canswer>>
      BY <1>14 DEF LatePut
    <2>3. CASE UNCHANGED <<bucket, cseen>>
      BY <1>1, <1>2, <2>2, <2>3 DEF CountIsHonest, HonestCount
    <2>4. CASE Put(s.key)
      <3>1. PICK b : Change(b, FALSE)
        BY <2>4 DEF Put
      <3>2. QED
        BY <2>2, <3>1, SeenGrows DEF CountIsHonest
    <2>5. QED
      BY <2>1, <2>3, <2>4 DEF history
  <1>15. ASSUME NEW c \in Creators, CreateResent(c)
         PROVE  CountIsHonest'
    <2>1. Put(target[c]) /\ UNCHANGED <<cpc, target, count, after, canswer>>
      BY <1>15 DEF CreateResent, create
    <2>2. PICK b : Change(b, FALSE)
      BY <2>1 DEF Put
    <2>3. QED
      BY <2>1, <2>2, SeenGrows DEF CountIsHonest
  <1>16. QED
    BY <1>3, <1>6, <1>7, <1>8, <1>9, <1>11, <1>12, <1>13, <1>14, <1>15, Movers
    DEF OtherStep, Create, vars, history

(* A create is refused for its quota only if that many files existed while *)
(* it counted them, page by page, however they came and went meanwhile     *)
(* (core.py 742).                                                          *)
THEOREM QuotaIsFair == Spec => []QuotaIsHonest
  <1>1. Init => CountIsHonest
    BY DEF Init, CountIsHonest, HonestCount
  <1>2. CountIsHonest => QuotaIsHonest
    BY DEF CountIsHonest, HonestCount, QuotaIsHonest
  <1>3. QED
    BY <1>1, <1>2, AlwaysFits, HonestStays, PTL DEF Spec

-----------------------------------------------------------------------------
(* What a scan collects. *)

(* While others change the bucket. *)
LEMMA OthersKeepTruth ==
  ASSUME IInv, OutIsTrue, OtherStep
  PROVE  OutIsTrue'
  <1>1. UNCHANGED scan
    BY OtherMoves
  <1>2. CASE Quiet
    BY <1>1, <1>2 DEF OutIsTrue, Quiet, scan, Collecting, Versions, Present
  <1>3. CASE Disturbed
    <2>1. PICK b : \E mine : Change(b, mine)
      BY <1>3 DEF Disturbed, Put, Drop
    <2>2. bucket' = b
      BY <2>1 DEF Change
    <2>3. lived' = IF pc # "idle" /\ call # "purge" THEN lived \cup Versions(b) ELSE lived
      BY <2>1 DEF Change
    <2>4. lived \subseteq lived' /\ (Collecting => Versions(bucket') \subseteq lived')
      BY <2>2, <2>3 DEF Collecting
    <2>5. QED
      BY <1>1, <2>4 DEF OutIsTrue, scan, Collecting
  <1>4. QED
    BY <1>2, <1>3, OtherMoves

(* A scan that is over, with what it had collected or without. *)
LEMMA TruthAtEnd ==
  ASSUME OutIsTrue, pc' = "idle",
         \/ out' = <<>>
         \/ UNCHANGED <<out, lived, call>>
  PROVE  OutIsTrue'
  BY DEF OutIsTrue, Collecting

LEMMA DrainIsTrue ==
  ASSUME IInv, OutIsTrue, Drain
  PROVE  OutIsTrue'
  <1>1. PICK p \in {ListPage(bucket, Entity, cursor, PageSize + 1)} :
          DrainPage(p) \/ DrainLastPage(p) \/ DrainRaises(p)
    BY DEF Drain
  <1>2. call = "index" /\ pc = "list"
    BY DEF Drain, At
  <1>3. CASE DrainRaises(p)
    BY <1>3, TruthAtEnd DEF DrainRaises, Raises, Ends
  <1>4. CASE DrainPage(p) \/ DrainLastPage(p)
    <2> DEFINE more == Entries(p)
    <2>1. out' = out \o more /\ UNCHANGED <<bucket, lived, call>> /\ pc' \in {"list", "idle"}
      BY <1>2, <1>4 DEF DrainPage, DrainLastPage, history, Ends
    <2>2. /\ p \in Seq(Object)
          /\ \A l \in 1..Len(p) : p[l].key \in Left /\ p[l].gen = bucket[p[l].key]
      <3>1. PageSize + 1 \in Nat
        BY Constants
      <3>2. QED
        BY <1>1, <1>2, <3>1, NextPage
    <2>3. /\ more \in Seq(Collected)
          /\ \A i \in 1..Len(more) :
               \E l \in 1..Len(p) : /\ more[i].key = p[l].key /\ more[i].gen = p[l].gen
                                    /\ more[i].data = p[l].gen
      BY <2>2, EntriesOfPage
    <2> HIDE DEF more
    <2>4. out \in Seq(Collected)
      BY DEF IInv, TypeOK
    <2>5. \A l \in 1..Len(p) : [key |-> p[l].key, gen |-> p[l].gen] \in lived
      <3>1. Versions(bucket) \subseteq lived
        BY <1>2 DEF OutIsTrue, Collecting
      <3>2. QED
        BY <2>2, <3>1 DEF Left, Versions
    <2>6. ASSUME NEW i \in 1..Len(out')
          PROVE  [key |-> out'[i].key, gen |-> out'[i].gen] \in lived /\ out'[i].data = out'[i].gen
      <3>1. Len(out) \in Nat /\ Len(more) \in Nat /\ Len(out') = Len(out) + Len(more)
        BY <2>1, <2>3, <2>4
      <3>2. CASE i <= Len(out)
        <4>1. i \in Nat /\ i >= 1 /\ i \in 1..Len(out)
          BY <3>1, <3>2
        <4>2. out'[i] = out[i]
          BY <2>1, <2>3, <2>4, <4>1
        <4>3. QED
          BY <1>2, <4>1, <4>2 DEF OutIsTrue
      <3>3. CASE ~ (i <= Len(out))
        <4>1. out'[i] = more[i - Len(out)] /\ i - Len(out) \in 1..Len(more)
          BY <2>1, <2>3, <2>4, <3>1, <3>3
        <4>2. QED
          BY <2>3, <2>5, <4>1
      <3>4. QED
        BY <3>2, <3>3
    <2>7. QED
      BY <1>2, <2>1, <2>6 DEF OutIsTrue, Collecting
  <1>5. QED
    BY <1>1, <1>3, <1>4

LEMMA ExportIsTrue ==
  ASSUME IInv, OutIsTrue, ExportPage \/ GetBlob \/ Download \/ ExportEnd
  PROVE  OutIsTrue'
  <1>1. bucket \in [Keys -> Nat] /\ out \in Seq(Collected)
    BY DEF IInv, TypeOK
  <1>2. CASE ExportEnd
    BY <1>2, TruthAtEnd DEF ExportEnd, Ends, history
  <1>3. CASE ExportPage
    <2>1. /\ call = "export" /\ pc = "list" /\ pc' \in {"object", "list", "end"}
          /\ UNCHANGED <<bucket, call, out, lived>>
      BY <1>3 DEF ExportPage, At, Proceed, history
    <2>2. QED
      BY <2>1 DEF OutIsTrue, Collecting
  <1>4. CASE GetBlob
    <2>1. /\ call = "export" /\ pc = "object" /\ UNCHANGED <<bucket, call, out, lived>>
          /\ \/ pc' \in {"object", "list", "end"}
             \/ /\ bucket[page[1].key] # 0 /\ blob' = bucket[page[1].key]
                /\ pc' = "download" /\ page' = page
      BY <1>4 DEF GetBlob, At, Proceed, history
    <2>2. Versions(bucket) \subseteq lived /\ page[1].key \in Keys
      BY <2>1, PageHead DEF OutIsTrue, Collecting
    <2>3. pc' = "download" => [key |-> page'[1].key, gen |-> blob'] \in lived
      BY <2>1, <2>2 DEF Versions, Present
    <2>4. QED
      BY <2>1, <2>3 DEF OutIsTrue, Collecting
  <1>5. CASE Download
    <2>1. call = "export" /\ pc = "download" /\ UNCHANGED <<bucket, call>>
      BY <1>5 DEF Download, At
    <2>2. CASE Downloaded(blob)
      <3>1. /\ out' = Append(out, [key |-> page[1].key, gen |-> blob, data |-> blob])
            /\ pc' \in {"object", "list", "end"} /\ lived' = lived
        BY <2>2 DEF Downloaded, Proceed, history
      <3>2. [key |-> page[1].key, gen |-> blob] \in lived
        BY <2>1 DEF OutIsTrue
      <3>3. ASSUME NEW i \in 1..Len(out')
            PROVE  /\ [key |-> out'[i].key, gen |-> out'[i].gen] \in lived
                   /\ out'[i].data = out'[i].gen
        <4>1. Len(out') = Len(out) + 1 /\ Len(out) \in Nat
          BY <1>1, <3>1
        <4>2. CASE i \in 1..Len(out)
          BY <1>1, <2>1, <3>1, <4>2 DEF OutIsTrue
        <4>3. CASE i = Len(out) + 1
          BY <1>1, <3>1, <3>2, <4>3
        <4>4. QED
          BY <4>1, <4>2, <4>3
      <3>4. QED
        BY <2>1, <3>1, <3>3 DEF OutIsTrue, Collecting
    <2>3. CASE AnotherAttempt
      <3>1. CASE pc' = "object" /\ UNCHANGED <<out, history>>
        BY <2>1, <3>1 DEF OutIsTrue, Collecting, history
      <3>2. CASE Raises("unavailable")
        BY <3>2, TruthAtEnd DEF Raises, Ends
      <3>3. QED
        BY <2>3, <3>1, <3>2 DEF AnotherAttempt
    <2>4. QED
      BY <1>5, <2>2, <2>3 DEF Download
  <1>6. QED
    BY <1>2, <1>3, <1>4, <1>5

(* A purge neither collects nor downloads. *)
LEMMA PurgeGoesOn ==
  ASSUME IInv, PurgePage \/ PurgeDeletes \/ PassEnds \/ LastLook \/ Invalidate \/ PurgeFails
  PROVE  /\ call = "purge" /\ call' = "purge" /\ pc # "idle" /\ pc' # "download"
         /\ \/ UNCHANGED <<bucket, stable>>
            \/ stable' = stable \cap Present(bucket')
  <1>1. CASE PurgePage \/ PassEnds \/ LastLook
    BY <1>1 DEF PurgePage, PassEnds, LastLook, At, Proceed, history
  <1>2. CASE Invalidate
    BY <1>2 DEF Invalidate, At, Ends
  <1>3. CASE PurgeDeletes
    BY <1>3 DEF PurgeDeletes, At, Proceed, Drop, Change, history
  <1>4. CASE PurgeFails
    BY <1>4 DEF PurgeFails, AbandonPurge, Drop, Change, history
  <1>5. QED
    BY <1>1, <1>2, <1>3, <1>4

LEMMA TruthStays == IInv /\ OutIsTrue /\ [Next]_vars => OutIsTrue'
  <1> SUFFICES ASSUME IInv, OutIsTrue, [Next]_vars PROVE OutIsTrue'
    OBVIOUS
  <1>1. CASE UNCHANGED vars
    BY <1>1 DEF OutIsTrue, Collecting, Versions, Present, vars, scan, history
  <1>2. CASE \E s \in Scans : Begin(s.kind, s.of)
    <2>1. PICK s \in Scans : Begin(s.kind, s.of)
      BY <1>2
    <2>2. /\ bucket' = bucket /\ call' = s.kind /\ pc' = "list" /\ out' = <<>>
          /\ s.kind # "purge" => lived' = Versions(bucket)
      BY <2>1, NotYetPurging
    <2>3. QED
      BY <2>2 DEF OutIsTrue, Collecting
  <1>3. CASE PurgePage \/ PurgeDeletes \/ PassEnds \/ LastLook \/ Invalidate \/ PurgeFails
    BY <1>3, PurgeGoesOn DEF OutIsTrue, Collecting
  <1>4. CASE StorageFails
    BY <1>4, TruthAtEnd DEF StorageFails, Raises, Ends
  <1>5. QED
    BY <1>1, <1>2, <1>3, <1>4, Movers, OthersKeepTruth, DrainIsTrue, ExportIsTrue
       DEF ScanStep, Scan

(* Whatever an index or an export returns existed while it ran, and the    *)
(* bytes of an exported object are those of the generation reported for    *)
(* it, although two requests fetch them (gcs.py 80).                       *)
THEOREM ScansTellTheTruth == Spec => []FromOneWrite
  <1>1. Init => OutIsTrue
    BY DEF Init, OutIsTrue, Collecting
  <1>2. IInv /\ OutIsTrue => FromOneWrite
    <2> SUFFICES ASSUME IInv, OutIsTrue, Listing PROVE
          \A i \in DOMAIN out : /\ [key |-> out[i].key, gen |-> out[i].gen] \in lived
                                /\ out[i].data = out[i].gen
      BY DEF FromOneWrite
    <2>1. DOMAIN out = 1..Len(out)
      BY DEF IInv, TypeOK
    <2>2. QED
      BY <2>1 DEF OutIsTrue, Listing, Returned
  <1>3. QED
    BY <1>1, <1>2, AlwaysFits, TruthStays, PTL DEF Spec

-----------------------------------------------------------------------------
(* That it misses nothing and lists nothing twice. *)

LEMMA OthersKeepOrder ==
  ASSUME IInv, OutIsOrdered, OtherStep
  PROVE  OutIsOrdered'
  <1>1. UNCHANGED scan
    BY OtherMoves
  <1>2. Entity' = Entity /\ (Collecting' <=> Collecting) /\ (Listing' <=> Listing)
    BY <1>1 DEF scan, Entity, Collecting, Listing, Returned
  <1>3. \A k : ToCollect(k)' <=> ToCollect(k)
    BY <1>1, <1>2 DEF scan, ToCollect
  <1>4. /\ stable' \subseteq stable
        /\ pc # "idle" => stable' \subseteq Present(bucket')
    <2>1. CASE Quiet
      BY <2>1 DEF Quiet, OutIsOrdered
    <2>2. CASE Disturbed
      <3>1. PICK b : \E mine : Change(b, mine)
        BY <2>2 DEF Disturbed, Put, Drop
      <3>2. QED
        BY <3>1 DEF Change
    <2>3. QED
      BY <2>1, <2>2, OtherMoves
  <1>5. Sought' \subseteq Sought
    BY <1>1, <1>4 DEF Sought, scan
  <1>6. UNCHANGED <<pc, call, todo, out, cursor, page>>
    BY <1>1 DEF scan
  <1>7. QED
    BY <1>2, <1>3, <1>4, <1>5, <1>6 DEF OutIsOrdered

(* A scan that fails, or a purge: there is nothing to miss. *)
LEMMA OrderElsewhere ==
  ASSUME pc' # "idle" => stable' \subseteq Present(bucket'),
         \/ call' = "purge"
         \/ pc' = "idle" /\ out' = <<>> /\ answer' # "ok"
  PROVE  OutIsOrdered'
  BY DEF OutIsOrdered, Collecting, Listing, Returned

LEMMA OrderFromStart ==
  ASSUME IInv, NEW s \in Scans, Begin(s.kind, s.of)
  PROVE  OutIsOrdered'
  <1>1. /\ bucket' = bucket /\ call' = s.kind /\ pc' = "list" /\ cursor' = 0 /\ out' = <<>>
        /\ todo' \in Seq(Entities) /\ todo' # <<>>
        /\ \A e \in s.of : \E i \in 1..Len(todo') : todo'[i] = e
        /\ s.kind # "purge" => stable' = {k \in Present(bucket) : EntityOf[k] \in s.of}
    BY NotYetPurging
  <1>2. s.kind = "purge" => stable' = {}
    BY DEF Begin
  <1>3. stable' \subseteq Present(bucket')
    BY <1>1, <1>2
  <1>4. ASSUME s.kind # "purge", NEW k \in stable' PROVE ToCollect(k)'
    <2>1. k \in Keys /\ k > 0 /\ EntityOf[k] \in s.of
      BY <1>1, <1>4, Constants DEF Present
    <2>2. PICK i \in 1..Len(todo') : todo'[i] = EntityOf[k]
      BY <1>1, <2>1
    <2>3. i = 1 \/ i \in 2..Len(todo')
      BY <1>1
    <2>4. QED
      BY <1>1, <2>1, <2>2, <2>3 DEF ToCollect, Entity
  <1>5. Sought' \subseteq stable'
    BY DEF Sought
  <1>6. Len(out') = 0
    BY <1>1
  <1>7. QED
    BY <1>1, <1>3, <1>4, <1>5, <1>6 DEF OutIsOrdered, Collecting, Listing, Returned

(* What a page of the index adds. *)
LEMMA DrainedPage ==
  ASSUME IInv, OutIsOrdered, call = "index", pc = "list",
         NEW p \in {ListPage(bucket, Entity, cursor, PageSize + 1)}, out' = out \o Entries(p)
  PROVE  /\ p \in Seq(Object) /\ Len(p) \in Nat
         /\ Len(p) > PageSize => p[PageSize].key \in Keys /\ p[PageSize].key > cursor
         /\ \A i \in 1..Len(out') :
              \/ \E j \in 1..Len(out) : out'[i].key = out[j].key
              \/ /\ EntityOf[out'[i].key] = Entity
                 /\ Len(p) > PageSize => out'[i].key <= p[PageSize].key
         /\ \A i, j \in 1..Len(out') :
              i < j /\ EntityOf[out'[i].key] = EntityOf[out'[j].key] => out'[i].key < out'[j].key
         /\ \A k \in Sought :
              \/ \E i \in 2..Len(todo) : todo[i] = EntityOf[k]
              \/ \E i \in 1..Len(out') : out'[i].key = k
              \/ EntityOf[k] = Entity /\ Len(p) > PageSize /\ k > p[PageSize].key
  <1> DEFINE more == Entries(p)
  <1>1. /\ p \in Seq(Object) /\ Len(p) \in Nat /\ Len(p) <= PageSize + 1
        /\ \A l \in 1..Len(p) :
             p[l].key \in Keys /\ EntityOf[p[l].key] = Entity /\ p[l].key > cursor
        /\ \A i, j \in 1..Len(p) : i < j => p[i].key < p[j].key
        /\ \A k \in Left :
             k > cursor =>
               \/ \E l \in 1..Len(p) : p[l].key = k
               \/ Len(p) = PageSize + 1 /\ \A l \in 1..Len(p) : p[l].key < k
    <2>1. PageSize + 1 \in Nat
      BY Constants
    <2>2. QED
      BY <2>1, NextPage
  <1>2. /\ more \in Seq(Collected)
        /\ \A i \in 1..Len(more) :
             \E l \in 1..Len(p) : l <= PageSize /\ more[i].key = p[l].key
        /\ \A i, j \in 1..Len(more) : i < j => more[i].key < more[j].key
        /\ \A l \in 1..Len(p) :
             l <= PageSize /\ p[l].key \notin Malformed =>
               \E i \in 1..Len(more) : more[i].key = p[l].key
    BY <1>1, EntriesOfPage
  <1> HIDE DEF more
  <1>3. out \in Seq(Collected) /\ cursor \in Nat /\ todo \in Seq(Entities)
    BY Constants DEF IInv, TypeOK
  <1>4. PageSize \in Nat /\ PageSize >= 1
    BY Constants
  <1>5. ASSUME NEW i \in 1..Len(more)
        PROVE  /\ more[i].key \in Keys /\ EntityOf[more[i].key] = Entity /\ more[i].key > cursor
               /\ Len(p) > PageSize => more[i].key <= p[PageSize].key
    <2>1. PICK l \in 1..Len(p) : l <= PageSize /\ more[i].key = p[l].key
      BY <1>2
    <2>2. Len(p) > PageSize => PageSize \in 1..Len(p) /\ (l < PageSize \/ l = PageSize)
      BY <1>1, <1>4, <2>1
    <2>3. Len(p) > PageSize => p[l].key \in Nat /\ p[PageSize].key \in Nat
      BY <1>1, <2>2, KeysFinite
    <2>4. ASSUME Len(p) > PageSize PROVE p[l].key <= p[PageSize].key
      <3>1. l < PageSize => p[l].key < p[PageSize].key
        BY <1>1, <2>2, <2>4
      <3>2. QED
        BY <2>2, <2>3, <2>4, <3>1
    <2>5. p[l].key \in Keys /\ EntityOf[p[l].key] = Entity /\ p[l].key > cursor
      BY <1>1
    <2>6. QED
      BY <2>1, <2>4, <2>5
  <1>6. /\ Len(out) \in Nat /\ Len(more) \in Nat /\ Len(out') = Len(out) + Len(more)
        /\ \A i \in 1..Len(out) : out'[i] = out[i] /\ i \in 1..Len(out')
        /\ \A i \in 1..Len(more) : out'[Len(out) + i] = more[i] /\ Len(out) + i \in 1..Len(out')
    BY <1>2, <1>3 DEF more
  <1>7. ASSUME NEW i \in 1..Len(out')
        PROVE  \/ i \in 1..Len(out) /\ out'[i] = out[i]
               \/ /\ i > Len(out) /\ i - Len(out) \in 1..Len(more)
                  /\ out'[i] = more[i - Len(out)]
    <2>1. CASE i <= Len(out)
      <3>1. i \in 1..Len(out)
        BY <1>6, <2>1
      <3>2. QED
        BY <1>6, <3>1
    <2>2. CASE ~ (i <= Len(out))
      <3>1. i - Len(out) \in 1..Len(more) /\ Len(out) + (i - Len(out)) = i /\ i > Len(out)
        BY <1>6, <2>2
      <3>2. QED
        BY <1>6, <3>1
    <2>3. QED
      BY <2>1, <2>2
  <1>8. ASSUME NEW i \in 1..Len(out), EntityOf[out[i].key] = Entity
        PROVE  out[i].key <= cursor
    BY <1>8 DEF OutIsOrdered, Collecting
  <1>9. \A i \in 1..Len(out) : out[i].key \in Nat
    <2>1. \A i \in 1..Len(out) : out[i] \in Collected
      BY <1>3
    <2>2. QED
      BY <2>1, KeysFinite DEF Collected
  <1>10. ASSUME NEW i \in 1..Len(out'), NEW j \in 1..Len(out'), i < j,
                EntityOf[out'[i].key] = EntityOf[out'[j].key]
         PROVE  out'[i].key < out'[j].key
    <2>1. CASE j \in 1..Len(out) /\ out'[j] = out[j]
      <3>1. i \in 1..Len(out)
        BY <1>6, <1>10, <2>1
      <3>2. out'[i] = out[i]
        BY <1>6, <3>1
      <3>3. QED
        BY <1>10, <2>1, <3>1, <3>2 DEF OutIsOrdered
    <2>2. CASE /\ j > Len(out) /\ j - Len(out) \in 1..Len(more)
               /\ out'[j] = more[j - Len(out)]
      <3>1. /\ EntityOf[out'[j].key] = Entity /\ out'[j].key > cursor
            /\ out'[j].key \in Nat
        BY <1>5, <2>2, KeysFinite
      <3>2. CASE i \in 1..Len(out) /\ out'[i] = out[i]
        <4>1. EntityOf[out[i].key] = Entity
          BY <1>10, <3>1, <3>2
        <4>2. out'[i].key <= cursor /\ out'[i].key \in Nat
          BY <1>8, <1>9, <3>2, <4>1
        <4>3. QED
          BY <1>3, <3>1, <4>2
      <3>3. CASE i - Len(out) \in 1..Len(more) /\ out'[i] = more[i - Len(out)]
        <4>1. i - Len(out) < j - Len(out)
          BY <1>6, <1>10
        <4>2. QED
          BY <1>2, <2>2, <3>3, <4>1
      <3>4. QED
        BY <1>7, <3>2, <3>3
    <2>3. QED
      BY <1>7, <2>1, <2>2
  <1>11. ASSUME NEW k \in Sought, EntityOf[k] = Entity,
                ~ \E i \in 2..Len(todo) : todo[i] = EntityOf[k],
                ~ \E i \in 1..Len(out') : out'[i].key = k
         PROVE  Len(p) > PageSize /\ k > p[PageSize].key
    <2>1. ~ \E i \in 1..Len(out) : out[i].key = k
      BY <1>6, <1>11
    <2>2. k > cursor
      BY <1>11, <2>1 DEF OutIsOrdered, Collecting, ToCollect
    <2>3. k \in stable /\ k \notin Malformed
      BY DEF Sought
    <2>4. k \in Left /\ k \in Nat
      <3>1. k \in Present(bucket)
        BY <2>3 DEF OutIsOrdered
      <3>2. k \in Keys
        BY <3>1 DEF Present
      <3>3. QED
        BY <1>11, <3>1, <3>2, KeysFinite DEF Left, Under
    <2>5. CASE \E l \in 1..Len(p) : p[l].key = k
      <3>1. PICK l \in 1..Len(p) : p[l].key = k
        BY <2>5
      <3>2. ~ (l <= PageSize)
        <4>1. SUFFICES ASSUME l <= PageSize PROVE FALSE
          OBVIOUS
        <4>2. PICK i \in 1..Len(more) : more[i].key = k
          BY <1>2, <2>3, <3>1, <4>1
        <4>3. Len(out) + i \in 1..Len(out') /\ out'[Len(out) + i].key = k
          BY <1>6, <4>2
        <4>4. QED
          BY <1>11, <4>3
      <3>3. Len(p) > PageSize /\ PageSize \in 1..Len(p) /\ PageSize < l
        BY <1>1, <1>4, <3>2
      <3>4. p[PageSize].key < k /\ p[PageSize].key \in Nat
        BY <1>1, <3>1, <3>3, KeysFinite
      <3>5. QED
        BY <2>4, <3>3, <3>4
    <2>6. CASE Len(p) = PageSize + 1 /\ \A l \in 1..Len(p) : p[l].key < k
      <3>1. Len(p) > PageSize /\ PageSize \in 1..Len(p)
        BY <1>4, <2>6
      <3>2. p[PageSize].key < k /\ p[PageSize].key \in Nat
        BY <1>1, <2>6, <3>1, KeysFinite
      <3>3. QED
        BY <2>4, <3>1, <3>2
    <2>7. QED
      BY <1>1, <2>2, <2>4, <2>5, <2>6
  <1>12. ASSUME NEW k \in Sought
         PROVE  \/ \E i \in 2..Len(todo) : todo[i] = EntityOf[k]
                \/ \E i \in 1..Len(out') : out'[i].key = k
                \/ EntityOf[k] = Entity /\ Len(p) > PageSize /\ k > p[PageSize].key
    <2>1. ToCollect(k) \/ \E i \in 1..Len(out) : out[i].key = k
      BY DEF OutIsOrdered, Collecting
    <2>2. ToCollect(k) => EntityOf[k] = Entity \/ \E i \in 2..Len(todo) : todo[i] = EntityOf[k]
      BY DEF ToCollect
    <2>3. (\E i \in 1..Len(out) : out[i].key = k) => \E i \in 1..Len(out') : out'[i].key = k
      BY <1>6
    <2>4. QED
      BY <1>11, <2>1, <2>2, <2>3
  <1>13. Len(p) > PageSize => p[PageSize].key \in Keys /\ p[PageSize].key > cursor
    <2>1. Len(p) > PageSize => PageSize \in 1..Len(p)
      BY <1>1, <1>4
    <2>2. QED
      BY <1>1, <2>1
  <1>14. ASSUME NEW i \in 1..Len(out')
         PROVE  \/ \E j \in 1..Len(out) : out'[i].key = out[j].key
                \/ /\ EntityOf[out'[i].key] = Entity
                   /\ Len(p) > PageSize => out'[i].key <= p[PageSize].key
    BY <1>5, <1>7
  <1>15. QED
    BY <1>1, <1>10, <1>12, <1>13, <1>14

LEMMA DrainKeepsOrder ==
  ASSUME IInv, OutIsOrdered, Drain
  PROVE  OutIsOrdered'
  <1>1. PICK p \in {ListPage(bucket, Entity, cursor, PageSize + 1)} :
          DrainPage(p) \/ DrainLastPage(p) \/ DrainRaises(p)
    BY DEF Drain
  <1>2. call = "index" /\ pc = "list" /\ page = <<>> /\ todo \in Seq(Entities) /\ todo # <<>>
    BY DEF Drain, At, IInv, ScanFits, TypeOK
  <1>3. /\ stable \subseteq Present(bucket)
        /\ \A i \in 1..Len(out) :
             /\ \A j \in 2..Len(todo) : todo[j] # EntityOf[out[i].key]
             /\ EntityOf[out[i].key] = Entity => out[i].key <= cursor
    BY <1>2 DEF OutIsOrdered, Collecting
  <1>4. CASE DrainRaises(p)
    <2>1. pc' = "idle" /\ out' = <<>> /\ answer' # "ok"
      BY <1>4 DEF DrainRaises, Raises, Ends
    <2>2. QED
      BY <2>1, OrderElsewhere
  <1>5. CASE DrainPage(p) \/ DrainLastPage(p)
    <2>1. out' = out \o Entries(p) /\ UNCHANGED <<bucket, stable, call>>
      BY <1>5 DEF DrainPage, DrainLastPage, history
    <2>2. /\ p \in Seq(Object) /\ Len(p) \in Nat
          /\ Len(p) > PageSize => p[PageSize].key \in Keys /\ p[PageSize].key > cursor
          /\ \A i \in 1..Len(out') :
               \/ \E j \in 1..Len(out) : out'[i].key = out[j].key
               \/ /\ EntityOf[out'[i].key] = Entity
                  /\ Len(p) > PageSize => out'[i].key <= p[PageSize].key
          /\ \A i, j \in 1..Len(out') :
               i < j /\ EntityOf[out'[i].key] = EntityOf[out'[j].key]
                 => out'[i].key < out'[j].key
          /\ \A k \in Sought :
               \/ \E i \in 2..Len(todo) : todo[i] = EntityOf[k]
               \/ \E i \in 1..Len(out') : out'[i].key = k
               \/ EntityOf[k] = Entity /\ Len(p) > PageSize /\ k > p[PageSize].key
      BY <1>1, <1>2, <2>1, DrainedPage
    <2>3. Sought' = Sought
      BY <2>1 DEF Sought
    <2>4. \A i \in 1..Len(out') : \A j \in 2..Len(todo) : todo[j] # EntityOf[out'[i].key]
      <3>1. ASSUME NEW j \in 2..Len(todo) PROVE todo[j] # Entity
        <4>1. 1 \in 1..Len(todo) /\ j \in 1..Len(todo) /\ 1 < j
          BY <1>2
        <4>2. todo[1] < todo[j]
          BY <4>1 DEF IInv, ScanFits
        <4>3. todo[1] \in Entities /\ todo[j] \in Entities
          BY <1>2, <4>1
        <4>4. todo[1] \in Nat /\ todo[j] \in Nat
          BY <4>3, Constants
        <4>5. QED
          BY <4>2, <4>4 DEF Entity
      <3>2. QED
        BY <1>3, <2>2, <3>1
    <2>5. CASE DrainPage(p)
      <3>1. /\ NextCursor(p) # 0 /\ cursor' = NextCursor(p)
            /\ UNCHANGED <<pc, todo, page, answer>>
        BY <2>5 DEF DrainPage
      <3>2. Len(p) > PageSize /\ cursor' = p[PageSize].key
        BY <3>1 DEF NextCursor
      <3>3. cursor' \in Nat /\ cursor \in Nat /\ cursor' > cursor
        BY <2>2, <3>2, KeysFinite, Constants DEF IInv, TypeOK
      <3>4. \A k \in Sought : ToCollect(k)' \/ \E i \in 1..Len(out') : out'[i].key = k
        BY <1>2, <2>2, <3>1, <3>2 DEF ToCollect, Entity
      <3>5. ASSUME NEW i \in 1..Len(out'), EntityOf[out'[i].key] = Entity
            PROVE  out'[i].key <= cursor'
        <4>1. CASE \E j \in 1..Len(out) : out'[i].key = out[j].key
          <5>1. PICK j \in 1..Len(out) : out'[i].key = out[j].key
            BY <4>1
          <5>2. out[j].key <= cursor
            BY <1>3, <3>5, <5>1
          <5>3. out[j] \in Collected
            BY DEF IInv, TypeOK
          <5>4. out[j].key \in Nat
            BY <5>3, KeysFinite DEF Collected
          <5>5. QED
            BY <3>3, <5>1, <5>2, <5>4
        <4>2. QED
          BY <2>2, <3>2, <4>1
      <3>6. Entity' = Entity /\ Len(page') = 0 /\ pc' = "list"
        BY <1>2, <3>1 DEF Entity
      <3>7. /\ (pc' # "idle" => stable' \subseteq Present(bucket'))
            /\ ~Listing'
        BY <1>3, <2>1, <3>6 DEF Listing, Returned
      <3>8. \A i \in 1..Len(out') :
              /\ \A j \in 2..Len(todo') : todo'[j] # EntityOf[out'[i].key]
              /\ EntityOf[out'[i].key] = Entity' =>
                   /\ pc' = "list" => out'[i].key <= cursor'
                   /\ \A j \in 1..Len(page') : out'[i].key < page'[j].key
        BY <2>4, <3>1, <3>5, <3>6
      <3>9. \A k \in Sought' : ToCollect(k)' \/ \E i \in 1..Len(out') : out'[i].key = k
        BY <2>3, <3>4
      <3>10. QED
        BY <2>2, <3>7, <3>8, <3>9 DEF OutIsOrdered
    <2>6. CASE DrainLastPage(p)
      <3>1. Len(p) <= PageSize
        <4>1. NextCursor(p) = 0
          BY <2>6 DEF DrainLastPage
        <4>2. Len(p) > PageSize => NextCursor(p) # 0
          BY <2>2, Constants DEF NextCursor
        <4>3. QED
          BY <2>2, <4>1, <4>2, Constants
      <3>2. \A k \in Sought :
              \/ \E i \in 2..Len(todo) : todo[i] = EntityOf[k]
              \/ \E i \in 1..Len(out') : out'[i].key = k
        BY <2>2, <3>1, Constants
      <3>3. Len(todo) \in Nat /\ Len(todo) >= 1
        BY <1>2
      <3>4. CASE Len(todo) > 1
        <4>1. todo' = Tail(todo) /\ cursor' = 0 /\ UNCHANGED <<pc, page, answer>>
          BY <2>6, <3>4 DEF DrainLastPage
        <4>2. /\ Len(todo') = Len(todo) - 1
              /\ \A i \in 1..Len(todo') : todo'[i] = todo[i + 1]
          BY <1>2, <4>1
        <4>3. Entity' = todo[2] /\ 2 \in 2..Len(todo)
          BY <3>3, <3>4, <4>2 DEF Entity
        <4>4. \A i \in 1..Len(out') :
                /\ EntityOf[out'[i].key] # Entity'
                /\ \A j \in 2..Len(todo') : todo'[j] # EntityOf[out'[i].key]
          <5>1. \A j \in 2..Len(todo') : j \in 1..Len(todo') /\ j + 1 \in 2..Len(todo)
            BY <3>3, <4>2
          <5>2. QED
            BY <2>4, <4>2, <4>3, <5>1
        <4>5. ASSUME NEW k \in Sought PROVE ToCollect(k)' \/ \E i \in 1..Len(out') : out'[i].key = k
          <5>1. CASE \E i \in 2..Len(todo) : todo[i] = EntityOf[k]
            <6>1. PICK i \in 2..Len(todo) : todo[i] = EntityOf[k]
              BY <5>1
            <6>2. CASE i = 2
              <7>1. k \in Keys
                BY <1>3 DEF Sought, Present
              <7>2. k > cursor'
                BY <4>1, <7>1, Constants
              <7>3. QED
                BY <1>2, <4>1, <4>3, <6>1, <6>2, <7>2 DEF ToCollect
            <6>3. CASE i # 2
              <7>1. i - 1 \in 2..Len(todo') /\ i - 1 \in 1..Len(todo') /\ (i - 1) + 1 = i
                BY <3>3, <4>2, <6>3
              <7>2. todo'[i - 1] = EntityOf[k]
                BY <4>2, <6>1, <7>1
              <7>3. QED
                BY <7>1, <7>2 DEF ToCollect
            <6>4. QED
              BY <6>2, <6>3
          <5>2. QED
            BY <3>2, <5>1
        <4>6. QED
          BY <1>2, <1>3, <2>1, <2>2, <2>3, <4>1, <4>4, <4>5 DEF OutIsOrdered, Listing, Returned
      <3>5. CASE ~ (Len(todo) > 1)
        <4>1. pc' = "idle"
          BY <2>6, <3>5 DEF DrainLastPage, Ends
        <4>2. \A i \in 2..Len(todo) : FALSE
          BY <3>3, <3>5
        <4>3. \A k \in Sought : \E i \in 1..Len(out') : out'[i].key = k
          BY <3>2, <4>2
        <4>4. QED
          BY <2>2, <2>3, <4>1, <4>3 DEF OutIsOrdered, Collecting
      <3>6. QED
        BY <3>4, <3>5
    <2>7. QED
      BY <1>5, <2>5, <2>6
  <1>6. QED
    BY <1>1, <1>4, <1>5

(* An export goes through one entity: what it has still to come to is in   *)
(* that entity.                                                            *)
LEMMA OneEntity ==
  ASSUME IInv, OutIsOrdered, call = "export", pc # "idle"
  PROVE  /\ Len(todo) = 1 /\ stable \subseteq Present(bucket) /\ cursor \in Nat
         /\ out \in Seq(Collected) /\ \A i \in 1..Len(out) : out[i].key \in Nat
         /\ \A k \in stable :
              \/ \E i \in 1..Len(out) : out[i].key = k
              \/ /\ EntityOf[k] = Entity
                 /\ \/ pc = "list" /\ k > cursor
                    \/ /\ pc \in {"object", "download"}
                       /\ \/ \E i \in 1..Len(page) : page[i].key = k
                          \/ cursor # 0 /\ k > cursor
         /\ \A i \in 1..Len(out) :
              EntityOf[out[i].key] = Entity =>
                /\ pc = "list" => out[i].key <= cursor
                /\ \A j \in 1..Len(page) : out[i].key < page[j].key
  <1>1. Len(todo) = 1 /\ out \in Seq(Collected) /\ cursor \in Nat
    BY Constants DEF IInv, ScanFits, TypeOK
  <1>2. \A i \in 1..Len(out) : out[i] \in Collected
    BY <1>1
  <1>3. \A i \in 1..Len(out) : out[i].key \in Nat
    BY <1>2, KeysFinite DEF Collected
  <1>4. Sought = stable /\ Collecting
    BY DEF Sought, Collecting
  <1>5. \A i \in 2..Len(todo) : FALSE
    BY <1>1
  <1>6. QED
    BY <1>1, <1>3, <1>4, <1>5 DEF OutIsOrdered, ToCollect

LEMMA PageKeepsOrder ==
  ASSUME IInv, OutIsOrdered, ExportPage
  PROVE  OutIsOrdered'
  <1>1. PICK p \in {ListPage(bucket, Entity, cursor, PageSize)} :
          Proceed(p, Cursor(p)) /\ cursor' = Cursor(p)
    BY DEF ExportPage
  <1>2. /\ call = "export" /\ pc = "list"
        /\ UNCHANGED <<bucket, call, todo, out, stable>>
    BY DEF ExportPage, At, history
  <1>3. /\ p \in Seq(Object) /\ Len(p) \in Nat /\ Len(p) <= PageSize
        /\ \A i \in 1..Len(p) : p[i].key \in Keys /\ p[i].key > cursor
        /\ \A k \in Left :
             k > cursor =>
               \/ \E i \in 1..Len(p) : p[i].key = k
               \/ Len(p) = PageSize /\ \A i \in 1..Len(p) : p[i].key < k
    BY <1>1, <1>2, Constants, NextPage
  <1>4. /\ Cursor(p) \in 0..NKeys
        /\ Cursor(p) = 0 => Len(p) < PageSize
        /\ Cursor(p) # 0 => Len(p) = PageSize /\ p # <<>> /\ Cursor(p) = p[Len(p)].key
    BY <1>3, CursorOf
  <1>5. /\ page' = p
        /\ \/ pc' = "object" /\ p # <<>>
           \/ pc' = "end" /\ p = <<>>
    BY <1>1, <1>3, <1>4, Proceeds
  <1>6. /\ Len(todo) = 1 /\ stable \subseteq Present(bucket) /\ cursor \in Nat
        /\ \A i \in 1..Len(out) : out[i].key \in Nat
        /\ \A k \in stable :
             \/ \E i \in 1..Len(out) : out[i].key = k
             \/ EntityOf[k] = Entity /\ k > cursor
        /\ \A i \in 1..Len(out) : EntityOf[out[i].key] = Entity => out[i].key <= cursor
    BY <1>2, OneEntity
  <1>7. Entity' = Entity
    BY <1>2 DEF Entity
  <1>8. ASSUME NEW k \in stable, ~ \E i \in 1..Len(out) : out[i].key = k
        PROVE  ToCollect(k)'
    <2>1. EntityOf[k] = Entity /\ k > cursor
      BY <1>6, <1>8
    <2>2. k \in Left
      BY <1>6, <2>1 DEF Left, Under, Present
    <2>3. CASE \E i \in 1..Len(p) : p[i].key = k
      <3>1. p # <<>>
        BY <2>3
      <3>2. QED
        BY <1>5, <1>7, <2>1, <2>3, <3>1 DEF ToCollect
    <2>4. CASE Len(p) = PageSize /\ \A i \in 1..Len(p) : p[i].key < k
      <3>1. Len(p) \in 1..Len(p) /\ p # <<>>
        BY <1>3, <2>4, Constants
      <3>2. Cursor(p) # 0
        BY <1>4, <2>4, Constants
      <3>3. cursor' = p[Len(p)].key /\ p[Len(p)].key < k
        BY <1>1, <1>4, <2>4, <3>1, <3>2
      <3>4. k \in Nat /\ p[Len(p)].key \in Nat
        BY <1>3, <2>2, <3>1, KeysFinite DEF Left, Present
      <3>5. cursor' # 0 /\ k > cursor'
        BY <1>1, <3>2, <3>3, <3>4
      <3>6. QED
        BY <1>5, <1>7, <2>1, <3>1, <3>5 DEF ToCollect
    <2>5. QED
      BY <1>3, <2>1, <2>2, <2>3, <2>4
  <1>9. ASSUME NEW i \in 1..Len(out), EntityOf[out[i].key] = Entity, NEW j \in 1..Len(p)
        PROVE  out[i].key < p[j].key
    <2>1. out[i].key <= cursor /\ out[i].key \in Nat /\ cursor \in Nat
      BY <1>6, <1>9
    <2>2. p[j].key > cursor /\ p[j].key \in Nat
      BY <1>3, KeysFinite
    <2>3. QED
      BY <2>1, <2>2
  <1>10. \A i \in 2..Len(todo') : FALSE
    BY <1>2, <1>6
  <1>11. Sought' = stable /\ ~Listing' /\ pc' # "list"
    BY <1>2, <1>5 DEF Sought, Listing, Returned
  <1>12. QED
    BY <1>2, <1>5, <1>6, <1>7, <1>8, <1>9, <1>10, <1>11 DEF OutIsOrdered, Listing, Returned

(* The next object of the page is dealt with: collected, unless it is gone *)
(* and then nothing that stays.                                            *)
LEMMA TurnKeepsOrder ==
  ASSUME IInv, OutIsOrdered, call = "export", pc \in {"object", "download"},
         Proceed(Tail(page), cursor), UNCHANGED <<bucket, call, todo, cursor, stable>>,
         \/ out' = out /\ page[1].key \notin stable
         \/ \E o \in Collected : out' = Append(out, o) /\ o.key = page[1].key
  PROVE  OutIsOrdered'
  <1> DEFINE head == page[1].key
  <1>1. /\ page \in Seq(Object) /\ Len(page) \in Nat /\ Len(page) >= 1 /\ head \in Keys
        /\ Tail(page) \in Seq(Object) /\ Len(Tail(page)) = Len(page) - 1
        /\ \A i \in 1..Len(Tail(page)) : Tail(page)[i] = page[i + 1]
    BY PageHead
  <1>2. cursor \in 0..NKeys
    BY DEF IInv, TypeOK
  <1>3. /\ page' = Tail(page)
        /\ \/ pc' = "object" /\ Len(page') >= 1
           \/ pc' = "list" /\ Len(page') = 0 /\ cursor # 0
           \/ pc' = "end" /\ Len(page') = 0 /\ cursor = 0
    <2> DEFINE rest == Tail(page)
    <2>1. rest \in Seq(Object) /\ Proceed(rest, cursor)
      BY <1>1
    <2> HIDE DEF rest
    <2>2. /\ page' = rest
          /\ \/ pc' = "object" /\ Len(rest) >= 1
             \/ pc' = "list" /\ rest = <<>> /\ cursor # 0
             \/ pc' = "end" /\ rest = <<>> /\ cursor = 0
      BY <1>2, <2>1, Proceeds
    <2>3. page' = <<>> => Len(page') = 0
      OBVIOUS
    <2>4. QED
      BY <2>2, <2>3 DEF rest
  <1>4. /\ Len(todo) = 1 /\ stable \subseteq Present(bucket) /\ cursor \in Nat
        /\ out \in Seq(Collected) /\ \A i \in 1..Len(out) : out[i].key \in Nat
        /\ \A k \in stable :
             \/ \E i \in 1..Len(out) : out[i].key = k
             \/ /\ EntityOf[k] = Entity
                /\ \/ \E i \in 1..Len(page) : page[i].key = k
                   \/ cursor # 0 /\ k > cursor
        /\ \A i \in 1..Len(out) :
             EntityOf[out[i].key] = Entity => \A j \in 1..Len(page) : out[i].key < page[j].key
    BY OneEntity
  <1>5. /\ \A i \in 1..Len(page) :
             /\ EntityOf[page[i].key] = Entity
             /\ cursor # 0 => page[i].key <= cursor
        /\ \A i, j \in 1..Len(page) : i < j => page[i].key < page[j].key
    BY DEF IInv, PageFits
  <1>6. head \in Nat /\ EntityOf[head] = Entity /\ (cursor # 0 => head <= cursor)
    <2>1. 1 \in 1..Len(page)
      BY <1>1
    <2>2. QED
      BY <1>1, <1>5, <2>1, KeysFinite
  <1>7. /\ \A i \in 1..Len(page') : page'[i] = page[i + 1] /\ i + 1 \in 1..Len(page) /\ 1 < i + 1
        /\ \A i \in 1..Len(page) :
             i # 1 => page[i] = page'[i - 1] /\ i - 1 \in 1..Len(page')
    <2>1. ASSUME NEW i \in 1..Len(page')
          PROVE  page'[i] = page[i + 1] /\ i + 1 \in 1..Len(page) /\ 1 < i + 1
      <3>1. i \in 1..Len(Tail(page)) /\ page' = Tail(page)
        BY <1>3
      <3>2. page'[i] = page[i + 1]
        BY <1>1, <3>1
      <3>3. i + 1 \in 1..Len(page) /\ 1 < i + 1
        BY <1>1, <3>1
      <3>4. QED
        BY <3>2, <3>3
    <2>2. ASSUME NEW i \in 1..Len(page), i # 1
          PROVE  page[i] = page'[i - 1] /\ i - 1 \in 1..Len(page')
      <3>1. i - 1 \in 1..Len(page') /\ (i - 1) + 1 = i
        <4>1. Len(page') = Len(page) - 1
          BY <1>1, <1>3
        <4>2. QED
          BY <1>1, <2>2, <4>1
      <3>2. QED
        BY <2>1, <3>1
    <2>3. QED
      BY <2>1, <2>2
  <1>8. /\ Len(out) \in Nat /\ Len(out') \in Nat
        /\ \A i \in 1..Len(out) : i \in 1..Len(out') /\ out'[i] = out[i]
        /\ \A i \in 1..Len(out') :
             \/ i \in 1..Len(out)
             \/ i = Len(out) + 1 /\ out'[i].key = head
        /\ head \in stable => \E i \in 1..Len(out') : out'[i].key = head
    <2>1. CASE out' = out /\ head \notin stable
      BY <1>4, <2>1
    <2>2. CASE \E o \in Collected : out' = Append(out, o) /\ o.key = head
      <3>1. PICK o \in Collected : out' = Append(out, o) /\ o.key = head
        BY <2>2
      <3>2. /\ Len(out) \in Nat /\ Len(out') = Len(out) + 1 /\ out'[Len(out) + 1] = o
            /\ \A i \in 1..Len(out) : out'[i] = out[i]
        BY <1>4, <3>1
      <3>3. Len(out) + 1 \in 1..Len(out') /\ \A i \in 1..Len(out) : i \in 1..Len(out')
        BY <3>2
      <3>4. \A i \in 1..Len(out') : i \in 1..Len(out) \/ i = Len(out) + 1
        BY <3>2
      <3>5. QED
        BY <3>1, <3>2, <3>3, <3>4
    <2>3. QED
      BY <2>1, <2>2
  <1>9. ASSUME NEW i \in 1..Len(out), EntityOf[out[i].key] = Entity
        PROVE  out[i].key < head
    BY <1>1, <1>4, <1>9
  <1>10. ASSUME NEW i \in 1..Len(out'), NEW j \in 1..Len(out'), i < j,
                EntityOf[out'[i].key] = EntityOf[out'[j].key]
         PROVE  out'[i].key < out'[j].key
    <2>1. i \in 1..Len(out)
      BY <1>8, <1>10
    <2>2. CASE j \in 1..Len(out)
      BY <1>8, <1>10, <2>1, <2>2 DEF OutIsOrdered
    <2>3. CASE out'[j].key = head
      BY <1>6, <1>8, <1>9, <1>10, <2>1, <2>3
    <2>4. QED
      BY <1>8, <2>2, <2>3
  <1>11. Entity' = Entity /\ Sought' = stable /\ ~Listing'
    BY <1>3 DEF Entity, Sought, Listing, Returned
  <1>12. ASSUME NEW k \in stable, ~ \E i \in 1..Len(out') : out'[i].key = k
         PROVE  ToCollect(k)'
    <2>1. EntityOf[k] = Entity
      BY <1>4, <1>8, <1>12
    <2>2. CASE \E i \in 1..Len(page) : page[i].key = k
      <3>1. PICK i \in 1..Len(page) : page[i].key = k
        BY <2>2
      <3>2. i # 1
        BY <1>8, <1>12, <3>1
      <3>3. i - 1 \in 1..Len(page') /\ page'[i - 1].key = k
        BY <1>7, <3>1, <3>2
      <3>4. pc' = "object"
        BY <1>3, <3>3
      <3>5. QED
        BY <1>11, <2>1, <3>3, <3>4 DEF ToCollect
    <2>3. CASE cursor # 0 /\ k > cursor
      BY <1>3, <1>11, <2>1, <2>3 DEF ToCollect
    <2>4. QED
      BY <1>4, <1>8, <1>12, <2>2, <2>3
  <1>13. ASSUME NEW i \in 1..Len(out'), EntityOf[out'[i].key] = Entity
         PROVE  /\ pc' = "list" => out'[i].key <= cursor
                /\ \A j \in 1..Len(page') : out'[i].key < page'[j].key
    <2>1. CASE i \in 1..Len(out)
      <3>1. out'[i].key = out[i].key /\ out[i].key < head /\ out[i].key \in Nat
        BY <1>4, <1>8, <1>9, <1>13, <2>1
      <3>2. pc' = "list" => out'[i].key <= cursor
        BY <1>3, <1>4, <1>6, <3>1
      <3>3. \A j \in 1..Len(page') : out'[i].key < page'[j].key
        BY <1>4, <1>7, <1>13, <2>1, <3>1
      <3>4. QED
        BY <3>2, <3>3
    <2>2. CASE out'[i].key = head
      <3>1. pc' = "list" => out'[i].key <= cursor
        BY <1>3, <1>6, <2>2
      <3>2. \A j \in 1..Len(page') : head < page'[j].key
        <4>1. 1 \in 1..Len(page)
          BY <1>1
        <4>2. QED
          BY <1>5, <1>7, <4>1
      <3>3. QED
        BY <2>2, <3>1, <3>2
    <2>3. QED
      BY <1>8, <2>1, <2>2
  <1>14. \A i \in 2..Len(todo') : FALSE
    BY <1>4
  <1>15. QED
    BY <1>4, <1>10, <1>11, <1>12, <1>13, <1>14 DEF OutIsOrdered

LEMMA ExportKeepsOrder ==
  ASSUME IInv, OutIsOrdered, GetBlob \/ Download \/ ExportEnd
  PROVE  OutIsOrdered'
  <1>1. CASE ExportEnd
    <2>1. /\ call = "export" /\ pc = "end" /\ pc' = "idle"
          /\ UNCHANGED <<call, out, stable>>
      BY <1>1 DEF ExportEnd, At, Ends, history
    <2>2. \A k \in stable : \E i \in 1..Len(out) : out[i].key = k
      BY <2>1, OneEntity
    <2>3. Sought' = stable
      BY <2>1 DEF Sought
    <2>4. QED
      BY <2>1, <2>2, <2>3 DEF OutIsOrdered, Collecting
  <1>2. ASSUME UNCHANGED <<bucket, call, todo, cursor, page, out, stable>>,
               call = "export", pc \in {"object", "download"}, pc' \in {"object", "download"}
        PROVE  OutIsOrdered'
    <2>1. Entity' = Entity /\ Sought' = Sought /\ Collecting /\ Collecting' /\ ~Listing'
      BY <1>2 DEF Entity, Sought, Collecting, Listing, Returned
    <2>2. \A k : ToCollect(k)' <=> ToCollect(k)
      BY <1>2, <2>1 DEF ToCollect
    <2>3. QED
      BY <1>2, <2>1, <2>2 DEF OutIsOrdered
  <1>3. CASE GetBlob
    <2>1. call = "export" /\ pc = "object" /\ UNCHANGED <<bucket, call, todo, cursor, out, stable>>
      BY <1>3 DEF GetBlob, At, history
    <2>2. CASE bucket[page[1].key] = 0
      <3>1. Proceed(Tail(page), cursor)
        BY <1>3, <2>2 DEF GetBlob
      <3>2. page[1].key \notin stable
        BY <2>1, <2>2 DEF OutIsOrdered, Present
      <3>3. QED
        BY <2>1, <3>1, <3>2, TurnKeepsOrder
    <2>3. CASE bucket[page[1].key] # 0
      <3>1. pc' = "download" /\ page' = page
        BY <1>3, <2>3 DEF GetBlob
      <3>2. QED
        BY <1>2, <2>1, <3>1
    <2>4. QED
      BY <2>2, <2>3
  <1>4. CASE Download
    <2>1. call = "export" /\ pc = "download" /\ UNCHANGED <<bucket, call>>
      BY <1>4 DEF Download, At
    <2>2. CASE Downloaded(blob)
      <3>1. Proceed(Tail(page), cursor) /\ UNCHANGED <<todo, cursor, stable>>
        BY <2>2 DEF Downloaded, history
      <3>2. page[1].key \in Keys /\ blob \in Nat
        BY <2>1, PageHead DEF IInv, TypeOK
      <3>3. \E o \in Collected : out' = Append(out, o) /\ o.key = page[1].key
        BY <2>2, <3>2 DEF Downloaded, Collected
      <3>4. QED
        BY <2>1, <3>1, <3>3, TurnKeepsOrder
    <2>3. CASE AnotherAttempt
      <3>1. CASE pc' = "object" /\ UNCHANGED <<todo, cursor, page, out, stable>>
        BY <1>2, <2>1, <3>1
      <3>2. CASE Raises("unavailable")
        <4>1. pc' = "idle" /\ out' = <<>> /\ answer' # "ok"
          BY <3>2 DEF Raises, Ends
        <4>2. QED
          BY <4>1, OrderElsewhere
      <3>3. QED
        BY <2>3, <3>1, <3>2 DEF AnotherAttempt, history
    <2>4. QED
      BY <1>4, <2>2, <2>3 DEF Download
  <1>5. QED
    BY <1>1, <1>3, <1>4

LEMMA OrderStays == IInv /\ OutIsOrdered /\ [Next]_vars => OutIsOrdered'
  <1> SUFFICES ASSUME IInv, OutIsOrdered, [Next]_vars PROVE OutIsOrdered'
    OBVIOUS
  <1>1. CASE UNCHANGED vars
    <2>1. UNCHANGED <<bucket, scan, stable>>
      BY <1>1 DEF vars, history
    <2>2. Entity' = Entity /\ (Collecting' <=> Collecting) /\ (Listing' <=> Listing)
      BY <2>1 DEF scan, Entity, Collecting, Listing, Returned
    <2>3. Sought' = Sought /\ \A k : ToCollect(k)' <=> ToCollect(k)
      BY <2>1, <2>2 DEF scan, ToCollect, Sought
    <2>4. UNCHANGED <<pc, call, todo, out, cursor, page>>
      BY <2>1 DEF scan
    <2>5. QED
      BY <2>1, <2>2, <2>3, <2>4 DEF OutIsOrdered
  <1>2. CASE \E s \in Scans : Begin(s.kind, s.of)
    BY <1>2, OrderFromStart
  <1>3. CASE PurgePage \/ PurgeDeletes \/ PassEnds \/ LastLook \/ Invalidate \/ PurgeFails
    <2>1. /\ call' = "purge" /\ pc # "idle"
          /\ \/ UNCHANGED <<bucket, stable>>
             \/ stable' = stable \cap Present(bucket')
      BY <1>3, PurgeGoesOn
    <2>2. stable' \subseteq Present(bucket')
      BY <2>1 DEF OutIsOrdered
    <2>3. QED
      BY <2>1, <2>2, OrderElsewhere
  <1>4. CASE StorageFails
    <2>1. pc' = "idle" /\ out' = <<>> /\ answer' # "ok"
      BY <1>4 DEF StorageFails, Raises, Ends
    <2>2. QED
      BY <2>1, OrderElsewhere
  <1>5. QED
    BY <1>1, <1>2, <1>3, <1>4, Movers, OthersKeepOrder, DrainKeepsOrder, PageKeepsOrder,
       ExportKeepsOrder DEF ScanStep, Scan

(* A drained index, and an export, holds every file that was there from    *)
(* the call's start to its end, each file once and an entity's in order,   *)
(* whatever others did between the pages (core.py 974, gcs.py 184).        *)
THEOREM ListingsMissNothing == Spec => []ListedOnce
  <1>1. Init => OutIsOrdered
    <2> SUFFICES ASSUME Init PROVE OutIsOrdered
      OBVIOUS
    <2>1. pc = "idle" /\ call = "none"
      BY DEF Init
    <2>2. QED
      BY <2>1 DEF OutIsOrdered, Collecting, Listing, Returned
  <1>2. IInv /\ OutIsOrdered => ListedOnce
    <2> SUFFICES ASSUME IInv, OutIsOrdered, Listing PROVE
          /\ Sought \subseteq OutKeys
          /\ \A i, j \in DOMAIN out :
               i < j => IF EntityOf[out[i].key] = EntityOf[out[j].key]
                          THEN out[i].key < out[j].key ELSE out[i].key # out[j].key
      BY DEF ListedOnce, Sought
    <2>1. DOMAIN out = 1..Len(out) /\ call \in {"index", "export"}
      BY DEF IInv, TypeOK, Listing, Returned
    <2>2. QED
      BY <2>1 DEF OutIsOrdered, OutKeys
  <1>3. QED
    BY <1>1, <1>2, AlwaysFits, OrderStays, PTL DEF Spec

-----------------------------------------------------------------------------
(* The index, put together from the entries drained. *)

(* One to one and onto, and so as many.                                    *)
LEMMA AsMany ==
  ASSUME NEW A, NEW B, IsFiniteSet(A), NEW f \in [A -> B],
         \A a, b \in A : f[a] = f[b] => a = b, \A b \in B : \E a \in A : f[a] = b
  PROVE  IsFiniteSet(B) /\ Cardinality(B) = Cardinality(A)
  <1>1. f \in Bijection(A, B)
    BY DEF Bijection, Injection, Surjection, IsInjective
  <1>2. QED
    BY <1>1, FS_Bijection DEF ExistsBijection

LEMMA Interval ==
  ASSUME NEW m \in Nat, NEW n \in Nat, m <= n
  PROVE  /\ IsFiniteSet((m + 1) .. n) /\ Cardinality((m + 1) .. n) = n - m
  <1>1. m + 1 \in Int /\ n \in Int
    OBVIOUS
  <1>2. /\ IsFiniteSet((m + 1) .. n)
        /\ Cardinality((m + 1) .. n) = IF m + 1 > n THEN 0 ELSE n - (m + 1) + 1
    BY <1>1, FS_Interval
  <1>3. QED
    BY <1>2

Objects(S) == S \subseteq Object /\ \A o, p \in S : o.key = p.key => o = p

(* Objects with keys of their own are ordered one after the other. *)
LEMMA BeforeOrders ==
  ASSUME \A g \in Nat : Updated(g) \in Int, NEW S, Objects(S)
  PROVE  /\ \A o \in S : ~ Before(o, o)
         /\ \A o, p \in S : o = p \/ Before(o, p) \/ Before(p, o)
         /\ \A o, p, q \in S : Before(o, p) /\ Before(p, q) => Before(o, q)
  <1>1. ASSUME NEW o \in S
        PROVE  o.key \in Nat /\ Updated(o.gen) \in Int /\ Tier(o) \in Nat
    <2>1. o.key \in Keys /\ o.gen \in Nat
      BY DEF Objects, Object
    <2>2. NKeys \in Nat /\ EntityOf[o.key] \in Entities /\ TierOf \in [Entities -> Nat]
      BY <2>1, ListingAssumption
    <2>3. TierOf[EntityOf[o.key]] \in Nat
      BY <2>2
    <2>4. o.key \in Nat
      BY <2>1, <2>2 DEF Keys
    <2>5. QED
      BY <2>1, <2>3, <2>4 DEF Tier
  <1>2. ASSUME NEW o \in S PROVE ~ Before(o, o)
    BY <1>1 DEF Before
  <1>3. ASSUME NEW o \in S, NEW p \in S PROVE o = p \/ Before(o, p) \/ Before(p, o)
    <2>1. o.key = p.key => o = p
      BY DEF Objects
    <2>2. o.key = p.key \/ Before(o, p) \/ Before(p, o)
      BY <1>1 DEF Before
    <2>3. QED
      BY <2>1, <2>2
  <1>4. ASSUME NEW o \in S, NEW p \in S, NEW q \in S, Before(o, p), Before(p, q)
        PROVE  Before(o, q)
    BY <1>1, <1>4 DEF Before
  <1>5. QED
    BY <1>2, <1>3, <1>4

Earlier(S, o) == {p \in S : Before(p, o)}
Place(S, o) == Cardinality(Earlier(S, o))

(* The later of two objects has more before it, and nobody has all of them *)
(* before it.                                                              *)
LEMMA PlaceGrows ==
  ASSUME \A g \in Nat : Updated(g) \in Int, NEW S, Objects(S), IsFiniteSet(S)
  PROVE  /\ Cardinality(S) \in Nat
         /\ \A o \in S : Place(S, o) \in Nat /\ Place(S, o) < Cardinality(S)
         /\ \A o, p \in S : Before(o, p) <=> Place(S, o) < Place(S, p)
  <1>1. Cardinality(S) \in Nat
    BY FS_CardinalityType
  <1>2. ASSUME NEW o \in S
        PROVE  /\ IsFiniteSet(Earlier(S, o)) /\ Place(S, o) \in Nat
               /\ o \notin Earlier(S, o) /\ Earlier(S, o) \subseteq S
    <2>1. Earlier(S, o) \in SUBSET S
      BY DEF Earlier
    <2>2. o \notin Earlier(S, o)
      BY BeforeOrders DEF Earlier
    <2>3. QED
      BY <2>1, <2>2, FS_Subset, FS_CardinalityType DEF Place
  <1>3. ASSUME NEW o \in S, NEW T \in SUBSET S, o \in T, Earlier(S, o) \subseteq T
        PROVE  Place(S, o) < Cardinality(T)
    <2>1. /\ IsFiniteSet(Earlier(S, o) \cup {o})
          /\ Cardinality(Earlier(S, o) \cup {o}) = Place(S, o) + 1
      BY <1>2, FS_AddElement DEF Place
    <2>2. IsFiniteSet(T) /\ Cardinality(T) \in Nat
      BY FS_Subset, FS_CardinalityType
    <2>3. Earlier(S, o) \cup {o} \in SUBSET T
      BY <1>3
    <2>4. Cardinality(Earlier(S, o) \cup {o}) <= Cardinality(T)
      BY <2>2, <2>3, FS_Subset
    <2>5. QED
      BY <1>2, <2>1, <2>2, <2>4
  <1>4. ASSUME NEW o \in S PROVE Place(S, o) \in Nat /\ Place(S, o) < Cardinality(S)
    BY <1>2, <1>3
  <1>5. ASSUME NEW o \in S, NEW p \in S, Before(o, p) PROVE Place(S, o) < Place(S, p)
    <2>1. o \in Earlier(S, p) /\ Earlier(S, p) \in SUBSET S
      BY <1>5 DEF Earlier
    <2>2. Earlier(S, o) \subseteq Earlier(S, p)
      BY <1>5, BeforeOrders DEF Earlier
    <2>3. QED
      BY <1>3, <2>1, <2>2 DEF Place
  <1>6. ASSUME NEW o \in S, NEW p \in S, Place(S, o) < Place(S, p) PROVE Before(o, p)
    <2>1. Place(S, o) \in Nat /\ Place(S, p) \in Nat
      BY <1>4
    <2>2. ~ Before(p, o)
      BY <1>5, <1>6, <2>1
    <2>3. o # p
      BY <1>6, <2>1
    <2>4. QED
      BY <2>2, <2>3, BeforeOrders
  <1>7. QED
    BY <1>1, <1>4, <1>5, <1>6

(* And every place is taken. *)
LEMMA PlaceTaken ==
  ASSUME \A g \in Nat : Updated(g) \in Int, NEW S, Objects(S), IsFiniteSet(S),
         NEW n \in Nat, n < Cardinality(S)
  PROVE  \E o \in S : Place(S, o) = n
  <1> DEFINE Taken == {Place(S, o) : o \in S}
  <1>1. Cardinality(S) \in Nat /\ \A o \in S : Place(S, o) \in Nat /\ Place(S, o) < Cardinality(S)
    BY PlaceGrows
  <1> DEFINE Places == {i - 1 : i \in 1 .. Cardinality(S)}
  <1>2. Taken \in SUBSET Places
    <2>1. ASSUME NEW o \in S PROVE Place(S, o) \in Places
      <3>1. Place(S, o) + 1 \in 1 .. Cardinality(S) /\ Place(S, o) = (Place(S, o) + 1) - 1
        BY <1>1
      <3>2. QED
        BY <3>1
    <2>2. QED
      BY <2>1
  <1>3. IsFiniteSet(Places) /\ Cardinality(Places) = Cardinality(S)
    <2> DEFINE f == [i \in 1 .. Cardinality(S) |-> i - 1]
    <2>1. IsFiniteSet(1 .. Cardinality(S)) /\ Cardinality(1 .. Cardinality(S)) = Cardinality(S)
      <3>1. 0 \in Nat /\ 0 <= Cardinality(S) /\ 0 + 1 = 1 /\ Cardinality(S) - 0 = Cardinality(S)
        BY <1>1
      <3>2. QED
        BY <1>1, <3>1, Interval
    <2>2. /\ f \in [1 .. Cardinality(S) -> Places]
          /\ \A i, j \in 1 .. Cardinality(S) : f[i] = f[j] => i = j
          /\ \A p \in Places : \E i \in 1 .. Cardinality(S) : f[i] = p
      OBVIOUS
    <2> HIDE DEF f, Places
    <2>3. QED
      BY <2>1, <2>2, AsMany
  <1>4. Cardinality(Taken) = Cardinality(S)
    <2> DEFINE f == [o \in S |-> Place(S, o)]
    <2>1. ASSUME NEW o \in S, NEW p \in S, Place(S, o) = Place(S, p) PROVE o = p
      <3>1. Place(S, o) \in Nat /\ ~ (Place(S, o) < Place(S, p)) /\ ~ (Place(S, p) < Place(S, o))
        BY <1>1, <2>1
      <3>2. ~ Before(o, p) /\ ~ Before(p, o)
        BY <3>1, PlaceGrows
      <3>3. QED
        BY <3>2, BeforeOrders
    <2>2. /\ f \in [S -> Taken] /\ \A t \in Taken : \E o \in S : f[o] = t
          /\ \A o, p \in S : f[o] = f[p] => o = p
      BY <2>1
    <2> HIDE DEF f, Taken
    <2>3. QED
      BY <2>2, AsMany
  <1> HIDE DEF Places, Taken
  <1>5. Taken = Places
    BY <1>2, <1>3, <1>4, FS_Subset
  <1>6. n \in Places
    <2>1. n + 1 \in 1 .. Cardinality(S) /\ n = (n + 1) - 1
      BY <1>1
    <2>2. QED
      BY <2>1 DEF Places
  <1>7. QED
    BY <1>5, <1>6 DEF Taken

(* Ordered lists each object once, the earlier before the later.           *)
LEMMA OrderedLists ==
  ASSUME \A g \in Nat : Updated(g) \in Int, NEW S, Objects(S), IsFiniteSet(S)
  PROVE  /\ Cardinality(S) \in Nat
         /\ DOMAIN Ordered(S) = 1 .. Cardinality(S)
         /\ Ordered(S) \in Seq(S) /\ Len(Ordered(S)) = Cardinality(S)
         /\ \A i \in 1 .. Cardinality(S) : Ordered(S)[i] \in S
         /\ \A i, j \in 1 .. Cardinality(S) : i < j => Before(Ordered(S)[i], Ordered(S)[j])
         /\ \A o \in S : \E i \in 1 .. Cardinality(S) : Ordered(S)[i] = o
  <1> DEFINE n == Cardinality(S)
             Nth(i) == CHOOSE o \in S : Cardinality({p \in S : Before(p, o)}) = i - 1
  <1>1. n \in Nat
    BY PlaceGrows
  <1>2. Ordered(S) = [i \in 1 .. n |-> Nth(i)]
    BY DEF Ordered
  <1>3. ASSUME NEW i \in 1 .. n PROVE Nth(i) \in S /\ Place(S, Nth(i)) = i - 1
    <2>1. i - 1 \in Nat /\ i - 1 < n
      BY <1>1
    <2>2. \E o \in S : Place(S, o) = i - 1
      BY <2>1, PlaceTaken
    <2>3. QED
      BY <2>2 DEF Place, Earlier
  <1> HIDE DEF Nth
  <1>4. ASSUME NEW i \in 1 .. n PROVE Ordered(S)[i] \in S /\ Place(S, Ordered(S)[i]) = i - 1
    BY <1>2, <1>3
  <1>5. ASSUME NEW i \in 1 .. n, NEW j \in 1 .. n, i < j
        PROVE  Before(Ordered(S)[i], Ordered(S)[j])
    <2>1. i - 1 < j - 1
      BY <1>5
    <2>2. QED
      BY <1>4, <2>1, PlaceGrows
  <1>6. ASSUME NEW o \in S PROVE \E i \in 1 .. n : Ordered(S)[i] = o
    <2>1. Place(S, o) \in Nat /\ Place(S, o) < n
      BY PlaceGrows
    <2>2. PICK i \in 1 .. n : i - 1 = Place(S, o)
      <3>1. Place(S, o) + 1 \in 1 .. n /\ (Place(S, o) + 1) - 1 = Place(S, o)
        BY <1>1, <2>1
      <3>2. QED
        BY <3>1
    <2>3. PICK p \in S : p = Ordered(S)[i] /\ Place(S, p) = Place(S, o)
      BY <1>4, <2>2
    <2>4. ~ (Place(S, p) < Place(S, o)) /\ ~ (Place(S, o) < Place(S, p))
      BY <2>1, <2>3
    <2>5. ~ Before(p, o) /\ ~ Before(o, p)
      BY <2>3, <2>4, PlaceGrows
    <2>6. p = o
      BY <2>5, BeforeOrders
    <2>7. QED
      BY <2>3, <2>6
  <1>7. Ordered(S) \in Seq(S) /\ Len(Ordered(S)) = n
    <2>1. Ordered(S) \in [1 .. n -> S]
      BY <1>2, <1>3
    <2> HIDE DEF n
    <2>2. QED
      BY <1>1, <2>1
  <1>8. QED
    BY <1>1, <1>2, <1>4, <1>5, <1>6, <1>7

(* The sizes of the first entries, summed up. *)
Sums(g, s, n) ==
  g = [i \in 0 .. n |-> IF i = 0 THEN 0 ELSE g[i - 1] + EntryBytes[s[i].key]]

LEMMA SumsExist ==
  ASSUME NEW s, NEW n \in Nat, \A i \in 1 .. n : EntryBytes[s[i].key] \in Nat
  PROVE  \E g : Sums(g, s, n) /\ g \in [0 .. n -> Nat]
  <1> DEFINE Summed(m) == \E g : Sums(g, s, m) /\ g \in [0 .. m -> Nat]
             Missing == {m \in Nat : m <= n /\ ~ Summed(m)}
  <1> SUFFICES ASSUME Missing # {} PROVE FALSE
    <2> SUFFICES Summed(n)
      OBVIOUS
    <2> HIDE DEF Summed
    <2>1. n \in Nat /\ n <= n
      OBVIOUS
    <2>2. QED
      BY <2>1
  <1>1. PICK m \in Missing : \A l \in Missing : m <= l
    BY Least
  <1>2. m # 0
    <2>1. Sums([i \in 0 .. 0 |-> 0], s, 0) /\ [i \in 0 .. 0 |-> 0] \in [0 .. 0 -> Nat]
      BY DEF Sums
    <2>2. QED
      BY <1>1, <2>1
  <1>3. m \in Nat /\ m <= n /\ m - 1 \in Nat /\ m - 1 <= n /\ ~ (m <= m - 1) /\ m \in 1 .. n
    BY <1>1, <1>2
  <1>4. PICK g : Sums(g, s, m - 1) /\ g \in [0 .. (m - 1) -> Nat]
    <2>1. m - 1 \notin Missing
      BY <1>1, <1>3
    <2>2. QED
      BY <1>3, <2>1
  <1> DEFINE h == [i \in 0 .. m |-> IF i = m THEN g[m - 1] + EntryBytes[s[m].key] ELSE g[i]]
  <1>5. ASSUME NEW i \in 0 .. m
        PROVE  h[i] = IF i = 0 THEN 0 ELSE h[i - 1] + EntryBytes[s[i].key]
    <2>1. CASE i = m
      <3>1. m - 1 \in 0 .. m /\ m - 1 # m
        BY <1>3
      <3>2. QED
        BY <1>3, <2>1, <3>1
    <2>2. CASE i # m
      <3>1. i \in 0 .. (m - 1) /\ (i # 0 => i - 1 \in 0 .. m /\ i - 1 # m)
        BY <1>3, <2>2
      <3>2. g[i] = IF i = 0 THEN 0 ELSE g[i - 1] + EntryBytes[s[i].key]
        BY <1>4, <3>1 DEF Sums
      <3>3. QED
        BY <2>2, <3>1, <3>2
    <2>3. QED
      BY <2>1, <2>2
  <1>6. h \in [0 .. m -> Nat]
    <2>1. EntryBytes[s[m].key] \in Nat /\ g[m - 1] \in Nat
      BY <1>3, <1>4
    <2>2. ASSUME NEW i \in 0 .. m, i # m PROVE g[i] \in Nat
      <3>1. i \in 0 .. (m - 1)
        BY <1>3, <2>2
      <3>2. QED
        BY <1>4, <3>1
    <2>3. QED
      BY <2>1, <2>2
  <1>7. h = [i \in 0 .. m |-> h[i]]
    OBVIOUS
  <1> HIDE DEF h
  <1>8. Sums(h, s, m)
    BY <1>5, <1>7 DEF Sums
  <1>9. QED
    BY <1>1, <1>6, <1>8

LEMMA SumsAgree ==
  ASSUME NEW s, NEW t, NEW g, NEW h, NEW m \in Nat, NEW n \in Nat, m <= n,
         \A i \in 1 .. m : t[i] = s[i], Sums(g, s, n), Sums(h, t, m)
  PROVE  h[m] = g[m]
  <1> DEFINE Differ == {i \in Nat : i <= m /\ h[i] # g[i]}
  <1> SUFFICES ASSUME Differ # {} PROVE FALSE
    OBVIOUS
  <1>1. PICK i \in Differ : \A j \in Differ : i <= j
    BY Least
  <1>2. i \in 0 .. m /\ i \in 0 .. n /\ h[i] # g[i]
    BY <1>1
  <1>3. /\ h[i] = IF i = 0 THEN 0 ELSE h[i - 1] + EntryBytes[t[i].key]
        /\ g[i] = IF i = 0 THEN 0 ELSE g[i - 1] + EntryBytes[s[i].key]
    <2>1. /\ h = [k \in 0 .. m |-> IF k = 0 THEN 0 ELSE h[k - 1] + EntryBytes[t[k].key]]
          /\ g = [k \in 0 .. n |-> IF k = 0 THEN 0 ELSE g[k - 1] + EntryBytes[s[k].key]]
      BY DEF Sums
    <2>2. QED
      BY <1>2, <2>1
  <1>4. i # 0
    BY <1>2, <1>3
  <1>5. i - 1 \in Nat /\ i - 1 <= m /\ ~ (i <= i - 1) /\ i \in 1 .. m
    BY <1>2, <1>4
  <1>6. h[i - 1] = g[i - 1]
    <2>1. i - 1 \notin Differ
      BY <1>1, <1>5
    <2>2. QED
      BY <1>5, <2>1
  <1>7. QED
    BY <1>2, <1>3, <1>4, <1>5, <1>6

(* So Bytes adds up, over a sequence or over a beginning of it.            *)
LEMMA BytesAddUp ==
  ASSUME NEW s, NEW n \in Nat, \A i \in 1 .. n : EntryBytes[s[i].key] \in Nat
  PROVE  /\ \A m \in 0 .. n : Bytes(s, m) \in Nat
         /\ Bytes(s, 0) = 0
         /\ \A m \in 1 .. n : Bytes(s, m) = Bytes(s, m - 1) + EntryBytes[s[m].key]
         /\ \A m \in 0 .. n : \A t : (\A i \in 1 .. m : t[i] = s[i]) => Bytes(t, m) = Bytes(s, m)
  <1>1. PICK g : Sums(g, s, n) /\ g \in [0 .. n -> Nat]
    BY SumsExist
  <1>2. ASSUME NEW t, NEW m \in 0 .. n, \A i \in 1 .. m : t[i] = s[i]
        PROVE  Bytes(t, m) = g[m]
    <2> DEFINE sum == CHOOSE h : Sums(h, t, m)
    <2>1. m \in Nat /\ m <= n /\ \A i \in 1 .. m : EntryBytes[t[i].key] \in Nat
      <3>1. m \in Nat /\ m <= n /\ \A i \in 1 .. m : i \in 1 .. n
        OBVIOUS
      <3>2. QED
        BY <1>2, <3>1
    <2>2. \E h : Sums(h, t, m)
      BY <2>1, SumsExist
    <2>3. Sums(sum, t, m)
      BY <2>2
    <2>4. Bytes(t, m) = sum[m]
      BY DEF Bytes, Sums
    <2> HIDE DEF sum
    <2>5. m \in Nat /\ m <= n
      BY <2>1
    <2>6. \A h : Sums(h, t, m) => h[m] = g[m]
      <3>1. ASSUME NEW h, Sums(h, t, m) PROVE h[m] = g[m]
        <4>1. Sums(g, s, n)
          BY <1>1
        <4>2. \A i \in 1 .. m : t[i] = s[i]
          BY <1>2
        <4>3. m \in Nat /\ m <= n
          BY <2>5
        <4>4. QED
          BY <3>1, <4>1, <4>2, <4>3, SumsAgree
      <3>2. QED
        BY <3>1
    <2>7. QED
      BY <2>3, <2>4, <2>6
  <1>3. \A m \in 0 .. n : Bytes(s, m) = g[m]
    BY <1>2
  <1>4. \A i \in 0 .. n : g[i] = IF i = 0 THEN 0 ELSE g[i - 1] + EntryBytes[s[i].key]
    <2>1. g = [k \in 0 .. n |-> IF k = 0 THEN 0 ELSE g[k - 1] + EntryBytes[s[k].key]]
      BY <1>1 DEF Sums
    <2>2. QED
      BY <2>1
  <1>5. 0 \in 0 .. n /\ \A m \in 1 .. n : m \in 0 .. n /\ m # 0 /\ m - 1 \in 0 .. n
    OBVIOUS
  <1>6. QED
    BY <1>1, <1>2, <1>3, <1>4, <1>5

(* A part of 1 .. n that with a number has all the smaller ones.           *)
LEMMA Beginning ==
  ASSUME NEW n \in Nat, NEW T \in SUBSET (1 .. n),
         \A i \in T : \A j \in 1 .. n : j <= i => j \in T
  PROVE  Cardinality(T) \in 0 .. n /\ T = 1 .. Cardinality(T)
  <1>1. ASSUME NEW m \in Nat, m <= n, T = 1 .. m
        PROVE  Cardinality(T) \in 0 .. n /\ T = 1 .. Cardinality(T)
    <2>1. 0 \in Nat /\ 0 <= m /\ 0 + 1 = 1 /\ m - 0 = m /\ m \in 0 .. n
      BY <1>1
    <2>2. Cardinality(1 .. m) = m
      BY <2>1, Interval
    <2>3. QED
      BY <1>1, <2>1, <2>2
  <1>2. CASE T = 1 .. n
    BY <1>1, <1>2
  <1>3. CASE T # 1 .. n
    <2>1. (1 .. n) \ T \in SUBSET Nat
      OBVIOUS
    <2>a. (1 .. n) \ T # {}
      BY <1>3, Zenon
    <2>2. PICK k \in (1 .. n) \ T : \A l \in (1 .. n) \ T : k <= l
      BY <2>1, <2>a, Least
    <2>3. k \in 1 .. n /\ k \notin T /\ k - 1 \in Nat /\ k - 1 <= n
      BY <2>2
    <2>4. ASSUME NEW i \in 1 .. n PROVE i \in T <=> i <= k - 1
      <3>1. i \in T => ~ (k <= i)
        BY <2>3
      <3>2. i \notin T => k <= i
        BY <2>2
      <3>3. QED
        BY <2>3, <3>1, <3>2
    <2>5. T = 1 .. (k - 1)
      <3>1. \A i : i \in 1 .. (k - 1) <=> i \in 1 .. n /\ i <= k - 1
        BY <2>3
      <3>2. QED
        BY <2>4, <3>1
    <2>6. QED
      BY <1>1, <2>3, <2>5
  <1>4. QED
    BY <1>2, <1>3

(* The entries included fit the budget, and with the next they would not.  *)
LEMMA IncludedFit ==
  ASSUME NEW s \in Seq(Object)
  PROVE  /\ Included(s) \in 0 .. Len(s)
         /\ Bytes(s, Included(s)) <= IndexBytes
         /\ Included(s) < Len(s) =>
              Bytes(s, Included(s)) + EntryBytes[s[Included(s) + 1].key] > IndexBytes
  <1> DEFINE n == Len(s)
             T == {i \in DOMAIN s : Bytes(s, i) <= IndexBytes}
  <1>1. n \in Nat /\ DOMAIN s = 1 .. n /\ IndexBytes \in Nat
    BY ListingAssumption
  <1>2. \A i \in 1 .. n : EntryBytes[s[i].key] \in Nat
    <2>1. \A i \in 1 .. n : s[i] \in Object
      BY <1>1
    <2>2. \A i \in 1 .. n : s[i].key \in Keys
      BY <2>1 DEF Object
    <2>3. QED
      BY <2>2, ListingAssumption
  <1>3. /\ \A m \in 0 .. n : Bytes(s, m) \in Nat
        /\ Bytes(s, 0) = 0
        /\ \A m \in 1 .. n : Bytes(s, m) = Bytes(s, m - 1) + EntryBytes[s[m].key]
    BY <1>1, <1>2, BytesAddUp
  <1> HIDE DEF n
  <1>4. ASSUME NEW i \in T, NEW j \in 1 .. n, j <= i PROVE j \in T
    <2> DEFINE Above == {k \in T : j <= k}
    <2>1. i \in Above /\ Above \in SUBSET Nat
      BY <1>1, <1>4
    <2>2. PICK k \in Above : \A l \in Above : k <= l
      BY <2>1, Least
    <2>3. k \in 1 .. n /\ Bytes(s, k) <= IndexBytes /\ j <= k
      BY <1>1, <2>2
    <2>4. CASE k = j
      BY <2>2, <2>4
    <2>5. CASE k # j
      <3>1. k - 1 \in 1 .. n /\ j <= k - 1 /\ ~ (k <= k - 1) /\ k - 1 \in 0 .. n /\ k \in 0 .. n
        BY <1>1, <2>3, <2>5
      <3>2. k - 1 \notin T
        BY <2>2, <3>1
      <3>3. ~ (Bytes(s, k - 1) <= IndexBytes)
        BY <1>1, <3>1, <3>2
      <3>4. Bytes(s, k) = Bytes(s, k - 1) + EntryBytes[s[k].key]
        BY <1>3, <2>3
      <3>5. Bytes(s, k - 1) \in Nat /\ EntryBytes[s[k].key] \in Nat
        BY <1>2, <1>3, <2>3, <3>1
      <3>6. QED
        BY <1>1, <2>3, <3>3, <3>4, <3>5
    <2>6. QED
      BY <2>4, <2>5
  <1>5. Included(s) = Cardinality(T)
    BY DEF Included
  <1>6. T \in SUBSET (1 .. n)
    BY <1>1
  <1>7. Included(s) \in 0 .. n /\ T = 1 .. Included(s)
    <2> HIDE DEF T
    <2>1. QED
      BY <1>1, <1>4, <1>5, <1>6, Beginning
  <1> DEFINE m == Included(s)
  <1> HIDE DEF m
  <1>8. m \in 0 .. n /\ T = 1 .. m
    BY <1>7 DEF m
  <1>9. Bytes(s, m) <= IndexBytes
    <2>1. CASE m = 0
      BY <1>1, <1>3, <2>1
    <2>2. CASE m # 0
      <3>1. m \in T
        BY <1>8, <2>2
      <3>2. QED
        BY <3>1
    <2>3. QED
      BY <2>1, <2>2
  <1>10. ASSUME m < n PROVE Bytes(s, m) + EntryBytes[s[m + 1].key] > IndexBytes
    <2>1. m + 1 \in 1 .. n /\ m + 1 \notin 1 .. m /\ (m + 1) - 1 = m /\ m + 1 \in 0 .. n
      BY <1>1, <1>8, <1>10
    <2>2. ~ (Bytes(s, m + 1) <= IndexBytes)
      BY <1>1, <1>8, <2>1
    <2>3. Bytes(s, m + 1) = Bytes(s, m) + EntryBytes[s[m + 1].key]
      BY <1>3, <2>1
    <2>4. Bytes(s, m + 1) \in Nat
      BY <1>3, <2>1
    <2>5. QED
      BY <1>1, <2>2, <2>3, <2>4
  <1>11. QED
    BY <1>8, <1>9, <1>10 DEF m, n

(* What an index says of the objects it was made of.                       *)
Kept(idx) == {idx.entries[i].key : i \in DOMAIN idx.entries}
LeftOut(idx, S) == {o \in S : o.key \notin Kept(idx)}
LeftIn(idx, S, area) == {o \in LeftOut(idx, S) : AreaOf[o.key] = area}
Weight(idx) == Bytes(idx.entries, Len(idx.entries))

Accounts(idx, S) ==
  /\ Kept(idx) \subseteq {o.key : o \in S} /\ Cardinality(Kept(idx)) = Len(idx.entries)
  /\ DOMAIN idx.capped = {AreaOf[o.key] : o \in LeftOut(idx, S)}
  /\ \A area \in DOMAIN idx.capped : idx.capped[area] = Cardinality(LeftIn(idx, S, area))
  /\ \A o \in LeftOut(idx, S), i \in DOMAIN idx.entries : Before(idx.entries[i], o)
  /\ Weight(idx) <= IndexBytes
  /\ \A o \in LeftOut(idx, S) : (\A p \in LeftOut(idx, S) \ {o} : Before(o, p)) =>
       Weight(idx) + EntryBytes[o.key] > IndexBytes

LEMMA AssembledAccounts ==
  ASSUME \A g \in Nat : Updated(g) \in Int, NEW S, Objects(S), IsFiniteSet(S)
  PROVE  Accounts(AssembleIndex(S), S)
  <1> DEFINE n == Cardinality(S)
             s == Ordered(S)
             m == Included(s)
             idx == AssembleIndex(S)
  <1>1. /\ n \in Nat /\ s \in Seq(S) /\ Len(s) = n
        /\ \A i \in 1 .. n : s[i] \in S
        /\ \A i, j \in 1 .. n : i < j => Before(s[i], s[j])
        /\ \A o \in S : \E i \in 1 .. n : s[i] = o
    BY OrderedLists
  <1>2. s \in Seq(Object) /\ S \subseteq Object
    BY <1>1 DEF Objects
  <1>3. /\ m \in 0 .. n /\ Bytes(s, m) <= IndexBytes
        /\ m < n => Bytes(s, m) + EntryBytes[s[m + 1].key] > IndexBytes
    <2> HIDE DEF s
    <2>1. QED
      BY <1>1, <1>2, IncludedFit
  <1>4. /\ idx.entries = SubSeq(s, 1, m)
        /\ idx.capped = [area \in {AreaOf[s[i].key] : i \in (m + 1) .. Len(s)} |->
                           Cardinality({i \in (m + 1) .. Len(s) : AreaOf[s[i].key] = area})]
    BY <1>2 DEF AssembleIndex, Capped
  <1>5. \A i \in 1 .. n : \A j \in 1 .. n : s[i].key = s[j].key => i = j
    <2>1. ASSUME NEW i \in 1 .. n, NEW j \in 1 .. n, i < j PROVE s[i].key # s[j].key
      <3>1. Before(s[i], s[j]) /\ s[i] \in S /\ s[j] \in S
        BY <1>1, <2>1
      <3>2. s[i] # s[j]
        BY <3>1, BeforeOrders
      <3>3. QED
        BY <3>1, <3>2 DEF Objects
    <2>2. ASSUME NEW i \in 1 .. n, NEW j \in 1 .. n, s[i].key = s[j].key PROVE i = j
      <3>1. i \in Int /\ j \in Int /\ ~ (i < j) /\ ~ (j < i)
        BY <2>1, <2>2
      <3>2. QED
        BY <3>1
    <2>3. QED
      BY <2>2
  <1> HIDE DEF n, s, m, idx
  <1>6. /\ idx.entries = SubSeq(s, 1, m) /\ Len(idx.entries) = m
        /\ DOMAIN idx.entries = 1 .. m /\ \A i \in 1 .. m : i \in 1 .. n /\ idx.entries[i] = s[i]
    <2>1. m \in 0 .. n /\ n \in Nat
      BY <1>1, <1>3
    <2>2. \A i \in 1 .. m : i \in 1 .. n
      BY <2>1
    <2>3. Len(SubSeq(s, 1, m)) = m /\ DOMAIN SubSeq(s, 1, m) = 1 .. m
          /\ \A i \in 1 .. m : SubSeq(s, 1, m)[i] = s[i]
      BY <1>1, <2>1
    <2>4. QED
      BY <1>4, <2>2, <2>3
  <1>a. m \in Nat /\ n \in Nat /\ m <= n
    BY <1>1, <1>3
  <1>7. LeftOut(idx, S) = {s[i] : i \in (m + 1) .. n}
    <2>1. Kept(idx) = {s[i].key : i \in 1 .. m}
      BY <1>6 DEF Kept
    <2>2. ASSUME NEW i \in 1 .. n PROVE s[i].key \in Kept(idx) <=> i \in 1 .. m
      BY <1>5, <1>6, <2>1
    <2>3. \A i : i \in (m + 1) .. n <=> i \in 1 .. n /\ i \notin 1 .. m
      BY <1>a
    <2>4. ASSUME NEW o \in LeftOut(idx, S) PROVE \E i \in (m + 1) .. n : o = s[i]
      <3>1. o \in S /\ o.key \notin Kept(idx)
        BY DEF LeftOut
      <3>2. PICK i \in 1 .. n : s[i] = o
        BY <1>1, <3>1
      <3>3. QED
        BY <2>2, <2>3, <3>1, <3>2
    <2>5. ASSUME NEW i \in (m + 1) .. n PROVE s[i] \in LeftOut(idx, S)
      BY <1>1, <2>2, <2>3 DEF LeftOut
    <2>6. QED
      BY <2>4, <2>5
  <1>8. \A i \in (m + 1) .. n : i \in 1 .. n /\ s[i] \in LeftOut(idx, S)
    <2>1. \A i \in (m + 1) .. n : i \in 1 .. n
      BY <1>1, <1>3
    <2>2. QED
      BY <1>7, <2>1
  <1>9. Kept(idx) \subseteq {o.key : o \in S} /\ Cardinality(Kept(idx)) = Len(idx.entries)
    <2>1. \A i \in 1 .. m : idx.entries[i] \in S
      BY <1>1, <1>6
    <2> DEFINE f == [i \in 1 .. m |-> s[i].key]
    <2>2. /\ f \in [1 .. m -> Kept(idx)]
          /\ \A i, j \in 1 .. m : f[i] = f[j] => i = j
          /\ \A k \in Kept(idx) : \E i \in 1 .. m : f[i] = k
      <3>1. Kept(idx) = {s[i].key : i \in 1 .. m}
        BY <1>6 DEF Kept
      <3>2. \A i, j \in 1 .. m : s[i].key = s[j].key => i = j
        BY <1>5, <1>6
      <3>3. QED
        BY <3>1, <3>2
    <2>3. IsFiniteSet(1 .. m) /\ Cardinality(1 .. m) = m
      <3>1. 0 \in Nat /\ m \in Nat /\ 0 <= m /\ 0 + 1 = 1 /\ m - 0 = m
        BY <1>1, <1>3
      <3>2. QED
        BY <3>1, Interval
    <2> HIDE DEF f
    <2>4. Cardinality(Kept(idx)) = m
      BY <2>2, <2>3, AsMany
    <2>5. QED
      BY <1>6, <2>1, <2>4 DEF Kept
  <1>10. DOMAIN idx.capped = {AreaOf[o.key] : o \in LeftOut(idx, S)}
    <2>1. DOMAIN idx.capped = {AreaOf[s[i].key] : i \in (m + 1) .. n}
      BY <1>1, <1>4
    <2>2. QED
      BY <1>7, <2>1
  <1>11. ASSUME NEW area \in DOMAIN idx.capped
         PROVE  idx.capped[area] = Cardinality(LeftIn(idx, S, area))
    <2> DEFINE P == {i \in (m + 1) .. n : AreaOf[s[i].key] = area}
               f == [i \in P |-> s[i]]
    <2>1. idx.capped[area] = Cardinality(P)
      BY <1>1, <1>4, <1>11
    <2>2. IsFiniteSet(P)
      <3>1. IsFiniteSet((m + 1) .. n)
        <4>1. m \in Nat /\ m <= n
          BY <1>1, <1>3
        <4>2. QED
          BY <1>1, <4>1, Interval
      <3>2. QED
        BY <3>1, FS_Subset
    <2>3. /\ f \in [P -> LeftIn(idx, S, area)]
          /\ \A i, j \in P : f[i] = f[j] => i = j
          /\ \A o \in LeftIn(idx, S, area) : \E i \in P : f[i] = o
      <3>1. \A i \in P : s[i] \in LeftIn(idx, S, area)
        BY <1>8 DEF LeftIn
      <3>2. \A i, j \in P : s[i] = s[j] => i = j
        BY <1>5, <1>8
      <3>3. \A o \in LeftIn(idx, S, area) : \E i \in P : s[i] = o
        BY <1>7 DEF LeftIn
      <3> HIDE DEF P
      <3>4. QED
        BY <3>1, <3>2, <3>3
    <2> HIDE DEF P, f
    <2>4. QED
      BY <2>1, <2>2, <2>3, AsMany
  <1>12. ASSUME NEW o \in LeftOut(idx, S), NEW i \in DOMAIN idx.entries
         PROVE  Before(idx.entries[i], o)
    <2>1. PICK j \in (m + 1) .. n : o = s[j]
      BY <1>7
    <2>2. i \in 1 .. m /\ i \in 1 .. n /\ j \in 1 .. n
      BY <1>6, <1>8
    <2>a. i < j
      BY <1>a, <2>2
    <2>3. QED
      BY <1>1, <1>6, <2>1, <2>2, <2>a
  <1>13. Weight(idx) = Bytes(s, m)
    <2>1. \A i \in 1 .. n : EntryBytes[s[i].key] \in Nat
      <3>1. \A i \in 1 .. n : s[i].key \in Keys
        BY <1>1, <1>2 DEF Object
      <3>2. QED
        BY <3>1, ListingAssumption
    <2>a. \A k \in 0 .. n : \A t : (\A i \in 1 .. k : t[i] = s[i]) => Bytes(t, k) = Bytes(s, k)
      BY <1>a, <2>1, BytesAddUp
    <2>2. Bytes(idx.entries, m) = Bytes(s, m)
      BY <1>3, <1>6, <2>a
    <2>3. QED
      BY <1>6, <2>2 DEF Weight
  <1>14. ASSUME NEW o \in LeftOut(idx, S), \A p \in LeftOut(idx, S) \ {o} : Before(o, p)
         PROVE  Weight(idx) + EntryBytes[o.key] > IndexBytes
    <2>1. PICK j \in (m + 1) .. n : o = s[j]
      BY <1>7
    <2>2. m < n /\ m + 1 \in (m + 1) .. n /\ m + 1 \in 1 .. n /\ j \in 1 .. n
      BY <1>1, <1>3, <2>1
    <2>3. j = m + 1
      <3>1. CASE s[m + 1] = o
        BY <1>5, <2>1, <2>2, <3>1
      <3>2. CASE s[m + 1] # o
        <4>1. Before(o, s[m + 1]) /\ s[m + 1] \in S /\ o \in S
          BY <1>1, <1>8, <1>14, <2>1, <2>2, <3>2
        <4>2. ~ Before(s[m + 1], o)
          BY <4>1, BeforeOrders
        <4>3. ~ (m + 1 < j)
          BY <1>1, <2>1, <2>2, <4>2
        <4>4. QED
          BY <1>1, <1>3, <2>1, <4>3
      <3>3. QED
        BY <3>1, <3>2
    <2>4. QED
      BY <1>3, <1>13, <2>1, <2>2, <2>3
  <1>15. Accounts(idx, S)
    BY <1>3, <1>9, <1>10, <1>11, <1>12, <1>13, <1>14 DEF Accounts
  <1>16. QED
    BY <1>15 DEF idx

(* The entries drained, whole and as the index takes them.                 *)
Drained == {out[i] : i \in DOMAIN out}
Bare(o) == [key |-> o.key, gen |-> o.gen]
Assembled == {[key |-> out[i].key, gen |-> out[i].gen] : i \in DOMAIN out}

IndexIsMade == Returned("index") => index = AssembleIndex(Assembled)

LEMMA IndexStaysMade == IInv /\ IndexIsMade /\ [Next]_vars => IndexIsMade'
  <1> SUFFICES ASSUME IInv, IndexIsMade, [Next]_vars PROVE IndexIsMade'
    OBVIOUS
  <1>1. ASSUME UNCHANGED scan PROVE IndexIsMade'
    BY <1>1 DEF scan, IndexIsMade, Returned, Assembled
  <1>2. ASSUME ~ Returned("index")' PROVE IndexIsMade'
    BY <1>2 DEF IndexIsMade
  <1>3. CASE UNCHANGED vars \/ OtherStep
    BY <1>1, <1>3, OtherMoves DEF vars
  <1>4. CASE \E s \in Scans : Begin(s.kind, s.of)
    BY <1>2, <1>4 DEF Begin, Returned
  <1>5. CASE Drain
    <2>1. PICK p \in {ListPage(bucket, Entity, cursor, PageSize + 1)} :
            DrainPage(p) \/ DrainLastPage(p) \/ DrainRaises(p)
      BY <1>5 DEF Drain
    <2>2. pc = "list"
      BY <1>5 DEF Drain, At
    <2>3. CASE DrainPage(p) \/ DrainRaises(p)
      BY <1>2, <2>2, <2>3 DEF DrainPage, DrainRaises, Raises, Ends, Returned
    <2>4. CASE DrainLastPage(p)
      <3>1. CASE pc' = pc
        BY <1>2, <2>2, <3>1 DEF Returned
      <3>2. CASE index' = AssembleIndex({[key |-> out'[i].key, gen |-> out'[i].gen] :
                                           i \in DOMAIN out'})
        BY <3>2 DEF IndexIsMade, Assembled
      <3>3. QED
        BY <2>4, <3>1, <3>2 DEF DrainLastPage
    <2>5. QED
      BY <2>1, <2>3, <2>4
  <1>6. CASE ExportPage \/ GetBlob \/ Download \/ ExportEnd
    BY <1>2, <1>6 DEF ExportPage, GetBlob, Download, ExportEnd, At, Returned
  <1>7. CASE PurgePage \/ PurgeDeletes \/ PassEnds \/ LastLook \/ Invalidate \/ PurgeFails
    BY <1>2, <1>7, PurgeGoesOn DEF Returned
  <1>8. CASE StorageFails
    BY <1>2, <1>8 DEF StorageFails, Raises, Ends, Returned
  <1>9. QED
    BY <1>3, <1>4, <1>5, <1>6, <1>7, <1>8, Movers DEF ScanStep, Scan

(* Nothing was drained twice, so entries have keys of their own.           *)
LEMMA DrainedOnce ==
  ASSUME IInv, OutIsOrdered, call = "index"
  PROVE  /\ DOMAIN out = 1 .. Len(out) /\ \A i \in DOMAIN out : out[i] \in Collected
         /\ \A i, j \in DOMAIN out : out[i].key = out[j].key => i = j
         /\ IsFiniteSet(Drained) /\ IsFiniteSet(Assembled) /\ Objects(Assembled)
  <1>1. /\ out \in Seq(Collected) /\ Len(out) \in Nat /\ DOMAIN out = 1 .. Len(out)
        /\ \A i \in 1 .. Len(out) : out[i] \in Collected
    BY DEF IInv, TypeOK
  <1>2. \A i \in DOMAIN out : out[i].key \in Nat
    BY <1>1, Constants DEF Collected, Keys
  <1>3. ASSUME NEW i \in DOMAIN out, NEW j \in DOMAIN out, out[i].key = out[j].key PROVE i = j
    <2>1. ~ (i < j) /\ ~ (j < i)
      <3>1. ~ (out[i].key < out[j].key) /\ ~ (out[j].key < out[i].key)
        BY <1>2, <1>3
      <3>2. i \in 1 .. Len(out) /\ j \in 1 .. Len(out) /\ EntityOf[out[i].key] = EntityOf[out[j].key]
        BY <1>1, <1>3
      <3>3. QED
        BY <3>1, <3>2 DEF OutIsOrdered
    <2>2. i \in Int /\ j \in Int
      BY <1>1
    <2>3. QED
      BY <2>1, <2>2
  <1>4. IsFiniteSet(DOMAIN out)
    <2>1. 0 \in Nat /\ 0 <= Len(out) /\ 0 + 1 = 1
      BY <1>1
    <2>2. QED
      BY <1>1, <2>1, Interval
  <1>5. IsFiniteSet(Drained)
    <2> DEFINE f == [i \in DOMAIN out |-> out[i]]
    <2>1. f \in [DOMAIN out -> Drained]
      BY DEF Drained
    <2>2. \A i, j \in DOMAIN out : f[i] = f[j] => i = j
      BY <1>3
    <2>3. \A o \in Drained : \E i \in DOMAIN out : f[i] = o
      BY DEF Drained
    <2> HIDE DEF f
    <2>4. QED
      BY <1>4, <2>1, <2>2, <2>3, AsMany
  <1>6. IsFiniteSet(Assembled)
    <2> DEFINE f == [i \in DOMAIN out |-> [key |-> out[i].key, gen |-> out[i].gen]]
    <2>1. f \in [DOMAIN out -> Assembled]
      BY DEF Assembled
    <2>2. \A i, j \in DOMAIN out : f[i] = f[j] => i = j
      <3>1. \A i \in DOMAIN out : f[i].key = out[i].key
        OBVIOUS
      <3> HIDE DEF f
      <3>2. QED
        BY <1>3, <3>1
    <2>3. \A o \in Assembled : \E i \in DOMAIN out : f[i] = o
      BY DEF Assembled
    <2> HIDE DEF f
    <2>4. QED
      BY <1>4, <2>1, <2>2, <2>3, AsMany
  <1>7. Objects(Assembled)
    <2>1. \A o \in Assembled : \E i \in DOMAIN out : o = [key |-> out[i].key, gen |-> out[i].gen]
      BY DEF Assembled
    <2>2. Assembled \subseteq Object
      BY <1>1, <2>1 DEF Object, Collected
    <2>3. ASSUME NEW o \in Assembled, NEW p \in Assembled, o.key = p.key PROVE o = p
      <3>1. PICK i \in DOMAIN out : o = [key |-> out[i].key, gen |-> out[i].gen]
        BY <2>1
      <3>2. PICK j \in DOMAIN out : p = [key |-> out[j].key, gen |-> out[j].gen]
        BY <2>1
      <3>3. i = j
        BY <1>3, <2>3, <3>1, <3>2
      <3>4. QED
        BY <3>1, <3>2, <3>3
    <2>4. QED
      BY <2>2, <2>3 DEF Objects
  <1>8. QED
    BY <1>1, <1>3, <1>5, <1>6, <1>7

(* What is so of the bare objects is so of the entries.                    *)
LEMMA DrainedAreAccounted ==
  ASSUME IInv, OutIsOrdered, call = "index", Accounts(index, Assembled)
  PROVE  Accounts(index, Drained)
  <1>1. /\ \A o \in Drained : Bare(o) \in Assembled /\ Bare(o).key = o.key
        /\ \A q \in Assembled : \E o \in Drained : q = Bare(o)
    BY DEF Drained, Assembled, Bare
  <1>2. \A o, p \in Drained : o.key = p.key => o = p
    <2>1. ASSUME NEW o \in Drained, NEW p \in Drained, o.key = p.key PROVE o = p
      <3>1. PICK i \in DOMAIN out : o = out[i]
        BY DEF Drained
      <3>2. PICK j \in DOMAIN out : p = out[j]
        BY DEF Drained
      <3>3. QED
        BY <2>1, <3>1, <3>2, DrainedOnce
    <2>2. QED
      BY <2>1
  <1>3. \A x, o : /\ Before(x, Bare(o)) <=> Before(x, o)
                  /\ Before(Bare(o), x) <=> Before(o, x)
    BY DEF Before, Tier, Bare
  <1>4. /\ \A o \in LeftOut(index, Drained) : o \in Drained /\ Bare(o) \in LeftOut(index, Assembled)
        /\ \A q \in LeftOut(index, Assembled) : \E o \in LeftOut(index, Drained) : q = Bare(o)
    BY <1>1 DEF LeftOut
  <1>5. {o.key : o \in Assembled} \subseteq {o.key : o \in Drained}
    BY <1>1
  <1>6. {AreaOf[o.key] : o \in LeftOut(index, Assembled)} = {AreaOf[o.key] : o \in LeftOut(index, Drained)}
    <2>1. ASSUME NEW o \in LeftOut(index, Drained)
          PROVE  \E q \in LeftOut(index, Assembled) : AreaOf[q.key] = AreaOf[o.key]
      BY <1>1, <1>4
    <2>2. ASSUME NEW q \in LeftOut(index, Assembled)
          PROVE  \E o \in LeftOut(index, Drained) : AreaOf[q.key] = AreaOf[o.key]
      BY <1>1, <1>4
    <2>3. QED
      BY <2>1, <2>2
  <1>7. ASSUME NEW area
        PROVE  Cardinality(LeftIn(index, Assembled, area)) = Cardinality(LeftIn(index, Drained, area))
    <2> DEFINE f == [o \in LeftIn(index, Drained, area) |-> Bare(o)]
    <2>1. LeftIn(index, Drained, area) \in SUBSET Drained
      BY DEF LeftIn, LeftOut
    <2>2. IsFiniteSet(LeftIn(index, Drained, area))
      BY <2>1, DrainedOnce, FS_Subset
    <2>3. /\ \A o \in LeftIn(index, Drained, area) : Bare(o) \in LeftIn(index, Assembled, area)
          /\ \A q \in LeftIn(index, Assembled, area) :
               \E o \in LeftIn(index, Drained, area) : Bare(o) = q
      BY <1>1, <1>4 DEF LeftIn
    <2>4. ASSUME NEW o \in LeftIn(index, Drained, area), NEW p \in LeftIn(index, Drained, area),
                 Bare(o) = Bare(p)
          PROVE  o = p
      BY <1>1, <1>2, <2>1, <2>4
    <2>5. /\ f \in [LeftIn(index, Drained, area) -> LeftIn(index, Assembled, area)]
          /\ \A o, p \in LeftIn(index, Drained, area) : f[o] = f[p] => o = p
          /\ \A q \in LeftIn(index, Assembled, area) :
               \E o \in LeftIn(index, Drained, area) : f[o] = q
      BY <2>3, <2>4
    <2> HIDE DEF f
    <2>6. QED
      BY <2>2, <2>5, AsMany
  <1>8. ASSUME NEW o \in LeftOut(index, Drained),
               \A p \in LeftOut(index, Drained) \ {o} : Before(o, p)
        PROVE  Weight(index) + EntryBytes[o.key] > IndexBytes
    <2>1. Bare(o) \in LeftOut(index, Assembled) /\ Bare(o).key = o.key
      BY <1>1, <1>4
    <2>2. ASSUME NEW q \in LeftOut(index, Assembled) \ {Bare(o)} PROVE Before(Bare(o), q)
      <3>1. PICK p \in LeftOut(index, Drained) : q = Bare(p)
        BY <1>4
      <3>2. p # o
        BY <2>2, <3>1
      <3>3. QED
        BY <1>3, <1>8, <3>1, <3>2
    <2>3. QED
      BY <2>1, <2>2 DEF Accounts
  <1>9. \A o \in LeftOut(index, Drained), i \in DOMAIN index.entries : Before(index.entries[i], o)
    BY <1>3, <1>4 DEF Accounts
  <1>10. QED
    BY <1>5, <1>6, <1>7, <1>8, <1>9 DEF Accounts

(* The index a caller gets accounts for every file it drained: as an entry *)
(* or in the counts of what was cut, the best first, and as many of them   *)
(* as the budget holds (get_memory_index, core.py 1021-1053), for any      *)
(* number of files and entities, as long as time stamps are numbers.       *)
THEOREM IndexesAccount ==
  ASSUME \A g \in Nat : Updated(g) \in Int
  PROVE  Spec => []IndexAccountsForAll
  <1>1. Init => IndexIsMade /\ OutIsOrdered
    <2> SUFFICES ASSUME Init PROVE IndexIsMade /\ OutIsOrdered
      OBVIOUS
    <2>1. pc = "idle" /\ call = "none"
      BY DEF Init
    <2>2. QED
      BY <2>1 DEF IndexIsMade, OutIsOrdered, Collecting, Listing, Returned
  <1>2. IInv /\ OutIsOrdered /\ IndexIsMade => IndexAccountsForAll
    <2> SUFFICES ASSUME IInv, OutIsOrdered, IndexIsMade, Returned("index")
                 PROVE  IndexAccountsForAll
      BY DEF IndexAccountsForAll
    <2>1. call = "index"
      BY DEF Returned
    <2>2. Accounts(index, Assembled)
      BY <2>1, DrainedOnce, AssembledAccounts DEF IndexIsMade
    <2>3. Accounts(index, Drained)
      BY <2>1, <2>2, DrainedAreAccounted
    <2>4. OutKeys = {o.key : o \in Drained}
      BY DEF OutKeys, Drained
    <2>5. QED
      BY <2>3, <2>4 DEF IndexAccountsForAll, Accounts, Kept, LeftOut, LeftIn, Weight, Drained
  <1>3. QED
    BY <1>1, <1>2, AlwaysFits, OrderStays, IndexStaysMade, PTL DEF Spec
=============================================================================
