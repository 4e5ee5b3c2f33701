----------------------------- MODULE ProofLemmas -----------------------------
(***************************************************************************)
(* Facts about finite sets of addresses, sequences and lists of ranges     *)
(* that the proofs of several modules cite.  Sets of addresses are handed  *)
(* out in ascending order by std::set and std::map; queues lose their head *)
(* and gain a last element; ranges are merged.                             *)
(***************************************************************************)
EXTENDS GraphRanges, Integers, FiniteSets, FiniteSetTheorems,
        FunctionTheorems, TLAPS

(* A finite set of numbers can be listed in ascending order: the place of  *)
(* a number is how many numbers are not above it.                          *)
LEMMA AscendingExists ==
  ASSUME NEW S \in SUBSET Nat, IsFiniteSet(S)
  PROVE  \E s \in [1..Cardinality(S) -> S] :
           \A a, b \in 1..Cardinality(S) : a < b => s[a] < s[b]
<1> DEFINE n == Cardinality(S)
           UpTo(x) == {y \in S : y <= x}
           Rank == [x \in S |-> Cardinality(UpTo(x))]
           s == [k \in 1..n |-> CHOOSE x \in S : Rank[x] = k]
<1>1. n \in Nat
  BY FS_CardinalityType
<1>2. ASSUME NEW x \in S
      PROVE  IsFiniteSet(UpTo(x)) /\ Rank[x] \in 1..n
  <2>1. UpTo(x) \in SUBSET S /\ x \in UpTo(x)
    OBVIOUS
  <2>2. IsFiniteSet(UpTo(x)) /\ Cardinality(UpTo(x)) <= n
    BY <2>1, FS_Subset
  <2>3. Cardinality(UpTo(x)) \in Nat
    BY <2>2, FS_CardinalityType
  <2>4. Cardinality(UpTo(x)) # 0
    BY <2>1, <2>2, FS_EmptySet
  <2> QED BY <1>1, <2>2, <2>3, <2>4
<1>3. ASSUME NEW x \in S, NEW y \in S, x < y
      PROVE  Rank[x] < Rank[y]
  <2>1. UpTo(x) \in SUBSET UpTo(y) /\ y \in UpTo(y) \ UpTo(x)
    <3>1. \A z \in S : z <= x => z <= y
      BY <1>3
    <3>2. y <= y /\ ~(y <= x)
      BY <1>3
    <3> QED BY <3>1, <3>2
  <2>2. /\ Cardinality(UpTo(x)) <= Cardinality(UpTo(y))
        /\ Cardinality(UpTo(x)) # Cardinality(UpTo(y))
    <3> HIDE DEF UpTo
    <3> QED BY <1>2, <2>1, FS_Subset
  <2> QED BY <1>2, <2>2
<1>4. Rank \in Injection(S, 1..n)
  <2>1. Rank \in [S -> 1..n]
    BY <1>2
  <2>2. \A x, y \in S : Rank[x] = Rank[y] => x = y
    <3> SUFFICES ASSUME NEW x \in S, NEW y \in S, x # y PROVE Rank[x] # Rank[y]
      OBVIOUS
    <3>1. x < y \/ y < x
      OBVIOUS
    <3>2. Rank[x] \in Int /\ Rank[y] \in Int
      BY <2>1
    <3> HIDE DEF Rank
    <3> QED BY <1>3, <3>1, <3>2
  <2> HIDE DEF Rank
  <2> QED BY <2>1, <2>2, Fun_IsInj
<1>5. IsFiniteSet(1..n) /\ Cardinality(1..n) = n
  BY <1>1, FS_Interval
<1>6. Rank \in Surjection(S, 1..n)
  <2> HIDE DEF Rank
  <2> QED BY <1>4, <1>5, FS_Injection
<1>7. \A k \in 1..n : \E x \in S : Rank[x] = k
  <2> HIDE DEF Rank
  <2> QED BY <1>6, Fun_SurjectionProperties
<1>8. \A k \in 1..n : s[k] \in S /\ Rank[s[k]] = k
  <2> HIDE DEF Rank
  <2> QED BY <1>7
<1>9. ASSUME NEW a \in 1..n, NEW b \in 1..n, a < b
      PROVE  s[a] < s[b]
  <2> HIDE DEF s, Rank, n
  <2>1. s[a] \in S /\ s[b] \in S /\ Rank[s[a]] = a /\ Rank[s[b]] = b
    BY <1>8
  <2>2. a # b /\ ~(b < a)
    BY <1>1, <1>9
  <2>3. s[a] # s[b]
    BY <2>1, <2>2, Zenon
  <2>4. ~(s[b] < s[a])
    <3> SUFFICES ASSUME s[b] < s[a] PROVE FALSE
      OBVIOUS
    <3>1. Rank[s[b]] < Rank[s[a]]
      BY <1>3, <2>1, Zenon
    <3> QED BY <2>1, <2>2, <3>1
  <2> DEFINE x == s[a]
             y == s[b]
  <2>5. x \in Nat /\ y \in Nat /\ x # y /\ ~(y < x)
    BY <2>1, <2>3, <2>4
  <2> HIDE DEF x, y
  <2>6. x < y
    BY <2>5
  <2> QED BY <2>6 DEF x, y
<1>10. s \in [1..n -> S]
  BY <1>8
<1> HIDE DEF s, n
<1> QED BY <1>9, <1>10 DEF n

(* And such a list has every number of the set, each once.                 *)
LEMMA AscendingIsComplete ==
  ASSUME NEW S \in SUBSET Nat, IsFiniteSet(S), NEW s \in [1..Cardinality(S) -> S],
         \A a, b \in 1..Cardinality(S) : a < b => s[a] < s[b]
  PROVE  /\ s \in Seq(S) /\ Len(s) = Cardinality(S) /\ Cardinality(S) \in Nat
         /\ \A a, b \in 1..Len(s) : s[a] = s[b] => a = b
         /\ {s[k] : k \in 1..Len(s)} = S
<1> DEFINE n == Cardinality(S)
<1>1. n \in Nat
  BY FS_CardinalityType
<1>2. s \in Seq(S) /\ Len(s) = n
  BY <1>1
<1>3. ASSUME NEW a \in 1..n, NEW b \in 1..n, s[a] = s[b] PROVE a = b
  <2>1. s[a] \in Nat /\ s[b] \in Nat
    OBVIOUS
  <2> QED BY <1>1, <1>3, <2>1
<1>4. s \in Injection(1..n, S)
  BY <1>3, Fun_IsInj
<1>5. Cardinality(1..n) = n
  BY <1>1, FS_Interval
<1>6. \A x \in S : \E k \in 1..n : s[k] = x
  <2>1. s \in Surjection(1..n, S)
    <3> HIDE DEF n
    <3> QED BY <1>4, <1>5, FS_Injection DEF n
  <2> HIDE DEF n
  <2> QED BY <2>1 DEF Surjection
<1>7. {s[k] : k \in 1..n} = S
  BY <1>6
<1> QED BY <1>1, <1>2, <1>3, <1>7

-----------------------------------------------------------------------------
(* What taking the head of a sequence leaves.                              *)
LEMMA TailElements ==
  ASSUME NEW S, NEW q \in Seq(S), q # <<>>
  PROVE  /\ Head(q) \in S /\ Tail(q) \in Seq(S)
         /\ Len(q) \in Nat \ {0} /\ Len(Tail(q)) = Len(q) - 1 /\ Head(q) = q[1]
         /\ \A k \in 1..Len(Tail(q)) : Tail(q)[k] = q[k + 1]
         /\ {q[k] : k \in 1..Len(q)} =
              {Head(q)} \cup {Tail(q)[k] : k \in 1..Len(Tail(q))}
         /\ (\A a, b \in 1..Len(q) : q[a] = q[b] => a = b) =>
              /\ \A a, b \in 1..Len(Tail(q)) : Tail(q)[a] = Tail(q)[b] => a = b
              /\ Head(q) \notin {Tail(q)[k] : k \in 1..Len(Tail(q))}
<1>1. /\ Head(q) \in S /\ Tail(q) \in Seq(S)
      /\ Len(q) \in Nat \ {0} /\ Len(Tail(q)) = Len(q) - 1 /\ Head(q) = q[1]
      /\ \A k \in 1..Len(Tail(q)) : Tail(q)[k] = q[k + 1] /\ k + 1 \in 1..Len(q)
  OBVIOUS
<1>2. \A k \in 1..Len(q) : k = 1 \/ (k - 1 \in 1..Len(Tail(q)) /\ q[k] = Tail(q)[k - 1])
  <2> SUFFICES ASSUME NEW k \in 1..Len(q), k # 1
               PROVE  k - 1 \in 1..Len(Tail(q)) /\ q[k] = Tail(q)[k - 1]
    OBVIOUS
  <2>1. k - 1 \in 1..Len(Tail(q)) /\ (k - 1) + 1 = k
    BY <1>1
  <2> QED BY <1>1, <2>1
<1>3. 1 \in 1..Len(q)
  BY <1>1
<1>4. {q[k] : k \in 1..Len(q)} = {Head(q)} \cup {Tail(q)[k] : k \in 1..Len(Tail(q))}
  BY <1>1, <1>2, <1>3
<1>5. ASSUME \A a, b \in 1..Len(q) : q[a] = q[b] => a = b
      PROVE  /\ \A a, b \in 1..Len(Tail(q)) : Tail(q)[a] = Tail(q)[b] => a = b
             /\ Head(q) \notin {Tail(q)[k] : k \in 1..Len(Tail(q))}
  BY <1>1, <1>3, <1>5
<1> QED BY <1>1, <1>4, <1>5

(* The same, for the elements alone and for a queue that holds nothing     *)
(* twice.                                                                  *)
LEMMA HeadLeaves ==
  ASSUME NEW S, NEW q \in Seq(S), q # <<>>
  PROVE  {q[k] : k \in 1..Len(q)} =
           {Head(q)} \cup {Tail(q)[k] : k \in 1..Len(Tail(q))}
BY TailElements

LEMMA HeadLeavesForGood ==
  ASSUME NEW S, NEW q \in Seq(S), q # <<>>,
         \A a, b \in 1..Len(q) : q[a] = q[b] => a = b
  PROVE  /\ \A a, b \in 1..Len(Tail(q)) : Tail(q)[a] = Tail(q)[b] => a = b
         /\ Head(q) \notin {Tail(q)[k] : k \in 1..Len(Tail(q))}
BY TailElements

(* What appending to a sequence adds.                                      *)
LEMMA AppendElements ==
  ASSUME NEW S, NEW q \in Seq(S), NEW e \in S
  PROVE  /\ Append(q, e) \in Seq(S)
         /\ Len(q) \in Nat /\ Len(Append(q, e)) = Len(q) + 1
         /\ Append(q, e)[Len(q) + 1] = e
         /\ \A k \in 1..Len(q) : Append(q, e)[k] = q[k]
         /\ {Append(q, e)[k] : k \in 1..Len(Append(q, e))} =
              {q[k] : k \in 1..Len(q)} \cup {e}
         /\ (\A a, b \in 1..Len(q) : q[a] = q[b] => a = b) /\
            e \notin {q[k] : k \in 1..Len(q)} =>
              \A a, b \in 1..Len(Append(q, e)) :
                Append(q, e)[a] = Append(q, e)[b] => a = b
<1>1. /\ Append(q, e) \in Seq(S)
      /\ Len(q) \in Nat /\ Len(Append(q, e)) = Len(q) + 1
      /\ Append(q, e)[Len(q) + 1] = e
      /\ \A k \in 1..Len(q) : Append(q, e)[k] = q[k]
  OBVIOUS
<1>2. 1..(Len(q) + 1) = 1..Len(q) \cup {Len(q) + 1}
  BY <1>1
<1> QED BY <1>1, <1>2

(* The same, for the elements alone and for a queue that holds nothing     *)
(* twice.                                                                  *)
LEMMA LastComes ==
  ASSUME NEW S, NEW q \in Seq(S), NEW e \in S
  PROVE  {Append(q, e)[k] : k \in 1..Len(Append(q, e))} =
           {q[k] : k \in 1..Len(q)} \cup {e}
BY AppendElements

LEMMA LastComesOnce ==
  ASSUME NEW S, NEW q \in Seq(S), NEW e \in S,
         \A a, b \in 1..Len(q) : q[a] = q[b] => a = b,
         e \notin {q[k] : k \in 1..Len(q)}
  PROVE  \A a, b \in 1..Len(Append(q, e)) :
           Append(q, e)[a] = Append(q, e)[b] => a = b
BY AppendElements

(* The elements of a sequence are finitely many.                           *)
LEMMA ElementsAreFinite ==
  ASSUME NEW S, NEW q \in Seq(S)
  PROVE  IsFiniteSet({q[k] : k \in 1..Len(q)})
<1> DEFINE T == {q[k] : k \in 1..Len(q)}
<1>1. Len(q) \in Nat /\ IsFiniteSet(1..Len(q))
  BY FS_Interval
<1>2. q \in [1..Len(q) -> T] /\ \A t \in T : \E k \in 1..Len(q) : q[k] = t
  OBVIOUS
<1>3. q \in Surjection(1..Len(q), T)
  <2> HIDE DEF T
  <2> QED BY <1>2, Fun_IsSurj
<1> QED BY <1>1, <1>3, FS_Surjection

-----------------------------------------------------------------------------
(* interleaved() never makes a range claim more than the two it merges.    *)
LEMMA MergedClaims ==
  ASSUME NEW r \in CodeArea, NEW our \in CodeArea, Interleaved(r, our)
  PROVE  /\ Merged(r, our) \in CodeArea
         /\ \A a \in Nat : Holds(Merged(r, our), a) => Holds(r, a) \/ Holds(our, a)
<1> USE DEF CodeArea, End, Holds
<1>1. CASE IsInside(r, our)
  BY <1>1 DEF Merged
<1>2. CASE ~IsInside(r, our) /\ IsInside(our, r)
  BY <1>2 DEF Merged
<1>3. CASE ~IsInside(r, our) /\ ~IsInside(our, r) /\ LeftEdge(r, our)
  BY <1>3 DEF Merged, LeftEdge
<1>4. CASE ~IsInside(r, our) /\ ~IsInside(our, r) /\ ~LeftEdge(r, our)
  BY <1>4 DEF Merged, RightEdge, Interleaved
<1> QED BY <1>1, <1>2, <1>3, <1>4

(* Nor does a list of ranges when a range is added to it.                  *)
LEMMA InsertClaims ==
  ASSUME NEW rs \in Seq(CodeArea), NEW r \in CodeArea
  PROVE  /\ Insert(rs, r) \in Seq(CodeArea)
         /\ \A a \in Nat : InRanges(Insert(rs, r), a)
                             => InRanges(rs, a) \/ Holds(r, a)
<1>1. CASE \E k \in 1..Len(rs) : FirstHit(rs, r, k)
  <2> DEFINE k == CHOOSE k \in 1..Len(rs) : FirstHit(rs, r, k)
  <2>1. k \in 1..Len(rs) /\ Interleaved(r, rs[k]) /\ rs[k] \in CodeArea
    BY <1>1 DEF FirstHit
  <2>2. Insert(rs, r) = [rs EXCEPT ![k] = Merged(r, rs[k])]
    BY <1>1 DEF Insert
  <2>3. /\ Merged(r, rs[k]) \in CodeArea
        /\ \A a \in Nat : Holds(Merged(r, rs[k]), a)
                            => Holds(r, a) \/ Holds(rs[k], a)
    BY <2>1, MergedClaims
  <2> HIDE DEF k
  <2>4. /\ Insert(rs, r) \in Seq(CodeArea)
        /\ Len(Insert(rs, r)) = Len(rs)
        /\ Insert(rs, r)[k] = Merged(r, rs[k])
        /\ \A l \in 1..Len(rs) : l # k => Insert(rs, r)[l] = rs[l]
    BY <2>1, <2>2, <2>3
  <2> QED BY <2>1, <2>3, <2>4 DEF InRanges
<1>2. CASE ~ \E k \in 1..Len(rs) : FirstHit(rs, r, k)
  <2>1. Insert(rs, r) = Append(rs, r)
    BY <1>2 DEF Insert
  <2>2. /\ Insert(rs, r) \in Seq(CodeArea)
        /\ Len(Insert(rs, r)) = Len(rs) + 1
        /\ Insert(rs, r)[Len(rs) + 1] = r
        /\ \A l \in 1..Len(rs) : Insert(rs, r)[l] = rs[l]
        /\ 1..(Len(rs) + 1) = 1..Len(rs) \cup {Len(rs) + 1}
    BY <2>1
  <2> QED BY <2>2 DEF InRanges
<1> QED BY <1>1, <1>2
=============================================================================
