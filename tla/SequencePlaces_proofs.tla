------------------------- MODULE SequencePlaces_proofs -------------------------
(* What is at some places of a sequence, how numbers are ranked, and how          *)
(* quotients are ordered: lemmas for the proofs about the components.             *)
EXTENDS SequencePlaces, FiniteSetTheorems, FunctionTheorems, SequenceTheorems, TLAPS

\* Each member of a finite set of places has a rank of its own, and each rank a member.
LEMMA Ranks ==
  ASSUME NEW P \in SUBSET Int, IsFiniteSet(P),
         NEW rank, rank = [i \in P |-> Cardinality({j \in P : j <= i})]
  PROVE  /\ Cardinality(P) \in Nat
         /\ rank \in Bijection(P, 1 .. Cardinality(P))
<1>1. IsFiniteSet(P) /\ Cardinality(P) \in Nat
  BY FS_CardinalityType
<1> DEFINE Up(i) == {j \in P : j <= i}
<1>2. \A i \in P : IsFiniteSet(Up(i)) /\ Cardinality(Up(i)) \in 1 .. Cardinality(P)
  <2> TAKE i \in P
  <2>1. IsFiniteSet(Up(i)) /\ Cardinality(Up(i)) \in Nat /\ Cardinality(Up(i)) <= Cardinality(P)
    BY <1>1, FS_Subset, FS_CardinalityType
  <2>2. i \in Up(i)
    OBVIOUS
  <2>3. Cardinality(Up(i)) # 0
    BY <2>1, <2>2, FS_EmptySet
  <2> QED
    BY <1>1, <2>1, <2>3
<1>3. \A i, k \in P : Cardinality(Up(i)) = Cardinality(Up(k)) => i = k
  <2>1. ASSUME NEW i \in P, NEW k \in P, i < k
        PROVE  Cardinality(Up(i)) # Cardinality(Up(k))
    <3>0. \A j \in P : j \in Int
      OBVIOUS
    <3>1. k <= k /\ ~(k <= i) /\ \A j \in P : j <= i => j <= k
      BY <2>1, <3>0
    <3>2. Up(i) \subseteq Up(k) /\ k \in Up(k) /\ k \notin Up(i)
      BY Zenon, <3>1
    <3> QED
      BY <1>2, <3>1, <3>2, FS_Subset
  <2>2. \A j \in P : j \in Int
    OBVIOUS
  <2> QED
    BY <2>1, <2>2
<1>4. rank \in Injection(P, 1 .. Cardinality(P))
  BY <1>2, <1>3 DEF Injection, IsInjective
<1>5. rank \in Surjection(P, 1 .. Cardinality(P))
  <2>1. IsFiniteSet(1 .. Cardinality(P)) /\ Cardinality(1 .. Cardinality(P)) = Cardinality(P)
    BY <1>1, FS_Interval
  <2> QED
    BY <1>4, <2>1, FS_Injection
<1> QED
  BY <1>1, <1>4, <1>5 DEF Bijection

LEMMA Places ==
  ASSUME NEW T, NEW s \in Seq(T)
  PROVE  /\ DOMAIN s = 1 .. Len(s) /\ Len(s) \in Nat /\ DOMAIN s \in SUBSET Nat
         /\ IsFiniteSet(DOMAIN s) /\ Cardinality(DOMAIN s) = Len(s)
<1>1. DOMAIN s = 1 .. Len(s) /\ Len(s) \in Nat
  OBVIOUS
<1>2. /\ IsFiniteSet(1 .. Len(s))
      /\ Cardinality(1 .. Len(s)) = IF 1 > Len(s) THEN 0 ELSE Len(s) - 1 + 1
  BY <1>1, FS_Interval
<1> QED
  BY <1>1, <1>2

LEMMA Elements ==
  \A S : \A s \in Seq(S) :
    Len(s) \in Nat /\ DOMAIN s = 1 .. Len(s) /\ \A i \in DOMAIN s : s[i] \in S
  OBVIOUS

\* A sequence after another.
IsJoined(joined, first, second, S) ==
  /\ joined \in Seq(S) /\ Len(joined) = Len(first) + Len(second)
  /\ \A n \in 1 .. Len(first) : joined[n] = first[n]
  /\ \A n \in 1 .. Len(second) : joined[Len(first) + n] = second[n]

LEMMA Joined ==
  ASSUME NEW S, NEW first \in Seq(S), NEW second \in Seq(S)
  PROVE  IsJoined(first \o second, first, second, S)
  BY DEF IsJoined

\* `listed' is what `s' has at the places P, each of them once.
IsListOf(listed, s, P, T) ==
  /\ Cardinality(P) \in Nat
  /\ listed \in Seq(T) /\ Len(listed) = Cardinality(P)
  /\ \E at \in Bijection(1 .. Cardinality(P), P) : \A n \in 1 .. Cardinality(P) : listed[n] = s[at[n]]

\* What is selected is what is at the places, each of them once.
LEMMA SelectedIs ==
  ASSUME NEW P \in SUBSET Nat, IsFiniteSet(P), NEW s, NEW T, \A i \in P : s[i] \in T
  PROVE  IsListOf(Selected(s, P), s, P, T)
<1> DEFINE rank == [i \in P |-> Cardinality({j \in P : j <= i})]
           total == Cardinality(P)
           at == [n \in 1 .. total |-> CHOOSE i \in P : Cardinality({j \in P : j <= i}) = n]
<1>1. IsFiniteSet(P) /\ total \in Nat /\ rank \in Bijection(P, 1 .. total) /\ total = Cardinality(P)
  BY Ranks
<1>2. \A n \in 1 .. total : at[n] \in P /\ rank[at[n]] = n
  <2> TAKE n \in 1 .. total
  <2>1. \E i \in P : rank[i] = n
    BY <1>1 DEF Bijection, Surjection
  <2>2. \A i \in P : Cardinality({j \in P : j <= i}) = rank[i]
    OBVIOUS
  <2> QED
    BY <2>1, <2>2
<1>3. Selected(s, P) = [n \in 1 .. total |-> s[at[n]]]
  BY DEF Selected
<1>4. at \in Bijection(1 .. total, P)
  <2>1. \A i \in P : rank[i] \in 1 .. total /\ at[rank[i]] = i
    <3> TAKE i \in P
    <3>1. rank[i] \in 1 .. total
      BY <1>1 DEF Bijection, Injection
    <3>2. rank[at[rank[i]]] = rank[i] /\ at[rank[i]] \in P
      BY <1>2, <3>1
    <3> QED
      BY <1>1, <3>1, <3>2 DEF Bijection, Injection, IsInjective
  <2> HIDE DEF at, rank
  <2>2. at \in [1 .. total -> P]
    BY <1>2 DEF at
  <2>3. at \in Injection(1 .. total, P)
    BY <1>2, <2>2 DEF Injection, IsInjective
  <2>4. at \in Surjection(1 .. total, P)
    BY <2>1, <2>2 DEF Surjection
  <2> QED
    BY <2>3, <2>4 DEF Bijection
<1> HIDE DEF at
<1>5. at \in [1 .. total -> P]
  BY <1>4 DEF Bijection, Injection
<1>6. Selected(s, P) \in [1 .. total -> T]
  BY <1>3, <1>5
<1> HIDE DEF total
<1>7. Selected(s, P) \in Seq(T) /\ Len(Selected(s, P)) = total
  BY <1>1, <1>6
<1> QED
  BY <1>1, <1>3, <1>4, <1>7 DEF total, IsListOf

\* `rest' are the places P in their order but the first, `m' all of them.
IsRestOf(rest, m, P) ==
  /\ m[1] \in P
  /\ Cardinality(P) \in Nat \ {0} /\ Cardinality(P \ {m[1]}) = Cardinality(P) - 1
  /\ DOMAIN m = 1 .. Cardinality(P) /\ DOMAIN rest = 1 .. (Cardinality(P) - 1)
  /\ \A n \in 1 .. (Cardinality(P) - 1) : rest[n] = m[n + 1]

\* The first of the selected places is the least; the others follow in their order.
LEMMA SelectedRest ==
  ASSUME NEW D \in SUBSET Nat, NEW P \in SUBSET D, IsFiniteSet(P), P # {},
         NEW m, m = Selected([i \in D |-> i], P),
         NEW rest, rest = Selected([i \in D |-> i], P \ {m[1]})
  PROVE  IsRestOf(rest, m, P)
<1> DEFINE Rank(i) == Cardinality({j \in P : j <= i})
           At(n) == CHOOSE i \in P : Rank(i) = n
           first == At(1)
           Q == P \ {first}
           RankQ(i) == Cardinality({j \in Q : j <= i})
           AtQ(n) == CHOOSE i \in Q : RankQ(i) = n
           total == Cardinality(P)
<1>1. /\ total \in Nat \ {0} /\ P \in SUBSET Nat
      /\ \A i \in P : Rank(i) \in 1 .. total
      /\ \A i, j \in P : Rank(i) = Rank(j) => i = j
      /\ \A n \in 1 .. total : \E i \in P : Rank(i) = n
  <2> DEFINE rank == [i \in P |-> Cardinality({j \in P : j <= i})]
  <2>1. total \in Nat /\ rank \in Bijection(P, 1 .. total) /\ P \in SUBSET Nat
    BY Ranks
  <2>2. total # 0
    BY FS_EmptySet
  <2>3. \A i \in P : rank[i] = Rank(i)
    OBVIOUS
  <2> HIDE DEF rank, Rank, total
  <2> QED
    BY <2>1, <2>2, <2>3 DEF Bijection, Injection, Surjection, IsInjective
<1> HIDE DEF Rank, RankQ, total
<1>2. \A n \in 1 .. total : At(n) \in P /\ Rank(At(n)) = n
  BY <1>1
<1> HIDE DEF At, AtQ
<1>3. first \in P /\ Rank(first) = 1
  <2>1. 1 \in 1 .. total
    BY <1>1
  <2> QED
    BY <1>2, <2>1
<1> HIDE DEF first
<1>4. m[1] = first /\ DOMAIN m = 1 .. total /\ \A n \in 1 .. total : m[n] = At(n)
  <2>1. m = [n \in 1 .. total |-> [i \in D |-> i][At(n)]]
    BY DEF Selected, At, total, Rank
  <2>2. \A n \in 1 .. total : At(n) \in D
    BY <1>2
  <2>3. 1 \in 1 .. total
    BY <1>1
  <2> QED
    BY <1>2, <2>1, <2>2, <2>3 DEF first
<1>5. IsFiniteSet(Q) /\ Cardinality(Q) = total - 1 /\ Q \in SUBSET Nat
  BY <1>1, <1>3, FS_RemoveElement DEF total
<1>6. \A i \in Q : first < i
  <2> TAKE i \in Q
  <2>1. ASSUME i <= first PROVE FALSE
    <3> DEFINE U == {j \in P : j <= first}
    <3>1. IsFiniteSet(U) /\ Cardinality(U) = 1
      BY <1>3, FS_Subset DEF Rank
    <3>2. \A x \in P : x \in Int
      BY <1>1
    <3>3. i \in U /\ first \in U /\ i # first
      BY <1>3, <2>1, <3>2
    <3> HIDE DEF U
    <3>4. PICK x : U = {x}
      BY <3>1, FS_Singleton
    <3> QED
      BY <3>3, <3>4
  <2> QED
    BY <1>1, <1>3, <2>1
<1>7. \A i \in Q : RankQ(i) = Rank(i) - 1
  <2> TAKE i \in Q
  <2> DEFINE U == {j \in P : j <= i}
             V == {j \in Q : j <= i}
  <2>1. V = U \ {first}
    OBVIOUS
  <2>2. IsFiniteSet(U)
    BY FS_Subset
  <2>3. first \in Int /\ i \in Int /\ first < i
    BY <1>1, <1>3, <1>6
  <2>4. first \in U
    BY <1>3, <2>3
  <2>5. Rank(i) = Cardinality(U) /\ RankQ(i) = Cardinality(V)
    BY DEF Rank, RankQ
  <2> HIDE DEF U, V
  <2> QED
    BY <2>1, <2>2, <2>4, <2>5, FS_RemoveElement
<1>8. \A n \in 1 .. (total - 1) : AtQ(n) = At(n + 1)
  <2> TAKE n \in 1 .. (total - 1)
  <2>1. n + 1 \in 1 .. total /\ n + 1 # 1
    BY <1>1
  <2>2. At(n + 1) \in Q /\ Rank(At(n + 1)) = n + 1
    BY <1>2, <1>3, <2>1
  <2> HIDE DEF Q
  <2>3. RankQ(At(n + 1)) = n
    BY <1>7, <2>2
  <2>4. AtQ(n) \in Q /\ RankQ(AtQ(n)) = n
    BY <2>2, <2>3 DEF AtQ
  <2>5. Rank(AtQ(n)) = n + 1
    <3>1. Rank(AtQ(n)) \in Int
      <4>1. AtQ(n) \in P
        BY <2>4 DEF Q
      <4>2. Rank(AtQ(n)) \in 1 .. total
        BY Zenon, <1>1, <4>1
      <4> QED
        BY <1>1, <4>2
    <3> QED
      BY <1>7, <2>4, <3>1
  <2> QED
    BY <1>1, <2>2, <2>4, <2>5 DEF Q
<1>9. /\ DOMAIN rest = 1 .. (total - 1)
      /\ \A n \in 1 .. (total - 1) : rest[n] = At(n + 1)
  <2>1. rest = [n \in 1 .. Cardinality(Q) |-> [i \in D |-> i][AtQ(n)]]
    <3>1. rest = Selected([i \in D |-> i], Q)
      BY <1>4
    <3> HIDE DEF Q
    <3> QED
      BY Zenon, <3>1 DEF Selected, AtQ, RankQ
  <2>2. \A n \in 1 .. (total - 1) : n + 1 \in 1 .. total
    BY <1>1
  <2> HIDE DEF Q
  <2>3. rest = [n \in 1 .. (total - 1) |-> [i \in D |-> i][AtQ(n)]]
    BY <1>5, <2>1
  <2>4. \A n \in 1 .. (total - 1) : AtQ(n) \in D
    BY <1>2, <1>8, <2>2
  <2> QED
    BY <1>8, <2>3, <2>4
<1>10. \A n \in 1 .. (total - 1) : n + 1 \in 1 .. total
  BY <1>1
<1> QED
  BY <1>1, <1>3, <1>4, <1>5, <1>9, <1>10 DEF total, IsRestOf

\* What is selected of three sequences at the places P comes from the same place of each.
InStep(P, s, t, u) ==
  \A n \in 1 .. Cardinality(P) : \E i \in P :
    Selected(s, P)[n] = s[i] /\ Selected(t, P)[n] = t[i] /\ Selected(u, P)[n] = u[i]

LEMMA SelectedTogether ==
  ASSUME NEW P \in SUBSET Nat, IsFiniteSet(P), NEW s, NEW t, NEW u
  PROVE  InStep(P, s, t, u)
<1> DEFINE Rank(i) == Cardinality({j \in P : j <= i})
           At(n) == CHOOSE i \in P : Rank(i) = n
<1>1. \A n \in 1 .. Cardinality(P) : At(n) \in P
  <2> DEFINE rank == [i \in P |-> Cardinality({j \in P : j <= i})]
  <2>1. rank \in Bijection(P, 1 .. Cardinality(P))
    BY Ranks
  <2>2. \A i \in P : rank[i] = Rank(i)
    OBVIOUS
  <2> HIDE DEF rank, Rank
  <2>3. \A n \in 1 .. Cardinality(P) : \E i \in P : Rank(i) = n
    BY <2>1, <2>2 DEF Bijection, Surjection
  <2> QED
    BY <2>3
<1>2. \A n \in 1 .. Cardinality(P) :
        Selected(s, P)[n] = s[At(n)] /\ Selected(t, P)[n] = t[At(n)] /\ Selected(u, P)[n] = u[At(n)]
  BY DEF Selected
<1> HIDE DEF At
<1> QED
  BY <1>1, <1>2 DEF InStep

LEMMA QuotientIs ==
  ASSUME NEW a \in Nat, NEW c \in Nat \ {0}
  PROVE  a \div c \in Nat /\ c * (a \div c) <= a /\ a < c * (a \div c) + c
  OBVIOUS

\* A larger sum has a larger quotient.
LEMMA QuotientsKeepOrder ==
  ASSUME NEW a \in Nat, NEW b \in Nat, a <= b, NEW c \in Nat \ {0}
  PROVE  a \div c <= b \div c
<1> DEFINE p == a \div c
           q == b \div c
<1>1. p \in Nat /\ c * p <= a /\ q \in Nat /\ b < c * q + c
  BY QuotientIs
<1> HIDE DEF p, q
<1>2. c * p < c * (q + 1)
  BY <1>1
<1>3. ~(q + 1 <= p)
  BY <1>1, <1>2
<1> QED
  BY <1>1, <1>3 DEF p, q

\* A finite set of integers has a largest and a smallest member: those of the last and the
\* first rank.
LEMMA Extremes ==
  ASSUME NEW S \in SUBSET Int, IsFiniteSet(S), S # {}
  PROVE  (\E x \in S : \A y \in S : y <= x) /\ (\E x \in S : \A y \in S : x <= y)
<1> DEFINE Up(x) == {j \in S : j <= x}
           rank == [x \in S |-> Cardinality(Up(x))]
           total == Cardinality(S)
<1>1. total \in Nat /\ total # 0 /\ rank \in Bijection(S, 1 .. total)
  BY Ranks, FS_EmptySet
<1>2. \A n \in 1 .. total : \E x \in S : rank[x] = n
  BY <1>1 DEF Bijection, Surjection
<1>3. \A x \in S : IsFiniteSet(Up(x)) /\ rank[x] = Cardinality(Up(x))
  BY FS_Subset
<1>4. \A x, y \in S : x <= y \/ y <= x
  OBVIOUS
<1> HIDE DEF rank, total
<1>5. \E x \in S : \A y \in S : y <= x
  <2>1. PICK x \in S : rank[x] = total
    BY <1>1, <1>2
  <2>2. Up(x) = S
    BY <1>3, <2>1, FS_Subset DEF total
  <2> QED
    BY <2>2
<1>6. \E x \in S : \A y \in S : x <= y
  <2>1. PICK x \in S : rank[x] = 1
    BY <1>1, <1>2
  <2>2. x \in Up(x) /\ \A y \in S : y <= x => y \in Up(x)
    OBVIOUS
  <2> HIDE DEF Up
  <2>3. IsFiniteSet(Up(x)) /\ Cardinality(Up(x)) = 1
    BY <1>3, <2>1
  <2>4. PICK z : Up(x) = {z}
    BY <2>3, FS_Singleton, Zenon
  <2> QED
    BY <1>4, <2>2, <2>4
<1> QED
  BY <1>5, <1>6

LEMMA ImageIsFinite ==
  ASSUME NEW S, IsFiniteSet(S), NEW f
  PROVE  IsFiniteSet({f[x] : x \in S})
<1> DEFINE g == [x \in S |-> f[x]]
           T == {f[x] : x \in S}
<1>1. g \in Surjection(S, T)
  BY DEF Surjection
<1> QED
  BY <1>1, FS_Surjection
==============================================================================
