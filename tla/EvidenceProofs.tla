--------------------------- MODULE EvidenceProofs ---------------------------
(***************************************************************************)
(* Theorems about Evidence, for every repository, every report and every   *)
(* answer of the model: any index, any texts, any caps and budgets.        *)
(*                                                                         *)
(* First lists: what Pick, Firsts, FlattenSeq and a walk along a list      *)
(* return.  Then the operators of RepositoryIndex, Slicer and Verifier in  *)
(* their order: what a lookup, a walk, a tier or a probe returns, and what *)
(* it may not lose.  Then the invariant of Evidence and what follows.      *)
(***************************************************************************)
EXTENDS Evidence, FiniteSetTheorems, WellFoundedInduction, TLAPS

-----------------------------------------------------------------------------
(* Naturals and walks along a list.                                        *)

\* A non-empty set of naturals has a least element.
LEMMA Least ==
  ASSUME NEW S \in SUBSET Nat, S # {}
  PROVE  \E m \in S : \A x \in S : m <= x
<1>1. PICK x \in S : TRUE
  OBVIOUS
<1>2. PICK m \in S : \A y \in S : <<y, m>> \notin OpToRel(<, Nat)
  BY <1>1, NatLessThanWellFounded, WFMin
<1>3. \A y \in S : ~(y < m)
  BY <1>1, <1>2 DEF OpToRel
<1>4. QED
  BY <1>3

\* A bounded one has a greatest.
LEMMA Greatest ==
  ASSUME NEW S \in SUBSET Nat, S # {}, NEW n \in Nat, \A x \in S : x <= n
  PROVE  \E m \in S : \A x \in S : x <= m
<1> DEFINE U == {u \in Nat : \A x \in S : x <= u}
<1>1. PICK u \in U : \A v \in U : u <= v
  <2>1. U \in SUBSET Nat /\ n \in U
    OBVIOUS
  <2>2. QED
    BY <2>1, Least
<1>2. CASE u \in S
  BY <1>2
<1>3. CASE u \notin S
  <2>1. \A x \in S : x < u /\ x \in Nat
    BY <1>3
  <2>2. u # 0
    <3>1. PICK x \in S : TRUE
      OBVIOUS
    <3>2. QED
      BY <3>1, <2>1
  <2>3. u - 1 \in U
    BY <2>1, <2>2
  <2>4. QED
    BY <2>3, <1>1
<1>4. QED
  BY <1>2, <1>3

\* A finite set of naturals is bounded.
LEMMA FiniteBounded ==
  ASSUME NEW I \in SUBSET Nat, IsFiniteSet(I)
  PROVE  \E n \in Nat : \A i \in I : i <= n
<1> DEFINE Free == {c \in Nat : \E J \in SUBSET Nat : /\ IsFiniteSet(J) /\ Cardinality(J) = c
                                                    /\ ~ \E n \in Nat : \A i \in J : i <= n}
<1>1. SUFFICES ASSUME Free # {} PROVE FALSE
  BY FS_CardinalityType
<1>2. PICK c \in Free : \A d \in Free : c <= d
  <2>1. Free \in SUBSET Nat
    OBVIOUS
  <2>2. QED
    BY <1>1, <2>1, Least
<1>3. PICK J \in SUBSET Nat : /\ IsFiniteSet(J) /\ Cardinality(J) = c
                              /\ ~ \E n \in Nat : \A i \in J : i <= n
  BY <1>2
<1>4. PICK i \in J : TRUE
  BY <1>3
<1>5. IsFiniteSet(J \ {i}) /\ Cardinality(J \ {i}) = c - 1 /\ c - 1 \in Nat
  <2>1. IsFiniteSet(J \ {i}) /\ Cardinality(J \ {i}) = Cardinality(J) - 1
    BY <1>3, <1>4, FS_RemoveElement
  <2>2. Cardinality(J \ {i}) \in Nat
    BY <2>1, FS_CardinalityType
  <2>3. QED
    BY <2>1, <2>2, <1>3
<1>6. PICK n \in Nat : \A j \in J \ {i} : j <= n
  <2>1. c - 1 \notin Free
    BY <1>2, <1>5
  <2>2. QED
    BY <2>1, <1>5, <1>3
<1>7. \A j \in J : j <= n + i
  BY <1>6, <1>4
<1>8. QED
  BY <1>7, <1>3, <1>4, <1>6

\* What holds of a walk before its first entry, and of it after an entry if before,
\* holds of it at the end.
LEMMA WalkedAlong ==
  ASSUME NEW step, NEW start, NEW E, NEW list \in Seq(E), NEW S,
         start \in S[0],
         \A n \in 1..Len(list) : \A x \in S[n - 1] : step[<<x, list[n]>>] \in S[n]
  PROVE  Walked(step, start, list) \in S[Len(list)]
<1> DEFINE N == Len(list)
           After(f, n) == step[<<f[n - 1], list[n]>>]
           Good(f, n) == /\ DOMAIN f = 0..n
                         /\ f[0] = start
                         /\ \A k \in 1..n : f[k] = After(f, k)
           Bad == {n \in 0..N : ~ \E f : Good(f, n)}
<1>1. N \in Nat
  OBVIOUS
<1>2. Bad = {}
  <2>1. SUFFICES ASSUME Bad # {} PROVE FALSE
    OBVIOUS
  <2>2. PICK n \in Bad : \A x \in Bad : n <= x
    <3>1. Bad \in SUBSET Nat
      BY <1>1
    <3>2. QED
      BY <2>1, <3>1, Least
  <2>3. n # 0
    <3> DEFINE g == [k \in 0..0 |-> start]
    <3>1. DOMAIN g = 0..0 /\ g[0] = start /\ 1..0 = {}
      OBVIOUS
    <3> HIDE DEF g
    <3>2. Good(g, 0)
      BY <3>1
    <3>3. QED
      BY <3>2, <2>2
  <2>4. PICK f : Good(f, n - 1)
    BY <2>2, <2>3, <1>1
  <2> DEFINE h == [k \in 0..n |-> IF k < n THEN f[k] ELSE After(f, n)]
  <2>5. Good(h, n)
    <3>1. DOMAIN h = 0..n /\ h[0] = start
      BY <2>4, <2>3, <2>2
    <3>2. ASSUME NEW k \in 1..n PROVE h[k] = step[<<h[k - 1], list[k]>>]
      <4>1. CASE k < n
        <5>1. k \in 1..(n - 1) /\ h[k] = f[k] /\ h[k - 1] = f[k - 1]
          BY <4>1, <2>2, <1>1
        <5>2. QED
          BY <5>1, <2>4
      <4>2. CASE k = n
        <5>1. h[k] = After(f, n) /\ h[k - 1] = f[n - 1]
          BY <4>2, <2>2, <2>3, <1>1
        <5>2. QED
          BY <5>1, <4>2
      <4>3. QED
        BY <4>1, <4>2, <2>2
    <3>3. QED
      BY <3>1, <3>2
  <2> HIDE DEF h
  <2>6. QED
    BY <2>5, <2>2
<1>3. PICK f : Good(f, N)
  BY <1>1, <1>2
<1> DEFINE Eq(g) == g = [n \in 0..N |-> IF n = 0 THEN start ELSE After(g, n)]
<1>4. \E g : Eq(g)
  <2>1. Eq([n \in 0..N |-> f[n]])
    BY <1>1, <1>3
  <2>2. QED
    BY <2>1
<1>5. PICK g : Eq(g) /\ Walked(step, start, list) = g[N]
  <2>1. Eq(CHOOSE g : Eq(g))
    BY <1>4
  <2> QED
    BY <2>1 DEF Walked
<1>6. \A n \in 0..N : g[n] \in S[n]
  <2> DEFINE Out == {n \in 0..N : g[n] \notin S[n]}
  <2>1. SUFFICES ASSUME Out # {} PROVE FALSE
    OBVIOUS
  <2>2. PICK n \in Out : \A x \in Out : n <= x
    <3>1. Out \in SUBSET Nat
      BY <1>1
    <3>2. QED
      BY <2>1, <3>1, Least
  <2>3. n # 0
    BY <1>5, <2>2, <1>1
  <2>4. g[n - 1] \in S[n - 1]
    BY <2>2, <2>3, <1>1
  <2>5. g[n] = step[<<g[n - 1], list[n]>>]
    BY <1>5, <2>2, <2>3, <1>1
  <2> HIDE DEF Eq, Good
  <2>6. QED
    BY <2>4, <2>5, <2>2, <2>3, <1>1
<1>7. QED
  BY <1>5, <1>6, <1>1

\* What every step leaves in a set, the walk leaves in it.
LEMMA WalkedStays ==
  ASSUME NEW step, NEW start, NEW E, NEW list \in Seq(E), NEW S,
         start \in S, \A x \in S, e \in E : step[<<x, e>>] \in S
  PROVE  Walked(step, start, list) \in S
<1> DEFINE T == [n \in 0..Len(list) |-> S]
<1>1. Len(list) \in Nat /\ \A n \in 1..Len(list) : list[n] \in E
  OBVIOUS
<1>2. start \in T[0]
  BY <1>1
<1>3. \A n \in 1..Len(list) : \A x \in T[n - 1] : step[<<x, list[n]>>] \in T[n]
  BY <1>1
<1>4. T[Len(list)] = S
  BY <1>1
<1> HIDE DEF T
<1>5. Walked(step, start, list) \in T[Len(list)]
  BY <1>2, <1>3, WalkedAlong
<1>6. QED
  BY <1>4, <1>5

-----------------------------------------------------------------------------
(* Picking places.                                                         *)

\* Before a place of a set there are fewer than all.
LEMMA Counts ==
  ASSUME NEW I \in SUBSET Nat, IsFiniteSet(I), NEW i \in I
  PROVE  /\ Cardinality({j \in I : j < i}) \in 0..(Cardinality(I) - 1)
         /\ Cardinality(I) \in Nat
<1> DEFINE B == {j \in I : j < i}
<1>1. B \subseteq I /\ i \notin B
  OBVIOUS
<1>2. IsFiniteSet(I \ {i}) /\ Cardinality(I \ {i}) = Cardinality(I) - 1 /\ Cardinality(I) \in Nat
  BY FS_RemoveElement, FS_CardinalityType
<1>3. B \subseteq I \ {i}
  BY <1>1
<1>4. IsFiniteSet(B) /\ Cardinality(B) <= Cardinality(I \ {i}) /\ Cardinality(B) \in Nat
  BY <1>2, <1>3, FS_Subset, FS_CardinalityType
<1>5. QED
  BY <1>2, <1>4, FS_CardinalityType

\* Before a later place there are more.
LEMMA CountsGrow ==
  ASSUME NEW I \in SUBSET Nat, IsFiniteSet(I), NEW i \in I, NEW l \in I, i < l
  PROVE  Cardinality({j \in I : j < i}) < Cardinality({j \in I : j < l})
<1> DEFINE B == {j \in I : j < i}
           C == {j \in I : j < l}
<1>1. B \subseteq C /\ i \in C /\ i \notin B /\ C \subseteq I
  <2>1. i \in Nat /\ l \in Nat /\ \A j \in I : j \in Nat
    OBVIOUS
  <2>2. \A j \in B : j \in I /\ j < l
    BY <2>1
  <2>3. B \subseteq C /\ C \subseteq I
    BY <2>2
  <2>4. i \in C /\ i \notin B
    BY <2>1
  <2>5. QED
    BY <2>3, <2>4
<1>2. IsFiniteSet(C) /\ IsFiniteSet(C \ {i}) /\ Cardinality(C \ {i}) = Cardinality(C) - 1
  BY <1>1, FS_Subset, FS_RemoveElement
<1>3. B \subseteq C \ {i}
  BY <1>1
<1>4. IsFiniteSet(B) /\ Cardinality(B) <= Cardinality(C \ {i})
  BY <1>2, <1>3, FS_Subset
<1>5. Cardinality(B) \in Nat /\ Cardinality(C) \in Nat
  BY <1>2, <1>4, FS_CardinalityType
<1>6. QED
  BY <1>2, <1>4, <1>5

\* There is a place of every number up to the size of the set, and one only.
LEMMA NthPlace ==
  ASSUME NEW I \in SUBSET Nat, IsFiniteSet(I), NEW k \in 1..Cardinality(I)
  PROVE  Nth(I, k) \in I /\ Cardinality({j \in I : j < Nth(I, k)}) = k - 1
<1> DEFINE Before(i) == {j \in I : j < i}
           Count(i) == Cardinality(Before(i))
           High == {i \in I : Count(i) >= k - 1}
<1>0. Cardinality(I) \in Nat /\ k \in Nat /\ k >= 1
  BY FS_CardinalityType
<1>a. \A i \in I : Count(i) \in Nat
  BY Counts
<1>1. PICK n \in Nat : \A i \in I : i <= n
  BY FiniteBounded
<1>2. High # {}
  <2>1. I # {}
    BY FS_EmptySet, <1>0
  <2>2. PICK m \in I : \A i \in I : i <= m
    BY <2>1, <1>1, Greatest
  <2>3. Before(m) = I \ {m}
    <3>1. \A j \in I : j \in Nat
      OBVIOUS
    <3>2. m \in Nat
      BY <3>1
    <3>3. \A j \in I : j < m <=> j # m
      BY <2>2, <3>1, <3>2
    <3>4. QED
      BY <3>3
  <2>4. Count(m) = Cardinality(I) - 1
    BY <2>3, FS_RemoveElement
  <2>5. QED
    BY <2>4, <1>0
<1>3. PICK m \in High : \A i \in High : m <= i
  <2>1. High \in SUBSET Nat
    OBVIOUS
  <2>2. QED
    BY <1>2, <2>1, Least
<1>4. Count(m) = k - 1
  <2>1. SUFFICES ASSUME Count(m) > k - 1 PROVE FALSE
    BY <1>3, <1>a, <1>0
  <2>2. Before(m) # {} /\ Before(m) \in SUBSET Nat /\ \A i \in Before(m) : i <= n
    <3>1. Before(m) # {}
      BY <2>1, <1>0, FS_EmptySet
    <3>2. QED
      BY <3>1, <1>1
  <2>3. PICK p \in Before(m) : \A i \in Before(m) : i <= p
    BY <2>2, Greatest
  <2>4. Before(p) = Before(m) \ {p} /\ p \in I /\ p < m
    <3>1. \A j \in I : j \in Nat
      OBVIOUS
    <3>2. m \in Nat /\ p \in Nat /\ p \in I /\ p < m
      BY <2>3, <1>3, <3>1
    <3>3. \A j \in I : (j < m /\ j # p) <=> j < p
      <4>1. \A j \in I : j < m => j <= p
        BY <2>3
      <4>2. QED
        BY <3>1, <3>2, <4>1
    <3>4. QED
      BY <3>2, <3>3
  <2>5. IsFiniteSet(Before(m))
    BY FS_Subset, <1>3
  <2>6. Count(p) = Count(m) - 1
    <3>1. Cardinality(Before(m) \ {p}) = Cardinality(Before(m)) - 1
      BY <2>3, <2>5, FS_RemoveElement
    <3>2. QED
      BY <3>1, <2>4
  <2>7. p \in High
    BY <2>1, <2>4, <2>6, <1>a, <1>0, <1>3
  <2>8. QED
    BY <2>7, <2>4, <1>3
<1>5. QED
  BY <1>4, <1>3 DEF Nth

\* Every place of the set has a number.
LEMMA NthOf ==
  ASSUME NEW I \in SUBSET Nat, IsFiniteSet(I), NEW i \in I
  PROVE  \E k \in 1..Cardinality(I) : Nth(I, k) = i
<1> DEFINE k == Cardinality({j \in I : j < i}) + 1
<1>1. k \in 1..Cardinality(I)
  BY Counts
<1>2. Nth(I, k) \in I /\ Cardinality({j \in I : j < Nth(I, k)}) = k - 1
  BY <1>1, NthPlace
<1>3. Cardinality({j \in I : j < i}) = k - 1
  BY Counts
<1>4. ~(i < Nth(I, k)) /\ ~(Nth(I, k) < i)
  <2>1. k - 1 \in Nat
    BY Counts
  <2>2. i < Nth(I, k) => k - 1 < k - 1
    BY <1>2, <1>3, CountsGrow
  <2>3. Nth(I, k) < i => k - 1 < k - 1
    BY <1>2, <1>3, CountsGrow
  <2>4. QED
    BY <2>1, <2>2, <2>3
<1>5. i \in Nat /\ Nth(I, k) \in Nat
  BY <1>2
<1>6. Nth(I, k) = i
  BY <1>4, <1>5
<1>7. QED
  BY <1>1, <1>6

\* Nth grows with the number.
LEMMA NthGrows ==
  ASSUME NEW I \in SUBSET Nat, IsFiniteSet(I),
         NEW k \in 1..Cardinality(I), NEW l \in 1..Cardinality(I), k < l
  PROVE  Nth(I, k) < Nth(I, l)
<1>1. /\ Nth(I, k) \in I /\ Cardinality({j \in I : j < Nth(I, k)}) = k - 1
      /\ Nth(I, l) \in I /\ Cardinality({j \in I : j < Nth(I, l)}) = l - 1
  BY NthPlace
<1>2. ~(Nth(I, l) < Nth(I, k)) /\ Nth(I, l) # Nth(I, k)
  <2>1. Nth(I, l) < Nth(I, k) => l - 1 < k - 1
    BY <1>1, CountsGrow
  <2>2. k - 1 < l - 1 /\ k - 1 # l - 1 /\ ~(l - 1 < k - 1)
    BY FS_CardinalityType
  <2>3. QED
    BY <1>1, <2>1, <2>2
<1>3. Nth(I, k) \in Nat /\ Nth(I, l) \in Nat
  BY <1>1
<1>4. QED
  BY <1>2, <1>3

\* What Pick picks: all of it, in its order.
LEMMA PickIs ==
  ASSUME NEW I \in SUBSET Nat, IsFiniteSet(I), NEW list
  PROVE  /\ Len(Pick(list, I)) = Cardinality(I)
         /\ Cardinality(I) \in Nat
         /\ DOMAIN Pick(list, I) = 1..Cardinality(I)
         /\ \A k \in 1..Cardinality(I) : Pick(list, I)[k] = list[Nth(I, k)] /\ Nth(I, k) \in I
         /\ \A i \in I : \E k \in 1..Cardinality(I) : Nth(I, k) = i /\ Pick(list, I)[k] = list[i]
<1>1. Cardinality(I) \in Nat
  BY FS_CardinalityType
<1>2. \A k \in 1..Cardinality(I) : Nth(I, k) \in I
  BY NthPlace
<1>3. \A i \in I : \E k \in 1..Cardinality(I) : Nth(I, k) = i
  BY NthOf
<1>4. /\ DOMAIN Pick(list, I) = 1..Cardinality(I)
      /\ \A k \in 1..Cardinality(I) : Pick(list, I)[k] = list[Nth(I, k)]
  BY DEF Pick
<1>5. Len(Pick(list, I)) = Cardinality(I)
  BY <1>1 DEF Pick
<1>6. QED
  BY <1>1, <1>2, <1>3, <1>4, <1>5

\* Pick as a list and as a set.
LEMMA PickOf ==
  ASSUME NEW E, NEW list \in Seq(E), NEW I \in SUBSET DOMAIN list
  PROVE  /\ I \in SUBSET Nat /\ IsFiniteSet(I)
         /\ Pick(list, I) \in Seq(E)
         /\ ToSet(Pick(list, I)) = {list[i] : i \in I}
<1>1. DOMAIN list = 1..Len(list) /\ Len(list) \in Nat /\ \A i \in DOMAIN list : list[i] \in E
  OBVIOUS
<1>2. I \in SUBSET Nat
  BY <1>1
<1>3. IsFiniteSet(I)
  <2>1. IsFiniteSet(1..Len(list))
    BY <1>1, FS_Interval
  <2>2. I \subseteq 1..Len(list)
    BY <1>1
  <2>3. QED
    BY <2>1, <2>2, FS_Subset
<1>4. /\ Cardinality(I) \in Nat
      /\ DOMAIN Pick(list, I) = 1..Cardinality(I)
      /\ \A k \in 1..Cardinality(I) : Pick(list, I)[k] = list[Nth(I, k)] /\ Nth(I, k) \in I
      /\ \A i \in I : \E k \in 1..Cardinality(I) : Nth(I, k) = i /\ Pick(list, I)[k] = list[i]
  BY <1>2, <1>3, PickIs
<1>5. Pick(list, I) \in Seq(E)
  <2>1. \A k \in 1..Cardinality(I) : list[Nth(I, k)] \in E
    BY <1>1, <1>4
  <2>2. QED
    BY <2>1, <1>4 DEF Pick
<1>6. ToSet(Pick(list, I)) = {list[i] : i \in I}
  BY <1>4 DEF ToSet
<1>7. QED
  BY <1>2, <1>3, <1>5, <1>6

\* A key is met for the first time before, or where, it is met.
LEMMA FirstsAre ==
  ASSUME NEW keys, DOMAIN keys \in SUBSET Nat
  PROVE  /\ Firsts(keys) \subseteq DOMAIN keys
         /\ \A i \in DOMAIN keys : \E f \in Firsts(keys) : keys[f] = keys[i] /\ f <= i
         /\ \A f, h \in Firsts(keys) : keys[f] = keys[h] => f = h
<1>1. ASSUME NEW i \in DOMAIN keys
      PROVE  \E f \in Firsts(keys) : keys[f] = keys[i] /\ f <= i
  <2> DEFINE Same == {j \in DOMAIN keys : keys[j] = keys[i]}
  <2>1. Same \in SUBSET Nat /\ i \in Same
    OBVIOUS
  <2>2. PICK f \in Same : \A j \in Same : f <= j
    BY <2>1, Least
  <2>3. f \in Nat /\ \A j \in DOMAIN keys : j \in Nat
    BY <2>1
  <2>4. \A j \in DOMAIN keys : j < f => keys[j] # keys[f]
    BY <2>2, <2>3
  <2>5. QED
    BY <2>1, <2>2, <2>4 DEF Firsts
<1>2. ASSUME NEW f \in Firsts(keys), NEW h \in Firsts(keys), keys[f] = keys[h]
      PROVE  f = h
  <2>1. f \in Nat /\ h \in Nat
    BY DEF Firsts
  <2>2. QED
    BY <2>1, <1>2 DEF Firsts
<1>3. QED
  BY <1>1, <1>2 DEF Firsts

\* The entries of two lists put together.
LEMMA JoinedSet ==
  ASSUME NEW E, NEW s \in Seq(E), NEW t \in Seq(E)
  PROVE  /\ s \o t \in Seq(E)
         /\ ToSet(s \o t) = ToSet(s) \cup ToSet(t)
<1>1. /\ s \o t \in Seq(E) /\ Len(s \o t) = Len(s) + Len(t)
      /\ \A i \in 1..Len(s) : (s \o t)[i] = s[i]
      /\ \A i \in 1..Len(t) : (s \o t)[Len(s) + i] = t[i]
      /\ Len(s) \in Nat /\ Len(t) \in Nat
      /\ DOMAIN s = 1..Len(s) /\ DOMAIN t = 1..Len(t) /\ DOMAIN (s \o t) = 1..(Len(s) + Len(t))
  OBVIOUS
<1>2. ASSUME NEW i \in 1..(Len(s) + Len(t)) PROVE (s \o t)[i] \in ToSet(s) \cup ToSet(t)
  <2>1. CASE i <= Len(s)
    BY <2>1, <1>1 DEF ToSet
  <2>2. CASE i > Len(s)
    <3>1. i - Len(s) \in 1..Len(t) /\ i = Len(s) + (i - Len(s))
      BY <2>2, <1>1
    <3>2. (s \o t)[i] = t[i - Len(s)]
      BY <3>1, <1>1
    <3>3. QED
      BY <3>1, <3>2, <1>1 DEF ToSet
  <2>3. QED
    BY <2>1, <2>2, <1>1
<1>3. ASSUME NEW i \in 1..Len(s) PROVE s[i] \in ToSet(s \o t)
  BY <1>1 DEF ToSet
<1>4. ASSUME NEW i \in 1..Len(t) PROVE t[i] \in ToSet(s \o t)
  <2>1. Len(s) + i \in 1..(Len(s) + Len(t))
    BY <1>1
  <2>2. QED
    BY <2>1, <1>1 DEF ToSet
<1>5. ToSet(s \o t) \subseteq ToSet(s) \cup ToSet(t)
  BY <1>1, <1>2 DEF ToSet
<1>6. ToSet(s) \cup ToSet(t) \subseteq ToSet(s \o t)
  BY <1>1, <1>3, <1>4 DEF ToSet
<1>7. QED
  BY <1>1, <1>5, <1>6

\* FlattenSeq of the community modules: all the entries of all the lists.
LEMMA FlattenIs ==
  ASSUME NEW E, NEW lists \in Seq(Seq(E))
  PROVE  /\ FlattenSeq(lists) \in Seq(E)
         /\ ToSet(FlattenSeq(lists)) = UNION {ToSet(lists[i]) : i \in DOMAIN lists}
<1> DEFINE N == Len(lists)
           After(f, n) == f[n - 1] \o lists[n]
           Good(f, n) == /\ DOMAIN f = 1..n
                         /\ \A k \in 1..n : f[k] = IF k = 1 THEN lists[k] ELSE After(f, k)
           Bad == {n \in 0..N : ~ \E f : Good(f, n)}
           Upto(n) == UNION {ToSet(lists[i]) : i \in 1..n}
<1>1. N \in Nat /\ DOMAIN lists = 1..N /\ \A i \in 1..N : lists[i] \in Seq(E)
  OBVIOUS
<1>2. CASE N = 0
  <2>1. lists = <<>>
    BY <1>2
  <2>2. FlattenSeq(lists) = <<>>
    BY <2>1 DEF FlattenSeq
  <2>3. ToSet(FlattenSeq(lists)) = {}
    BY <2>2 DEF ToSet
  <2>4. DOMAIN lists = {}
    BY <1>1, <1>2
  <2>5. UNION {ToSet(lists[i]) : i \in DOMAIN lists} = {}
    BY <2>4
  <2>6. QED
    BY <2>2, <2>3, <2>5
<1>3. CASE N # 0
  <2>2. Bad = {}
    <3>1. SUFFICES ASSUME Bad # {} PROVE FALSE
      OBVIOUS
    <3>2. PICK n \in Bad : \A x \in Bad : n <= x
      <4>1. Bad \in SUBSET Nat
        BY <1>1
      <4>2. QED
        BY <3>1, <4>1, Least
    <3>3. n # 0
      <4>1. Good([k \in 1..0 |-> {}], 0)
        OBVIOUS
      <4>2. QED
        BY <4>1, <3>2
    <3>4. PICK f : Good(f, n - 1)
      <4>1. n - 1 \in 0..N /\ ~(n <= n - 1)
        BY <3>2, <3>3, <1>1
      <4>2. n - 1 \notin Bad
        BY <4>1, <3>2
      <4> HIDE DEF Good
      <4>3. QED
        BY <4>1, <4>2
    <3> DEFINE h == [k \in 1..n |-> IF k < n THEN f[k] ELSE IF k = 1 THEN lists[k] ELSE After(f, n)]
    <3>5. Good(h, n)
      <4>1. DOMAIN h = 1..n
        OBVIOUS
      <4>2. ASSUME NEW k \in 1..n PROVE h[k] = IF k = 1 THEN lists[k] ELSE After(h, k)
        <5>1. CASE k < n
          <6>1. k \in 1..(n - 1) /\ h[k] = f[k] /\ (k # 1 => h[k - 1] = f[k - 1])
            BY <5>1, <3>2, <1>1
          <6>2. QED
            BY <6>1, <3>4
        <5>2. CASE k = n
          <6>1. h[k] = (IF k = 1 THEN lists[k] ELSE After(f, n)) /\ (k # 1 => h[k - 1] = f[n - 1])
            BY <5>2, <3>2, <3>3, <1>1
          <6>2. QED
            BY <6>1, <5>2
        <5>3. QED
          BY <5>1, <5>2, <3>2
      <4>3. QED
        BY <4>1, <4>2
    <3> HIDE DEF h
    <3>6. QED
      BY <3>5, <3>2
  <2>3. PICK f : Good(f, N)
    <3>1. N \in 0..N
      BY <1>1
    <3>2. N \notin Bad
      BY <2>2
    <3> HIDE DEF Good
    <3>3. QED
      BY <3>1, <3>2
  <2> DEFINE Eq(g) == g = [n \in 1..N |-> IF n = 1 THEN lists[n] ELSE After(g, n)]
  <2>4. \E g : Eq(g)
    <3> DEFINE F == [n \in 1..N |-> f[n]]
    <3>a. \A n \in 1..N : n # 1 => n - 1 \in 1..N
      BY <1>1
    <3>b. \A n \in 1..N : F[n] = IF n = 1 THEN lists[n] ELSE F[n - 1] \o lists[n]
      BY <3>a, <2>3
    <3>1. Eq(F)
      BY <3>b
    <3>2. QED
      BY <3>1
  <2>5. PICK g : Eq(g) /\ FlattenSeq(lists) = g[N]
    <3>1. Eq(CHOOSE g : Eq(g))
      BY <2>4
    <3> QED
      BY <3>1, <1>3 DEF FlattenSeq
  <2>6. \A n \in 1..N : g[n] \in Seq(E) /\ ToSet(g[n]) = Upto(n)
    <3> DEFINE Out == {n \in 1..N : ~(g[n] \in Seq(E) /\ ToSet(g[n]) = Upto(n))}
    <3>1. SUFFICES ASSUME Out # {} PROVE FALSE
      OBVIOUS
    <3>2. PICK n \in Out : \A x \in Out : n <= x
      <4>1. Out \in SUBSET Nat
        BY <1>1
      <4>2. QED
        BY <3>1, <4>1, Least
    <3>a. lists[n] \in Seq(E)
      BY <1>1, <3>2
    <3>3. CASE n = 1
      <4>1. g[n] = lists[n]
        BY <2>5, <3>2, <3>3, <1>1
      <4>2. Upto(n) = ToSet(lists[n])
        BY <3>3
      <4>3. QED
        BY <4>1, <4>2, <3>2, <3>a
    <3>4. CASE n # 1
      <4>1. g[n - 1] \in Seq(E) /\ ToSet(g[n - 1]) = Upto(n - 1)
        <5>1. n - 1 \in 1..N /\ ~(n <= n - 1)
          BY <3>2, <3>4, <1>1
        <5>2. n - 1 \notin Out
          BY <5>1, <3>2
        <5> HIDE DEF Upto
        <5>3. QED
          BY <5>1, <5>2
      <4>2. g[n] = g[n - 1] \o lists[n]
        BY <2>5, <3>2, <3>4, <1>1
      <4>3. g[n] \in Seq(E) /\ ToSet(g[n]) = ToSet(g[n - 1]) \cup ToSet(lists[n])
        BY <4>1, <4>2, <3>a, JoinedSet
      <4>4. Upto(n) = Upto(n - 1) \cup ToSet(lists[n])
        <5>1. 1..n = (1..(n - 1)) \cup {n}
          BY <3>2, <3>4, <1>1
        <5>2. QED
          BY <5>1
      <4>5. QED
        BY <4>1, <4>3, <4>4, <3>2
    <3>5. QED
      BY <3>3, <3>4
  <2>7. N \in 1..N
    BY <1>1, <1>3
  <2>8. FlattenSeq(lists) \in Seq(E) /\ ToSet(FlattenSeq(lists)) = Upto(N)
    BY <2>5, <2>6, <2>7
  <2>9. QED
    BY <2>8, <1>1
<1>4. QED
  BY <1>2, <1>3

\* A function on 1..n is a list.
LEMMA ListOf ==
  ASSUME NEW E, NEW n \in Nat, NEW f, f = [i \in 1..n |-> f[i]], \A i \in 1..n : f[i] \in E
  PROVE  f \in Seq(E) /\ Len(f) = n /\ DOMAIN f = 1..n
<1>1. [i \in 1..n |-> f[i]] \in Seq(E) /\ Len([i \in 1..n |-> f[i]]) = n
  OBVIOUS
<1>2. QED
  BY <1>1

-----------------------------------------------------------------------------
(* Methods: what the lookups return.                                       *)

\* What a text is made of.
LEMMA TextTypes ==
  ASSUME NEW t \in DOMAIN Text
  PROVE  /\ Text[t] \in Body
         /\ Text[t].calls \in Seq(Invocation)
         /\ \A i \in DOMAIN Text[t].calls : Text[t].calls[i].name \in Word
         /\ Text[t].params \in Seq(Word)
         /\ Text[t].tokens \in Nat
         /\ Text[t].hints \in SUBSET Word
         /\ Text[t].bound \in Word
<1>1. Text[t] \in Body
  BY IndexAssumption
<1>2. Text[t].calls \in Seq(Invocation)
  BY <1>1 DEF Body
<1>3. \A i \in DOMAIN Text[t].calls : Text[t].calls[i].name \in Word
  <2>1. \A i \in DOMAIN Text[t].calls : Text[t].calls[i] \in Invocation
    BY <1>2
  <2>2. QED
    BY <2>1 DEF Invocation
<1>4. QED
  BY <1>1, <1>2, <1>3 DEF Body

\* What a method is made of.
LEMMA MethodTypes ==
  ASSUME NEW d \in Methods
  PROVE  /\ d \in DOMAIN Text
         /\ Def[d].name \in Word /\ Def[d].name # "" /\ Def[d].file \in Word /\ Def[d].class \in Word
         /\ Key(d) \in Word \X Word
BY IndexAssumption DEF Key

\* The two orders of the index list the methods.
LEMMA OrderIs ==
  /\ DefOrder \in Seq(Methods) /\ ToSet(DefOrder) = Methods
  /\ ByFile \in Seq(Methods) /\ ToSet(ByFile) = Methods
BY IndexAssumption

\* Some of the methods are kept, and no key is lost.
LEMMA FirstOfEachKeyIs ==
  ASSUME NEW ds \in Seq(Methods)
  PROVE  /\ FirstOfEachKey(ds) \in Seq(Methods)
         /\ ToSet(FirstOfEachKey(ds)) \subseteq ToSet(ds)
         /\ \A d \in ToSet(ds) : \E e \in ToSet(FirstOfEachKey(ds)) : Key(e) = Key(d)
<1> DEFINE keys == [i \in DOMAIN ds |-> Key(ds[i])]
           F == Firsts(keys)
<1>1. DOMAIN ds \in SUBSET Nat /\ DOMAIN keys = DOMAIN ds
  OBVIOUS
<1>2. /\ F \subseteq DOMAIN ds
      /\ \A i \in DOMAIN ds : \E f \in F : keys[f] = keys[i] /\ f <= i
  BY <1>1, FirstsAre
<1> HIDE DEF F
<1>3. Pick(ds, F) \in Seq(Methods) /\ ToSet(Pick(ds, F)) = {ds[i] : i \in F}
  BY <1>2, PickOf
<1>4. ASSUME NEW d \in ToSet(ds)
      PROVE  \E e \in ToSet(Pick(ds, F)) : Key(e) = Key(d)
  <2>1. PICK i \in DOMAIN ds : d = ds[i]
    BY DEF ToSet
  <2>2. PICK f \in F : keys[f] = keys[i]
    BY <1>2
  <2>3. Key(ds[f]) = Key(d) /\ ds[f] \in ToSet(Pick(ds, F))
    BY <1>2, <1>3, <2>1, <2>2
  <2>4. QED
    BY <2>3
<1>5. ToSet(Pick(ds, F)) \subseteq ToSet(ds)
  BY <1>2, <1>3 DEF ToSet
<1>6. QED
  BY <1>3, <1>4, <1>5 DEF FirstOfEachKey, F

\* Resolve returns the methods of a name.
LEMMA ResolveIs ==
  ASSUME NEW name
  PROVE  /\ Resolve(name) \in Seq(Methods)
         /\ ToSet(Resolve(name)) = {d \in Methods : Def[d].name = name}
<1> DEFINE I == {i \in DOMAIN DefOrder : Def[DefOrder[i]].name = name}
<1>1. I \in SUBSET DOMAIN DefOrder
  OBVIOUS
<1>2. Pick(DefOrder, I) \in Seq(Methods) /\ ToSet(Pick(DefOrder, I)) = {DefOrder[i] : i \in I}
  BY <1>1, PickOf, OrderIs
<1>3. {DefOrder[i] : i \in I} = {d \in Methods : Def[d].name = name}
  BY OrderIs DEF ToSet
<1>4. QED
  BY <1>2, <1>3 DEF Resolve

\* CallersOf returns methods.
LEMMA CallersOfIs ==
  ASSUME NEW name
  PROVE  CallersOf(name) \in Seq(Methods)
<1> DEFINE bare == bareName(name)
           I == {i \in DOMAIN DefOrder : CallsTo(DefOrder[i], bare) # {}}
<1>1. I \in SUBSET DOMAIN DefOrder
  OBVIOUS
<1>2. Pick(DefOrder, I) \in Seq(Methods)
  BY <1>1, PickOf, OrderIs
<1>3. FirstOfEachKey(Pick(DefOrder, I)) \in Seq(Methods)
  BY <1>2, FirstOfEachKeyIs
<1>4. QED
  BY <1>3 DEF CallersOf, Callers

\* Narrowing returns some of the definitions, at least one if there is one.
LEMMA NarrowedToIs ==
  ASSUME NEW defs \in Seq(Methods), NEW receiver
  PROVE  /\ NarrowedTo(defs, receiver) \in Seq(Methods)
         /\ ToSet(NarrowedTo(defs, receiver)) \subseteq ToSet(defs)
         /\ defs # <<>> => NarrowedTo(defs, receiver) # <<>>
<1> DEFINE same == {i \in DOMAIN defs : Def[defs[i]].class = receiver}
<1>1. same \in SUBSET DOMAIN defs
  OBVIOUS
<1> HIDE DEF same
<1>2. Pick(defs, same) \in Seq(Methods) /\ ToSet(Pick(defs, same)) = {defs[i] : i \in same}
  BY <1>1, PickOf
<1>3. ToSet(Pick(defs, same)) \subseteq ToSet(defs)
  BY <1>1, <1>2 DEF ToSet
<1>4. same # {} => Pick(defs, same) # <<>>
  <2>1. ToSet(<<>>) = {}
    BY DEF ToSet
  <2>2. QED
    BY <2>1, <1>2
<1>5. NarrowedTo(defs, receiver) \in {defs} \cup (IF same # {} THEN {Pick(defs, same)} ELSE {})
  BY DEF NarrowedTo, same
<1>6. QED
  BY <1>2, <1>3, <1>4, <1>5

\* A call resolves to methods, and to one at least if its name does.
LEMMA ResolvedIs ==
  ASSUME NEW call
  PROVE  /\ resolveWithReceiver(call) \in Seq(Methods)
         /\ Resolve(call.name) # <<>> => resolveWithReceiver(call) # <<>>
BY ResolveIs, NarrowedToIs DEF resolveWithReceiver

\* What a text calls is a list of methods.
LEMMA CalledThroughIs ==
  ASSUME NEW text \in DOMAIN Text, NEW through
  PROVE  CalledThrough(text, through) \in Seq(Methods)
<1> DEFINE lists == [i \in DOMAIN Text[text].calls |->
                      IF i \in through /\ Text[text].calls[i].name \notin NoiseCallees
                      THEN resolveWithReceiver(Text[text].calls[i]) ELSE <<>>]
<1>1. lists \in Seq(Seq(Methods))
  <2>1. \A i \in DOMAIN Text[text].calls : lists[i] \in Seq(Methods)
    BY ResolvedIs
  <2>2. Text[text].calls \in Seq(Invocation)
    BY TextTypes
  <2>3. DOMAIN Text[text].calls = 1..Len(Text[text].calls) /\ Len(Text[text].calls) \in Nat
    BY <2>2
  <2>4. lists = [i \in 1..Len(Text[text].calls) |-> lists[i]]
    BY <2>3
  <2> HIDE DEF lists
  <2>5. QED
    BY <2>1, <2>3, <2>4, ListOf
<1> HIDE DEF lists
<1>2. FlattenSeq(lists) \in Seq(Methods)
  BY <1>1, FlattenIs
<1>3. FirstOfEachKey(FlattenSeq(lists)) \in Seq(Methods)
  BY <1>2, FirstOfEachKeyIs
<1>4. QED
  BY <1>3 DEF CalledThrough, lists

\* Putting the sanitizers first keeps the methods.
LEMMA SanitizersFirstIs ==
  ASSUME NEW ds \in Seq(Methods)
  PROVE  SanitizersFirst(ds) \in Seq(Methods)
<1> DEFINE sanitizers == {i \in DOMAIN ds : Def[ds[i]].name \in SanitizerNames}
           others == DOMAIN ds \ sanitizers
<1>1. sanitizers \in SUBSET DOMAIN ds /\ others \in SUBSET DOMAIN ds
  OBVIOUS
<1>2. SanitizersFirst(ds) = Pick(ds, sanitizers) \o Pick(ds, others)
  BY DEF SanitizersFirst
<1> HIDE DEF sanitizers, others
<1>3. Pick(ds, sanitizers) \in Seq(Methods) /\ Pick(ds, others) \in Seq(Methods)
  BY <1>1, PickOf
<1>4. QED
  BY <1>2, <1>3

\* The lists of callees are lists of methods.
LEMMA CalleesAre ==
  ASSUME NEW text \in DOMAIN Text
  PROVE  /\ \A variable \in Word : ResolveCallees(text, variable) \in Seq(Methods)
         /\ ResolvableCallees(text) \in Seq(Methods)
         /\ StateMutators(text) \in Seq(Methods)
BY CalledThroughIs, SanitizersFirstIs DEF ResolveCallees, Tainted, ResolvableCallees, StateMutators

-----------------------------------------------------------------------------
(* The name of the tainted value; the walks by levels.                     *)

\* The name a value gets in a callee is a word.
LEMMA ParamOfIs ==
  ASSUME NEW text \in DOMAIN Text, NEW variable, NEW d \in Methods, NEW calls
  PROVE  ParamOf(text, variable, d, calls) \in Word
<1> DEFINE only == {p \in DOMAIN Text[d].params : \E i \in calls :
                      taintArgs(Text[text].calls[i], TaintSet(text, variable)) = {p}}
<1>1. Text[d].params \in Seq(Word)
  BY MethodTypes, TextTypes
<1>2. \A p \in only : Text[d].params[p] \in Word
  BY <1>1
<1> HIDE DEF only
<1>5. ParamOf(text, variable, d, calls)
        = IF only = {} THEN "" ELSE Text[d].params[CHOOSE p \in only : TRUE]
  BY DEF ParamOf, only
<1>3. CASE only = {}
  BY <1>3, <1>5 DEF Word
<1>4. CASE only # {}
  <2> DEFINE p == CHOOSE q \in only : TRUE
  <2>1. p \in only
    BY <1>4
  <2>2. ParamOf(text, variable, d, calls) = Text[d].params[p]
    BY <1>4, <1>5
  <2> HIDE DEF p
  <2>3. QED
    BY <2>1, <2>2, <1>2
<1>6. QED
  BY <1>3, <1>4

\* So is the one that is taken.
LEMMA TaintParamIs ==
  ASSUME NEW text \in DOMAIN Text, NEW variable, NEW d \in Methods
  PROVE  TaintParamFor(text, variable, d) \in Word
BY ParamOfIs DEF TaintParamFor

\* A prefix is a list of some of the entries.
LEMMA PrefixIs ==
  ASSUME NEW E, NEW list \in Seq(E), NEW n \in Nat
  PROVE  /\ Prefix(list, n) \in Seq(E)
         /\ Len(Prefix(list, n)) <= n
         /\ Len(Prefix(list, n)) <= Len(list)
         /\ \A i \in DOMAIN Prefix(list, n) : i \in DOMAIN list /\ Prefix(list, n)[i] = list[i]
         /\ ToSet(Prefix(list, n)) \subseteq ToSet(list)
         /\ n >= Len(list) => Prefix(list, n) = list
         /\ n < Len(list) => DOMAIN Prefix(list, n) = 1..n
<1> DEFINE m == IF n < Len(list) THEN n ELSE Len(list)
<1>1. m \in Nat /\ m <= n /\ m <= Len(list) /\ Len(list) \in Nat
  OBVIOUS
<1>2. /\ Prefix(list, n) \in Seq(E)
      /\ Len(Prefix(list, n)) = m
      /\ \A i \in 1..m : Prefix(list, n)[i] = list[i] /\ i \in DOMAIN list
  BY <1>1 DEF Prefix
<1>3. DOMAIN Prefix(list, n) = 1..m
  BY <1>2
<1>4. ToSet(Prefix(list, n)) \subseteq ToSet(list)
  BY <1>2, <1>3 DEF ToSet
<1>5. n >= Len(list) => Prefix(list, n) = list
  <2>1. SUFFICES ASSUME n >= Len(list) PROVE Prefix(list, n) = list
    OBVIOUS
  <2>2. m = Len(list)
    BY <2>1, <1>1
  <2>3. QED
    BY <2>2, <1>2
<1>6. QED
  BY <1>1, <1>2, <1>3, <1>4, <1>5

\* A level more leaves a list of methods.
LEMMA OneMoreIs ==
  ASSUME NEW step, \A d \in Methods : step[d] \in Seq(Methods), NEW nodes \in Seq(Methods)
  PROVE  OneMore(step, nodes) \in Seq(Methods)
<1> DEFINE lists == [i \in DOMAIN nodes |-> step[nodes[i]]]
<1>1. DOMAIN nodes = 1..Len(nodes) /\ Len(nodes) \in Nat /\ \A i \in DOMAIN nodes : nodes[i] \in Methods
  OBVIOUS
<1>2. \A i \in 1..Len(nodes) : lists[i] \in Seq(Methods)
  BY <1>1
<1>3. lists = [i \in 1..Len(nodes) |-> lists[i]]
  BY <1>1
<1>4. OneMore(step, nodes) = FirstOfEachKey(nodes \o FlattenSeq(lists))
  BY DEF OneMore
<1> HIDE DEF lists
<1>5. lists \in Seq(Seq(Methods))
  BY <1>1, <1>2, <1>3, ListOf
<1>6. nodes \o FlattenSeq(lists) \in Seq(Methods)
  BY <1>5, FlattenIs
<1>7. QED
  BY <1>4, <1>6, FirstOfEachKeyIs

\* A walk by levels finds methods.
LEMMA WalkIs ==
  ASSUME NEW first \in Seq(Methods), NEW step, \A d \in Methods : step[d] \in Seq(Methods),
         NEW depth \in Nat \ {0}, NEW cap \in Nat \ {0}
  PROVE  Walk(first, step, depth, cap).found \in Seq(Methods)
<1> DEFINE more == [p \in Seq(Methods) \X Nat |-> OneMore(step, p[1])]
           levels == [level \in 1..(depth - 1) |-> level]
           found == Walked(more, FirstOfEachKey(first), levels)
<1>1. levels \in Seq(Nat)
  OBVIOUS
<1>2. \A x \in Seq(Methods), n \in Nat : more[<<x, n>>] \in Seq(Methods)
  BY OneMoreIs
<1>3. FirstOfEachKey(first) \in Seq(Methods)
  BY FirstOfEachKeyIs
<1>4. Walk(first, step, depth, cap).found = Prefix(found, cap)
  BY DEF Walk
<1> HIDE DEF more, levels
<1>5. found \in Seq(Methods)
  BY <1>1, <1>2, <1>3, WalkedStays
<1> HIDE DEF found
<1>6. QED
  BY <1>4, <1>5, PrefixIs

\* The callers found are methods.
LEMMA CallersOfTransitiveIs ==
  ASSUME NEW name, NEW depth \in Nat \ {0}, NEW cap \in Nat \ {0}
  PROVE  CallersOfTransitive(name, depth, cap).found \in Seq(Methods)
<1> DEFINE step == [d \in Methods |-> CallersOf(Def[d].name)]
<1>1. \A d \in Methods : step[d] \in Seq(Methods)
  BY CallersOfIs
<1>2. CallersOf(name) \in Seq(Methods)
  BY CallersOfIs
<1>3. CallersOfTransitive(name, depth, cap) = Walk(CallersOf(name), step, depth, cap)
  BY DEF CallersOfTransitive
<1> HIDE DEF step
<1>4. QED
  BY <1>1, <1>2, <1>3, WalkIs

\* So are the callees that change state.
LEMMA PulledIs ==
  ASSUME NEW text \in DOMAIN Text
  PROVE  Pulled(text) \in Seq(Methods)
<1> DEFINE step == [d \in Methods |-> StateMutators(d)]
<1>1. \A d \in Methods : step[d] \in Seq(Methods)
  BY MethodTypes, CalleesAre
<1>2. StateMutators(text) \in Seq(Methods)
  BY CalleesAre
<1>3. ResolveCalleesTransitive(text, CalleeDepth, CalleeCap)
        = Walk(StateMutators(text), step, CalleeDepth, CalleeCap)
  BY DEF ResolveCalleesTransitive
<1> HIDE DEF step
<1>4. CalleeDepth \in Nat \ {0} /\ CalleeCap \in Nat \ {0}
  BY SlicerAssumption
<1>5. Walk(StateMutators(text), step, CalleeDepth, CalleeCap).found \in Seq(Methods)
  BY <1>1, <1>2, <1>4, WalkIs
<1>6. QED
  BY <1>3, <1>5 DEF Pulled

-----------------------------------------------------------------------------
(* Hops.                                                                   *)

\* What a hop is made of.
LEMMA HopIs ==
  ASSUME NEW h \in HopSet
  PROVE  /\ h.index \in Nat /\ h.text \in DOMAIN Text /\ h.variable \in Word
         /\ h.name \in Word /\ h.file \in Word /\ h.from \in SUBSET Word
         /\ HopKey(h) \in Word \X Word
BY DEF HopSet, HopKey

\* The hop a method becomes.
LEMMA MethodHopIs ==
  ASSUME NEW d \in Methods, NEW variable \in Word, NEW from \in Word
  PROVE  /\ MethodHop(d, variable, from) \in HopSet
         /\ HopKey(MethodHop(d, variable, from)) = Key(d)
         /\ MethodHop(d, variable, from).text = d
         /\ MethodHop(d, variable, from).variable = variable
         /\ MethodHop(d, variable, from).from = {from}
BY MethodTypes DEF MethodHop, Hop, HopSet, HopKey, Key

\* The keys of hops, as a list and as a set.
LEMMA KeysAre ==
  ASSUME NEW hops
  PROVE  Keys(hops) = {HopKey(hops[i]) : i \in DOMAIN hops}
BY DEF Keys, KeysOf, ToSet

\* The keys of two lists of hops put together.
LEMMA KeysJoined ==
  ASSUME NEW s \in Seq(HopSet), NEW t \in Seq(HopSet)
  PROVE  /\ s \o t \in Seq(HopSet)
         /\ Keys(s \o t) = Keys(s) \cup Keys(t)
<1>1. s \o t \in Seq(HopSet) /\ ToSet(s \o t) = ToSet(s) \cup ToSet(t)
  BY JoinedSet
<1>2. \A hops \in {s, t, s \o t} : Keys(hops) = {HopKey(h) : h \in ToSet(hops)}
  BY KeysAre DEF ToSet
<1>3. QED
  BY <1>1, <1>2

\* Fresh leaves new keys only, and every key that is new.
LEMMA FreshIs ==
  ASSUME NEW S \in SUBSET HopSet, NEW hops \in Seq(S), NEW taken
  PROVE  /\ Fresh(hops, taken) \in Seq(S)
         /\ ToSet(Fresh(hops, taken)) \subseteq ToSet(hops)
         /\ Keys(hops) \subseteq taken \cup Keys(Fresh(hops, taken))
         /\ \A i \in DOMAIN Fresh(hops, taken) : HopKey(Fresh(hops, taken)[i]) \notin taken
<1> DEFINE keys == KeysOf(hops)
           I == {i \in Firsts(keys) : HopKey(hops[i]) \notin taken}
           fresh == Pick(hops, I)
<1>1. DOMAIN keys = DOMAIN hops /\ DOMAIN hops \in SUBSET Nat
      /\ \A i \in DOMAIN hops : keys[i] = HopKey(hops[i])
  BY DEF KeysOf
<1> HIDE DEF keys
<1>2. /\ Firsts(keys) \subseteq DOMAIN hops
      /\ \A i \in DOMAIN hops : \E f \in Firsts(keys) : keys[f] = keys[i]
  BY <1>1, FirstsAre
<1>3. I \in SUBSET DOMAIN hops
  BY <1>2
<1>4. fresh \in Seq(S) /\ ToSet(fresh) = {hops[i] : i \in I}
  <2> HIDE DEF I
  <2> QED
    BY <1>3, PickOf
<1>5. Fresh(hops, taken) = fresh
  BY DEF Fresh, keys
<1> HIDE DEF fresh
<1>6. ToSet(fresh) \subseteq ToSet(hops)
  BY <1>3, <1>4 DEF ToSet
<1>7. \A h \in ToSet(fresh) : HopKey(h) \notin taken
  BY <1>4
<1>8. \A i \in DOMAIN fresh : HopKey(fresh[i]) \notin taken
  BY <1>7 DEF ToSet
<1>9. ASSUME NEW i \in DOMAIN hops, HopKey(hops[i]) \notin taken
      PROVE  HopKey(hops[i]) \in Keys(fresh)
  <2>1. PICK f \in Firsts(keys) : keys[f] = keys[i]
    BY <1>2
  <2>2. HopKey(hops[f]) = HopKey(hops[i])
    BY <1>1, <1>2, <2>1
  <2>3. hops[f] \in ToSet(fresh)
    BY <1>4, <1>9, <2>2
  <2>4. QED
    BY <2>2, <2>3, KeysAre DEF ToSet
<1>10. Keys(hops) \subseteq taken \cup Keys(fresh)
  BY <1>9, KeysAre
<1>11. QED
  BY <1>4, <1>5, <1>6, <1>8, <1>10

\* Numbering changes the index and nothing else.
LEMMA NumberedIs ==
  ASSUME NEW hops \in Seq(HopSet), NEW first \in Nat
  PROVE  /\ Numbered(hops, first) \in Seq(HopSet)
         /\ Len(Numbered(hops, first)) = Len(hops)
         /\ DOMAIN Numbered(hops, first) = DOMAIN hops
         /\ \A i \in DOMAIN hops :
              /\ Numbered(hops, first)[i].index = first + i - 1
              /\ Numbered(hops, first)[i].file = hops[i].file
              /\ Numbered(hops, first)[i].name = hops[i].name
              /\ Numbered(hops, first)[i].text = hops[i].text
              /\ Numbered(hops, first)[i].variable = hops[i].variable
              /\ Numbered(hops, first)[i].from = hops[i].from
         /\ Keys(Numbered(hops, first)) = Keys(hops)
<1> DEFINE N == Numbered(hops, first)
           n == Len(hops)
<1>1. DOMAIN hops = 1..n /\ n \in Nat /\ \A i \in 1..n : hops[i] \in HopSet
  OBVIOUS
<1>2. N = [i \in 1..n |-> [hops[i] EXCEPT !.index = first + i - 1]]
  BY <1>1 DEF Numbered
<1>3. \A i \in 1..n : N[i] = [hops[i] EXCEPT !.index = first + i - 1] /\ first + i - 1 \in Nat
  BY <1>1, <1>2
<1> HIDE DEF N
<1>4. ASSUME NEW i \in 1..n
      PROVE  /\ N[i] \in HopSet
             /\ N[i].index = first + i - 1
             /\ N[i].file = hops[i].file
             /\ N[i].name = hops[i].name
             /\ N[i].text = hops[i].text
             /\ N[i].variable = hops[i].variable
             /\ N[i].from = hops[i].from
  BY <1>1, <1>3 DEF HopSet
<1>5. N \in Seq(HopSet) /\ Len(N) = n /\ DOMAIN N = 1..n
  <2>1. N = [i \in 1..n |-> N[i]]
    BY <1>2
  <2>2. QED
    BY <1>1, <1>4, <2>1, ListOf
<1>6. Keys(N) = Keys(hops)
  <2>1. \A i \in 1..n : HopKey(N[i]) = HopKey(hops[i])
    BY <1>4 DEF HopKey
  <2>2. QED
    BY <1>1, <1>5, <2>1, KeysAre
<1>7. QED
  BY <1>1, <1>4, <1>5, <1>6 DEF N

\* Tokens add up to a natural.
LEMMA TokensAre ==
  ASSUME NEW hops \in Seq(HopSet)
  PROVE  Tokens(hops) \in Nat /\ NextIndex(hops) \in Nat
<1> DEFINE add == [p \in Nat \X HopSet |-> p[1] + Text[p[2].text].tokens]
           past == [p \in Nat \X HopSet |-> IF p[2].index >= p[1] THEN p[2].index + 1 ELSE p[1]]
<1>1. \A n \in Nat, h \in HopSet : add[<<n, h>>] \in Nat
  BY HopIs, TextTypes
<1>2. \A n \in Nat, h \in HopSet : past[<<n, h>>] \in Nat
  BY HopIs
<1>3. Tokens(hops) = Walked(add, 0, hops) /\ NextIndex(hops) = Walked(past, 0, hops)
  BY DEF Tokens, NextIndex
<1> HIDE DEF add, past
<1> DEFINE S == Nat
           E == HopSet
<1>a. 0 \in S /\ (\A n \in S, h \in E : add[<<n, h>>] \in S) /\ (\A n \in S, h \in E : past[<<n, h>>] \in S)
      /\ hops \in Seq(E)
  BY <1>1, <1>2
<1> HIDE DEF S, E
<1>4. Walked(add, 0, hops) \in S
  BY <1>a, WalkedStays
<1>5. Walked(past, 0, hops) \in S
  BY <1>a, WalkedStays
<1>6. QED
  BY <1>3, <1>4, <1>5 DEF S

\* Hints are words.
LEMMA HintsAre ==
  ASSUME NEW hops \in Seq(HopSet)
  PROVE  HintsOf(hops) \in SUBSET Word
<1>1. \A i \in DOMAIN hops : Text[hops[i].text].hints \in SUBSET Word
  BY HopIs, TextTypes
<1>2. QED
  BY <1>1 DEF HintsOf

-----------------------------------------------------------------------------
(* The taint path and the callers of the sink.                             *)

\* The hops of the taint path.
OnPath == {h \in HopSet : h.from \subseteq {"raw_passthrough"}}

\* A location leads to methods.
LEMMA ExtractHopIs ==
  ASSUME NEW ref
  PROVE  extractHop(ref) \in SUBSET Methods
<1>1. \A i \in DOMAIN DefOrder : DefOrder[i] \in Methods
  BY OrderIs
<1>2. NamedIn(ref) \in SUBSET DOMAIN DefOrder
  BY DEF NamedIn
<1>3. QED
  BY <1>1, <1>2 DEF extractHop

\* The hop of a location is one of the path.
LEMMA PathHopIs ==
  ASSUME NEW ref \in Ref, NEW a \in Report
  PROVE  /\ \A d \in Methods : PathHop(d, ref, a) \in OnPath
         /\ \A t \in DOMAIN Text : RawHop(t, ref, a) \in OnPath
<1>1. ref.file \in Word
  BY DEF Ref
<1>2. \A t \in DOMAIN Text : inferTaintVariable(t, a) \in Word
  BY TextTypes DEF inferTaintVariable, Report, Word
<1>3. ASSUME NEW d \in Methods
      PROVE  PathHop(d, ref, a) \in OnPath
  <2>1. d \in DOMAIN Text /\ Def[d].name \in Word /\ inferTaintVariable(d, a) \in Word
    BY <1>2, MethodTypes
  <2>2. QED
    BY <1>1, <2>1 DEF PathHop, Hop, HopSet, OnPath
<1>4. ASSUME NEW t \in DOMAIN Text
      PROVE  RawHop(t, ref, a) \in OnPath
  <2>1. inferTaintVariable(t, a) \in Word /\ "" \in Word /\ "raw_passthrough" \in Word
    BY <1>2 DEF Word, Marks
  <2>2. QED
    BY <1>1, <2>1 DEF RawHop, Hop, HopSet, OnPath
<1>5. QED
  BY <1>3, <1>4

\* A location has at most one hop, which is of the path.
LEMMA HopAtIs ==
  ASSUME NEW ref \in Ref, NEW a \in Report
  PROVE  HopAt(ref, a) \in Seq(OnPath)
<1>1. CASE extractHop(ref) # {}
  <2> DEFINE d == CHOOSE e \in extractHop(ref) : TRUE
  <2>1. d \in Methods
    BY <1>1, ExtractHopIs
  <2>2. HopAt(ref, a) = <<PathHop(d, ref, a)>>
    BY <1>1 DEF HopAt
  <2> HIDE DEF d
  <2>3. PathHop(d, ref, a) \in OnPath
    BY <2>1, PathHopIs
  <2>4. QED
    BY <2>2, <2>3
<1>2. CASE extractHop(ref) = {} /\ extractNonJavaSnippet(ref) # {}
  <2> DEFINE t == CHOOSE u \in extractNonJavaSnippet(ref) : TRUE
  <2>1. extractNonJavaSnippet(ref) \in SUBSET DOMAIN Text
    BY SlicerAssumption DEF extractNonJavaSnippet
  <2>2. t \in DOMAIN Text
    BY <1>2, <2>1
  <2>3. HopAt(ref, a) = <<RawHop(t, ref, a)>>
    BY <1>2 DEF HopAt
  <2> HIDE DEF t
  <2>4. RawHop(t, ref, a) \in OnPath
    BY <2>2, PathHopIs
  <2>5. QED
    BY <2>3, <2>4
<1>3. CASE extractHop(ref) = {} /\ extractNonJavaSnippet(ref) = {}
  BY <1>3 DEF HopAt
<1>4. QED
  BY <1>1, <1>2, <1>3

\* Taking the first of what is seen as one leaves hops of the path.
LEMMA FirstSeenIs ==
  ASSUME NEW S, NEW hops \in Seq(S)
  PROVE  FirstSeen(hops) \in Seq(S)
<1> DEFINE keys == SeenBy(hops)
<1>1. DOMAIN keys = DOMAIN hops /\ DOMAIN hops \in SUBSET Nat
  BY DEF SeenBy
<1> HIDE DEF keys
<1>2. Firsts(keys) \in SUBSET DOMAIN hops
  BY <1>1, FirstsAre
<1>3. Pick(hops, Firsts(keys)) \in Seq(S)
  BY <1>2, PickOf
<1>4. QED
  BY <1>3 DEF FirstSeen, keys

\* The hops of some locations are of the path.
LEMMA HopsAtIs ==
  ASSUME NEW refs \in Seq(Ref), NEW a \in Report
  PROVE  HopsAt(refs, a) \in Seq(OnPath)
<1> DEFINE lists == [i \in DOMAIN refs |-> HopAt(refs[i], a)]
<1>1. DOMAIN refs = 1..Len(refs) /\ Len(refs) \in Nat /\ \A i \in DOMAIN refs : refs[i] \in Ref
  OBVIOUS
<1>2. \A i \in 1..Len(refs) : lists[i] \in Seq(OnPath)
  BY <1>1, HopAtIs
<1>3. lists = [i \in 1..Len(refs) |-> lists[i]]
  BY <1>1
<1>4. HopsAt(refs, a) = FlattenSeq(lists)
  BY DEF HopsAt
<1> HIDE DEF lists
<1>5. lists \in Seq(Seq(OnPath))
  BY <1>1, <1>2, <1>3, ListOf
<1>6. QED
  BY <1>4, <1>5, FlattenIs

\* The hops of a report's path are hops of methods or snippets, marked as such.
LEMMA PathOfIs ==
  ASSUME NEW a \in Report
  PROVE  PathOf(a) \in Seq(OnPath)
<1>1. a.path \in Seq(Ref) /\ a.source \in Ref /\ a.sink \in Ref
  BY DEF Report
<1> DEFINE ends == <<a.source, a.sink>>
           I == {i \in DOMAIN ends : extractHop(ends[i]) # {}}
<1>2. ends \in Seq(Ref)
  BY <1>1
<1>3. I \in SUBSET DOMAIN ends
  OBVIOUS
<1>4. Ends(a) = Pick(ends, I)
  BY DEF Ends
<1> HIDE DEF ends, I
<1>5. Ends(a) \in Seq(Ref)
  BY <1>2, <1>3, <1>4, PickOf
<1>6. FirstSeen(HopsAt(a.path, a)) \in Seq(OnPath) /\ FirstSeen(HopsAt(Ends(a), a)) \in Seq(OnPath)
  BY <1>1, <1>5, HopsAtIs, FirstSeenIs
<1>7. QED
  BY <1>6 DEF PathOf

\* A list of methods as hops.
LEMMA MethodHopsAre ==
  ASSUME NEW ds \in Seq(Methods), NEW variable \in Word, NEW from \in Word
  PROVE  /\ [i \in DOMAIN ds |-> MethodHop(ds[i], variable, from)] \in Seq(HopSet)
         /\ DOMAIN [i \in DOMAIN ds |-> MethodHop(ds[i], variable, from)] = DOMAIN ds
<1> DEFINE hops == [i \in DOMAIN ds |-> MethodHop(ds[i], variable, from)]
<1>1. DOMAIN ds = 1..Len(ds) /\ Len(ds) \in Nat /\ \A i \in DOMAIN ds : ds[i] \in Methods
  OBVIOUS
<1>2. \A i \in 1..Len(ds) : hops[i] \in HopSet
  BY <1>1, MethodHopIs
<1>3. hops = [i \in 1..Len(ds) |-> hops[i]]
  BY <1>1
<1> HIDE DEF hops
<1>4. hops \in Seq(HopSet) /\ DOMAIN hops = DOMAIN ds
  BY <1>1, <1>2, <1>3, ListOf
<1>5. QED
  BY <1>4 DEF hops

\* The callers of the sink, as hops.
LEMMA CallerHopsAre ==
  ASSUME NEW a \in Report
  PROVE  /\ reverseCallerHops(a) \in Seq(HopSet)
         /\ a.complete => reverseCallerHops(a) = <<>>
<1>1. CASE a.complete
  BY <1>1 DEF reverseCallerHops
<1>2. CASE ~a.complete
  <2> DEFINE nearest == CallersOfSink(a).found
             hops == [i \in DOMAIN nearest |-> MethodHop(nearest[i], "", "reverse_caller")]
  <2>1. nearest \in Seq(Methods)
    <3>1. CallerDepth \in Nat \ {0} /\ CallerCap \in Nat \ {0}
      BY SlicerAssumption
    <3>2. CallersOfTransitive(a.sink.function, CallerDepth, CallerCap).found \in Seq(Methods)
      BY <3>1, CallersOfTransitiveIs
    <3>3. CASE a.sink.function = ""
      <4>1. nearest = <<>>
        BY <3>3 DEF CallersOfSink
      <4>2. QED
        BY <4>1
    <3>4. CASE a.sink.function # ""
      BY <3>2, <3>4 DEF CallersOfSink
    <3>5. QED
      BY <3>3, <3>4
  <2>2. reverseCallerHops(a) = Reverse(hops)
    BY <1>2 DEF reverseCallerHops
  <2> HIDE DEF nearest
  <2>3. "" \in Word /\ "reverse_caller" \in Word
    BY DEF Word, Marks
  <2>4. hops \in Seq(HopSet)
    BY <2>1, <2>3, MethodHopsAre
  <2> HIDE DEF hops
  <2>5. Reverse(hops) \in Seq(HopSet)
    <3>1. DOMAIN hops = 1..Len(hops) /\ Len(hops) \in Nat
      BY <2>4
    <3>2. \A i \in 1..Len(hops) : hops[(Len(hops) - i) + 1] \in HopSet
      <4>1. \A i \in 1..Len(hops) : (Len(hops) - i) + 1 \in 1..Len(hops)
        BY <3>1
      <4>2. QED
        BY <2>4, <4>1
    <3>3. Reverse(hops) = [i \in 1..Len(hops) |-> hops[(Len(hops) - i) + 1]]
      BY DEF Reverse
    <3>4. QED
      BY <3>1, <3>2, <3>3
  <2>6. QED
    BY <1>2, <2>2, <2>5
<1>3. QED
  BY <1>1, <1>2

-----------------------------------------------------------------------------
(* Mapper statements and the eager callees.                                *)

\* What a method leads to directly is a list of statements.
LEMMA MapperHitsAre ==
  ASSUME NEW d \in Methods
  PROVE  MapperHits(d) \in Seq(Block)
<1> DEFINE I == {i \in DOMAIN Blocks : /\ Blocks[i].name = Def[d].name
                                       /\ Statement(Blocks[i])
                                       /\ Def[d].class \in Blocks[i].ends}
<1>1. I \in SUBSET DOMAIN Blocks
  OBVIOUS
<1>2. MapperHits(d) = Pick(Blocks, I)
  BY DEF MapperHits
<1> HIDE DEF I
<1> DEFINE E == Block
<1>3. Blocks \in Seq(E)
  BY SlicerAssumption
<1> HIDE DEF E
<1>4. Pick(Blocks, I) \in Seq(E)
  BY <1>1, <1>3, PickOf
<1>5. QED
  BY <1>2, <1>4 DEF E

\* Methods of one name and class lead to the same statements.
LEMMA MapperHitsBy ==
  ASSUME NEW d \in Methods, NEW e \in Methods, Key(d) = Key(e), Def[d].class = Def[e].class
  PROVE  MapperHits(d) = MapperHits(e)
BY DEF MapperHits, Key

\* The callees the walk goes down to are methods.
LEMMA EagerCalleesAre ==
  ASSUME NEW d \in Methods
  PROVE  EagerCallees(d) \in Seq(Methods)
<1> DEFINE calls == Text[d].calls
           lists == [i \in DOMAIN calls |->
                      IF calls[i].name \in NoiseCallees \/ Resolve(calls[i].name) = <<>>
                      THEN <<>> ELSE <<resolveWithReceiver(calls[i])[1]>>]
<1>1. DOMAIN calls = 1..Len(calls) /\ Len(calls) \in Nat
  <2>1. d \in DOMAIN Text
    BY MethodTypes
  <2>2. calls \in Seq(Invocation)
    BY <2>1, TextTypes
  <2> HIDE DEF calls
  <2>3. QED
    BY <2>2
<1>2. ASSUME NEW i \in 1..Len(calls)
      PROVE  lists[i] \in Seq(Methods)
  <2>1. CASE calls[i].name \in NoiseCallees \/ Resolve(calls[i].name) = <<>>
    BY <1>1, <2>1
  <2>2. CASE ~(calls[i].name \in NoiseCallees \/ Resolve(calls[i].name) = <<>>)
    <3> DEFINE defs == resolveWithReceiver(calls[i])
    <3>1. defs \in Seq(Methods) /\ defs # <<>>
      BY <2>2, ResolvedIs
    <3>2. lists[i] = <<defs[1]>>
      BY <1>1, <2>2
    <3> HIDE DEF defs
    <3>3. defs[1] \in Methods
      BY <3>1
    <3>4. QED
      BY <3>2, <3>3
  <2>3. QED
    BY <2>1, <2>2
<1>3. lists = [i \in 1..Len(calls) |-> lists[i]]
  BY <1>1
<1>4. EagerCallees(d) = FlattenSeq(lists)
  BY DEF EagerCallees
<1> HIDE DEF lists, calls
<1>5. lists \in Seq(Seq(Methods))
  BY <1>1, <1>2, <1>3, ListOf
<1>6. QED
  BY <1>4, <1>5, FlattenIs

-----------------------------------------------------------------------------
(* The walk for statements.                                                *)

\* What it emits: no variable is taken over.
Eager == {h \in HopSet : /\ h.variable = "" /\ h.name # ""
                         /\ h.from # {} /\ h.from \subseteq EagerMark}

\* Of every method that was visited the statements were emitted.
Accounted(walk) ==
  \A d \in Methods : Key(d) \in walk.visited /\ OneClass(d) =>
    \A b \in ToSet(MapperHits(d)) : <<b.file, b.name>> \in Keys(walk.out)

\* A walk is good when it emitted what it had to.
GoodWalks == {walk \in Walks : walk.out \in Seq(Eager) /\ Accounted(walk)}

\* What a visit emits is well formed.
LEMMA EagerHops ==
  /\ Eager \in SUBSET HopSet
  /\ \A b \in Block : BlockHop(b) \in Eager /\ HopKey(BlockHop(b)) = <<b.file, b.name>>
  /\ \A d \in Methods : MethodHop(d, "", "eager_callee") \in Eager
<1>1. "" \in Word /\ "eager_callee" \in Word /\ "mybatis_xml_eager" \in Word
      /\ "eager_callee" \in EagerMark /\ "mybatis_xml_eager" \in EagerMark
  BY DEF Word, Marks, EagerMark
<1>2. Eager \in SUBSET HopSet
  BY DEF Eager
<1>3. \A b \in Block : BlockHop(b) \in Eager /\ HopKey(BlockHop(b)) = <<b.file, b.name>>
  <2>1. TAKE b \in Block
  <2>2. BlockHop(b) \in HopSet /\ BlockHop(b).variable = "" /\ BlockHop(b).name # "" /\ BlockHop(b).from = {"mybatis_xml_eager"}
        /\ HopKey(BlockHop(b)) = <<b.file, b.name>>
    BY <1>1 DEF BlockHop, Hop, HopSet, Block, HopKey
  <2>3. QED
    BY <1>1, <2>2 DEF Eager
<1>4. \A d \in Methods : MethodHop(d, "", "eager_callee") \in Eager
  <2>1. TAKE d \in Methods
  <2> DEFINE hop == MethodHop(d, "", "eager_callee")
  <2>a. \A v \in Word, f \in Word : /\ MethodHop(d, v, f) \in HopSet
                                  /\ MethodHop(d, v, f).variable = v
                                  /\ MethodHop(d, v, f).from = {f}
    BY MethodHopIs
  <2>2. hop \in HopSet /\ hop.variable = "" /\ hop.from = {"eager_callee"}
    BY <1>1, <2>a
  <2>3. hop.name # ""
    BY MethodTypes DEF MethodHop, Hop
  <2>4. QED
    BY <1>1, <2>2, <2>3 DEF Eager
<1>5. QED
  BY <1>2, <1>3, <1>4

\* Emitting keeps a good walk good.
LEMMA EmittedIs ==
  ASSUME NEW walk \in Walks, walk.out \in Seq(Eager), NEW d \in Methods, NEW path \in Seq(Methods)
  PROVE  /\ Emitted(walk, d, path) \in Walks
         /\ Emitted(walk, d, path).out \in Seq(Eager)
         /\ Emitted(walk, d, path).visited = walk.visited
         /\ Keys(walk.out) \subseteq Keys(Emitted(walk, d, path).out)
         /\ \A b \in ToSet(MapperHits(d)) :
              <<b.file, b.name>> \in Keys(Emitted(walk, d, path).out)
<1> DEFINE hits == MapperHits(d)
           blocks == [i \in DOMAIN hits |-> BlockHop(hits[i])]
           owners == [i \in DOMAIN path |-> MethodHop(path[i], "", "eager_callee")]
           out == walk.out \o blocks \o owners
<1>1. hits \in Seq(Block)
  BY MapperHitsAre
<1> HIDE DEF hits
<1>2. DOMAIN hits = 1..Len(hits) /\ Len(hits) \in Nat /\ \A i \in DOMAIN hits : hits[i] \in Block
  BY <1>1
<1>3. blocks \in Seq(Eager) /\ DOMAIN blocks = DOMAIN hits
  <2>1. \A i \in 1..Len(hits) : blocks[i] \in Eager
    BY <1>2, EagerHops
  <2>2. blocks = [i \in 1..Len(hits) |-> blocks[i]]
    BY <1>2
  <2> HIDE DEF blocks
  <2>3. QED
    BY <1>2, <2>1, <2>2, ListOf
<1>4. owners \in Seq(Eager)
  <2>1. DOMAIN path = 1..Len(path) /\ Len(path) \in Nat /\ \A i \in DOMAIN path : path[i] \in Methods
    OBVIOUS
  <2>2. \A i \in 1..Len(path) : owners[i] \in Eager
    BY <2>1, EagerHops
  <2>3. owners = [i \in 1..Len(path) |-> owners[i]]
    BY <2>1
  <2> HIDE DEF owners
  <2>4. QED
    BY <2>1, <2>2, <2>3, ListOf
<1>5. \A i \in DOMAIN hits : HopKey(blocks[i]) = <<hits[i].file, hits[i].name>>
  BY <1>2, EagerHops
<1>6. Emitted(walk, d, path) = [walk EXCEPT !.out = out]
  BY DEF Emitted, hits
<1> HIDE DEF blocks, owners
<1>7. /\ walk.out \o blocks \in Seq(Eager)
      /\ out \in Seq(Eager)
      /\ ToSet(out) = ToSet(walk.out) \cup ToSet(blocks) \cup ToSet(owners)
  <2> DEFINE first == walk.out \o blocks
  <2>1. first \in Seq(Eager) /\ ToSet(first) = ToSet(walk.out) \cup ToSet(blocks)
    BY <1>3, JoinedSet
  <2>a. out = first \o owners
    OBVIOUS
  <2> HIDE DEF first, out
  <2>2. out \in Seq(Eager) /\ ToSet(out) = ToSet(first) \cup ToSet(owners)
    BY <1>4, <2>1, <2>a, JoinedSet
  <2>3. QED
    BY <2>1, <2>2 DEF first
<1> HIDE DEF out
<1>8. \A hops : Keys(hops) = {HopKey(h) : h \in ToSet(hops)}
  BY KeysAre DEF ToSet
<1>9. Keys(walk.out) \subseteq Keys(out) /\ Keys(blocks) \subseteq Keys(out)
  BY <1>7, <1>8
<1>10. out \in Seq(HopSet)
  <2>1. Eager \in SUBSET HopSet
    BY EagerHops
  <2>2. Seq(Eager) \subseteq Seq(HopSet)
    BY <2>1
  <2>3. QED
    BY <1>7, <2>2
<1>11. /\ Emitted(walk, d, path) \in Walks
       /\ Emitted(walk, d, path).out = out
       /\ Emitted(walk, d, path).visited = walk.visited
  BY <1>6, <1>10 DEF Walks
<1>12. \A b \in ToSet(hits) : <<b.file, b.name>> \in Keys(out)
  <2>1. ASSUME NEW i \in DOMAIN hits
        PROVE  <<hits[i].file, hits[i].name>> \in Keys(blocks)
    BY <1>3, <1>5, KeysAre
  <2>2. QED
    BY <1>9, <2>1 DEF ToSet
<1>13. QED
  BY <1>7, <1>9, <1>11, <1>12 DEF hits

\* What one level of the walk is relied on for: the method it is called for is
\* visited, and nothing is taken back.
Reliable(below) ==
  \A walk \in GoodWalks, d \in Methods, path \in Seq(Methods) :
    /\ below[<<walk, d, path>>] \in GoodWalks
    /\ walk.visited \cup {Key(d)} \subseteq below[<<walk, d, path>>].visited

\* Walking along a list of methods visits all of them.
LEMMA DfsAllIs ==
  ASSUME NEW below, Reliable(below), NEW walk \in GoodWalks, NEW ds \in Seq(Methods),
         NEW path \in Seq(Methods)
  PROVE  /\ DfsAll(below, walk, ds, path) \in GoodWalks
         /\ walk.visited \subseteq DfsAll(below, walk, ds, path).visited
         /\ \A d \in ToSet(ds) : Key(d) \in DfsAll(below, walk, ds, path).visited
<1> DEFINE step == [p \in Walks \X Methods |-> below[<<p[1], p[2], path>>]]
           S == [n \in 0..Len(ds) |->
                   {w \in GoodWalks : /\ walk.visited \subseteq w.visited
                                      /\ \A i \in 1..n : Key(ds[i]) \in w.visited}]
<1>1. DOMAIN ds = 1..Len(ds) /\ Len(ds) \in Nat /\ \A i \in 1..Len(ds) : ds[i] \in Methods
  OBVIOUS
<1>2. \A w \in GoodWalks, d \in Methods : step[<<w, d>>] = below[<<w, d, path>>]
  BY DEF GoodWalks
<1>3. \A w \in GoodWalks, d \in Methods :
        step[<<w, d>>] \in GoodWalks /\ w.visited \cup {Key(d)} \subseteq step[<<w, d>>].visited
  <2>1. SUFFICES ASSUME NEW w \in GoodWalks, NEW d \in Methods
                 PROVE  /\ step[<<w, d>>] \in GoodWalks
                        /\ w.visited \cup {Key(d)} \subseteq step[<<w, d>>].visited
    OBVIOUS
  <2>2. step[<<w, d>>] = below[<<w, d, path>>]
    BY <1>2
  <2> HIDE DEF step
  <2>3. QED
    BY <2>2 DEF Reliable
<1> HIDE DEF step
<1>4. walk \in S[0]
  BY <1>1
<1>5. ASSUME NEW n \in 1..Len(ds), NEW x \in S[n - 1]
      PROVE  step[<<x, ds[n]>>] \in S[n]
  <2>1. /\ x \in GoodWalks /\ walk.visited \subseteq x.visited
        /\ \A i \in 1..(n - 1) : Key(ds[i]) \in x.visited
    BY <1>1, <1>5
  <2>2. /\ step[<<x, ds[n]>>] \in GoodWalks
        /\ x.visited \cup {Key(ds[n])} \subseteq step[<<x, ds[n]>>].visited
    BY <1>1, <1>3, <2>1
  <2>3. \A i \in 1..n : i \in 1..(n - 1) \/ i = n
    BY <1>1
  <2>4. \A i \in 1..n : Key(ds[i]) \in step[<<x, ds[n]>>].visited
    BY <2>1, <2>2, <2>3
  <2>5. walk.visited \subseteq step[<<x, ds[n]>>].visited
    BY <2>1, <2>2
  <2>6. S[n] = {w \in GoodWalks : /\ walk.visited \subseteq w.visited
                                  /\ \A i \in 1..n : Key(ds[i]) \in w.visited}
    BY <1>1
  <2> HIDE DEF S
  <2>7. QED
    BY <2>2, <2>4, <2>5, <2>6
<1> HIDE DEF S
<1>6. Walked(step, walk, ds) \in S[Len(ds)]
  BY <1>1, <1>4, <1>5, WalkedAlong
<1>7. DfsAll(below, walk, ds, path) \in S[Len(ds)]
  BY <1>6 DEF DfsAll, step
<1>8. QED
  BY <1>1, <1>7 DEF S, ToSet

\* What a visit does once the method is marked keeps a walk good.
LEMMA MarkedIs ==
  ASSUME NEW walk \in GoodWalks, NEW d \in Methods
  PROVE  /\ [walk EXCEPT !.visited = @ \cup {Key(d)}] \in Walks
         /\ [walk EXCEPT !.visited = @ \cup {Key(d)}].out = walk.out
         /\ [walk EXCEPT !.visited = @ \cup {Key(d)}].visited = walk.visited \cup {Key(d)}
         /\ MapperHits(d) = <<>> => [walk EXCEPT !.visited = @ \cup {Key(d)}] \in GoodWalks
<1> DEFINE marked == [walk EXCEPT !.visited = @ \cup {Key(d)}]
<1>1. walk \in Walks /\ walk.out \in Seq(Eager) /\ Accounted(walk)
  BY DEF GoodWalks
<1>2. Key(d) \in Word \X Word
  BY MethodTypes
<1>3. marked \in Walks /\ marked.out = walk.out /\ marked.visited = walk.visited \cup {Key(d)}
  BY <1>1, <1>2 DEF Walks
<1> HIDE DEF marked
<1>4. ASSUME MapperHits(d) = <<>>
      PROVE  Accounted(marked)
  <2>1. SUFFICES ASSUME NEW e \in Methods, Key(e) \in marked.visited, OneClass(e),
                        NEW b \in ToSet(MapperHits(e))
                 PROVE  <<b.file, b.name>> \in Keys(marked.out)
    BY DEF Accounted
  <2>2. CASE Key(e) \in walk.visited
    BY <1>1, <1>3, <2>1, <2>2 DEF Accounted
  <2>3. CASE Key(e) = Key(d)
    <3>1. Def[d].class = Def[e].class
      BY <2>1, <2>3 DEF OneClass
    <3>2. MapperHits(e) = <<>>
      BY <1>4, <2>3, <3>1, MapperHitsBy
    <3>3. QED
      BY <2>1, <3>2 DEF ToSet
  <2>4. QED
    BY <1>3, <2>1, <2>2, <2>3
<1>5. QED
  BY <1>1, <1>3, <1>4 DEF GoodWalks, marked

\* A visit: the method is visited after it, its statements are emitted.
LEMMA VisitIs ==
  ASSUME NEW below, NEW level \in Nat, level > 0 => Reliable(below), NEW walk \in GoodWalks,
         NEW d \in Methods, NEW path \in Seq(Methods)
  PROVE  /\ Visit(below, walk, d, level, path) \in GoodWalks
         /\ walk.visited \cup {Key(d)} \subseteq Visit(below, walk, d, level, path).visited
<1> DEFINE marked == [walk EXCEPT !.visited = @ \cup {Key(d)}]
           next == DfsMarked(below, marked, d, level, path)
<1>1. CASE Key(d) \in walk.visited
  BY <1>1 DEF Visit
<1>2. CASE Key(d) \notin walk.visited
  <2>1. /\ marked \in Walks /\ marked.out = walk.out
        /\ marked.visited = walk.visited \cup {Key(d)}
        /\ MapperHits(d) = <<>> => marked \in GoodWalks
    BY MarkedIs
  <2>2. Visit(below, walk, d, level, path) = next
    BY <1>2 DEF Visit, DfsBudget
  <2> HIDE DEF marked
  <2>3. CASE MapperHits(d) # <<>>
    <3> DEFINE emitted == Emitted(marked, d, path)
    <3>1. next = emitted
      BY <2>3 DEF DfsMarked
    <3>2. walk \in Walks /\ walk.out \in Seq(Eager) /\ Accounted(walk)
      BY DEF GoodWalks
    <3>3. /\ emitted \in Walks /\ emitted.out \in Seq(Eager)
          /\ emitted.visited = marked.visited
          /\ Keys(walk.out) \subseteq Keys(emitted.out)
          /\ \A b \in ToSet(MapperHits(d)) : <<b.file, b.name>> \in Keys(emitted.out)
      BY <2>1, <3>2, EmittedIs
    <3> HIDE DEF emitted
    <3>4. Accounted(emitted)
      <4>1. SUFFICES ASSUME NEW e \in Methods, Key(e) \in emitted.visited, OneClass(e),
                            NEW b \in ToSet(MapperHits(e))
                     PROVE  <<b.file, b.name>> \in Keys(emitted.out)
        BY DEF Accounted
      <4>2. CASE Key(e) \in walk.visited
        BY <3>2, <3>3, <4>1, <4>2 DEF Accounted
      <4>3. CASE Key(e) = Key(d)
        <5>1. Def[d].class = Def[e].class
          BY <4>1, <4>3 DEF OneClass
        <5>2. MapperHits(e) = MapperHits(d)
          BY <4>3, <5>1, MapperHitsBy
        <5>3. QED
          BY <3>3, <4>1, <5>2
      <4>4. QED
        BY <2>1, <3>3, <4>1, <4>2, <4>3
    <3>5. QED
      BY <2>1, <2>2, <3>1, <3>3, <3>4 DEF GoodWalks
  <2>4. CASE MapperHits(d) = <<>> /\ MayDescend(marked, level)
    <3> DEFINE callees == EagerCallees(d)
               longer == Append(path, d)
    <3>1. next = DfsAll(below, marked, callees, longer)
      BY <2>4 DEF DfsMarked
    <3>2. Reliable(below)
      BY <2>4 DEF MayDescend
    <3>3. callees \in Seq(Methods) /\ longer \in Seq(Methods)
      BY EagerCalleesAre
    <3> HIDE DEF callees, longer
    <3>4. /\ DfsAll(below, marked, callees, longer) \in GoodWalks
          /\ marked.visited \subseteq DfsAll(below, marked, callees, longer).visited
      BY <2>1, <2>4, <3>2, <3>3, DfsAllIs
    <3>5. QED
      BY <2>1, <2>2, <3>1, <3>4
  <2>5. CASE MapperHits(d) = <<>> /\ ~MayDescend(marked, level)
    <3>1. next = marked
      BY <2>5 DEF DfsMarked
    <3>2. QED
      BY <2>1, <2>2, <2>5, <3>1
  <2>6. QED
    BY <2>3, <2>4, <2>5
<1>3. QED
  BY <1>1, <1>2

\* A visit with budget left reaches all that the method calls.
LEMMA VisitReaches ==
  ASSUME NEW below, Reliable(below), NEW level \in Nat, NEW walk \in GoodWalks,
         NEW d \in Methods, NEW path \in Seq(Methods),
         Key(d) \notin walk.visited, MapperHits(d) = <<>>,
         MayDescend([walk EXCEPT !.visited = @ \cup {Key(d)}], level)
  PROVE  \A e \in ToSet(EagerCallees(d)) : Key(e) \in Visit(below, walk, d, level, path).visited
<1> DEFINE marked == [walk EXCEPT !.visited = @ \cup {Key(d)}]
           callees == EagerCallees(d)
           longer == Append(path, d)
<1>1. marked \in GoodWalks
  BY MarkedIs
<1>2. Visit(below, walk, d, level, path) = DfsAll(below, marked, callees, longer)
  BY DEF Visit, DfsBudget, DfsMarked
<1>3. callees \in Seq(Methods) /\ longer \in Seq(Methods)
  BY EagerCalleesAre
<1> HIDE DEF marked, longer, callees
<1>4. \A e \in ToSet(callees) : Key(e) \in DfsAll(below, marked, callees, longer).visited
  BY <1>1, <1>3, DfsAllIs
<1>5. QED
  BY <1>2, <1>4 DEF callees

-----------------------------------------------------------------------------
(* The walk is what its equations say.                                     *)

\* One level of the walk.
Row(below, level) == [p \in Walks \X Methods \X Seq(Methods) |-> Visit(below, p[1], p[2], level, p[3])]

\* The last level does not look below.
LEMMA LowestRow ==
  ASSUME NEW b, NEW c
  PROVE  Row(b, 0) = Row(c, 0)
<1>1. \A walk, d, path : Visit(b, walk, d, 0, path) = Visit(c, walk, d, 0, path)
  BY DEF Visit, DfsBudget, DfsMarked, MayDescend
<1>2. QED
  BY <1>1 DEF Row

\* Each level of the walk is a row over the level below.
LEMMA DfsEquation ==
  \A level \in 0..(EagerDepth + 1) : Dfs[level] = Row(Dfs[level - 1], level)
<1> DEFINE N == EagerDepth + 1
           Eq(g) == g = [level \in 0..N |-> Row(g[level - 1], level)]
           Good(g, n) == /\ DOMAIN g = 0..n
                         /\ \A k \in 0..n : g[k] = Row(g[k - 1], k)
           Bad == {n \in 0..N : ~ \E g : Good(g, n)}
<1>1. N \in Nat
  <2>1. EagerDepth \in Nat \ {0}
    BY SlicerAssumption
  <2>2. QED
    BY <2>1
<1> HIDE DEF N
<1>2. \E g : Good(g, 0)
  <2> DEFINE g == [k \in 0..0 |-> Row(k, 0)]
  <2>1. DOMAIN g = 0..0 /\ g[0] = Row(0, 0)
    OBVIOUS
  <2> HIDE DEF g
  <2>2. g[0] = Row(g[0 - 1], 0)
    BY <2>1, LowestRow
  <2>3. \A k \in 0..0 : k = 0
    OBVIOUS
  <2>4. Good(g, 0)
    BY <2>1, <2>2, <2>3
  <2>5. QED
    BY <2>4
<1>3. ASSUME NEW n \in 0..N, n + 1 \in 0..N, NEW g, Good(g, n)
      PROVE  \E h : Good(h, n + 1)
  <2> DEFINE h == [k \in 0..(n + 1) |-> IF k = n + 1 THEN Row(g[n], n + 1) ELSE g[k]]
  <2>1. /\ DOMAIN h = 0..(n + 1)
        /\ \A k \in 0..n : h[k] = g[k]
        /\ h[n + 1] = Row(g[n], n + 1)
    BY <1>1, <1>3
  <2> HIDE DEF h
  <2>2. ASSUME NEW k \in 0..(n + 1)
        PROVE  h[k] = Row(h[k - 1], k)
    <3>1. CASE k = n + 1
      <4>1. n \in 0..n /\ (n + 1) - 1 = n
        BY <1>1, <1>3
      <4>2. h[k - 1] = g[n]
        BY <2>1, <3>1, <4>1
      <4>3. QED
        BY <2>1, <3>1, <4>2
    <3>2. CASE k = 0
      <4>1. 0 \in 0..n /\ h[0] = g[0]
        BY <1>1, <1>3, <2>1
      <4>2. g[0] = Row(g[0 - 1], 0)
        BY <1>3, <4>1
      <4>3. Row(g[0 - 1], 0) = Row(h[0 - 1], 0)
        BY LowestRow
      <4>4. QED
        BY <3>2, <4>1, <4>2, <4>3
    <3>3. CASE k # n + 1 /\ k # 0
      <4>1. k \in 0..n /\ k - 1 \in 0..n
        BY <1>1, <1>3, <3>3
      <4>2. h[k] = g[k] /\ h[k - 1] = g[k - 1]
        BY <2>1, <4>1
      <4>3. QED
        BY <1>3, <4>1, <4>2
    <3>4. QED
      BY <3>1, <3>2, <3>3
  <2>3. Good(h, n + 1)
    BY <2>1, <2>2
  <2>4. QED
    BY <2>3
<1>4. Bad = {}
  <2>1. SUFFICES ASSUME Bad # {} PROVE FALSE
    OBVIOUS
  <2> HIDE DEF Good
  <2>2. Bad \in SUBSET Nat
    BY <1>1
  <2>3. PICK m \in Bad : \A x \in Bad : m <= x
    BY <2>1, <2>2, Least
  <2>4. m \in 0..N /\ ~ \E g : Good(g, m)
    OBVIOUS
  <2>5. m # 0
    BY <1>2, <2>4
  <2>6. m - 1 \in 0..N /\ (m - 1) + 1 = m /\ ~(m <= m - 1)
    BY <1>1, <2>4, <2>5
  <2>7. m - 1 \notin Bad
    BY <2>3, <2>6
  <2>8. \E g : Good(g, m - 1)
    BY <2>6, <2>7
  <2>9. QED
    BY <1>3, <2>4, <2>6, <2>8
<1>5. \E g : Eq(g)
  <2>1. N \in 0..N
    BY <1>1
  <2>2. PICK g : Good(g, N)
    BY <1>4, <2>1
  <2> DEFINE f == [k \in 0..N |-> g[k]]
  <2>3. \A k \in 0..N : f[k] = g[k]
    OBVIOUS
  <2>4. ASSUME NEW k \in 0..N
        PROVE  g[k] = Row(f[k - 1], k)
    <3>1. g[k] = Row(g[k - 1], k)
      BY <2>2
    <3>2. CASE k = 0
      <4>1. Row(g[0 - 1], 0) = Row(f[0 - 1], 0)
        BY LowestRow
      <4>2. QED
        BY <3>1, <3>2, <4>1
    <3>3. CASE k # 0
      <4>1. k - 1 \in 0..N
        BY <1>1, <3>3
      <4>2. QED
        BY <2>3, <3>1, <4>1
    <3>4. QED
      BY <3>2, <3>3
  <2>5. f = [k \in 0..N |-> Row(f[k - 1], k)]
    <3>1. [k \in 0..N |-> g[k]] = [k \in 0..N |-> Row(f[k - 1], k)]
      <4> HIDE DEF f
      <4> QED
        BY <2>4
    <3>2. QED
      BY <3>1
  <2>6. QED
    BY <2>5
<1>6. Eq(CHOOSE g : Eq(g))
  <2> HIDE DEF Eq
  <2> QED
    BY <1>5
<1>7. Dfs = CHOOSE g : Eq(g)
  BY DEF Dfs, Row, N
<1>8. Eq(Dfs)
  <2> HIDE DEF Eq
  <2> QED
    BY <1>6, <1>7
<1>9. \A level \in 0..N : Dfs[level] = Row(Dfs[level - 1], level)
  BY <1>8
<1>10. QED
  BY <1>9 DEF N

\* Every level visits reliably.
LEMMA DfsIs ==
  \A level \in 0..(EagerDepth + 1) : Reliable(Dfs[level])
<1> DEFINE N == EagerDepth + 1
           Bad == {level \in 0..N : ~Reliable(Dfs[level])}
<1>1. N \in Nat
  <2>1. EagerDepth \in Nat \ {0}
    BY SlicerAssumption
  <2>2. QED
    BY <2>1
<1>2. \A level \in 0..N : Dfs[level] = Row(Dfs[level - 1], level)
  BY DfsEquation
<1> HIDE DEF N
<1>3. ASSUME NEW level \in 0..N, level > 0 => Reliable(Dfs[level - 1])
      PROVE  Reliable(Dfs[level])
  <2>1. SUFFICES ASSUME NEW walk \in GoodWalks, NEW d \in Methods, NEW path \in Seq(Methods)
                 PROVE  /\ Dfs[level][<<walk, d, path>>] \in GoodWalks
                        /\ walk.visited \cup {Key(d)} \subseteq Dfs[level][<<walk, d, path>>].visited
    BY DEF Reliable
  <2> DEFINE below == Dfs[level - 1]
  <2>2. walk \in Walks
    BY DEF GoodWalks
  <2>3. Dfs[level] = Row(below, level)
    BY <1>2
  <2>4. level \in Nat /\ (level > 0 => Reliable(below))
    BY <1>1, <1>3
  <2> HIDE DEF below
  <2>5. Row(below, level)[<<walk, d, path>>] = Visit(below, walk, d, level, path)
    BY <2>2 DEF Row
  <2>6. QED
    BY <2>3, <2>4, <2>5, VisitIs
<1>4. Bad = {}
  <2>1. SUFFICES ASSUME Bad # {} PROVE FALSE
    OBVIOUS
  <2>2. Bad \in SUBSET Nat
    BY <1>1
  <2>3. PICK m \in Bad : \A x \in Bad : m <= x
    BY <2>1, <2>2, Least
  <2>4. m \in 0..N /\ ~Reliable(Dfs[m])
    OBVIOUS
  <2>5. m > 0 => Reliable(Dfs[m - 1])
    <3>1. SUFFICES ASSUME m > 0 PROVE Reliable(Dfs[m - 1])
      OBVIOUS
    <3>2. m - 1 \in 0..N /\ ~(m <= m - 1)
      BY <1>1, <2>4, <3>1
    <3>3. m - 1 \notin Bad
      BY <2>3, <3>2
    <3>4. QED
      BY <3>2, <3>3
  <2>6. QED
    BY <1>3, <2>4, <2>5
<1>5. QED
  BY <1>4 DEF N

\* A root is a method the index resolves.
LEMMA RootIs ==
  ASSUME NEW hop, IsRoot(hop)
  PROVE  Resolve(hop.name)[1] \in Methods
<1>1. Resolve(hop.name) \in Seq(Methods) /\ Resolve(hop.name) # <<>>
  BY ResolveIs DEF IsRoot
<1> DEFINE defs == Resolve(hop.name)
<1>2. defs \in Seq(Methods) /\ defs # <<>>
  BY <1>1
<1> HIDE DEF defs
<1>3. defs[1] \in Methods
  BY <1>2
<1>4. QED
  BY <1>3 DEF defs

\* A hop leaves a good walk good.
LEMMA RootedIs ==
  ASSUME NEW walk \in GoodWalks, NEW hop \in HopSet
  PROVE  /\ Rooted(walk, hop) \in GoodWalks
         /\ walk.visited \subseteq Rooted(walk, hop).visited
         /\ ~IsRoot(hop) => Rooted(walk, hop) = walk
<1>1. CASE ~IsRoot(hop)
  BY <1>1 DEF Rooted
<1>2. CASE IsRoot(hop)
  <2> DEFINE root == Resolve(hop.name)[1]
             dfs == Dfs[EagerDepth + 1]
             none == <<>>
  <2>1. root \in Methods
    BY <1>2, RootIs
  <2>2. EagerDepth \in Nat \ {0}
    BY SlicerAssumption
  <2>3. EagerDepth + 1 \in 0..(EagerDepth + 1)
    BY <2>2
  <2>4. Reliable(dfs)
    BY <2>3, DfsIs
  <2>5. Rooted(walk, hop) = dfs[<<walk, root, none>>]
    BY <1>2 DEF Rooted
  <2>6. none \in Seq(Methods)
    OBVIOUS
  <2> HIDE DEF root, dfs, none
  <2>7. /\ dfs[<<walk, root, none>>] \in GoodWalks
        /\ walk.visited \cup {Key(root)} \subseteq dfs[<<walk, root, none>>].visited
    BY <2>1, <2>4, <2>6 DEF Reliable
  <2>8. QED
    BY <1>2, <2>5, <2>7
<1>3. QED
  BY <1>1, <1>2

\* The first root has its budget: all that it calls is visited.
LEMMA FirstRooted ==
  ASSUME NEW walk \in GoodWalks, walk.visited = {}, NEW hop \in HopSet, IsRoot(hop),
         MapperHits(Resolve(hop.name)[1]) = <<>>
  PROVE  \A d \in ToSet(EagerCallees(Resolve(hop.name)[1])) : Key(d) \in Rooted(walk, hop).visited
<1> DEFINE root == Resolve(hop.name)[1]
           level == EagerDepth + 1
           below == Dfs[level - 1]
           none == <<>>
           marked == [walk EXCEPT !.visited = @ \cup {Key(root)}]
<1>1. root \in Methods
  BY RootIs
<1>2. EagerDepth \in Nat \ {0} /\ VisitedCap \in Nat \ {0}
  BY SlicerAssumption
<1>3. level \in 0..(EagerDepth + 1) /\ level - 1 \in 0..(EagerDepth + 1) /\ level > 0 /\ level \in Nat
  BY <1>2
<1>4. Reliable(below)
  BY <1>3, DfsIs
<1>5. Dfs[level] = Row(below, level)
  BY <1>3, DfsEquation
<1>6. Rooted(walk, hop) = Dfs[level][<<walk, root, none>>]
  BY DEF Rooted
<1>7. none \in Seq(Methods) /\ MapperHits(root) = <<>> /\ Key(root) \notin walk.visited
  OBVIOUS
<1>8. marked.visited = {Key(root)}
  <2>1. walk \in Walks
    BY DEF GoodWalks
  <2>2. QED
    BY <2>1 DEF Walks
<1> HIDE DEF root, below, none, marked, level
<1>9. MayDescend(marked, level)
  <2>1. Cardinality({Key(root)}) = 1
    BY FS_Singleton
  <2>2. QED
    BY <1>2, <1>3, <1>8, <2>1 DEF MayDescend
<1>10. Dfs[level][<<walk, root, none>>] = Visit(below, walk, root, level, none)
  <2>1. walk \in Walks
    BY DEF GoodWalks
  <2>2. QED
    BY <1>1, <1>5, <1>7, <2>1 DEF Row
<1>11. \A d \in ToSet(EagerCallees(root)) : Key(d) \in Visit(below, walk, root, level, none).visited
  BY <1>1, <1>3, <1>4, <1>7, <1>9, VisitReaches DEF marked
<1>12. QED
  BY <1>6, <1>10, <1>11 DEF root

\* The statements the first root leads to in one call are among these.
Reached(hops, keys) ==
  \A root \in FirstRoot(hops) : MapperHits(root) = <<>> =>
    \A d \in ToSet(EagerCallees(root)) : OneClass(d) =>
      \A b \in ToSet(MapperHits(d)) : <<b.file, b.name>> \in keys

\* What the walk of a slice emits, and what it does not miss.
LEMMA StatementsAre ==
  ASSUME NEW hops \in Seq(HopSet)
  PROVE  /\ eagerResolveMapperXml(hops) \in Seq(Eager)
         /\ Roots(hops) = {} => eagerResolveMapperXml(hops) = <<>>
         /\ Reached(hops, Keys(eagerResolveMapperXml(hops)))
<1> DEFINE found == eagerResolveMapperXml(hops)
<1>1. CASE Blocks = <<>>
  <2>1. found = <<>>
    BY <1>1 DEF eagerResolveMapperXml
  <2>2. \A d \in Methods : \A b \in ToSet(MapperHits(d)) : FALSE
    <3>1. SUFFICES ASSUME NEW d \in Methods PROVE ToSet(MapperHits(d)) = {}
      OBVIOUS
    <3> DEFINE I == {i \in DOMAIN Blocks : /\ Blocks[i].name = Def[d].name
                                           /\ Statement(Blocks[i])
                                           /\ Def[d].class \in Blocks[i].ends}
    <3>2. I = {} /\ I \in SUBSET DOMAIN Blocks
      BY <1>1
    <3>3. MapperHits(d) = Pick(Blocks, I)
      BY DEF MapperHits
    <3> HIDE DEF I
    <3>4. Blocks \in Seq(Block)
      BY SlicerAssumption
    <3>5. ToSet(Pick(Blocks, I)) = {Blocks[i] : i \in I}
      BY <3>2, <3>4, PickOf
    <3>6. QED
      BY <3>2, <3>3, <3>5
  <2>3. Reached(hops, Keys(found))
    <3>1. SUFFICES ASSUME NEW root \in FirstRoot(hops), NEW d \in ToSet(EagerCallees(root))
                   PROVE  d \in Methods
      BY <2>2 DEF Reached
    <3>2. root \in Methods
      BY RootIs DEF FirstRoot, Roots
    <3>3. EagerCallees(root) \in Seq(Methods)
      BY <3>2, EagerCalleesAre
    <3>4. QED
      BY <3>3 DEF ToSet
  <2>4. <<>> \in Seq(Eager)
    OBVIOUS
  <2>5. QED
    BY <2>1, <2>3, <2>4
<1>2. CASE Blocks # <<>>
  <2> DEFINE step == [p \in Walks \X HopSet |-> Rooted(p[1], p[2])]
             start == [visited |-> {}, out |-> <<>>]
             walk == Walked(step, start, hops)
  <2>1. found = walk.out
    BY <1>2 DEF eagerResolveMapperXml
  <2>2. start \in GoodWalks /\ start.visited = {} /\ start.out = <<>>
    <3>1. start.visited = {} /\ start.out = <<>>
      OBVIOUS
    <3>2. <<>> \in Seq(Eager) /\ <<>> \in Seq(HopSet)
      OBVIOUS
    <3>3. start \in Walks
      BY <3>2 DEF Walks
    <3>4. Accounted(start)
      BY <3>1 DEF Accounted
    <3>5. QED
      BY <3>1, <3>2, <3>3, <3>4 DEF GoodWalks
  <2>3. \A w \in GoodWalks, h \in HopSet : step[<<w, h>>] = Rooted(w, h)
    BY DEF GoodWalks
  <2>4. DOMAIN hops = 1..Len(hops) /\ Len(hops) \in Nat /\ \A i \in 1..Len(hops) : hops[i] \in HopSet
    OBVIOUS
  <2> HIDE DEF step, start
  <2>5. walk \in GoodWalks
    <3>1. \A w \in GoodWalks, h \in HopSet : step[<<w, h>>] \in GoodWalks
      BY <2>3, RootedIs
    <3>2. QED
      BY <2>2, <3>1, WalkedStays
  <2>6. ASSUME Roots(hops) = {}
        PROVE  walk = start
    <3> DEFINE S == [n \in 0..Len(hops) |-> {start}]
    <3>1. start \in S[0]
      BY <2>4
    <3>2. ASSUME NEW n \in 1..Len(hops), NEW x \in S[n - 1]
          PROVE  step[<<x, hops[n]>>] \in S[n]
      <4>1. x = start
        BY <2>4, <3>2
      <4>2. ~IsRoot(hops[n])
        BY <2>4, <2>6 DEF Roots
      <4>3. step[<<start, hops[n]>>] = start
        BY <2>2, <2>3, <2>4, <4>2, RootedIs
      <4>4. QED
        BY <2>4, <4>1, <4>3
    <3>3. S[Len(hops)] = {start}
      BY <2>4
    <3> HIDE DEF S
    <3>4. walk \in S[Len(hops)]
      BY <3>1, <3>2, WalkedAlong
    <3>5. QED
      BY <3>3, <3>4
  <2>7. Reached(hops, Keys(walk.out))
    <3>1. SUFFICES ASSUME NEW root \in FirstRoot(hops), MapperHits(root) = <<>>,
                          NEW d \in ToSet(EagerCallees(root)), OneClass(d),
                          NEW b \in ToSet(MapperHits(d))
                   PROVE  <<b.file, b.name>> \in Keys(walk.out)
      BY DEF Reached
    <3>2. PICK i \in Roots(hops) : /\ \A j \in Roots(hops) : i <= j
                                   /\ root = Resolve(hops[i].name)[1]
      BY DEF FirstRoot
    <3>3. i \in 1..Len(hops) /\ IsRoot(hops[i])
      BY <2>4 DEF Roots
    <3> DEFINE After == {w \in GoodWalks : Key(d) \in w.visited}
               S == [n \in 0..Len(hops) |-> IF n < i THEN {start} ELSE After]
    <3>4. start \in S[0]
      BY <2>4, <3>3
    <3>5. ASSUME NEW n \in 1..Len(hops), NEW x \in S[n - 1]
          PROVE  step[<<x, hops[n]>>] \in S[n]
      <4>1. CASE n < i
        <5>1. x = start /\ S[n] = {start}
          BY <2>4, <3>3, <3>5, <4>1
        <5>2. n \notin Roots(hops)
          BY <2>4, <3>2, <3>3, <4>1
        <5>3. ~IsRoot(hops[n])
          BY <2>4, <5>2 DEF Roots
        <5>4. step[<<start, hops[n]>>] = start
          BY <2>2, <2>3, <2>4, <5>3, RootedIs
        <5>5. QED
          BY <5>1, <5>4
      <4>2. CASE n = i
        <5>1. x = start /\ S[n] = After
          BY <2>4, <3>3, <3>5, <4>2
        <5>2. \A e \in ToSet(EagerCallees(root)) : Key(e) \in Rooted(start, hops[i]).visited
          BY <2>2, <2>4, <3>1, <3>2, <3>3, FirstRooted
        <5>3. Rooted(start, hops[i]) \in After
          BY <2>2, <2>4, <3>1, <3>3, <5>2, RootedIs
        <5>4. QED
          BY <2>2, <2>3, <2>4, <3>3, <4>2, <5>1, <5>3
      <4>3. CASE n > i
        <5>1. x \in After /\ S[n] = After
          BY <2>4, <3>3, <3>5, <4>3
        <5>2. Rooted(x, hops[n]) \in After
          BY <2>4, <5>1, RootedIs
        <5>3. QED
          BY <2>3, <2>4, <5>1, <5>2
      <4>4. QED
        BY <2>4, <3>3, <4>1, <4>2, <4>3
    <3>6. S[Len(hops)] = After
      BY <2>4, <3>3
    <3> HIDE DEF S
    <3>7. walk \in S[Len(hops)]
      BY <3>4, <3>5, WalkedAlong
    <3> HIDE DEF walk
    <3>8. Key(d) \in walk.visited /\ Accounted(walk)
      BY <3>6, <3>7 DEF GoodWalks
    <3>9. d \in Methods
      <4>1. root \in Methods
        BY <3>2, <3>3, RootIs
      <4>2. EagerCallees(root) \in Seq(Methods)
        BY <4>1, EagerCalleesAre
      <4>3. QED
        BY <4>2 DEF ToSet
    <3>10. QED
      BY <3>1, <3>8, <3>9 DEF Accounted
  <2> HIDE DEF walk
  <2>8. walk.out \in Seq(Eager)
    BY <2>5 DEF GoodWalks
  <2>9. QED
    BY <2>1, <2>2, <2>6, <2>7, <2>8
<1>3. QED
  BY <1>1, <1>2

\* A member of a list's set is an entry, of the list's type.
LEMMA MemberOf ==
  ASSUME NEW E, NEW list \in Seq(E)
  PROVE  /\ \A x \in ToSet(list) : x \in E
         /\ ToSet(list) = {} => list = <<>>
<1>1. DOMAIN list = 1..Len(list) /\ Len(list) \in Nat /\ \A i \in 1..Len(list) : list[i] \in E
  OBVIOUS
<1>2. \A x \in ToSet(list) : x \in E
  BY <1>1 DEF ToSet
<1>3. ASSUME ToSet(list) = {}
      PROVE  list = <<>>
  <2>1. ~(1 \in DOMAIN list)
    BY <1>3 DEF ToSet
  <2>2. Len(list) = 0
    BY <1>1, <2>1
  <2>3. QED
    BY <2>2
<1>4. QED
  BY <1>2, <1>3

-----------------------------------------------------------------------------
(* The budget.                                                             *)

\* What a slice is made of.
LEMMA SliceIs ==
  ASSUME NEW s \in Slices
  PROVE  /\ s.hops \in Seq(HopSet) /\ s.hints \in SUBSET Word /\ s.tokens \in Nat
         /\ s.note \in SUBSET Notes /\ s.degraded \in BOOLEAN
         /\ s.uncertain \in SUBSET (Word \X Word) /\ s.style \in Styles
BY DEF Slices

\* Degrading drops hops only when it says so.
LEMMA DegradeIs ==
  ASSUME NEW s \in Slices
  PROVE  /\ maybeDegrade(s) \in Slices
         /\ maybeDegrade(s) = s \/ maybeDegrade(s).degraded
         /\ maybeDegrade(s).uncertain = s.uncertain
<1> DEFINE I == {i \in DOMAIN s.hops : Critical(s.hops[i], Len(s.hops) - 1, s.hints)}
           kept == Pick(s.hops, I)
<1>1. s.hops \in Seq(HopSet) /\ I \in SUBSET DOMAIN s.hops
  BY SliceIs
<1> HIDE DEF I
<1>2. kept \in Seq(HopSet)
  BY <1>1, PickOf
<1>3. maybeDegrade(s) = s \/ maybeDegrade(s) = [s EXCEPT !.hops = kept, !.degraded = TRUE]
  BY DEF maybeDegrade, I
<1> HIDE DEF kept
<1>4. [s EXCEPT !.hops = kept, !.degraded = TRUE] \in Slices
      /\ [s EXCEPT !.hops = kept, !.degraded = TRUE].degraded
      /\ [s EXCEPT !.hops = kept, !.degraded = TRUE].uncertain = s.uncertain
  BY <1>2 DEF Slices
<1>5. QED
  BY <1>3, <1>4

\* So does eliding the text of callers.
LEMMA DegradeCallersIs ==
  ASSUME NEW s \in Slices, NEW callers
  PROVE  /\ degradeReverseChain(s, callers) \in Slices
         /\ \/ degradeReverseChain(s, callers) = s
            \/ degradeReverseChain(s, callers).degraded
<1> DEFINE keep == {CHOOSE i \in callers : \A j \in callers : i <= j,
                    CHOOSE i \in callers : \A j \in callers : j <= i}
           hops == Elided(s.hops, keep)
           new == ElideCallers(s, hops)
           n == Len(s.hops)
<1>1. degradeReverseChain(s, callers) = s \/ degradeReverseChain(s, callers) = new
  BY DEF degradeReverseChain
<1> HIDE DEF keep
<1>2. s.hops \in Seq(HopSet) /\ "elided" \in DOMAIN Text
  BY SliceIs, SlicerAssumption
<1>3. DOMAIN s.hops = 1..n /\ n \in Nat /\ \A i \in 1..n : s.hops[i] \in HopSet
  BY <1>2
<1>4. \A i \in 1..n : [s.hops[i] EXCEPT !.text = "elided"] \in HopSet
  BY <1>2, <1>3 DEF HopSet
<1>5. \A i \in 1..n : hops[i] \in HopSet
  BY <1>3, <1>4 DEF Elided
<1>6. hops = [i \in 1..n |-> hops[i]]
  BY <1>3 DEF Elided
<1> HIDE DEF hops, n
<1>7. hops \in Seq(HopSet)
  BY <1>3, <1>5, <1>6, ListOf
<1>8. Tokens(hops) \in Nat
  BY <1>7, TokensAre
<1>9. "reverse_caller_degraded" \in Notes
  BY DEF Notes
<1>10. new \in Slices /\ new.degraded
  BY <1>7, <1>8, <1>9 DEF Slices, ElideCallers
<1>11. QED
  BY <1>1, <1>10

\* The fact is refreshed, the rest of the slice stays.
LEMMA StyledIs ==
  ASSUME NEW s \in Slices
  PROVE  /\ Styled(s) \in Slices
         /\ Styled(s).hops = s.hops /\ Styled(s).degraded = s.degraded
<1>1. classifySinkParamStyle(s.hops) \in Styles
  BY DEF classifySinkParamStyle, Styles
<1>2. QED
  BY <1>1 DEF Styled, Slices

-----------------------------------------------------------------------------
(* SliceAlert.                                                             *)

\* The hops of a report: of the path, of callers or of the walk for statements, with
\* the statements the first root leads to.
LEMMA HopsOfIs ==
  ASSUME NEW a \in Report
  PROVE  /\ HopsOf(a) \in Seq(HopSet)
         /\ a.complete => \A i \in DOMAIN HopsOf(a) :
              HopsOf(a)[i].from \subseteq {"raw_passthrough"} \/ HopsOf(a)[i] \in Eager
         /\ Reached(HopsOf(a), Keys(HopsOf(a)))
<1> DEFINE callers == reverseCallerHops(a)
           path == PathOf(a)
           seen == ToSet(SeenBy(path))
           shown == callers \o path
           found == eagerResolveMapperXml(shown)
           fresh == Fresh(found, seen)
           all == shown \o fresh
           hops == Numbered(all, 0)
<1>1. HopsOf(a) = hops
  BY DEF HopsOf, WithStatements
<1>2. callers \in Seq(HopSet) /\ (a.complete => callers = <<>>) /\ path \in Seq(OnPath)
  BY CallerHopsAre, PathOfIs
<1>3. OnPath \in SUBSET HopSet /\ Eager \in SUBSET HopSet
  BY DEF OnPath, Eager
<1> HIDE DEF callers, path
<1>4. path \in Seq(HopSet)
  <2>1. Seq(OnPath) \subseteq Seq(HopSet)
    BY <1>3
  <2>2. QED
    BY <1>2, <2>1
<1>5. shown \in Seq(HopSet) /\ ToSet(shown) = ToSet(callers) \cup ToSet(path)
  BY <1>2, <1>4, JoinedSet
<1> HIDE DEF shown, seen
<1>6. /\ found \in Seq(Eager)
      /\ Roots(shown) = {} => found = <<>>
      /\ Reached(shown, Keys(found))
  BY <1>5, StatementsAre
<1> HIDE DEF found
<1>7. fresh \in Seq(Eager) /\ Keys(found) \subseteq seen \cup Keys(fresh)
      /\ ToSet(fresh) \subseteq ToSet(found)
  BY <1>3, <1>6, FreshIs
<1> HIDE DEF fresh
<1>8. fresh \in Seq(HopSet)
  <2>1. Seq(Eager) \subseteq Seq(HopSet)
    BY <1>3
  <2>2. QED
    BY <1>7, <2>1
<1>9. all \in Seq(HopSet) /\ Keys(all) = Keys(shown) \cup Keys(fresh)
      /\ ToSet(all) = ToSet(shown) \cup ToSet(fresh)
  BY <1>5, <1>8, KeysJoined, JoinedSet
<1>10. /\ hops \in Seq(HopSet) /\ DOMAIN hops = DOMAIN all /\ Keys(hops) = Keys(all)
       /\ \A i \in DOMAIN all : /\ hops[i].file = all[i].file /\ hops[i].name = all[i].name
                                /\ hops[i].variable = all[i].variable
                                /\ hops[i].from = all[i].from
  <2>1. 0 \in Nat
    OBVIOUS
  <2> HIDE DEF all
  <2>2. QED
    BY <1>9, <2>1, NumberedIs
<1> HIDE DEF hops
<1>11. ASSUME a.complete, NEW i \in DOMAIN hops
       PROVE  hops[i].from \subseteq {"raw_passthrough"} \/ hops[i] \in Eager
  <2>1. all[i] \in ToSet(path) \/ all[i] \in ToSet(fresh)
    <3>1. all[i] \in ToSet(all)
      BY <1>10, <1>11 DEF ToSet
    <3>2. ToSet(callers) = {}
      BY <1>2, <1>11 DEF ToSet
    <3>3. QED
      BY <1>5, <1>9, <3>1, <3>2
  <2>2. CASE all[i] \in ToSet(path)
    <3>1. all[i] \in OnPath
      BY <1>2, <2>2, MemberOf
    <3>2. all[i].from \subseteq {"raw_passthrough"}
      BY <3>1 DEF OnPath
    <3> HIDE DEF all
    <3>3. QED
      BY <1>10, <1>11, <3>2
  <2>3. CASE all[i] \in ToSet(fresh)
    <3>1. all[i] \in Eager
      BY <1>7, <2>3, MemberOf
    <3> HIDE DEF all
    <3>2. hops[i] \in HopSet
      BY <1>10, <1>11
    <3>3. QED
      BY <1>10, <1>11, <3>1, <3>2 DEF Eager
  <2>4. QED
    BY <2>1, <2>2, <2>3
\* The keys of snippets in seen are those of no statement.
<1>12. \A root \in FirstRoot(shown), d \in Methods : \A b \in ToSet(MapperHits(d)) :
         <<b.file, b.name>> \in seen => <<b.file, b.name>> \in Keys(path)
  <2>1. SUFFICES ASSUME NEW d \in Methods, NEW b \in ToSet(MapperHits(d)), <<b.file, b.name>> \in seen
                 PROVE  <<b.file, b.name>> \in Keys(path)
    OBVIOUS
  <2>2. b.name # "<raw>"
    <3>1. b \in Block
      BY MapperHitsAre, MemberOf
    <3>2. QED
      BY <3>1 DEF Block
  <2>3. PICK i \in DOMAIN path : <<b.file, b.name>> = SeenAs(path[i])
    BY <2>1 DEF seen, SeenBy, ToSet
  <2>4. <<b.file, b.name>> = HopKey(path[i])
    BY <2>2, <2>3 DEF SeenAs, HopKey
  <2>5. QED
    BY <2>4, KeysAre
<1>13. FirstRoot(hops) \subseteq FirstRoot(shown)
  <2>1. DOMAIN shown = 1..Len(shown) /\ Len(shown) \in Nat
        /\ DOMAIN fresh = 1..Len(fresh) /\ Len(fresh) \in Nat
    BY <1>5, <1>8
  <2>2. DOMAIN all = 1..(Len(shown) + Len(fresh)) /\ \A i \in 1..Len(shown) : all[i] = shown[i]
    BY <1>5, <1>8
  <2> HIDE DEF all
  <2>3. \A i \in 1..Len(shown) : i \in DOMAIN hops /\ hops[i].file = shown[i].file /\ hops[i].name = shown[i].name
    BY <1>10, <2>1, <2>2
  <2>4. \A i \in 1..Len(shown) : i \in Roots(hops) <=> i \in Roots(shown)
    BY <2>1, <2>3 DEF Roots, IsRoot
  <2>5. CASE Roots(shown) = {}
    <3>1. fresh = <<>>
      <4>1. ToSet(fresh) = {}
        BY <1>6, <1>7, <2>5 DEF ToSet
      <4>2. QED
        BY <1>8, <4>1, MemberOf
    <3>2. DOMAIN hops = 1..Len(shown)
      BY <1>10, <2>1, <2>2, <3>1
    <3>3. Roots(hops) = {}
      BY <2>4, <2>5, <3>2 DEF Roots
    <3>4. QED
      BY <3>3 DEF FirstRoot
  <2>6. CASE Roots(shown) # {}
    <3>1. SUFFICES ASSUME NEW i \in Roots(hops), \A j \in Roots(hops) : i <= j
                   PROVE  Resolve(hops[i].name)[1] \in FirstRoot(shown)
      BY DEF FirstRoot
    <3>2. PICK k \in Roots(shown) : TRUE
      BY <2>6
    <3>3. k \in 1..Len(shown) /\ k \in Roots(hops)
      BY <2>1, <2>4, <3>2 DEF Roots
    <3>4. i \in 1..(Len(shown) + Len(fresh)) /\ i <= k
      BY <1>10, <2>2, <3>1, <3>3 DEF Roots
    <3>5. i \in 1..Len(shown)
      BY <2>1, <3>3, <3>4
    <3>6. i \in Roots(shown) /\ \A j \in Roots(shown) : i <= j
      BY <2>1, <2>4, <3>1, <3>5 DEF Roots
    <3>7. hops[i].name = shown[i].name
      BY <2>3, <3>5
    <3>8. QED
      BY <3>6, <3>7 DEF FirstRoot
  <2>7. QED
    BY <2>5, <2>6
<1>14. Keys(path) \subseteq Keys(shown)
  BY <1>2, <1>4, KeysJoined DEF shown
<1>15. Reached(hops, Keys(hops))
  <2>1. SUFFICES ASSUME NEW root \in FirstRoot(hops), MapperHits(root) = <<>>,
                        NEW d \in ToSet(EagerCallees(root)), OneClass(d),
                        NEW b \in ToSet(MapperHits(d))
                 PROVE  <<b.file, b.name>> \in Keys(hops)
    BY DEF Reached
  <2>2. root \in FirstRoot(shown)
    BY <1>13
  <2>3. <<b.file, b.name>> \in Keys(found)
    BY <1>6, <2>1, <2>2 DEF Reached
  <2>4. d \in Methods
    <3>1. root \in Methods
      BY <2>2, RootIs DEF FirstRoot, Roots
    <3>2. EagerCallees(root) \in Seq(Methods)
      BY <3>1, EagerCalleesAre
    <3>3. QED
      BY <3>2 DEF ToSet
  <2>5. QED
    BY <1>7, <1>9, <1>10, <1>12, <1>14, <2>2, <2>3, <2>4
<1>16. QED
  BY <1>1, <1>10, <1>11, <1>15

\* The notes of a slice.
LEMMA NotesAre ==
  ASSUME NEW a \in Report
  PROVE  /\ CallerNote(a) \in SUBSET Notes
         /\ SkipReasons(a) \in SUBSET {"non_java", "file_not_found", "no_function"}
         /\ HintsOfPath(PathOf(a)) \in SUBSET Word
<1>1. CallerNote(a) \in SUBSET Notes
  BY DEF CallerNote, Notes
<1>2. SkipReasons(a) \in SUBSET {"non_java", "file_not_found", "no_function"}
  BY DEF SkipReasons, dropReason
<1>3. HintsOfPath(PathOf(a)) \in SUBSET Word
  <2> DEFINE path == PathOf(a)
             I == {i \in DOMAIN path : path[i].from = {}}
  <2>1. path \in Seq(OnPath)
    BY PathOfIs
  <2>2. I \in SUBSET DOMAIN path
    OBVIOUS
  <2>3. HintsOfPath(path) = HintsOf(Pick(path, I))
    BY DEF HintsOfPath
  <2> HIDE DEF path, I
  <2>4. Pick(path, I) \in Seq(OnPath)
    BY <2>1, <2>2, PickOf
  <2>5. Seq(OnPath) \subseteq Seq(HopSet)
    BY DEF OnPath
  <2>6. HintsOf(Pick(path, I)) \in SUBSET Word
    BY <2>4, <2>5, HintsAre
  <2>7. QED
    BY <2>3, <2>6 DEF path
<1>4. QED
  BY <1>1, <1>2, <1>3

\* The slice of a report; when none of its hops was dropped they are those of HopsOf.
LEMMA SliceAlertIs ==
  ASSUME NEW a \in Report
  PROVE  /\ SliceAlert(a) \in Slices
         /\ ~SliceAlert(a).degraded => SliceAlert(a).hops = HopsOf(a)
<1> DEFINE hops == HopsOf(a)
           s == Context(a, hops)
           callers == CallerHops(hops)
           t == degradeReverseChain(s, callers)
           u == maybeDegrade(t)
<1>1. hops \in Seq(HopSet)
  BY HopsOfIs
<1> HIDE DEF hops
<1>2. Tokens(hops) \in Nat
  BY <1>1, TokensAre
<1>3. "" \in Styles
  BY DEF Styles
<1>4. s \in Slices /\ s.hops = hops /\ s.degraded = FALSE
  BY <1>1, <1>2, <1>3, NotesAre DEF Context, Slices
<1>5. SliceAlert(a) = Styled(u)
  BY <1>4 DEF SliceAlert, Degraded, hops
<1> HIDE DEF s, callers
<1>6. t \in Slices /\ (t = s \/ t.degraded)
  BY <1>4, DegradeCallersIs
<1> HIDE DEF t
<1>7. u \in Slices /\ (u = t \/ u.degraded)
  BY <1>6, DegradeIs
<1> HIDE DEF u
<1>8. Styled(u) \in Slices /\ Styled(u).hops = u.hops /\ Styled(u).degraded = u.degraded
  BY <1>7, StyledIs
<1>9. t.degraded => u.degraded
  BY <1>7
<1>10. QED
  BY <1>4, <1>5, <1>6, <1>7, <1>8, <1>9 DEF hops

-----------------------------------------------------------------------------
(* What enrichment adds.                                                   *)

\* Two hops that show the same.
Alike(h, g) ==
  /\ h.file = g.file /\ h.name = g.name /\ h.text = g.text
  /\ h.variable = g.variable /\ h.from = g.from

\* Items were offered to a slice: unless hops were dropped, all that was there is
\* still there, every item is known by its key, and nothing else was added.
Offered(s, t, items) ==
  /\ t \in Slices
  /\ ~t.degraded => ~s.degraded
  /\ ~t.degraded =>
       /\ ToSet(s.hops) \subseteq ToSet(t.hops)
       /\ Keys(s.hops) \subseteq Keys(t.hops)
       /\ Keys(items) \subseteq Keys(t.hops)
       /\ \A h \in ToSet(t.hops) :
            h \in ToSet(s.hops) \/ \E g \in ToSet(items) : Alike(h, g)

\* What AppendCalleeHops adds.
LEMMA AppendIs ==
  ASSUME NEW s \in Slices, NEW items \in Seq(HopSet)
  PROVE  /\ Offered(s, AppendCalleeHops(s, items), items)
         /\ AppendCalleeHops(s, items).uncertain = s.uncertain
<1> DEFINE fresh == Fresh(items, Keys(s.hops))
           first == NextIndex(s.hops)
           added == Numbered(fresh, first)
           t == Extended(s, added)
           longer == s.hops \o added
           new == [s EXCEPT !.hops = longer, !.tokens = Tokens(longer),
                            !.hints = @ \cup HintsOf(added)]
<1>1. AppendCalleeHops(s, items) = t
  BY DEF AppendCalleeHops
<1>2. s.hops \in Seq(HopSet) /\ HopSet \in SUBSET HopSet
  BY SliceIs
<1>3. /\ fresh \in Seq(HopSet)
      /\ ToSet(fresh) \subseteq ToSet(items)
      /\ Keys(items) \subseteq Keys(s.hops) \cup Keys(fresh)
  BY <1>2, FreshIs
<1>4. first \in Nat
  BY <1>2, TokensAre
<1> HIDE DEF fresh, first
<1>5. /\ added \in Seq(HopSet)
      /\ DOMAIN added = DOMAIN fresh
      /\ Keys(added) = Keys(fresh)
      /\ \A i \in DOMAIN fresh : Alike(added[i], fresh[i])
  BY <1>3, <1>4, NumberedIs DEF Alike
<1> HIDE DEF added
<1>6. \A h \in ToSet(added) : \E g \in ToSet(items) : Alike(h, g)
  <2>1. \A i \in DOMAIN fresh : fresh[i] \in ToSet(items)
    BY <1>3 DEF ToSet
  <2>2. QED
    BY <1>5, <2>1 DEF ToSet
<1>7. /\ longer \in Seq(HopSet)
      /\ ToSet(longer) = ToSet(s.hops) \cup ToSet(added)
      /\ Keys(longer) = Keys(s.hops) \cup Keys(added)
  BY <1>2, <1>5, JoinedSet, KeysJoined
<1>8. CASE added = <<>>
  <2>1. t = s
    BY <1>8 DEF Extended
  <2>2. longer = s.hops
    BY <1>2, <1>8
  <2>3. QED
    BY <1>1, <1>3, <1>5, <1>7, <2>1, <2>2 DEF Offered
<1>9. CASE added # <<>>
  <2>1. t = maybeDegrade(new)
    BY <1>9 DEF Extended
  <2> HIDE DEF longer
  <2>2. Tokens(longer) \in Nat /\ HintsOf(added) \in SUBSET Word
    BY <1>5, <1>7, TokensAre, HintsAre
  <2>3. new \in Slices /\ new.hops = longer /\ new.degraded = s.degraded /\ new.uncertain = s.uncertain
    BY <1>7, <2>2 DEF Slices
  <2> HIDE DEF new
  <2>4. t \in Slices /\ (t = new \/ t.degraded) /\ t.uncertain = new.uncertain
    BY <2>1, <2>3, DegradeIs
  <2> HIDE DEF t
  <2>5. QED
    BY <1>1, <1>3, <1>5, <1>6, <1>7, <2>3, <2>4 DEF Offered
<1>10. QED
  BY <1>8, <1>9

-----------------------------------------------------------------------------
(* Candidates and the cap.                                                 *)

\* An item that a method becomes.
Items == {h \in HopSet : h.text \in Methods /\ HopKey(h) = Key(h.text)}

\* The items expanded from a hop of a name.
ItemsFrom(from) == {h \in Items : h.from = {from}}

\* A list over a set is one over a larger set.
LEMMA SeqSubset ==
  ASSUME NEW S, NEW T, S \subseteq T, NEW list \in Seq(S)
  PROVE  list \in Seq(T)
<1>1. DOMAIN list = 1..Len(list) /\ Len(list) \in Nat /\ \A i \in 1..Len(list) : list[i] \in T
  OBVIOUS
<1>2. QED
  BY <1>1

\* Expanded callees are items of their hop.
LEMMA ExpandedIs ==
  ASSUME NEW ds \in Seq(Methods), NEW text \in DOMAIN Text, NEW variable \in Word, NEW from \in Word
  PROVE  /\ Expanded(ds, text, variable, from) \in Seq(ItemsFrom(from))
         /\ \A d \in ToSet(ds) : Key(d) \in Keys(Expanded(ds, text, variable, from))
<1> DEFINE items == Expanded(ds, text, variable, from)
           E == ItemsFrom(from)
           n == Len(ds)
<1>1. DOMAIN ds = 1..n /\ n \in Nat /\ \A i \in 1..n : ds[i] \in Methods
  OBVIOUS
<1>2. \A d \in Methods : TaintParamFor(text, variable, d) \in Word
  BY TaintParamIs
<1>3. items = [i \in 1..n |-> MethodHop(ds[i], TaintParamFor(text, variable, ds[i]), from)]
  BY <1>1 DEF Expanded
<1>4. ASSUME NEW i \in 1..n
      PROVE  items[i] \in E /\ HopKey(items[i]) = Key(ds[i])
  <2>1. items[i] = MethodHop(ds[i], TaintParamFor(text, variable, ds[i]), from)
    BY <1>3
  <2> HIDE DEF items
  <2>2. /\ items[i] \in HopSet /\ HopKey(items[i]) = Key(ds[i])
        /\ items[i].text = ds[i] /\ items[i].from = {from}
    BY <1>1, <1>2, <2>1, MethodHopIs
  <2>3. QED
    BY <1>1, <2>2 DEF Items, ItemsFrom
<1>5. items = [i \in 1..n |-> items[i]]
  BY <1>3
<1> HIDE DEF items, E, n
<1>6. items \in Seq(E) /\ DOMAIN items = 1..n
  BY <1>1, <1>4, <1>5, ListOf
<1>7. \A d \in ToSet(ds) : Key(d) \in Keys(items)
  BY <1>1, <1>4, <1>6, KeysAre DEF ToSet
<1>8. QED
  BY <1>6, <1>7 DEF items, E

\* The items expanded from one of the hops.
FromHops(hops) == {h \in Items : \E i \in DOMAIN hops : h.from = {hops[i].name}}

\* The candidates of the first tier are items expanded from the hops.
LEMMA CandidatesAre ==
  ASSUME NEW hops \in Seq(HopSet)
  PROVE  Candidates(hops) \in Seq(FromHops(hops))
<1> DEFINE E == FromHops(hops)
           lists == [i \in DOMAIN hops |-> ItemsOf(hops[i])]
           n == Len(hops)
<1>1. DOMAIN hops = 1..n /\ n \in Nat /\ \A i \in 1..n : hops[i] \in HopSet
  OBVIOUS
<1>2. ASSUME NEW i \in 1..n
      PROVE  lists[i] \in Seq(E)
  <2> DEFINE hop == hops[i]
             F == ItemsFrom(hop.name)
             ds == ResolveCallees(hop.text, hop.variable)
  <2>1. hop.text \in DOMAIN Text /\ hop.variable \in Word /\ hop.name \in Word
    BY <1>1, HopIs
  <2>2. ds \in Seq(Methods)
    BY <2>1, CalleesAre
  <2>3. lists[i] = Expanded(ds, hop.text, hop.variable, hop.name)
    BY <1>1 DEF ItemsOf
  <2>4. F \subseteq E
    BY <1>1 DEF FromHops, ItemsFrom
  <2> HIDE DEF hop, ds
  <2>5. Expanded(ds, hop.text, hop.variable, hop.name) \in Seq(F)
    BY <2>1, <2>2, ExpandedIs
  <2> HIDE DEF F, E
  <2>6. QED
    BY <2>3, <2>4, <2>5, SeqSubset
<1>3. lists = [i \in 1..n |-> lists[i]]
  BY <1>1
<1>4. Candidates(hops) = Fresh(FlattenSeq(lists), Keys(hops))
  BY DEF Candidates
<1>5. E \in SUBSET HopSet
  BY DEF FromHops, Items
<1> HIDE DEF lists, n, E
<1>6. lists \in Seq(Seq(E))
  BY <1>1, <1>2, <1>3, ListOf
<1>7. FlattenSeq(lists) \in Seq(E)
  BY <1>6, FlattenIs
<1>8. Fresh(FlattenSeq(lists), Keys(hops)) \in Seq(E)
  BY <1>5, <1>7, FreshIs
<1>9. QED
  BY <1>4, <1>8 DEF E

\* What of the items is within the cap.
WithinCap(items) == IF Len(items) > MaxEnrichHops THEN Prefix(items, MaxEnrichHops) ELSE items

\* The cap offers what is within it.
LEMMA CapIs ==
  ASSUME NEW s \in Slices, NEW S \in SUBSET HopSet, NEW items \in Seq(S)
  PROVE  /\ WithinCap(items) \in Seq(S)
         /\ Offered(s, applyEnrichCap(s, items), WithinCap(items))
         /\ applyEnrichCap(s, items).uncertain = s.uncertain
<1> DEFINE few == WithinCap(items)
           t == AppendCalleeHops(s, few)
           u == applyEnrichCap(s, items)
<1>1. MaxEnrichHops \in Nat
  <2>1. MaxEnrichHops \in Nat \ {0}
    BY SlicerAssumption
  <2>2. QED
    BY <2>1
<1>2. few \in Seq(S)
  BY <1>1, PrefixIs DEF WithinCap
<1>3. u = t \/ u = [t EXCEPT !.note = {"omitted"}, !.truncated = TRUE]
  BY DEF applyEnrichCap, WithinCap
<1> HIDE DEF few
<1>4. few \in Seq(HopSet)
  BY <1>2, SeqSubset
<1>5. Offered(s, t, few) /\ t.uncertain = s.uncertain
  BY <1>4, AppendIs
<1> HIDE DEF t, u
<1>6. t \in Slices
  BY <1>5 DEF Offered
<1>7. u \in Slices /\ u.hops = t.hops /\ u.degraded = t.degraded /\ u.uncertain = t.uncertain
  <2>1. {"omitted"} \in SUBSET Notes /\ TRUE \in BOOLEAN
    BY DEF Notes
  <2>2. QED
    BY <1>3, <1>6, <2>1 DEF Slices
<1>8. Offered(s, u, few)
  BY <1>5, <1>7 DEF Offered
<1>9. QED
  BY <1>2, <1>5, <1>7, <1>8 DEF few, u

\* The keys of what the hops may call.
LEMMA ReferencedIs ==
  ASSUME NEW hops \in Seq(HopSet)
  PROVE  /\ Referenced(hops) \in SUBSET (Word \X Word)
         /\ \A i \in DOMAIN hops : \A d \in ToSet(ResolvableCallees(hops[i].text)) :
              d \in Methods /\ Key(d) \in Referenced(hops)
<1>1. ASSUME NEW i \in DOMAIN hops, NEW d \in ToSet(ResolvableCallees(hops[i].text))
      PROVE  d \in Methods /\ Key(d) \in Referenced(hops) /\ Key(d) \in Word \X Word
  <2>1. hops[i].text \in DOMAIN Text
    BY HopIs
  <2>2. ResolvableCallees(hops[i].text) \in Seq(Methods)
    BY <2>1, CalleesAre
  <2>3. d \in Methods
    BY <2>2, MemberOf
  <2>4. Key(d) \in Referenced(hops)
    BY DEF Referenced
  <2>5. QED
    BY <2>3, <2>4, MethodTypes
<1>2. QED
  BY <1>1 DEF Referenced

\* After the first tier every referenced callee is shown or listed, or an accessor.
LEMMA EnrichIs ==
  ASSUME NEW s \in Slices
  PROVE  /\ EnrichSlice(s) \in Slices
         /\ \E items \in Seq(FromHops(s.hops)) : Offered(s, EnrichSlice(s), items)
         /\ \A k \in Referenced(s.hops) :
              k \in Keys(EnrichSlice(s).hops) \cup EnrichSlice(s).uncertain \/ k[2] \in AccessorNames
<1> DEFINE candidates == Candidates(s.hops)
           referenced == Referenced(s.hops)
           t == applyEnrichCap(s, candidates)
           unseen == Unseen(referenced, t.hops)
           u == Reported(t, unseen)
           S == FromHops(s.hops)
<1>1. s.hops \in Seq(HopSet)
  BY SliceIs
<1>2. candidates \in Seq(S) /\ referenced \in SUBSET (Word \X Word)
  BY <1>1, CandidatesAre, ReferencedIs
<1>3. S \in SUBSET HopSet
  BY DEF FromHops, Items
<1>4. EnrichSlice(s) = u
  BY DEF EnrichSlice, ReportUnseen
<1> HIDE DEF candidates, S, referenced
<1>5. WithinCap(candidates) \in Seq(S) /\ Offered(s, t, WithinCap(candidates))
  BY <1>2, <1>3, CapIs
<1> HIDE DEF t
<1>6. t \in Slices
  BY <1>5 DEF Offered
<1>7. unseen \in SUBSET (Word \X Word)
  BY <1>2 DEF Unseen
<1>8. \A k \in referenced : k \in Keys(t.hops) \cup unseen \/ k[2] \in AccessorNames
  BY DEF Unseen
<1> HIDE DEF unseen
<1>9. /\ u \in Slices /\ u.hops = t.hops /\ u.degraded = t.degraded
      /\ unseen # {} => u.uncertain = unseen
  <2> DEFINE note == t.note \cup (IF AbsentTypes(t.hops) THEN {"absent_types"} ELSE {})
                            \cup (IF unseen # {} THEN {"unseen"} ELSE {})
             uncertain == IF unseen # {} THEN unseen ELSE t.uncertain
  <2>1. t.note \in SUBSET Notes /\ t.uncertain \in SUBSET (Word \X Word)
    BY <1>6, SliceIs
  <2>2. note \in SUBSET Notes
    BY <2>1 DEF Notes
  <2>3. uncertain \in SUBSET (Word \X Word)
    BY <1>7, <2>1
  <2>4. u = [t EXCEPT !.note = note, !.uncertain = uncertain]
    BY DEF Reported
  <2>5. unseen # {} => uncertain = unseen
    OBVIOUS
  <2> HIDE DEF note, uncertain, u
  <2>6. QED
    BY <1>6, <2>2, <2>3, <2>4, <2>5 DEF Slices
<1> HIDE DEF u
<1>10. Offered(s, u, WithinCap(candidates))
  BY <1>5, <1>9 DEF Offered
<1>11. \A k \in referenced : k \in Keys(u.hops) \cup u.uncertain \/ k[2] \in AccessorNames
  BY <1>8, <1>9
<1>12. QED
  BY <1>4, <1>5, <1>9, <1>10, <1>11 DEF S, referenced

-----------------------------------------------------------------------------
(* The tier of callees that change state.                                  *)

\* How severe a hop is.
Rank(h) == stateMutatingRank(h.text)

\* The severe come first.
Ordered(list) == \A j, k \in DOMAIN list : j < k => Rank(list[j]) <= Rank(list[k])

\* A rank is one of four.
LEMMA RankIs ==
  ASSUME NEW h
  PROVE  Rank(h) \in {0, 1, 2, 3}
BY DEF Rank, stateMutatingRank, stateMutatingTier

\* Two ordered lists, the second no more severe, are ordered when joined.
LEMMA OrderedJoin ==
  ASSUME NEW E, NEW s \in Seq(E), NEW t \in Seq(E), Ordered(s), Ordered(t),
         \A x \in ToSet(s), y \in ToSet(t) : Rank(x) <= Rank(y)
  PROVE  Ordered(s \o t)
<1>1. /\ DOMAIN s = 1..Len(s) /\ Len(s) \in Nat /\ DOMAIN t = 1..Len(t) /\ Len(t) \in Nat
      /\ DOMAIN (s \o t) = 1..(Len(s) + Len(t))
      /\ \A i \in 1..Len(s) : (s \o t)[i] = s[i]
      /\ \A i \in (Len(s) + 1)..(Len(s) + Len(t)) : (s \o t)[i] = t[i - Len(s)]
  OBVIOUS
<1> DEFINE st == s \o t
<1> HIDE DEF st
<1>2. SUFFICES ASSUME NEW j \in 1..(Len(s) + Len(t)), NEW k \in 1..(Len(s) + Len(t)), j < k
               PROVE  Rank(st[j]) <= Rank(st[k])
  BY <1>1 DEF Ordered, st
<1>3. CASE k <= Len(s)
  <2>1. j \in 1..Len(s) /\ k \in 1..Len(s)
    BY <1>1, <1>2, <1>3
  <2>2. st[j] = s[j] /\ st[k] = s[k]
    BY <1>1, <2>1 DEF st
  <2>3. QED
    BY <1>1, <1>2, <2>1, <2>2 DEF Ordered
<1>4. CASE j > Len(s)
  <2>1. /\ j \in (Len(s) + 1)..(Len(s) + Len(t)) /\ k \in (Len(s) + 1)..(Len(s) + Len(t))
        /\ j - Len(s) \in 1..Len(t) /\ k - Len(s) \in 1..Len(t) /\ j - Len(s) < k - Len(s)
    BY <1>1, <1>2, <1>4
  <2>2. st[j] = t[j - Len(s)] /\ st[k] = t[k - Len(s)]
    BY <1>1, <2>1 DEF st
  <2>3. QED
    BY <1>1, <2>1, <2>2 DEF Ordered
<1>5. CASE j <= Len(s) /\ k > Len(s)
  <2>1. j \in 1..Len(s) /\ k \in (Len(s) + 1)..(Len(s) + Len(t)) /\ k - Len(s) \in 1..Len(t)
    BY <1>1, <1>2, <1>5
  <2>2. st[j] = s[j] /\ st[k] = t[k - Len(s)]
    BY <1>1, <2>1 DEF st
  <2>3. s[j] \in ToSet(s) /\ t[k - Len(s)] \in ToSet(t)
    BY <1>1, <2>1 DEF ToSet
  <2>4. QED
    BY <2>2, <2>3
<1>6. QED
  BY <1>1, <1>2, <1>3, <1>4, <1>5

\* The items of one rank.
LEMMA OfRankIs ==
  ASSUME NEW E, NEW items \in Seq(E), NEW rank \in {0, 1, 2, 3}
  PROVE  /\ OfRank(items, rank) \in Seq(E)
         /\ \A x \in ToSet(OfRank(items, rank)) : x \in ToSet(items) /\ Rank(x) = rank
         /\ \A x \in ToSet(items) : Rank(x) = rank => x \in ToSet(OfRank(items, rank))
         /\ Ordered(OfRank(items, rank))
<1> DEFINE I == {i \in DOMAIN items : stateMutatingRank(items[i].text) = rank}
           some == OfRank(items, rank)
<1>1. I \in SUBSET DOMAIN items /\ \A i \in DOMAIN items : i \in I <=> Rank(items[i]) = rank
  BY DEF Rank
<1>2. some = Pick(items, I)
  BY DEF OfRank
<1> HIDE DEF I, some
<1>3. some \in Seq(E) /\ ToSet(some) = {items[i] : i \in I}
  BY <1>1, <1>2, PickOf
<1>4. \A x \in ToSet(some) : x \in ToSet(items) /\ Rank(x) = rank
  BY <1>1, <1>3 DEF ToSet
<1>5. \A x \in ToSet(items) : Rank(x) = rank => x \in ToSet(some)
  BY <1>1, <1>3 DEF ToSet
<1>6. \A k \in DOMAIN some : Rank(some[k]) = rank
  BY <1>4 DEF ToSet
<1>7. Ordered(some)
  BY <1>6 DEF Ordered
<1>8. QED
  BY <1>3, <1>4, <1>5, <1>7 DEF some

\* The sort keeps the items and puts the severe ones first.
LEMMA SortedIs ==
  ASSUME NEW E, NEW items \in Seq(E)
  PROVE  /\ sortCalleeItemsSevereFirst(items) \in Seq(E)
         /\ ToSet(sortCalleeItemsSevereFirst(items)) = ToSet(items)
         /\ Ordered(sortCalleeItemsSevereFirst(items))
<1> DEFINE a == OfRank(items, 0)
           b == OfRank(items, 1)
           c == OfRank(items, 2)
           d == OfRank(items, 3)
           ab == a \o b
           abc == ab \o c
           abcd == abc \o d
<1>1. /\ a \in Seq(E) /\ b \in Seq(E) /\ c \in Seq(E) /\ d \in Seq(E)
      /\ Ordered(a) /\ Ordered(b) /\ Ordered(c) /\ Ordered(d)
  BY OfRankIs
<1>2. /\ \A x \in ToSet(a) : x \in ToSet(items) /\ Rank(x) = 0
      /\ \A x \in ToSet(b) : x \in ToSet(items) /\ Rank(x) = 1
      /\ \A x \in ToSet(c) : x \in ToSet(items) /\ Rank(x) = 2
      /\ \A x \in ToSet(d) : x \in ToSet(items) /\ Rank(x) = 3
  BY OfRankIs
<1>3. \A x \in ToSet(items) : /\ Rank(x) = 0 => x \in ToSet(a)
                              /\ Rank(x) = 1 => x \in ToSet(b)
                              /\ Rank(x) = 2 => x \in ToSet(c)
                              /\ Rank(x) = 3 => x \in ToSet(d)
  BY OfRankIs
<1>4. sortCalleeItemsSevereFirst(items) = abcd
  BY DEF sortCalleeItemsSevereFirst
<1> HIDE DEF a, b, c, d
<1>5. ab \in Seq(E) /\ ToSet(ab) = ToSet(a) \cup ToSet(b)
  BY <1>1, JoinedSet
<1>6. Ordered(ab)
  <2>1. \A x \in ToSet(a), y \in ToSet(b) : Rank(x) <= Rank(y)
    BY <1>2
  <2>2. QED
    BY <1>1, <2>1, OrderedJoin
<1> HIDE DEF ab
<1>7. abc \in Seq(E) /\ ToSet(abc) = ToSet(ab) \cup ToSet(c)
  BY <1>1, <1>5, JoinedSet
<1>8. Ordered(abc)
  <2>1. \A x \in ToSet(ab), y \in ToSet(c) : Rank(x) <= Rank(y)
    BY <1>2, <1>5
  <2>2. QED
    BY <1>1, <1>5, <1>6, <2>1, OrderedJoin
<1> HIDE DEF abc
<1>9. abcd \in Seq(E) /\ ToSet(abcd) = ToSet(abc) \cup ToSet(d)
  BY <1>1, <1>7, JoinedSet
<1>10. Ordered(abcd)
  <2>1. \A x \in ToSet(abc), y \in ToSet(d) : Rank(x) <= Rank(y)
    BY <1>2, <1>5, <1>7
  <2>2. QED
    BY <1>1, <1>7, <1>8, <2>1, OrderedJoin
<1> HIDE DEF abcd
<1>11. ToSet(abcd) = ToSet(items)
  <2>1. ToSet(abcd) = ToSet(a) \cup ToSet(b) \cup ToSet(c) \cup ToSet(d)
    BY <1>5, <1>7, <1>9
  <2>2. \A x \in ToSet(items) : Rank(x) \in {0, 1, 2, 3}
    BY RankIs
  <2>3. \A x \in ToSet(items) : x \in ToSet(abcd)
    BY <1>3, <2>1, <2>2
  <2>4. \A x \in ToSet(abcd) : x \in ToSet(items)
    BY <1>2, <2>1
  <2>5. QED
    BY <2>3, <2>4
<1>12. QED
  BY <1>4, <1>9, <1>10, <1>11

\* The items of a hop; for a hop of the path, all it calls that changes state.
LEMMA MutatorItemsAre ==
  ASSUME NEW hop \in HopSet
  PROVE  /\ MutatorItems(hop) \in Seq(Items)
         /\ hop.from = {} => \A d \in ToSet(Pulled(hop.text)) : Key(d) \in Keys(MutatorItems(hop))
<1>1. CASE hop.from # {}
  BY <1>1 DEF MutatorItems
<1>2. CASE hop.from = {}
  <2> DEFINE enclosings == Enclosings(hop)
             own == Expanded(Pulled(hop.text), hop.text, hop.variable, hop.name)
             lists == [i \in DOMAIN enclosings |-> FromEnclosing(enclosings[i])]
             others == FlattenSeq(lists)
             n == Len(enclosings)
  <2>1. hop.text \in DOMAIN Text /\ hop.variable \in Word /\ hop.name \in Word
    BY HopIs
  <2>2. Pulled(hop.text) \in Seq(Methods)
    BY <2>1, PulledIs
  <2>3. ItemsFrom(hop.name) \subseteq Items /\ ItemsFrom("enclosing_scan") \subseteq Items
    BY DEF ItemsFrom
  <2>4. /\ own \in Seq(ItemsFrom(hop.name))
        /\ \A d \in ToSet(Pulled(hop.text)) : Key(d) \in Keys(own)
    BY <2>1, <2>2, ExpandedIs
  <2>5. MutatorItems(hop) = own \o others
    BY <1>2 DEF MutatorItems
  <2> HIDE DEF own
  <2>6. own \in Seq(Items)
    BY <2>3, <2>4, SeqSubset
  <2>7. enclosings \in Seq(Methods)
    <3> DEFINE I == {i \in DOMAIN ByFile : ByFile[i] \in ToSet(CallersOf(hop.name))}
    <3>1. I \in SUBSET DOMAIN ByFile
      OBVIOUS
    <3>2. enclosings = Pick(ByFile, I)
      BY DEF Enclosings
    <3> HIDE DEF I, enclosings
    <3>3. QED
      BY <3>1, <3>2, OrderIs, PickOf
  <2> HIDE DEF enclosings
  <2>8. DOMAIN enclosings = 1..n /\ n \in Nat /\ \A i \in 1..n : enclosings[i] \in Methods
    BY <2>7
  <2>9. ASSUME NEW i \in 1..n
        PROVE  lists[i] \in Seq(Items)
    <3> DEFINE d == enclosings[i]
               from == "enclosing_scan"
               variable == ""
    <3>1. lists[i] = Expanded(Pulled(d), d, variable, from)
      BY <2>8 DEF FromEnclosing
    <3>2. d \in Methods /\ d \in DOMAIN Text
      BY <2>8, MethodTypes
    <3>3. Pulled(d) \in Seq(Methods)
      BY <3>2, PulledIs
    <3>4. variable \in Word /\ from \in Word
      BY DEF Word, Marks
    <3>5. ItemsFrom(from) \subseteq Items
      BY <2>3
    <3> HIDE DEF d, from, variable
    <3>6. Expanded(Pulled(d), d, variable, from) \in Seq(ItemsFrom(from))
      BY <3>2, <3>3, <3>4, ExpandedIs
    <3>7. QED
      BY <3>1, <3>5, <3>6, SeqSubset
  <2>10. lists = [i \in 1..n |-> lists[i]]
    BY <2>8
  <2> HIDE DEF lists, n
  <2>11. lists \in Seq(Seq(Items))
    BY <2>8, <2>9, <2>10, ListOf
  <2>12. others \in Seq(Items)
    BY <2>11, FlattenIs
  <2> HIDE DEF others
  <2>13. own \o others \in Seq(Items)
    BY <2>6, <2>12
  <2>14. own \in Seq(HopSet) /\ others \in Seq(HopSet)
    BY <2>6, <2>12, SeqSubset DEF Items
  <2>15. Keys(own) \subseteq Keys(own \o others)
    BY <2>14, KeysJoined
  <2>16. QED
    BY <2>4, <2>5, <2>13, <2>15
<1>3. QED
  BY <1>1, <1>2

\* The candidates of the tier; what is not among them is shown already.
LEMMA MutatorCandidatesAre ==
  ASSUME NEW hops \in Seq(HopSet)
  PROVE  /\ MutatorCandidates(hops) \in Seq(Items)
         /\ \A d \in MutatorsOnPath(hops) : Key(d) \in Keys(hops) \cup Keys(MutatorCandidates(hops))
<1> DEFINE lists == [i \in DOMAIN hops |-> MutatorItems(hops[i])]
           n == Len(hops)
           all == FlattenSeq(lists)
           fresh == Fresh(all, Keys(hops))
<1>1. DOMAIN hops = 1..n /\ n \in Nat /\ \A i \in 1..n : hops[i] \in HopSet
  OBVIOUS
<1>2. \A i \in 1..n : lists[i] \in Seq(Items)
  BY <1>1, MutatorItemsAre
<1>3. lists = [i \in 1..n |-> lists[i]] /\ \A i \in 1..n : lists[i] = MutatorItems(hops[i])
  BY <1>1
<1>4. MutatorCandidates(hops) = fresh
  BY DEF MutatorCandidates
<1> HIDE DEF lists, n
<1>5. lists \in Seq(Seq(Items)) /\ DOMAIN lists = 1..n
  BY <1>1, <1>2, <1>3, ListOf
<1>6. all \in Seq(Items) /\ ToSet(all) = UNION {ToSet(lists[i]) : i \in DOMAIN lists}
  BY <1>5, FlattenIs
<1> HIDE DEF all
<1>7. Items \in SUBSET HopSet
  BY DEF Items
<1>8. fresh \in Seq(Items) /\ Keys(all) \subseteq Keys(hops) \cup Keys(fresh)
  BY <1>6, <1>7, FreshIs
<1>9. ASSUME NEW d \in MutatorsOnPath(hops)
      PROVE  Key(d) \in Keys(all)
  <2>1. PICK i \in DOMAIN hops : hops[i].from = {} /\ d \in ToSet(Pulled(hops[i].text))
    BY DEF MutatorsOnPath
  <2>2. Key(d) \in Keys(lists[i])
    BY <1>1, <1>3, <2>1, MutatorItemsAre
  <2>3. ToSet(lists[i]) \subseteq ToSet(all)
    BY <1>1, <1>5, <1>6
  <2>4. \A list : Keys(list) = {HopKey(h) : h \in ToSet(list)}
    BY KeysAre DEF ToSet
  <2>5. QED
    BY <2>2, <2>3, <2>4
<1>10. QED
  BY <1>4, <1>8, <1>9

\* What the tier adds are items, for the gated classes only.
LEMMA MutatorTierIs ==
  ASSUME NEW s \in Slices, NEW cwe
  PROVE  /\ EnrichStateMutatingCallees(s, cwe) \in Slices
         /\ EnrichStateMutatingCallees(s, cwe).uncertain = s.uncertain
         /\ \E items \in Seq(Items) : Offered(s, EnrichStateMutatingCallees(s, cwe), items)
         /\ cwe \notin GatedCwe => EnrichStateMutatingCallees(s, cwe) = s
         /\ cwe \in GatedCwe /\ MutatorCandidates(s.hops) # <<>> =>
              EnrichStateMutatingCallees(s, cwe)
                = applyEnrichCap(s, sortCalleeItemsSevereFirst(MutatorCandidates(s.hops)))
<1> DEFINE t == EnrichStateMutatingCallees(s, cwe)
           candidates == MutatorCandidates(s.hops)
           sorted == sortCalleeItemsSevereFirst(candidates)
<1>1. s.hops \in Seq(HopSet)
  BY SliceIs
<1>2. candidates \in Seq(Items)
  BY <1>1, MutatorCandidatesAre
<1>3. sorted \in Seq(Items)
  <2> HIDE DEF candidates
  <2> QED
    BY <1>2, SortedIs
<1>4. \/ t = s
      \/ t = applyEnrichCap(s, sorted)
  BY DEF EnrichStateMutatingCallees
<1>5. cwe \in GatedCwe /\ candidates # <<>> => t = applyEnrichCap(s, sorted)
  BY DEF EnrichStateMutatingCallees
<1>6. cwe \notin GatedCwe => t = s
  BY DEF EnrichStateMutatingCallees
<1> HIDE DEF t, sorted
<1>7. CASE t = s
  <2>1. <<>> \in Seq(Items) /\ Keys(<<>>) = {}
    BY KeysAre
  <2>2. Offered(s, s, <<>>)
    BY <2>1 DEF Offered
  <2>3. QED
    BY <1>5, <1>6, <1>7, <2>1, <2>2 DEF t, sorted
<1>8. CASE t = applyEnrichCap(s, sorted)
  <2>1. Items \in SUBSET HopSet
    BY DEF Items
  <2>2. /\ WithinCap(sorted) \in Seq(Items)
        /\ Offered(s, t, WithinCap(sorted))
        /\ t.uncertain = s.uncertain
    BY <1>3, <1>8, <2>1, CapIs
  <2>3. t \in Slices
    BY <2>2 DEF Offered
  <2>4. QED
    BY <1>5, <1>6, <2>2, <2>3 DEF t, sorted
<1>9. QED
  BY <1>4, <1>7, <1>8

\* A list of members of a set is a list over it.
LEMMA Within ==
  ASSUME NEW E, NEW list \in Seq(E), NEW S, \A x \in ToSet(list) : x \in S
  PROVE  list \in Seq(S)
<1>1. list = [i \in 1..Len(list) |-> list[i]] /\ Len(list) \in Nat /\ DOMAIN list = 1..Len(list)
  OBVIOUS
<1>2. \A i \in 1..Len(list) : list[i] \in S
  BY <1>1 DEF ToSet
<1>3. QED
  BY <1>1, <1>2, ListOf

\* What the cap leaves out of the mutators is no more severe than what it lets in.
LEMMA MildestLeftOut ==
  ASSUME NEW s \in Slices, NEW cwe \in GatedCwe, NEW t, t = EnrichStateMutatingCallees(s, cwe),
         ~t.degraded, NEW d \in MutatorsOnPath(s.hops), OneRank(d), Key(d) \notin Keys(t.hops),
         NEW i \in DOMAIN t.hops, HopKey(t.hops[i]) \notin Keys(s.hops)
  PROVE  stateMutatingRank(t.hops[i].text) <= stateMutatingRank(d)
<1> DEFINE candidates == MutatorCandidates(s.hops)
           sorted == sortCalleeItemsSevereFirst(candidates)
           few == WithinCap(sorted)
           cap == MaxEnrichHops
<1>1. s.hops \in Seq(HopSet)
  BY SliceIs
<1>2. /\ candidates \in Seq(Items)
      /\ Key(d) \in Keys(s.hops) \cup Keys(candidates)
  BY <1>1, MutatorCandidatesAre
<1>3. candidates # <<>> => t = applyEnrichCap(s, sorted)
  BY MutatorTierIs
<1> HIDE DEF candidates
<1>4. sorted \in Seq(Items) /\ ToSet(sorted) = ToSet(candidates) /\ Ordered(sorted)
  BY <1>2, SortedIs
<1> HIDE DEF sorted
<1>5. PICK items \in Seq(Items) : Offered(s, t, items)
  BY MutatorTierIs
<1>6. Key(d) \notin Keys(s.hops)
  BY <1>5 DEF Offered
<1>7. \A list : Keys(list) = {HopKey(h) : h \in ToSet(list)}
  BY KeysAre DEF ToSet
<1>8. PICK c \in ToSet(candidates) : HopKey(c) = Key(d)
  BY <1>2, <1>6, <1>7
<1>9. candidates # <<>>
  BY <1>8 DEF ToSet
<1>10. c \in Items
  BY <1>2, <1>8, MemberOf
<1>11. stateMutatingRank(d) = Rank(c)
  BY <1>8, <1>10 DEF OneRank, Items, Rank
<1>12. Items \in SUBSET HopSet
  BY DEF Items
<1>13. Offered(s, t, few)
  BY <1>3, <1>4, <1>9, <1>12, CapIs
<1>14. t.hops[i] \in ToSet(t.hops) /\ t.hops[i] \notin ToSet(s.hops)
  <2>1. t.hops[i] \in ToSet(t.hops)
    BY DEF ToSet
  <2>2. QED
    BY <1>7, <2>1
<1>15. PICK g \in ToSet(few) : Alike(t.hops[i], g)
  BY <1>13, <1>14 DEF Offered
<1>16. stateMutatingRank(t.hops[i].text) = Rank(g)
  BY <1>15 DEF Alike, Rank
<1>17. c \notin ToSet(few)
  <2>1. Keys(few) \subseteq Keys(t.hops)
    BY <1>13 DEF Offered
  <2>2. QED
    BY <1>7, <1>8, <2>1
<1>18. cap \in Nat
  <2>1. MaxEnrichHops \in Nat \ {0}
    BY SlicerAssumption
  <2>2. QED
    BY <2>1
<1>19. Len(sorted) > cap /\ few = Prefix(sorted, cap)
  BY <1>4, <1>8, <1>17 DEF WithinCap
<1> HIDE DEF few, cap
<1>20. /\ DOMAIN few = 1..cap
       /\ \A k \in 1..cap : k \in DOMAIN sorted /\ few[k] = sorted[k]
  <2>1. cap < Len(sorted) /\ Len(sorted) \in Nat /\ DOMAIN sorted = 1..Len(sorted)
    BY <1>4, <1>18, <1>19
  <2>2. /\ DOMAIN Prefix(sorted, cap) = 1..cap
        /\ \A k \in DOMAIN Prefix(sorted, cap) :
             k \in DOMAIN sorted /\ Prefix(sorted, cap)[k] = sorted[k]
    BY <1>4, <1>18, <2>1, PrefixIs
  <2>3. QED
    BY <1>19, <2>2
<1>21. PICK k \in 1..cap : g = sorted[k] /\ k \in DOMAIN sorted
  BY <1>15, <1>20 DEF ToSet
<1>22. PICK j \in DOMAIN sorted : c = sorted[j]
  BY <1>4, <1>8 DEF ToSet
<1>23. j \notin 1..cap
  BY <1>17, <1>20, <1>22 DEF ToSet
<1>24. k < j
  BY <1>4, <1>18, <1>21, <1>22, <1>23
<1>25. QED
  BY <1>4, <1>11, <1>16, <1>21, <1>22, <1>24 DEF Ordered

-----------------------------------------------------------------------------
(* Guards, the exploring model, promotion.                                 *)

\* The walk for guards meets methods.
LEMMA BelowIs ==
  ASSUME NEW met \in Seq(Methods), NEW d \in Methods, NEW present
  PROVE  GuardWalk(met, d, present) \in Seq(Methods)
<1>1. \A m \in Seq(Methods), e \in Methods : Judged(m, e, present) \in Seq(Methods)
  BY DEF Judged
<1> DEFINE step == [p \in Seq(Methods) \X Methods |-> Judged(p[1], p[2], present)]
           callees == ResolvableCallees(d)
<1>2. \A m \in Seq(Methods), e \in Methods : step[<<m, e>>] \in Seq(Methods)
  BY <1>1
<1>3. callees \in Seq(Methods)
  BY MethodTypes, CalleesAre
<1>4. \A m : Below(m, d, present) = Walked(step, m, callees)
  BY DEF Below
<1> HIDE DEF step, callees
<1>5. \A m \in Seq(Methods) : Below(m, d, present) \in Seq(Methods)
  BY <1>2, <1>3, <1>4, WalkedStays
<1>6. QED
  BY <1>1, <1>5 DEF GuardWalk, Deeper

\* The guards found are items without a variable.
LEMMA GuardItemsAre ==
  ASSUME NEW hops \in Seq(HopSet), NEW present
  PROVE  /\ GuardItems(hops, present) \in Seq(HopSet)
         /\ \A h \in ToSet(GuardItems(hops, present)) : h.variable = ""
<1> DEFINE inner == [p \in Seq(Methods) \X Methods |-> GuardWalk(p[1], p[2], present)]
           outer == [p \in Seq(Methods) \X HopSet |-> GuardsOf(p[1], p[2], present)]
           none == <<>>
           met == Walked(outer, none, hops)
           guards == Pick(met, {i \in DOMAIN met : HasGuard(met[i])})
           mark == "eager_guard"
           variable == ""
           items == [i \in DOMAIN guards |-> MethodHop(guards[i], variable, mark)]
<1>1. \A m \in Seq(Methods), d \in Methods : inner[<<m, d>>] \in Seq(Methods)
  BY BelowIs
<1>2. \A m, h : GuardsOf(m, h, present) = Walked(inner, m, ResolvableCallees(h.text))
  BY DEF GuardsOf
<1> HIDE DEF inner
<1>3. ASSUME NEW m \in Seq(Methods), NEW h \in HopSet
      PROVE  outer[<<m, h>>] \in Seq(Methods)
  <2> DEFINE callees == ResolvableCallees(h.text)
  <2>1. callees \in Seq(Methods)
    BY HopIs, CalleesAre
  <2>2. outer[<<m, h>>] = Walked(inner, m, callees)
    BY <1>2
  <2> HIDE DEF callees, outer
  <2>3. QED
    BY <1>1, <2>1, <2>2, WalkedStays
<1>4. none \in Seq(Methods)
  OBVIOUS
<1>5. GuardItems(hops, present) = items
  BY DEF GuardItems
<1> HIDE DEF outer, none
<1>6. met \in Seq(Methods)
  BY <1>3, <1>4, WalkedStays
<1> HIDE DEF met
<1>7. guards \in Seq(Methods)
  <2> DEFINE I == {i \in DOMAIN met : HasGuard(met[i])}
  <2>1. I \in SUBSET DOMAIN met
    OBVIOUS
  <2> HIDE DEF I
  <2>2. Pick(met, I) \in Seq(Methods)
    BY <1>6, <2>1, PickOf
  <2>3. QED
    BY <2>2 DEF I
<1>8. variable \in Word /\ mark \in Word
  BY DEF Word, Marks
<1> HIDE DEF guards, mark
<1>9. DOMAIN guards = 1..Len(guards) /\ \A i \in DOMAIN guards : guards[i] \in Methods
  BY <1>7
<1>10. \A d \in Methods : MethodHop(d, variable, mark).variable = ""
  BY DEF MethodHop, Hop
<1>11. \A h \in ToSet(items) : h.variable = ""
  BY <1>9, <1>10 DEF ToSet
<1> HIDE DEF variable
<1>12. items \in Seq(HopSet)
  BY <1>7, <1>8, MethodHopsAre
<1>13. QED
  BY <1>5, <1>11, <1>12

\* What the guard tier and the exploring model add takes no variable over.
LEMMA GuardTierIs ==
  ASSUME NEW s \in Slices
  PROVE  /\ EnrichGuardCallees(s) \in Slices
         /\ EnrichGuardCallees(s).uncertain = s.uncertain
         /\ \E items \in Seq({h \in HopSet : h.variable = ""}) : Offered(s, EnrichGuardCallees(s), items)
<1> DEFINE all == GuardItems(s.hops, Keys(s.hops))
           few == Prefix(all, MaxEnrichHops)
           S == {h \in HopSet : h.variable = ""}
<1>1. s.hops \in Seq(HopSet)
  BY SliceIs
<1>2. all \in Seq(HopSet) /\ \A h \in ToSet(all) : h.variable = ""
  BY <1>1, GuardItemsAre
<1>3. EnrichGuardCallees(s) = AppendCalleeHops(s, few)
  BY DEF EnrichGuardCallees
<1> HIDE DEF all
<1>4. all \in Seq(S)
  <2>1. \A h \in ToSet(all) : h \in S
    BY <1>2, MemberOf
  <2>2. QED
    BY <1>2, <2>1, Within
<1>5. MaxEnrichHops \in Nat
  <2>1. MaxEnrichHops \in Nat \ {0}
    BY SlicerAssumption
  <2>2. QED
    BY <2>1
<1>6. S \subseteq HopSet
  OBVIOUS
<1> HIDE DEF S
<1>7. few \in Seq(S)
  BY <1>4, <1>5, PrefixIs
<1> HIDE DEF few
<1>8. few \in Seq(HopSet)
  BY <1>6, <1>7, SeqSubset
<1>9. Offered(s, AppendCalleeHops(s, few), few) /\ AppendCalleeHops(s, few).uncertain = s.uncertain
  BY <1>8, AppendIs
<1>10. QED
  BY <1>3, <1>7, <1>9 DEF Offered, S

\* What the exploring model includes takes no variable over.
LEMMA AgenticTierIs ==
  ASSUME NEW s \in Slices, NEW include \in Seq(Methods), NEW t,
         t = AppendCalleeHops(s, [i \in DOMAIN include |-> MethodHop(include[i], "", "agentic")])
  PROVE  /\ t \in Slices
         /\ t.uncertain = s.uncertain
         /\ \E items \in Seq({h \in HopSet : h.variable = ""}) : Offered(s, t, items)
<1> DEFINE mark == "agentic"
           variable == ""
           items == [i \in DOMAIN include |-> MethodHop(include[i], variable, mark)]
           S == {h \in HopSet : h.variable = ""}
<1>1. variable \in Word /\ mark \in Word
  BY DEF Word, Marks
<1>2. t = AppendCalleeHops(s, items)
  OBVIOUS
<1>3. \A d : MethodHop(d, variable, mark).variable = ""
  BY DEF MethodHop, Hop
<1>5. \A i \in DOMAIN items : items[i].variable = ""
  BY <1>3
<1> HIDE DEF mark, variable
<1>6. items \in Seq(HopSet)
  BY <1>1, MethodHopsAre
<1> HIDE DEF items
<1>7. items \in Seq(S)
  <2>1. \A h \in ToSet(items) : h \in S
    BY <1>5, <1>6, MemberOf DEF ToSet
  <2>2. QED
    BY <1>6, <2>1, Within
<1>8. Offered(s, t, items) /\ t.uncertain = s.uncertain
  BY <1>2, <1>6, AppendIs
<1>9. QED
  BY <1>7, <1>8 DEF Offered

\* Promotion keeps the slice well formed and leaves the fact.
LEMMA PromotedIs ==
  ASSUME NEW s \in Slices, NEW readings \in Seq(Reading), NEW t,
         t = PromoteAgenticXmlToSlice(s, readings)
  PROVE  t \in Slices /\ t.style = s.style
<1> DEFINE step == [p \in Seq(HopSet) \X Reading |-> Promoted(p[1], p[2])]
           hops == PromotedAll(s.hops, readings)
           E == Reading
<1>1. s.hops \in Seq(HopSet)
  BY SliceIs
<1>2. ASSUME NEW h \in Seq(HopSet), NEW read \in E
      PROVE  step[<<h, read>>] \in Seq(HopSet)
  <2> DEFINE index == NextIndex(h)
             new == [Hop(read.file, "", read.text, "", {"agentic_xml"}) EXCEPT !.index = index]
  <2>1. step[<<h, read>>] = h \/ step[<<h, read>>] = Append(h, new)
    BY DEF Promoted
  <2>2. index \in Nat
    BY TokensAre
  <2> HIDE DEF index
  <2>3. "" \in Word /\ {"agentic_xml"} \in SUBSET Word
    BY DEF Word, Marks
  <2>4. new \in HopSet
    BY <2>2, <2>3 DEF Hop, HopSet, Reading
  <2> HIDE DEF new, step
  <2>5. Append(h, new) \in Seq(HopSet)
    BY <2>4
  <2>6. QED
    BY <2>1, <2>5
<1>3. hops = Walked(step, s.hops, readings)
  BY DEF PromotedAll
<1>4. readings \in Seq(E)
  OBVIOUS
<1> HIDE DEF step, hops, E
<1>5. hops \in Seq(HopSet)
  BY <1>1, <1>2, <1>3, <1>4, WalkedStays
<1>6. t = [s EXCEPT !.hops = hops]
  BY DEF PromoteAgenticXmlToSlice, hops
<1>7. QED
  BY <1>5, <1>6 DEF Slices

\* The refreshed fact is that of the hops.
LEMMA RefreshedIs ==
  ASSUME NEW s \in Slices, NEW t, t = RefreshSinkParamStyle(s)
  PROVE  t \in Slices /\ t.hops = s.hops /\ t.style = classifySinkParamStyle(t.hops)
<1> DEFINE style == classifySinkParamStyle(s.hops)
<1>1. style \in Styles
  BY DEF classifySinkParamStyle, Styles
<1>2. t = [s EXCEPT !.style = style]
  BY DEF RefreshSinkParamStyle
<1> HIDE DEF style
<1>3. t \in Slices /\ t.hops = s.hops /\ t.style = style
  BY <1>1, <1>2 DEF Slices
<1>4. QED
  BY <1>3 DEF style

\* When every required fact is known, the style was looked at if it is required.
LEMMA SettledIs ==
  ASSUME NEW facts \in Seq(Facts), NEW reached, NEW style, Settled(facts, reached, style),
         "sink_param_style" \in ToSet(facts)
  PROVE  StyleRefreshed(facts, reached)
<1>1. PICK i \in DOMAIN facts : facts[i] = "sink_param_style"
  BY DEF ToSet
<1>2. ASSUME NEW j \in 1..(i - 1), facts[j] # "sink_param_style"
      PROVE  Known(reached)
  <2>1. j \in DOMAIN facts
    BY <1>1
  <2>2. QED
    BY <1>2, <2>1 DEF Settled, FactOf
<1>3. QED
  BY <1>1, <1>2 DEF StyleRefreshed

-----------------------------------------------------------------------------
(* The verifier: of the citations the set counts.                          *)

\* A reversed list has the same entries.
LEMMA ReverseIs ==
  ASSUME NEW E, NEW list \in Seq(E)
  PROVE  Reverse(list) \in Seq(E) /\ ToSet(Reverse(list)) = ToSet(list)
<1> DEFINE n == Len(list)
           back == Reverse(list)
<1>1. DOMAIN list = 1..n /\ n \in Nat /\ \A i \in 1..n : list[i] \in E
  OBVIOUS
<1>2. back = [i \in 1..n |-> list[(n - i) + 1]]
  BY DEF Reverse
<1>3. \A i \in 1..n : (n - i) + 1 \in 1..n /\ (n - ((n - i) + 1)) + 1 = i
  BY <1>1
<1> HIDE DEF n
<1>4. DOMAIN back = 1..n /\ \A i \in 1..n : back[i] = list[(n - i) + 1]
  BY <1>2
<1>5. back = [i \in 1..n |-> back[i]]
  BY <1>2
<1> HIDE DEF back
<1>6. \A i \in 1..n : back[i] \in E
  BY <1>1, <1>3, <1>4
<1>7. back \in Seq(E)
  BY <1>1, <1>5, <1>6, ListOf
<1>8. \A i \in 1..n : list[i] = back[(n - i) + 1]
  BY <1>3, <1>4
<1>9. ToSet(back) \subseteq ToSet(list)
  BY <1>1, <1>3, <1>4 DEF ToSet
<1>10. ToSet(list) \subseteq ToSet(back)
  BY <1>1, <1>3, <1>4, <1>8 DEF ToSet
<1>11. QED
  BY <1>7, <1>9, <1>10 DEF back

\* The guards of a slice are cited like those of the model.
LEMMA GuardsOfSlice ==
  ASSUME NEW hops \in Seq(HopSet)
  PROVE  ExtractSanitizersFromSlice(hops) \in Seq(Citation)
<1> DEFINE lists == [i \in DOMAIN hops |-> GuardsIn(hops[i])]
           n == Len(hops)
<1>1. DOMAIN hops = 1..n /\ n \in Nat /\ \A i \in 1..n : hops[i] \in HopSet
  OBVIOUS
<1>2. ASSUME NEW h \in HopSet
      PROVE  GuardsIn(h) \in Seq(Citation)
  <2> DEFINE guards == Text[h.text].guards
             founds == GuardsIn(h)
             m == Len(guards)
  <2>1. guards \in Seq(Guard)
    BY HopIs, TextTypes DEF Body
  <2>2. DOMAIN guards = 1..m /\ m \in Nat /\ \A i \in 1..m : guards[i] \in Guard
    BY <2>1
  <2>3. founds = [i \in 1..m |-> [guard |-> guards[i], file |-> h.file, source |-> h.name,
                                  asserts |-> ""]]
    BY <2>2 DEF GuardsIn
  <2> HIDE DEF guards, m
  <2>4. h.file \in Word /\ h.name \in Word /\ "" \in Word
    BY HopIs DEF Word
  <2> DEFINE found(g, f, x, a) == [guard |-> g, file |-> f, source |-> x, asserts |-> a]
  <2>a. \A g \in Guard : \A f, x, a \in Word : found(g, f, x, a) \in Citation
    BY DEF Citation
  <2>b. \A i \in 1..m : founds[i] = found(guards[i], h.file, h.name, "")
    BY <2>3
  <2> HIDE DEF found, founds
  <2>5. \A i \in 1..m : founds[i] \in Citation
    BY <2>2, <2>4, <2>a, <2>b
  <2>6. founds = [i \in 1..m |-> founds[i]]
    BY <2>3 DEF founds
  <2>7. founds \in Seq(Citation)
    BY <2>2, <2>5, <2>6, ListOf
  <2>8. QED
    BY <2>7 DEF founds
<1>3. \A i \in 1..n : lists[i] \in Seq(Citation)
  BY <1>1, <1>2
<1>4. lists = [i \in 1..n |-> lists[i]]
  BY <1>1
<1>5. ExtractSanitizersFromSlice(hops) = FlattenSeq(lists)
  BY DEF ExtractSanitizersFromSlice
<1> HIDE DEF lists, n
<1>6. lists \in Seq(Seq(Citation))
  BY <1>1, <1>3, <1>4, ListOf
<1>7. QED
  BY <1>5, <1>6, FlattenIs

\* The guards the probe knows.
KnownGuards(guards) == {g \in ToSet(guards) : g.kind \in Kinds}

\* Those it does not know say nothing.
Quiet(guards) ==
  \A g \in ToSet(guards) : g.kind \notin Kinds => g.status = "not_verifiable" /\ ~g.relevant

\* What the probe cannot judge.
LEMMA NvIs ==
  ASSUME NEW E, NEW guards \in Seq(E)
  PROVE  /\ DecisiveNv(guards) \in Seq(E)
         /\ ToSet(DecisiveNv(guards))
              = {g \in ToSet(guards) : g.status = "not_verifiable" /\ g.relevant}
<1> DEFINE I == {i \in DOMAIN guards : guards[i].status = "not_verifiable" /\ guards[i].relevant}
<1>1. I \in SUBSET DOMAIN guards
  OBVIOUS
<1>2. DecisiveNv(guards) = Pick(guards, I)
  BY DEF DecisiveNv, RelevantNv
<1>3. {guards[i] : i \in I} = {g \in ToSet(guards) : g.status = "not_verifiable" /\ g.relevant}
  BY DEF ToSet
<1> HIDE DEF I
<1>4. Pick(guards, I) \in Seq(E) /\ ToSet(Pick(guards, I)) = {guards[i] : i \in I}
  BY <1>1, PickOf
<1>5. QED
  BY <1>2, <1>3, <1>4

\* What the guards say about a claim, of the guards the probe knows.
Conclusive(known, status, types) == \E g \in known : g.status = status /\ OnClass(g.kind, types)

\* Those that may open a verdict again.
Open(known) == {g \in known : g.status = "not_verifiable" /\ g.relevant}

\* When they speak against a claim.
Against(known, claimed, types, payload, hops) ==
  LET eff == IF payload THEN types ELSE types \ SanitizerClassFaces
  IN  CASE claimed = "true_positive"  -> \/ Conclusive(known, "guard_effective", eff)
                                         \/ /\ Open(known) # {}
                                            /\ ~Conclusive(known, "guard_bypassable", eff)
        [] claimed = "false_positive" -> \/ Conclusive(known, "guard_bypassable", types)
                                         \/ /\ \A g \in known : g.status # "guard_effective"
                                            /\ Open(known) # {}
                                            /\ ~ \E g \in Open(known) : \E j \in DOMAIN hops :
                                                   g.file # "" /\ g.file = hops[j].file
        [] OTHER                      -> FALSE

\* A claim is contradicted by the guards that are known.
LEMMA ContradictedBy ==
  ASSUME NEW E, NEW guards \in Seq(E), Quiet(guards), NEW c, NEW hops
  PROVE  Contradicted(guards, c, hops) <=> Against(KnownGuards(guards), c.verdict, c.types, c.payload, hops)
<1> DEFINE known == KnownGuards(guards)
           nv == DecisiveNv(guards)
<1>2. \A status, types : status # "not_verifiable" =>
        (AnyOnClass(guards, status, types) <=> Conclusive(known, status, types))
  BY DEF AnyOnClass, Conclusive, KnownGuards, Quiet, ToSet
<1>3. nv \in Seq(E) /\ ToSet(nv) = {g \in ToSet(guards) : g.status = "not_verifiable" /\ g.relevant}
  BY NvIs
<1> HIDE DEF nv
<1>4. ToSet(nv) = Open(known)
  BY <1>3 DEF Open, KnownGuards, Quiet
<1>5. nv # <<>> <=> Open(known) # {}
  <2>1. ToSet(nv) = {} => nv = <<>>
    BY <1>3, MemberOf
  <2>2. nv = <<>> => ToSet(nv) = {}
    BY DEF ToSet
  <2>3. QED
    BY <1>4, <2>1, <2>2
<1>6. anyInSlice(nv, hops) <=> \E g \in Open(known) : \E j \in DOMAIN hops :
                                 g.file # "" /\ g.file = hops[j].file
  <2>1. anyInSlice(nv, hops) <=> \E g \in ToSet(nv) : \E j \in DOMAIN hops :
                                   g.file # "" /\ g.file = hops[j].file
    BY DEF anyInSlice, ToSet
  <2>2. QED
    BY <1>4, <2>1
<1>7. (\A i \in DOMAIN guards : guards[i].status # "guard_effective")
        <=> \A g \in known : g.status # "guard_effective"
  BY DEF KnownGuards, Quiet, ToSet
<1> DEFINE eff == EffTypes(c)
<1>8. eff = IF c.payload THEN c.types ELSE c.types \ SanitizerClassFaces
  BY DEF EffTypes
<1> HIDE DEF known
<1>9. CASE c.verdict = "true_positive"
  <2>1. Contradicted(guards, c, hops) <=> \/ AnyOnClass(guards, "guard_effective", eff)
                                          \/ /\ nv # <<>>
                                             /\ ~AnyOnClass(guards, "guard_bypassable", eff)
    BY <1>9 DEF Contradicted, tpContradiction, nv
  <2>2. Against(known, c.verdict, c.types, c.payload, hops)
          <=> \/ Conclusive(known, "guard_effective", eff)
              \/ /\ Open(known) # {}
                 /\ ~Conclusive(known, "guard_bypassable", eff)
    BY <1>8, <1>9 DEF Against
  <2> HIDE DEF eff
  <2>3. QED
    BY <1>2, <1>5, <2>1, <2>2 DEF known
<1>10. CASE c.verdict = "false_positive"
  <2>1. Contradicted(guards, c, hops)
          <=> \/ AnyOnClass(guards, "guard_bypassable", c.types)
              \/ /\ \A i \in DOMAIN guards : guards[i].status # "guard_effective"
                 /\ nv # <<>>
                 /\ ~anyInSlice(nv, hops)
    BY <1>10 DEF Contradicted, fpContradiction, fpNvOutOfSliceContradiction, nv
  <2>2. Against(known, c.verdict, c.types, c.payload, hops)
          <=> \/ Conclusive(known, "guard_bypassable", c.types)
              \/ /\ \A g \in known : g.status # "guard_effective"
                 /\ Open(known) # {}
                 /\ ~ \E g \in Open(known) : \E j \in DOMAIN hops :
                        g.file # "" /\ g.file = hops[j].file
    BY <1>10 DEF Against
  <2>3. QED
    BY <1>2, <1>5, <1>6, <1>7, <2>1, <2>2 DEF known
<1>11. CASE c.verdict \notin {"true_positive", "false_positive"}
  BY <1>11 DEF Contradicted, Against
<1>12. QED
  BY <1>9, <1>10, <1>11 DEF known

\* The citations the probe knows.
Cited(checks) == {x \in ToSet(checks) : x.guard.kind \in Kinds}

\* One guard, judged.
Judge(x, c, hops, vars_) == Evaluated(x, probeDecisiveCheck(x.guard, c, hops, vars_), c.types)

\* The citations that are left.
LEMMA CitedOnlyIs ==
  ASSUME NEW checks \in Seq(Citation), NEW codes
  PROVE  /\ CitedOnly(checks, codes) \in Seq(Citation)
         /\ ToSet(CitedOnly(checks, codes))
              = {x \in ToSet(checks) : x.guard.code \notin codes \cup {""}}
<1> DEFINE I == {i \in DOMAIN checks : checks[i].guard.code \notin codes \cup {""}}
<1>1. I \in SUBSET DOMAIN checks
  OBVIOUS
<1>2. CitedOnly(checks, codes) = Pick(checks, I)
  BY DEF CitedOnly
<1>3. {checks[i] : i \in I} = {x \in ToSet(checks) : x.guard.code \notin codes \cup {""}}
  BY DEF ToSet
<1> HIDE DEF I
<1>4. Pick(checks, I) \in Seq(Citation) /\ ToSet(Pick(checks, I)) = {checks[i] : i \in I}
  BY <1>1, PickOf
<1>5. QED
  BY <1>2, <1>3, <1>4

\* A guard the probe does not know says nothing.
LEMMA JudgedUnknown ==
  ASSUME NEW x, NEW c, NEW hops, NEW tainted
  PROVE  /\ Judge(x, c, hops, tainted).kind = x.guard.kind
         /\ x.guard.kind \notin Kinds =>
              /\ Judge(x, c, hops, tainted).status = "not_verifiable"
              /\ ~Judge(x, c, hops, tainted).relevant
<1>1. Judge(x, c, hops, tainted).kind = x.guard.kind
  BY DEF Judge, Evaluated
<1>2. ASSUME x.guard.kind \notin Kinds
      PROVE  /\ Judge(x, c, hops, tainted).status = "not_verifiable"
             /\ ~Judge(x, c, hops, tainted).relevant
  <2>1. x.guard.kind \notin {"regex", "string_replace", "prefix_startswith", "mybatis_param",
                             "mybatis_concat", "preparedstatement_bind", "strong_type_param"}
    BY <1>2 DEF Kinds, PathKinds, SqlKinds
  <2>2. probeDecisiveCheck(x.guard, c, hops, tainted) = "not_verifiable"
    BY <2>1 DEF probeDecisiveCheck
  <2>3. sanitizerClasses(x.guard.kind) = {}
    BY <2>1 DEF sanitizerClasses, PathKinds, SqlKinds
  <2>4. ~guardRelevantFor(x.guard.kind, x.asserts, c.types, "not_verifiable")
    BY <2>1, <2>3 DEF guardRelevantFor, guardRelevant
  <2>5. QED
    BY <2>2, <2>4 DEF Judge, Evaluated
<1>3. QED
  BY <1>1, <1>2

\* The guards judged: those of the slice, and the citations of others.
LEMMA GuardsAgainstIs ==
  ASSUME NEW c \in Claim, NEW hops \in Seq(HopSet), NEW founds \in Seq(Citation)
  PROVE  \E E :
         /\ GuardsAgainst(c, hops, founds) \in Seq(E)
         /\ Quiet(GuardsAgainst(c, hops, founds))
         /\ KnownGuards(GuardsAgainst(c, hops, founds))
              = {Judge(x, c, hops, sinkTaintedVars(c.checks)) :
                   x \in Cited(founds)
                         \cup {x \in Cited(c.checks) : x.guard.code \notin Codes(founds) \cup {""}}}
<1> DEFINE checks == c.checks
           tainted == sinkTaintedVars(checks)
           codes == Codes(founds)
           cited == CitedOnly(checks, codes)
           all == founds \o cited
           n == Len(all)
           guards == GuardsAgainst(c, hops, founds)
           judged(x) == Judge(x, c, hops, tainted)
<1>1. checks \in Seq(Citation)
  BY DEF Claim
<1>2. cited \in Seq(Citation)
      /\ ToSet(cited) = {x \in ToSet(checks) : x.guard.code \notin codes \cup {""}}
  BY <1>1, CitedOnlyIs
<1> HIDE DEF cited, checks, codes
<1>3. all \in Seq(Citation) /\ ToSet(all) = ToSet(founds) \cup ToSet(cited)
  <2> DEFINE E == Citation
  <2>1. founds \in Seq(E) /\ cited \in Seq(E)
    BY <1>2
  <2> HIDE DEF E
  <2>2. all \in Seq(E) /\ ToSet(all) = ToSet(founds) \cup ToSet(cited)
    BY <2>1, JoinedSet
  <2>3. QED
    BY <2>2 DEF E
<1>4. guards = [i \in DOMAIN all |-> judged(all[i])]
  BY DEF GuardsAgainst, Probed, Judge, cited, checks, codes
<1> HIDE DEF all, tainted
<1>5. DOMAIN all = 1..n /\ n \in Nat
  BY <1>3
<1>6. guards = [i \in 1..n |-> guards[i]] /\ \A i \in 1..n : guards[i] = judged(all[i])
  BY <1>4, <1>5
<1> HIDE DEF n, guards, judged
<1> DEFINE E == {guards[i] : i \in 1..n}
<1>7. \A i \in 1..n : guards[i] \in E
  OBVIOUS
<1> HIDE DEF E
<1>8. guards \in Seq(E) /\ DOMAIN guards = 1..n
  BY <1>5, <1>6, <1>7, ListOf
<1>9. ToSet(guards) = {judged(x) : x \in ToSet(all)}
  BY <1>5, <1>6, <1>8 DEF ToSet
<1>10. \A x : /\ judged(x).kind = x.guard.kind
              /\ x.guard.kind \notin Kinds =>
                   judged(x).status = "not_verifiable" /\ ~judged(x).relevant
  BY JudgedUnknown DEF judged
<1>11. Quiet(guards)
  BY <1>9, <1>10 DEF Quiet
<1>12. KnownGuards(guards) = {judged(x) : x \in {y \in ToSet(all) : y.guard.kind \in Kinds}}
  BY <1>9, <1>10 DEF KnownGuards
<1>13. {y \in ToSet(all) : y.guard.kind \in Kinds}
         = Cited(founds) \cup {x \in Cited(checks) : x.guard.code \notin codes \cup {""}}
  BY <1>2, <1>3 DEF Cited
<1>14. KnownGuards(guards) = {judged(x) : x \in Cited(founds)
                          \cup {x \in Cited(checks) : x.guard.code \notin codes \cup {""}}}
  BY <1>12, <1>13
<1>15. QED
  BY <1>8, <1>11, <1>14 DEF guards, judged, tainted, checks, codes

\* The variables that reach the sink are those of known citations.
LEMMA SinkVarsOf ==
  ASSUME NEW checks \in Seq(Citation)
  PROVE  sinkTaintedVars(checks)
           = UNION {x.guard.vars : x \in {y \in Cited(checks) :
                      y.guard.kind = "mybatis_concat" /\ y.asserts \in {"", "allows"}}}
<1>1. "mybatis_concat" \in Kinds
  BY DEF Kinds, SqlKinds
<1> DEFINE I == {j \in DOMAIN checks :
                   checks[j].guard.kind = "mybatis_concat" /\ checks[j].asserts \in {"", "allows"}}
           S == {y \in Cited(checks) :
                   y.guard.kind = "mybatis_concat" /\ y.asserts \in {"", "allows"}}
<1>2. \A i \in I : checks[i] \in S
  BY <1>1 DEF Cited, ToSet
<1>3. \A x \in S : \E i \in I : x = checks[i]
  BY DEF Cited, ToSet
<1>4. sinkTaintedVars(checks) = UNION {checks[i].guard.vars : i \in I}
  BY DEF sinkTaintedVars
<1> HIDE DEF I, S
<1>5. UNION {checks[i].guard.vars : i \in I} = UNION {x.guard.vars : x \in S}
  BY <1>2, <1>3
<1>6. QED
  BY <1>4, <1>5 DEF S

\* Of the citations only the set of those the probe knows counts for the verdict.
LEMMA VerdictBySet ==
  ASSUME NEW c \in Claim, NEW d \in Claim, NEW hops \in Seq(HopSet),
         c.verdict = d.verdict, c.payload = d.payload, c.types = d.types,
         c.declared = d.declared, Cited(c.checks) = Cited(d.checks)
  PROVE  VerifyVerdict(c, hops) = VerifyVerdict(d, hops)
<1> DEFINE founds == ExtractSanitizersFromSlice(hops)
           codes == Codes(founds)
           tainted == sinkTaintedVars(c.checks)
           gc == evaluateGuards(c, hops)
           gd == evaluateGuards(d, hops)
<1>1. founds \in Seq(Citation)
  BY GuardsOfSlice
<1>2. c.checks \in Seq(Citation) /\ d.checks \in Seq(Citation)
  BY DEF Claim
<1>3. sinkTaintedVars(c.checks) = sinkTaintedVars(d.checks)
  BY <1>2, SinkVarsOf
<1>4. gc = GuardsAgainst(c, hops, founds) /\ gd = GuardsAgainst(d, hops, founds)
  BY DEF evaluateGuards
<1> HIDE DEF founds, gc, gd, tainted, codes
<1>5. PICK E : /\ gc \in Seq(E) /\ Quiet(gc)
               /\ KnownGuards(gc) = {Judge(x, c, hops, tainted) : x \in Cited(founds)
                    \cup {x \in Cited(c.checks) : x.guard.code \notin codes \cup {""}}}
  BY <1>1, <1>4, GuardsAgainstIs DEF tainted, codes
<1>6. PICK F : /\ gd \in Seq(F) /\ Quiet(gd)
               /\ KnownGuards(gd) = {Judge(x, d, hops, sinkTaintedVars(d.checks)) : x \in Cited(founds)
                    \cup {x \in Cited(d.checks) : x.guard.code \notin codes \cup {""}}}
  BY <1>1, <1>4, GuardsAgainstIs DEF codes
<1>7. \A x : Judge(x, c, hops, tainted) = Judge(x, d, hops, sinkTaintedVars(d.checks))
  BY <1>3 DEF Judge, probeDecisiveCheck, CorpusProbe, tainted
<1>8. KnownGuards(gc) = KnownGuards(gd)
  BY <1>5, <1>6, <1>7
<1>9. Contradicted(gc, c, hops) <=> Against(KnownGuards(gc), c.verdict, c.types, c.payload, hops)
  BY <1>5, ContradictedBy
<1>10. Contradicted(gd, d, hops) <=> Against(KnownGuards(gd), d.verdict, d.types, d.payload, hops)
  BY <1>6, ContradictedBy
<1>11. Contradicted(gc, c, hops) <=> Contradicted(gd, d, hops)
  BY <1>8, <1>9, <1>10
<1>12. Overturned(c, hops) <=> Overturned(d, hops)
  BY <1>11 DEF Overturned, gc, gd
<1>13. QED
  BY <1>12 DEF VerifyVerdict

\* Unknown kinds and the order of the citations make no difference.
LEMMA OnlyKnownCitationsCount ==
  ASSUME NEW c \in Claim, NEW hops \in Seq(HopSet)
  PROVE  VerifyVerdict(c, hops)
           = VerifyVerdict([c EXCEPT !.checks = Reverse(Recognised(@))], hops)
<1> DEFINE I == {i \in DOMAIN c.checks : c.checks[i].guard.kind \in Kinds}
           known == Recognised(c.checks)
           back == Reverse(known)
           d == [c EXCEPT !.checks = back]
<1>1. c.checks \in Seq(Citation)
  BY DEF Claim
<1>2. I \in SUBSET DOMAIN c.checks
  OBVIOUS
<1>3. known = Pick(c.checks, I)
  BY DEF Recognised
<1>4. {c.checks[i] : i \in I} = Cited(c.checks)
  BY DEF Cited, ToSet
<1> HIDE DEF I, known
<1>5. known \in Seq(Citation) /\ ToSet(known) = Cited(c.checks)
  <2> DEFINE E == Citation
             checks == c.checks
  <2>1. checks \in Seq(E) /\ I \in SUBSET DOMAIN checks
    BY <1>1, <1>2
  <2>2. known = Pick(checks, I) /\ {checks[i] : i \in I} = Cited(c.checks)
    BY <1>3, <1>4
  <2> HIDE DEF E, checks
  <2>3. known \in Seq(E) /\ ToSet(known) = {checks[i] : i \in I}
    BY <2>1, <2>2, PickOf
  <2>4. QED
    BY <2>2, <2>3 DEF E
<1>6. back \in Seq(Citation) /\ ToSet(back) = ToSet(known)
  BY <1>5, ReverseIs
<1>7. Cited(back) = Cited(c.checks)
  BY <1>5, <1>6 DEF Cited
<1> HIDE DEF back
<1>8. /\ d \in Claim /\ d.checks = back /\ d.verdict = c.verdict /\ d.payload = c.payload
      /\ d.types = c.types /\ d.declared = c.declared
  BY <1>6 DEF Claim
<1>9. [c EXCEPT !.checks = Reverse(Recognised(@))] = d
  BY DEF known, back
<1> HIDE DEF d
<1>10. VerifyVerdict(c, hops) = VerifyVerdict(d, hops)
  BY <1>7, <1>8, VerdictBySet
<1>11. QED
  BY <1>9, <1>10

-----------------------------------------------------------------------------
(* The inductive invariant.                                                *)

\* The types of the variables.
TypeOK ==
  /\ phase \in {"reported", "sliced", "callees", "mutators", "guards", "enriched", "answered",
                "refreshed", "refused", "judged", "verified"}
  /\ alert \in Report
  /\ sliced \in Slices
  /\ chosen \in Seq(HopSet)
  /\ claim \in Claim \cup {NoClaim}
  /\ asked \in [facts : Seq(Facts), reached : Reachability]
  /\ guarded \in Seq(HopSet)
  /\ verdict \in {"none", "true_positive", "false_positive", "uncertain"}

\* Before enrichment the slice is the one of the report.
FirstSlice == phase = "sliced" => sliced = SliceAlert(alert) /\ chosen = sliced.hops

\* What SliceAlert chose stays, unless hops were dropped.
ChosenKept == Sliced /\ ~sliced.degraded => ToSet(chosen) \subseteq ToSet(sliced.hops)

\* A hop that has a variable is of the path, or was expanded from one of the path, or
\* hangs below a hop of the walk for statements.
VariablesTraced ==
  Sliced /\ ~sliced.degraded /\ alert.complete /\ alert.cwe \notin GatedCwe =>
    \A h \in ToSet(sliced.hops) : h.variable # "" =>
      \/ h.from \subseteq {"raw_passthrough"} \cup PathNames(chosen)
      \/ h.from \cap eagerFns(chosen) # {}

\* The fact is that of the slice, or is left, or nothing conclusive was said.
StyleKept ==
  \/ claim.verdict = "uncertain"
  \/ StyleLeft
  \/ sliced.style = classifySinkParamStyle(sliced.hops)

\* The verdict is the verifier's, about the slice it is reported with.
VerdictGiven ==
  /\ phase \in {"answered", "refreshed", "refused", "judged"} => claim \in Claim
  /\ phase \in {"refreshed", "refused"} =>
       guarded = sliced.hops /\ sliced.style = classifySinkParamStyle(sliced.hops)
  /\ phase = "refused" => claim.verdict = "uncertain"
  /\ phase = "judged" => StyleKept
  /\ Verified => /\ claim \in Claim
                 /\ verdict = VerifyVerdict(claim, sliced.hops)
                 /\ StyleKept

\* The inductive invariant: types, what was shown and listed, where the variables
\* come from, and whose verdict it is.
IInv == /\ TypeOK /\ FirstSlice /\ ChosenKept /\ NothingOmittedSilently /\ MapperNeverStarved
        /\ VariablesTraced /\ VerdictGiven

\* The empty slice is a slice.
LEMMA EmptyIs ==
  /\ NoSlice \in Slices
  /\ <<>> \in Seq(HopSet)
<1>1. <<>> \in Seq(HopSet) /\ {} \in SUBSET Word /\ "" \in Styles
  BY DEF Styles
<1>2. QED
  BY <1>1 DEF NoSlice, Slices

\* Nothing is asked at first.
LEMMA NothingAskedIs ==
  NothingAsked \in [facts : Seq(Facts), reached : Reachability]
<1>1. <<>> \in Seq(Facts)
  OBVIOUS
<1>2. "" \in Reachability
  BY DEF Reachability
<1>3. QED
  BY <1>1, <1>2 DEF NothingAsked

\* A report before it is sliced.
LEMMA InitIInv ==
  Init => IInv
<1> SUFFICES ASSUME Init PROVE IInv
  OBVIOUS
<1> USE DEF Init
<1>1. TypeOK
  <2>1. asked \in [facts : Seq(Facts), reached : Reachability]
    BY NothingAskedIs
  <2>2. QED
    BY <2>1, EmptyIs, EvidenceAssumption DEF TypeOK
<1>2. FirstSlice /\ ChosenKept /\ NothingOmittedSilently /\ MapperNeverStarved /\ VariablesTraced
  BY DEF FirstSlice, ChosenKept, NothingOmittedSilently, MapperNeverStarved, VariablesTraced,
         Sliced, Enriched
<1>3. VerdictGiven
  BY DEF VerdictGiven, Verified
<1>4. QED
  BY <1>1, <1>2, <1>3 DEF IInv

\* Slicing: the hops are those of HopsOf unless some were dropped.
LEMMA SlicingKeeps ==
  IInv /\ Slicing => IInv'
<1> SUFFICES ASSUME IInv, Slicing PROVE IInv'
  OBVIOUS
<1>1. /\ phase' = "sliced" /\ sliced' = SliceAlert(alert) /\ chosen' = sliced'.hops
      /\ alert' = alert /\ claim' = claim /\ verdict' = verdict
      /\ asked' = asked /\ guarded' = guarded
  BY DEF Slicing
<1>2. TypeOK
  BY DEF IInv
<1>3. alert \in Report
  BY <1>2 DEF TypeOK
<1>4. sliced' \in Slices /\ (~sliced'.degraded => sliced'.hops = HopsOf(alert))
  BY <1>1, <1>3, SliceAlertIs
<1>5. TypeOK'
  BY <1>1, <1>2, <1>4, SliceIs DEF TypeOK
<1>6. FirstSlice' /\ ChosenKept'
  BY <1>1 DEF FirstSlice, ChosenKept
<1>7. NothingOmittedSilently' /\ VerdictGiven'
  BY <1>1 DEF NothingOmittedSilently, VerdictGiven, Enriched, Verified
<1>8. MapperNeverStarved'
  <2>1. SUFFICES ASSUME ~sliced'.degraded
                 PROVE  Reached(chosen', Keys(sliced'.hops))
    BY DEF MapperNeverStarved, Reached
  <2>2. chosen' = HopsOf(alert) /\ sliced'.hops = HopsOf(alert)
    BY <1>1, <1>4, <2>1
  <2>3. QED
    BY <1>3, <2>2, HopsOfIs
<1>9. VariablesTraced'
  <2>1. SUFFICES ASSUME ~sliced'.degraded, alert.complete, NEW h \in ToSet(sliced'.hops), h.variable # ""
                 PROVE  h.from \subseteq {"raw_passthrough"}
    BY <1>1 DEF VariablesTraced
  <2>2. PICK i \in DOMAIN HopsOf(alert) : h = HopsOf(alert)[i]
    BY <1>4, <2>1 DEF ToSet
  <2>3. h.from \subseteq {"raw_passthrough"} \/ h \in Eager
    BY <1>3, <2>1, <2>2, HopsOfIs
  <2>4. QED
    BY <2>1, <2>3 DEF Eager
<1>10. QED
  BY <1>5, <1>6, <1>7, <1>8, <1>9 DEF IInv

\* The first tier lists what it leaves out.
LEMMA CalleeTierKeeps ==
  IInv /\ CalleeTier => IInv'
<1> SUFFICES ASSUME IInv, CalleeTier PROVE IInv'
  OBVIOUS
<1>1. /\ phase = "sliced" /\ phase' = "callees" /\ sliced' = EnrichSlice(sliced)
      /\ alert' = alert /\ chosen' = chosen /\ claim' = claim /\ verdict' = verdict
      /\ asked' = asked /\ guarded' = guarded
  BY DEF CalleeTier
<1>2. TypeOK /\ FirstSlice /\ MapperNeverStarved /\ VariablesTraced
  BY DEF IInv
<1>3. /\ alert \in Report /\ sliced \in Slices /\ chosen \in Seq(HopSet)
      /\ chosen = sliced.hops /\ sliced = SliceAlert(alert)
  BY <1>1, <1>2 DEF TypeOK, FirstSlice
<1>4. PICK items \in Seq(FromHops(chosen)) : Offered(sliced, sliced', items)
  BY <1>1, <1>3, EnrichIs
<1>5. /\ sliced' \in Slices
      /\ \A k \in Referenced(chosen) :
           k \in Keys(sliced'.hops) \cup sliced'.uncertain \/ k[2] \in AccessorNames
  BY <1>1, <1>3, EnrichIs
<1>6. TypeOK'
  BY <1>1, <1>2, <1>5 DEF TypeOK
<1>7. FirstSlice' /\ VerdictGiven'
  BY <1>1 DEF FirstSlice, VerdictGiven, Verified
<1>8. ChosenKept'
  BY <1>1, <1>3, <1>4 DEF ChosenKept, Offered
<1>9. NothingOmittedSilently'
  <2>1. SUFFICES ASSUME NEW i \in DOMAIN chosen, NEW d \in ToSet(ResolvableCallees(chosen[i].text))
                 PROVE  \/ Key(d) \in Keys(sliced'.hops) \cup sliced'.uncertain
                        \/ Def[d].name \in AccessorNames
    BY <1>1 DEF NothingOmittedSilently
  <2>2. Key(d) \in Referenced(chosen)
    BY <1>3, ReferencedIs
  <2>3. Key(d)[2] = Def[d].name
    BY DEF Key
  <2>4. QED
    BY <1>5, <2>2, <2>3
<1>10. MapperNeverStarved'
  <2>1. SUFFICES ASSUME ~sliced'.degraded
                 PROVE  Reached(chosen, Keys(sliced'.hops))
    BY <1>1 DEF MapperNeverStarved, Reached
  <2>2. ~sliced.degraded /\ Keys(sliced.hops) \subseteq Keys(sliced'.hops)
    BY <1>4, <2>1 DEF Offered
  <2>3. Reached(chosen, Keys(sliced.hops))
    BY <1>1, <1>2, <2>2 DEF MapperNeverStarved, Reached, Sliced
  <2>4. QED
    BY <2>2, <2>3 DEF Reached
<1>11. VariablesTraced'
  <2>1. SUFFICES ASSUME ~sliced'.degraded, alert.complete, alert.cwe \notin GatedCwe,
                        NEW h \in ToSet(sliced'.hops), h.variable # ""
                 PROVE  \/ h.from \subseteq {"raw_passthrough"} \cup PathNames(chosen)
                        \/ h.from \cap eagerFns(chosen) # {}
    BY <1>1 DEF VariablesTraced
  <2>2. ~sliced.degraded /\ (h \in ToSet(sliced.hops) \/ \E g \in ToSet(items) : Alike(h, g))
    BY <1>4, <2>1 DEF Offered
  <2>3. CASE h \in ToSet(sliced.hops)
    BY <1>1, <1>2, <2>1, <2>2, <2>3 DEF VariablesTraced, Sliced
  <2>4. ASSUME NEW g \in ToSet(items), Alike(h, g)
        PROVE  \/ h.from \subseteq {"raw_passthrough"} \cup PathNames(chosen)
               \/ h.from \cap eagerFns(chosen) # {}
    <3>1. g \in FromHops(chosen)
      BY <1>4, MemberOf
    <3>2. PICK i \in DOMAIN chosen : g.from = {chosen[i].name}
      BY <3>1 DEF FromHops
    <3>3. h.from = {chosen[i].name}
      BY <2>4, <3>2 DEF Alike
    <3>4. chosen = HopsOf(alert)
      BY <1>3, <2>2, SliceAlertIs
    <3>5. chosen[i].from \subseteq {"raw_passthrough"} \/ chosen[i] \in Eager
      BY <1>3, <2>1, <3>4, HopsOfIs
    <3>6. CASE chosen[i].from \subseteq {"raw_passthrough"}
      <4>1. chosen[i].name \in PathNames(chosen)
        BY <3>6 DEF PathNames
      <4>2. QED
        BY <3>3, <4>1
    <3>7. CASE chosen[i] \in Eager
      <4>1. chosen[i].name # "" /\ chosen[i].from \cap EagerMark # {}
        BY <3>7 DEF Eager
      <4>2. chosen[i].name \in eagerFns(chosen)
        BY <4>1 DEF eagerFns
      <4>3. QED
        BY <3>3, <4>2
    <3>8. QED
      BY <3>5, <3>6, <3>7
  <2>5. QED
    BY <2>2, <2>3, <2>4
<1>12. QED
  BY <1>6, <1>7, <1>8, <1>9, <1>10, <1>11 DEF IInv

\* The tiers after the first only add to what was shown.
LEMMA LaterTierKeeps ==
  ASSUME IInv, Enriched, Enriched', UNCHANGED <<alert, chosen, claim, asked, guarded, verdict>>,
         sliced' \in Slices, sliced'.uncertain = sliced.uncertain,
         NEW S, NEW items \in Seq(S), Offered(sliced, sliced', items),
         alert.cwe \in GatedCwe \/ S \subseteq {h \in HopSet : h.variable = ""} \/ sliced' = sliced
  PROVE  IInv'
<1>1. /\ TypeOK /\ ChosenKept /\ NothingOmittedSilently /\ MapperNeverStarved /\ VariablesTraced
      /\ alert' = alert /\ chosen' = chosen /\ claim' = claim /\ verdict' = verdict
      /\ asked' = asked /\ guarded' = guarded
  BY DEF IInv
<1>2. Sliced /\ Sliced' /\ phase' \notin {"sliced", "answered", "refreshed", "refused", "judged", "verified"}
      /\ phase' \in {"callees", "mutators", "guards", "enriched"}
  BY DEF Sliced, Enriched
<1>3. TypeOK'
  BY <1>1, <1>2 DEF TypeOK
<1>4. FirstSlice' /\ VerdictGiven'
  BY <1>2 DEF FirstSlice, VerdictGiven, Verified
<1>5. ASSUME ~sliced'.degraded
      PROVE  /\ ~sliced.degraded /\ Keys(sliced.hops) \subseteq Keys(sliced'.hops)
             /\ ToSet(sliced.hops) \subseteq ToSet(sliced'.hops)
             /\ \A h \in ToSet(sliced'.hops) :
                  h \in ToSet(sliced.hops) \/ \E g \in ToSet(items) : Alike(h, g)
  BY <1>5 DEF Offered
<1>6. ChosenKept'
  BY <1>1, <1>2, <1>5 DEF ChosenKept
<1>7. NothingOmittedSilently'
  <2>1. SUFFICES ASSUME ~sliced'.degraded, NEW i \in DOMAIN chosen,
                        NEW d \in ToSet(ResolvableCallees(chosen[i].text))
                 PROVE  \/ Key(d) \in Keys(sliced'.hops) \cup sliced'.uncertain
                        \/ Def[d].name \in AccessorNames
    BY <1>1 DEF NothingOmittedSilently
  <2>2. \/ Key(d) \in Keys(sliced.hops) \cup sliced.uncertain
        \/ Def[d].name \in AccessorNames
    BY <1>1, <1>5, <2>1 DEF NothingOmittedSilently
  <2>3. QED
    BY <1>5, <2>1, <2>2
<1>8. MapperNeverStarved'
  <2>1. SUFFICES ASSUME ~sliced'.degraded
                 PROVE  Reached(chosen, Keys(sliced'.hops))
    BY <1>1 DEF MapperNeverStarved, Reached
  <2>2. Reached(chosen, Keys(sliced.hops))
    BY <1>1, <1>2, <1>5, <2>1 DEF MapperNeverStarved, Reached
  <2>3. QED
    BY <1>5, <2>1, <2>2 DEF Reached
<1>9. VariablesTraced'
  <2>1. SUFFICES ASSUME ~sliced'.degraded, alert.complete, alert.cwe \notin GatedCwe,
                        NEW h \in ToSet(sliced'.hops), h.variable # ""
                 PROVE  \/ h.from \subseteq {"raw_passthrough"} \cup PathNames(chosen)
                        \/ h.from \cap eagerFns(chosen) # {}
    BY <1>1 DEF VariablesTraced
  <2>2. h \in ToSet(sliced.hops)
    <3>1. CASE sliced' = sliced
      BY <2>1, <3>1
    <3>2. CASE S \subseteq {g \in HopSet : g.variable = ""}
      <4>1. \A g \in ToSet(items) : g.variable = ""
        BY <3>2, MemberOf
      <4>2. h \in ToSet(sliced.hops) \/ \E g \in ToSet(items) : Alike(h, g)
        BY <1>5, <2>1
      <4>3. \A g \in ToSet(items) : ~Alike(h, g)
        BY <2>1, <4>1 DEF Alike
      <4>4. QED
        BY <4>2, <4>3
    <3>3. QED
      BY <2>1, <3>1, <3>2
  <2>3. QED
    BY <1>1, <1>2, <1>5, <2>1, <2>2 DEF VariablesTraced
<1>10. QED
  BY <1>3, <1>4, <1>6, <1>7, <1>8, <1>9 DEF IInv

\* The tier of callees that change state, which may take variables over.
LEMMA MutatorTierKeeps ==
  IInv /\ MutatorTier => IInv'
<1> SUFFICES ASSUME IInv, MutatorTier PROVE IInv'
  OBVIOUS
<1>1. /\ Enriched /\ Enriched' /\ UNCHANGED <<alert, chosen, claim, asked, guarded, verdict>>
      /\ sliced' = EnrichStateMutatingCallees(sliced, alert.cwe)
  BY DEF MutatorTier, Enriched
<1>2. sliced \in Slices
  BY DEF IInv, TypeOK
<1>3. PICK items \in Seq(Items) : Offered(sliced, sliced', items)
  BY <1>1, <1>2, MutatorTierIs
<1>4. /\ sliced' \in Slices /\ sliced'.uncertain = sliced.uncertain
      /\ alert.cwe \in GatedCwe \/ sliced' = sliced
  BY <1>1, <1>2, MutatorTierIs
<1>5. QED
  BY <1>1, <1>3, <1>4, LaterTierKeeps

\* The tier of guards.
LEMMA GuardTierKeeps ==
  IInv /\ GuardTier => IInv'
<1> SUFFICES ASSUME IInv, GuardTier PROVE IInv'
  OBVIOUS
<1>1. /\ Enriched /\ Enriched' /\ UNCHANGED <<alert, chosen, claim, asked, guarded, verdict>>
      /\ sliced' = EnrichGuardCallees(sliced)
  BY DEF GuardTier, Enriched
<1>2. sliced \in Slices
  BY DEF IInv, TypeOK
<1> DEFINE S == {h \in HopSet : h.variable = ""}
<1>3. PICK items \in Seq(S) : Offered(sliced, sliced', items)
  BY <1>1, <1>2, GuardTierIs
<1>4. sliced' \in Slices /\ sliced'.uncertain = sliced.uncertain
  BY <1>1, <1>2, GuardTierIs
<1>5. S \subseteq {h \in HopSet : h.variable = ""}
  OBVIOUS
<1> HIDE DEF S
<1>6. QED
  BY <1>1, <1>3, <1>4, <1>5, LaterTierKeeps

\* The exploring model.
LEMMA AgenticTierKeeps ==
  IInv /\ AgenticTier => IInv'
<1> SUFFICES ASSUME IInv, AgenticTier PROVE IInv'
  OBVIOUS
<1>1. /\ Enriched /\ Enriched' /\ UNCHANGED <<alert, chosen, claim, asked, guarded, verdict>>
  BY DEF AgenticTier, Enriched
<1>2. sliced \in Slices
  BY DEF IInv, TypeOK
<1>3. PICK include \in Included :
        sliced' = AppendCalleeHops(sliced, [i \in DOMAIN include |-> MethodHop(include[i], "", "agentic")])
  BY DEF AgenticTier
<1>4. include \in Seq(Methods)
  BY EvidenceAssumption
<1> DEFINE S == {h \in HopSet : h.variable = ""}
<1>5. /\ sliced' \in Slices /\ sliced'.uncertain = sliced.uncertain
      /\ \E items \in Seq(S) : Offered(sliced, sliced', items)
  BY <1>2, <1>3, <1>4, AgenticTierIs
<1>6. S \subseteq {h \in HopSet : h.variable = ""}
  OBVIOUS
<1> HIDE DEF S
<1>7. PICK items \in Seq(S) : Offered(sliced, sliced', items)
  BY <1>5
<1>8. QED
  BY <1>1, <1>5, <1>6, <1>7, LaterTierKeeps

\* Once the model was asked, nothing is claimed of the slice as it was enriched.
LEMMA AfterwardsKept ==
  ASSUME TypeOK', VerdictGiven',
         phase' \in {"answered", "refreshed", "refused", "judged", "verified"}
  PROVE  IInv'
<1>1. FirstSlice' /\ ChosenKept' /\ NothingOmittedSilently' /\ MapperNeverStarved' /\ VariablesTraced'
  BY DEF FirstSlice, ChosenKept, NothingOmittedSilently, MapperNeverStarved, VariablesTraced,
         Sliced, Enriched
<1>2. QED
  BY <1>1 DEF IInv

\* An empty slice is not judged.
LEMMA EmptySliceKeeps ==
  IInv /\ EmptySlice => IInv'
<1> SUFFICES ASSUME IInv, EmptySlice PROVE IInv'
  OBVIOUS
<1>1. TypeOK
  BY DEF IInv
<1>2. TypeOK'
  BY <1>1 DEF TypeOK, EmptySlice
<1>3. VerdictGiven'
  BY DEF VerdictGiven, Verified, EmptySlice
<1>4. QED
  BY <1>2, <1>3, AfterwardsKept DEF EmptySlice

\* The answer is a claim.
LEMMA AnswerKeeps ==
  IInv /\ Answer => IInv'
<1> SUFFICES ASSUME IInv, Answer PROVE IInv'
  OBVIOUS
<1>1. TypeOK
  BY DEF IInv
<1>2. claim' \in Claim
  BY EvidenceAssumption DEF Answer
<1>3. TypeOK'
  BY <1>1, <1>2 DEF TypeOK, Answer
<1>4. VerdictGiven'
  BY <1>2 DEF VerdictGiven, Verified, Answer
<1>5. QED
  BY <1>3, <1>4, AfterwardsKept DEF Answer

\* Promotion and the refreshed fact.
LEMMA PromoteKeeps ==
  IInv /\ Promote => IInv'
<1> SUFFICES ASSUME IInv, Promote PROVE IInv'
  OBVIOUS
<1>1. TypeOK /\ VerdictGiven
  BY DEF IInv
<1>2. /\ phase = "answered" /\ phase' = "refreshed" /\ guarded' = sliced'.hops
      /\ UNCHANGED <<alert, chosen, claim, asked, verdict>>
  BY DEF Promote
<1>3. PICK readings \in Readings :
        sliced' = RefreshSinkParamStyle(PromoteAgenticXmlToSlice(sliced, readings))
  BY DEF Promote
<1>4. readings \in Seq(Reading) /\ sliced \in Slices
  BY <1>1, EvidenceAssumption DEF TypeOK
<1>5. PromoteAgenticXmlToSlice(sliced, readings) \in Slices
  BY <1>4, PromotedIs
<1>6. sliced' \in Slices /\ sliced'.style = classifySinkParamStyle(sliced'.hops)
  BY <1>3, <1>5, RefreshedIs
<1>7. sliced'.hops \in Seq(HopSet)
  BY <1>6, SliceIs
<1>8. TypeOK'
  BY <1>1, <1>2, <1>6, <1>7 DEF TypeOK
<1>9. VerdictGiven'
  BY <1>1, <1>2, <1>6 DEF VerdictGiven, Verified
<1>10. QED
  BY <1>2, <1>8, <1>9, AfterwardsKept

\* An uncertain answer is a claim.
LEMMA UncertainIs ==
  ASSUME NEW c \in Claim
  PROVE  Uncertain(c) \in Claim /\ Uncertain(c).verdict = "uncertain"
BY DEF Uncertain, Claim

\* The answer is refused.
LEMMA RefuseKeeps ==
  IInv /\ Refuse => IInv'
<1> SUFFICES ASSUME IInv, Refuse PROVE IInv'
  OBVIOUS
<1>1. TypeOK /\ VerdictGiven
  BY DEF IInv
<1>2. /\ phase = "refreshed" /\ phase' = "refused" /\ claim' = Uncertain(claim)
      /\ UNCHANGED <<alert, sliced, chosen, guarded, verdict>>
  BY DEF Refuse
<1>3. asked' \in [facts : Seq(Facts), reached : Reachability]
  BY EvidenceAssumption DEF Refuse
<1>4. claim' \in Claim /\ claim'.verdict = "uncertain"
  BY <1>1, <1>2, UncertainIs DEF VerdictGiven
<1>5. TypeOK'
  BY <1>1, <1>2, <1>3, <1>4 DEF TypeOK
<1>6. VerdictGiven'
  BY <1>1, <1>2, <1>4 DEF VerdictGiven, Verified
<1>7. QED
  BY <1>2, <1>5, <1>6, AfterwardsKept

\* The other guards leave the evidence as it is.
LEMMA ContestKeeps ==
  IInv /\ Contest => IInv'
<1> SUFFICES ASSUME IInv, Contest PROVE IInv'
  OBVIOUS
<1>1. TypeOK /\ VerdictGiven
  BY DEF IInv
<1>2. /\ phase = "refreshed" /\ phase' = "judged"
      /\ UNCHANGED <<alert, sliced, chosen, asked, guarded, verdict>>
  BY DEF Contest
<1>3. claim' \in Claim
  <2>1. claim \in Claim /\ SecondAnswers \subseteq Claim
    BY <1>1, <1>2, EvidenceAssumption DEF VerdictGiven
  <2>2. QED
    BY <2>1, UncertainIs DEF Contest
<1>4. TypeOK'
  BY <1>1, <1>2, <1>3 DEF TypeOK
<1>5. VerdictGiven'
  BY <1>1, <1>2, <1>3 DEF VerdictGiven, Verified, StyleKept
<1>6. QED
  BY <1>2, <1>4, <1>5, AfterwardsKept

\* A second exploration leaves the fact only when it is not required.
LEMMA RejudgeKeeps ==
  IInv /\ Rejudge => IInv'
<1> SUFFICES ASSUME IInv, Rejudge PROVE IInv'
  OBVIOUS
<1>1. TypeOK /\ VerdictGiven
  BY DEF IInv
<1>2. /\ phase = "refused" /\ phase' = "judged"
      /\ UNCHANGED <<alert, chosen, asked, guarded, verdict>>
  BY DEF Rejudge
<1>3. PICK readings \in Readings, reached \in Drained(asked.reached) :
        /\ sliced' = RefreshedAsAsked(PromoteAgenticXmlToSlice(sliced, readings), asked.facts, reached)
        /\ \/ UNCHANGED claim
           \/ Settled(asked.facts, reached, sliced'.style) /\ claim' \in SecondAnswers
  BY DEF Rejudge
<1> DEFINE s == PromoteAgenticXmlToSlice(sliced, readings)
<1>4. readings \in Seq(Reading) /\ sliced \in Slices /\ asked.facts \in Seq(Facts)
  BY <1>1, EvidenceAssumption DEF TypeOK
<1>5. s \in Slices /\ s.style = sliced.style
  BY <1>4, PromotedIs
<1>6. RefreshSinkParamStyle(s) \in Slices
      /\ RefreshSinkParamStyle(s).style = classifySinkParamStyle(RefreshSinkParamStyle(s).hops)
  BY <1>5, RefreshedIs
<1>7. /\ sliced' = s \/ sliced' = RefreshSinkParamStyle(s)
      /\ StyleRefreshed(asked.facts, reached) => sliced' = RefreshSinkParamStyle(s)
  BY <1>3 DEF RefreshedAsAsked
<1> HIDE DEF s
<1>8. sliced' \in Slices
  BY <1>5, <1>6, <1>7
<1>9. claim \in Claim /\ claim.verdict = "uncertain" /\ claim' \in Claim
  BY <1>1, <1>2, <1>3, EvidenceAssumption DEF VerdictGiven
<1>10. guarded = sliced.hops /\ sliced.style = classifySinkParamStyle(sliced.hops)
  BY <1>1, <1>2 DEF VerdictGiven
<1>11. StyleKept'
  <2>1. CASE UNCHANGED claim
    BY <1>9, <2>1 DEF StyleKept
  <2>2. CASE StyleRefreshed(asked.facts, reached)
    BY <1>6, <1>7, <2>2 DEF StyleKept
  <2>3. CASE ~StyleRefreshed(asked.facts, reached) /\ Settled(asked.facts, reached, sliced'.style)
    <3>1. "sink_param_style" \notin ToSet(asked.facts)
      BY <1>4, <2>3, SettledIs
    <3>2. CASE guarded # sliced'.hops
      BY <1>2, <3>1, <3>2 DEF StyleKept, StyleLeft
    <3>3. CASE guarded = sliced'.hops
      <4>1. sliced'.style = classifySinkParamStyle(sliced'.hops)
        BY <1>5, <1>6, <1>7, <1>10, <3>3
      <4>2. QED
        BY <4>1 DEF StyleKept
    <3>4. QED
      BY <3>2, <3>3
  <2>4. QED
    BY <1>3, <2>1, <2>2, <2>3
<1>12. TypeOK'
  BY <1>1, <1>2, <1>8, <1>9 DEF TypeOK
<1>13. VerdictGiven'
  BY <1>2, <1>9, <1>11 DEF VerdictGiven, Verified
<1>14. QED
  BY <1>2, <1>12, <1>13, AfterwardsKept

\* The verdict.
LEMMA VerifyKeeps ==
  IInv /\ Verify => IInv'
<1> SUFFICES ASSUME IInv, Verify PROVE IInv'
  OBVIOUS
<1>1. TypeOK /\ VerdictGiven
  BY DEF IInv
<1>2. /\ phase \in {"refreshed", "refused", "judged"} /\ phase' = "verified"
      /\ verdict' = VerifyVerdict(claim, sliced.hops)
      /\ UNCHANGED <<alert, sliced, chosen, claim, asked, guarded>>
  BY DEF Verify
<1>3. claim \in Claim /\ StyleKept
  BY <1>1, <1>2 DEF VerdictGiven, StyleKept
<1>4. verdict' \in {"true_positive", "false_positive", "uncertain"}
  BY <1>2, <1>3 DEF VerifyVerdict, Claim
<1>5. TypeOK'
  BY <1>1, <1>2, <1>4 DEF TypeOK
<1>6. StyleKept'
  BY <1>2, <1>3 DEF StyleKept, StyleLeft
<1>7. VerdictGiven'
  BY <1>2, <1>3, <1>6 DEF VerdictGiven, Verified
<1>8. QED
  BY <1>2, <1>5, <1>7, AfterwardsKept

\* The invariant is inductive.
LEMMA NextIInv ==
  IInv /\ [Next]_vars => IInv'
<1> SUFFICES ASSUME IInv, [Next]_vars PROVE IInv'
  OBVIOUS
<1>1. CASE UNCHANGED vars
  <2>1. (Sliced' <=> Sliced) /\ (Enriched' <=> Enriched) /\ (Verified' <=> Verified)
    BY <1>1 DEF vars, Sliced, Enriched, Verified
  <2>2. TypeOK' /\ FirstSlice'
    BY <1>1 DEF vars, IInv, TypeOK, FirstSlice
  <2>3. ChosenKept' /\ NothingOmittedSilently'
    BY <1>1, <2>1 DEF vars, IInv, ChosenKept, NothingOmittedSilently
  <2>4. MapperNeverStarved'
    BY <1>1, <2>1 DEF vars, IInv, MapperNeverStarved
  <2>5. VariablesTraced'
    BY <1>1, <2>1 DEF vars, IInv, VariablesTraced
  <2>6. VerdictGiven'
    BY <1>1, <2>1 DEF vars, IInv, VerdictGiven, StyleKept, StyleLeft
  <2>7. QED
    BY <2>2, <2>3, <2>4, <2>5, <2>6 DEF IInv
<1>2. QED
  BY <1>1, SlicingKeeps, CalleeTierKeeps, MutatorTierKeeps, GuardTierKeeps, AgenticTierKeeps,
     EmptySliceKeeps, AnswerKeeps, PromoteKeeps, RefuseKeeps, ContestKeeps, RejudgeKeeps,
     VerifyKeeps DEF Next

\* The invariant holds in every state.
THEOREM Invariance == Spec => []IInv
BY InitIInv, NextIInv, PTL DEF Spec

\* The variables have their types: what a slice is made of stays well formed through
\* all tiers.
THEOREM TypesHold == Spec => []TypeOK
<1>1. IInv => TypeOK
  BY DEF IInv
<1>2. QED
  BY <1>1, Invariance, PTL

\* No callee of the chosen hops is left out of an enriched slice without a word.
THEOREM NothingOmitted == Spec => []NothingOmittedSilently
<1>1. IInv => NothingOmittedSilently
  BY DEF IInv
<1>2. QED
  BY <1>1, Invariance, PTL

\* No getter takes the place of the mapper method that the first method calls.
THEOREM StatementsReached == Spec => []MapperNeverStarved
<1>1. IInv => MapperNeverStarved
  BY DEF IInv
<1>2. QED
  BY <1>1, Invariance, PTL

\* The variables a strongly typed parameter is held against are those of the path.
THEOREM EvidenceOnThePath == Spec => []TaintEvidenceIsOnThePath
<1>1. IInv => TaintEvidenceIsOnThePath
  <2>1. SUFFICES ASSUME IInv, Sliced, ~sliced.degraded, alert.complete, alert.cwe \notin GatedCwe,
                        NEW v \in hopTaintVariables(sliced.hops)
                 PROVE  \E i \in DOMAIN sliced.hops :
                          /\ sliced.hops[i].variable = v
                          /\ sliced.hops[i].from \subseteq {"raw_passthrough"} \cup PathNames(chosen)
    BY DEF TaintEvidenceIsOnThePath
  <2>2. ChosenKept /\ VariablesTraced
    BY <2>1 DEF IInv
  <2>3. PICK i \in DOMAIN sliced.hops : /\ sliced.hops[i].from \cap FromEager(sliced.hops) = {}
                                        /\ sliced.hops[i].variable = v /\ v # ""
    BY <2>1 DEF hopTaintVariables
  <2>4. sliced.hops[i] \in ToSet(sliced.hops)
    BY DEF ToSet
  <2>5. \/ sliced.hops[i].from \subseteq {"raw_passthrough"} \cup PathNames(chosen)
        \/ sliced.hops[i].from \cap eagerFns(chosen) # {}
    BY <2>1, <2>2, <2>3, <2>4 DEF VariablesTraced
  <2>6. eagerFns(chosen) \subseteq eagerFns(sliced.hops)
    BY <2>1, <2>2 DEF ChosenKept, eagerFns, ToSet
  <2>7. QED
    BY <2>3, <2>5, <2>6 DEF FromEager
<1>2. QED
  BY <1>1, Invariance, PTL

\* Of what the model cites the set of the guards the probe knows counts, no more.
THEOREM OrderOfCitations == Spec => []CitationsAreASet
<1>1. IInv => CitationsAreASet
  <2>1. SUFFICES ASSUME IInv, Verified
                 PROVE  verdict = VerifyVerdict([claim EXCEPT !.checks = Reverse(Recognised(@))],
                                                sliced.hops)
    BY DEF CitationsAreASet
  <2>2. claim \in Claim /\ verdict = VerifyVerdict(claim, sliced.hops) /\ sliced.hops \in Seq(HopSet)
    BY <2>1, SliceIs DEF IInv, VerdictGiven, TypeOK
  <2>3. QED
    BY <2>2, OnlyKnownCitationsCount
<1>2. QED
  BY <1>1, Invariance, PTL

\* The decisive fact the guards go by is never at odds with the verifier's probe, nor
\* is the one a conclusive verdict comes with, unless a second exploration promoted a
\* file for a class of weakness that does not require the fact.
THEOREM StyleAgrees == Spec => []StyleAgreesWithTheProbe
<1>1. IInv => StyleAgreesWithTheProbe
  <2>1. SUFFICES ASSUME IInv, sliced.style = "parameterized"
                 PROVE  StyleAgreesWithTheProbe
    BY DEF StyleAgreesWithTheProbe
  <2>2. TypeOK /\ VerdictGiven
    BY <2>1 DEF IInv
  <2>3. sliced.style = classifySinkParamStyle(sliced.hops) => ~HasConcat(sliced.hops)
    BY <2>1 DEF classifySinkParamStyle
  <2>4. ASSUME phase \in {"refreshed", "refused"}
        PROVE  ~BypassableConcat(guarded)
    BY <2>2, <2>3, <2>4 DEF VerdictGiven, BypassableConcat
  <2>5. ASSUME phase = "verified", verdict \in {"true_positive", "false_positive"}, ~StyleLeft
        PROVE  ~BypassableConcat(sliced.hops)
    <3>1. CASE sliced.hops = <<>>
      BY <3>1 DEF BypassableConcat, HasConcat
    <3>2. CASE sliced.hops # <<>>
      <4>1. verdict = VerifyVerdict(claim, sliced.hops) /\ StyleKept
        BY <2>2, <2>5, <3>2 DEF VerdictGiven, Verified
      <4>2. claim.verdict # "uncertain"
        BY <2>5, <4>1 DEF VerifyVerdict
      <4>3. QED
        BY <2>3, <2>5, <4>1, <4>2 DEF StyleKept, BypassableConcat
    <3>3. QED
      BY <3>1, <3>2
  <2>6. QED
    BY <2>4, <2>5 DEF StyleAgreesWithTheProbe
<1>2. QED
  BY <1>1, Invariance, PTL

\* The cap on callees that change state leaves out the mildest.
THEOREM SevereKept == Spec => SevereFirst
<1> DEFINE Kept == phase = "callees" /\ phase' = "mutators" /\ alert.cwe \in GatedCwe /\ ~sliced'.degraded =>
       \A d \in MutatorsOnPath(sliced.hops) : OneRank(d) /\ Key(d) \notin Keys(sliced'.hops) =>
         \A i \in DOMAIN sliced'.hops : HopKey(sliced'.hops[i]) \notin Keys(sliced.hops) =>
           stateMutatingRank(sliced'.hops[i].text) <= stateMutatingRank(d)
<1>1. IInv /\ [Next]_vars => [Kept]_vars
  <2>1. SUFFICES ASSUME IInv, Next, phase = "callees", phase' = "mutators", alert.cwe \in GatedCwe,
                        ~sliced'.degraded, NEW d \in MutatorsOnPath(sliced.hops), OneRank(d),
                        Key(d) \notin Keys(sliced'.hops), NEW i \in DOMAIN sliced'.hops,
                        HopKey(sliced'.hops[i]) \notin Keys(sliced.hops)
                 PROVE  stateMutatingRank(sliced'.hops[i].text) <= stateMutatingRank(d)
    OBVIOUS
  <2>2. sliced' = EnrichStateMutatingCallees(sliced, alert.cwe)
    BY <2>1 DEF Next, Slicing, CalleeTier, MutatorTier, GuardTier, AgenticTier, EmptySlice,
       Answer, Promote, Refuse, Contest, Rejudge, Verify
  <2>3. sliced \in Slices
    BY <2>1 DEF IInv, TypeOK
  <2>4. QED
    BY <2>1, <2>2, <2>3, MildestLeftOut
<1>2. QED
  BY <1>1, Invariance, PTL DEF Spec, SevereFirst

=============================================================================
