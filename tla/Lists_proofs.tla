---------------------------- MODULE Lists_proofs ----------------------------
(* What keeping some entries of a list, and listing a finite set, give.    *)
EXTENDS Lists, SequencesExt, FiniteSetTheorems, WellFoundedInduction, TLAPS

\* How many places of K are not after i.
Rank(K, i) == Cardinality({j \in K : j <= i})

\* Ranks grow from place to place.
LEMMA RanksGrow ==
  ASSUME NEW n \in Nat, NEW K \in SUBSET (1 .. n)
  PROVE  /\ IsFiniteSet(K) /\ Cardinality(K) \in Nat
         /\ \A i \in K : Rank(K, i) \in 1 .. Cardinality(K)
         /\ \A i, j \in K : i < j => Rank(K, i) < Rank(K, j)
<1>0. \A i \in K : i \in Nat
  OBVIOUS
<1>1. IsFiniteSet(K)
  <2>1. IsFiniteSet(1 .. n)
    BY FS_Interval
  <2> QED  BY <2>1, FS_Subset
<1>2. \A i : /\ IsFiniteSet({j \in K : j <= i})
             /\ Rank(K, i) \in Nat /\ Rank(K, i) <= Cardinality(K)
  <2> TAKE i
  <2>1. {j \in K : j <= i} \subseteq K
    OBVIOUS
  <2> QED  BY <1>1, <2>1, FS_Subset, FS_CardinalityType DEF Rank
<1>3. ASSUME NEW i \in K PROVE Rank(K, i) # 0
  <2> DEFINE I == {j \in K : j <= i}
  <2>1. i \in I
    BY <1>0
  <2>2. IsFiniteSet(I) /\ Rank(K, i) = Cardinality(I)
    BY <1>2 DEF Rank
  <2> HIDE DEF I
  <2> QED  BY <2>1, <2>2, FS_EmptySet
<1>4. ASSUME NEW i \in K, NEW j \in K, i < j PROVE Rank(K, i) < Rank(K, j)
  <2>0. (\A k \in K : k <= i => k <= j) /\ j <= j /\ ~(j <= i)
    BY <1>0, <1>4
  <2>1. /\ {k \in K : k <= i} \subseteq {k \in K : k <= j}
        /\ j \in {k \in K : k <= j} /\ j \notin {k \in K : k <= i}
    BY <2>0
  <2> HIDE <1>4
  <2>2. {k \in K : k <= i} # {k \in K : k <= j}
    BY <2>1
  <2>3. IsFiniteSet({k \in K : k <= j})
    BY <1>2
  <2> DEFINE I == {k \in K : k <= i}
             J == {k \in K : k <= j}
  <2>4. I \in SUBSET J /\ I # J /\ IsFiniteSet(J)
    BY <2>1, <2>2, <2>3
  <2>5. Rank(K, i) = Cardinality(I) /\ Rank(K, j) = Cardinality(J)
    BY DEF Rank
  <2> HIDE DEF I, J
  <2>6. /\ IsFiniteSet(I) /\ Cardinality(I) <= Cardinality(J)
        /\ Cardinality(J) # Cardinality(I)
    BY <2>4, FS_Subset
  <2>7. Cardinality(I) \in Nat /\ Cardinality(J) \in Nat
    BY <2>4, <2>6, FS_CardinalityType
  <2> QED  BY <2>5, <2>6, <2>7
<1>5. Cardinality(K) \in Nat
  BY <1>1, FS_CardinalityType
<1>6. \A i \in K : Rank(K, i) \in 1 .. Cardinality(K)
  <2> SUFFICES ASSUME NEW i \in K PROVE Rank(K, i) \in 1 .. Cardinality(K)
    OBVIOUS
  <2>1. Rank(K, i) \in Nat /\ Rank(K, i) <= Cardinality(K)
    BY <1>2
  <2> QED  BY <1>3, <1>5, <2>1
<1> QED  BY <1>1, <1>4, <1>5, <1>6

\* Every number up to the size of K is a rank.
LEMMA RanksAreAll ==
  ASSUME NEW n \in Nat, NEW K \in SUBSET (1 .. n), NEW m \in 1 .. Cardinality(K)
  PROVE  \E i \in K : Rank(K, i) = m
<1>1. /\ IsFiniteSet(K) /\ Cardinality(K) \in Nat
      /\ \A i \in K : Rank(K, i) \in 1 .. Cardinality(K)
      /\ \A i, j \in K : i # j => Rank(K, i) # Rank(K, j)
  <2>1. \A i, j \in K : i # j => i < j \/ j < i
    OBVIOUS
  <2> QED  BY <2>1, RanksGrow
<1> DEFINE N == 1 .. Cardinality(K)
           f == [i \in K |-> Rank(K, i)]
<1>2. f \in [K -> N] /\ IsInjective(f)
  BY <1>1 DEF IsInjective
<1>3. f \in Injection(K, N)
  BY <1>2 DEF Injection
<1>4. IsFiniteSet(N) /\ Cardinality(N) = Cardinality(K)
  BY <1>1, FS_Interval
<1> HIDE DEF f, N
<1>5. f \in Surjection(K, N)
  BY <1>1, <1>3, <1>4, FS_Injection
<1> QED  BY <1>5 DEF Surjection, f, N

\* The places of K in their order.
Place(K) == [m \in 1 .. Cardinality(K) |-> CHOOSE i \in K : Rank(K, i) = m]

LEMMA PlacesInOrder ==
  ASSUME NEW n \in Nat, NEW K \in SUBSET (1 .. n)
  PROVE  /\ Cardinality(K) \in Nat
         /\ Place(K) \in [1 .. Cardinality(K) -> K]
         /\ \A l, m \in 1 .. Cardinality(K) : l < m => Place(K)[l] < Place(K)[m]
         /\ \A i \in K : \E m \in 1 .. Cardinality(K) : Place(K)[m] = i
<1> DEFINE N == 1 .. Cardinality(K)
           at == Place(K)
<1>1. /\ Cardinality(K) \in Nat
      /\ \A i \in K : i \in Nat /\ Rank(K, i) \in N
      /\ \A i, j \in K : i < j => Rank(K, i) < Rank(K, j)
  <2>1. \A i \in K : i \in Nat
    OBVIOUS
  <2> QED  BY <2>1, RanksGrow
<1>2. \A m \in N : at[m] \in K /\ Rank(K, at[m]) = m
  BY RanksAreAll DEF Place
<1>3. \A i, j \in K : Rank(K, i) < Rank(K, j) => i < j
  <2>1. \A i, j \in K : i < j \/ i = j \/ j < i
    BY <1>1
  <2> QED  BY <1>1, <2>1
<1>4. at \in [N -> K]
  BY <1>2 DEF Place
<1> HIDE DEF at
<1>5. ASSUME NEW l \in N, NEW m \in N, l < m PROVE at[l] < at[m]
  BY <1>2, <1>3, <1>5
<1>6. ASSUME NEW i \in K PROVE \E m \in N : at[m] = i
  <2>1. Rank(K, i) \in N
    BY <1>1
  <2>2. at[Rank(K, i)] \in K /\ Rank(K, at[Rank(K, i)]) = Rank(K, i)
    BY <1>2, <2>1
  <2>3. at[Rank(K, i)] = i
    <3>1. \A j \in K : j < i \/ j = i \/ i < j
      BY <1>1
    <3>2. ~(Rank(K, i) < Rank(K, i))
      BY <1>1, <2>1
    <3> QED  BY <1>1, <2>2, <3>1, <3>2
  <2> QED  BY <2>1, <2>3
<1>7. /\ at \in [N -> K]
      /\ \A l, m \in N : l < m => at[l] < at[m]
      /\ \A i \in K : \E m \in N : at[m] = i
  BY <1>4, <1>5, <1>6
<1> QED  BY <1>1, <1>7 DEF at

\* What is kept of a list is a list: the entries at those places.
LEMMA KeptIsList ==
  ASSUME NEW S, NEW seq \in Seq(S), NEW K \in SUBSET DOMAIN seq
  PROVE  /\ Kept(seq, K) \in Seq(S) /\ Len(Kept(seq, K)) = Cardinality(K)
         /\ \A m \in 1 .. Cardinality(K) : Kept(seq, K)[m] = seq[Place(K)[m]]
<1> DEFINE N == 1 .. Cardinality(K)
<1>1. Len(seq) \in Nat /\ K \in SUBSET (1 .. Len(seq))
  OBVIOUS
<1>2. Cardinality(K) \in Nat /\ Place(K) \in [N -> K]
  BY <1>1, PlacesInOrder
<1>3. Kept(seq, K) = [m \in N |-> seq[Place(K)[m]]]
  BY DEF Kept, Place, Rank
<1>4. \A m \in N : seq[Place(K)[m]] \in S
  <2>1. \A i \in K : seq[i] \in S
    OBVIOUS
  <2> QED  BY <1>2, <2>1
<1> QED  BY <1>2, <1>3, <1>4

-----------------------------------------------------------------------------
\* SetToSeq lists a finite set: every element, each of them from the set.
LEMMA Listing ==
  ASSUME NEW S, IsFiniteSet(S)
  PROVE  /\ SetToSeq(S) \in Seq(S)
         /\ \A x \in S : \E i \in DOMAIN SetToSeq(S) : SetToSeq(S)[i] = x
<1> DEFINE n == Cardinality(S)
           f == SetToSeq(S)
<1>1. n \in Nat /\ ExistsBijection(1 .. n, S)
  BY FS_CardinalityType
<1>2. \E g \in [1 .. n -> S] : IsInjective(g)
  BY <1>1 DEF ExistsBijection, Bijection, Injection
<1>3. f \in [1 .. n -> S] /\ IsInjective(f)
  BY <1>2 DEF SetToSeq
<1>4. IsFiniteSet(1 .. n) /\ Cardinality(1 .. n) = n
  BY <1>1, FS_Interval
<1> HIDE DEF f
<1>5. f \in Surjection(1 .. n, S)
  BY <1>3, <1>4, FS_Injection DEF Injection
<1> QED
  <2>1. f \in Seq(S) /\ DOMAIN f = 1 .. n
    BY <1>1, <1>3
  <2>2. \A x \in S : \E i \in 1 .. n : f[i] = x
    BY <1>5 DEF Surjection
  <2> QED  BY <2>1, <2>2 DEF f

-----------------------------------------------------------------------------
\* The least of a set of natural numbers, and the induction that it gives.
LEMMA LeastNat ==
  ASSUME NEW T \in SUBSET Nat, T # {}
  PROVE  \E x \in T : \A y \in T : x <= y
<1> DEFINE R == OpToRel(<, Nat)
<1>1. IsWellFoundedOn(R, Nat)
  BY NatLessThanWellFounded
<1>2. \A x, y \in Nat : <<y, x>> \in R <=> y < x
  BY DEF OpToRel
<1> HIDE DEF R
<1>3. PICK x \in T : \A y \in T : ~ (<<y, x>> \in R)
  BY <1>1, WFMin
<1>4. \A y \in T : ~ (y < x)
  BY <1>2, <1>3
<1> QED  BY <1>4

LEMMA SetInduction ==
  ASSUME NEW T, 0 \in T, \A n \in Nat : n \in T => n + 1 \in T
  PROVE  Nat \subseteq T
<1> DEFINE U == Nat \ T
<1> SUFFICES ASSUME U # {} PROVE FALSE
  OBVIOUS
<1>1. PICK x \in U : \A y \in U : x <= y
  BY LeastNat
<1>2. x - 1 \in Nat /\ x - 1 \notin U
  BY <1>1
<1> QED  BY <1>1, <1>2

-----------------------------------------------------------------------------
\* A list that has nothing twice.
Unrepeated(s) == \A i, j \in DOMAIN s : s[i] = s[j] => i = j

\* What is kept of a list without repetitions has none either.
LEMMA KeptIsPart ==
  ASSUME NEW S, NEW s \in Seq(S), NEW K \in SUBSET DOMAIN s
  PROVE  /\ Kept(s, K) \in Seq(S) /\ ToSet(Kept(s, K)) = {s[i] : i \in K}
         /\ Unrepeated(s) => Unrepeated(Kept(s, K))
<1> DEFINE N == 1 .. Cardinality(K)
           W == Kept(s, K)
<1>1. /\ W \in Seq(S) /\ Len(W) = Cardinality(K) /\ Cardinality(K) \in Nat
      /\ \A m \in N : W[m] = s[Place(K)[m]]
      /\ Place(K) \in [N -> K]
      /\ \A l, m \in N : l < m => Place(K)[l] < Place(K)[m]
      /\ \A i \in K : \E m \in N : Place(K)[m] = i
  <2>1. Len(s) \in Nat /\ K \in SUBSET (1 .. Len(s))
    OBVIOUS
  <2>2. /\ Cardinality(K) \in Nat
        /\ Place(K) \in [N -> K]
        /\ \A l, m \in N : l < m => Place(K)[l] < Place(K)[m]
        /\ \A i \in K : \E m \in N : Place(K)[m] = i
    BY <2>1, PlacesInOrder
  <2> QED  BY <2>2, KeptIsList
<1> HIDE DEF W
<1>2. DOMAIN W = N
  BY <1>1
<1>3. ToSet(W) = {s[i] : i \in K}
  BY <1>1, <1>2 DEF ToSet
<1>4. ASSUME Unrepeated(s) PROVE Unrepeated(W)
  <2> SUFFICES ASSUME NEW i \in N, NEW j \in N, W[i] = W[j] PROVE i = j
    BY <1>2 DEF Unrepeated
  <2>1. Place(K)[i] = Place(K)[j]
    BY <1>1, <1>4 DEF Unrepeated
  <2>2. /\ i \in Nat /\ j \in Nat
        /\ \A m \in N : Place(K)[m] \in Nat
    BY <1>1
  <2>3. i < j \/ i = j \/ j < i
    BY <2>2
  <2> QED  BY <1>1, <2>1, <2>2, <2>3
<1> QED  BY <1>1, <1>3, <1>4 DEF W

\* Putting an element into a list.
LEMMA InsertAtIsList ==
  ASSUME NEW S, NEW s \in Seq(S), NEW e \in S, NEW i \in 1 .. Len(s) + 1
  PROVE  /\ InsertAt(s, i, e) \in Seq(S) /\ ToSet(InsertAt(s, i, e)) = ToSet(s) \cup {e}
         /\ Unrepeated(s) /\ e \notin ToSet(s) => Unrepeated(InsertAt(s, i, e))
<1> DEFINE n == Len(s)
           W == [k \in 1 .. n + 1 |-> IF k < i THEN s[k] ELSE IF k = i THEN e ELSE s[k - 1]]
<1>0. n \in Nat /\ i \in Nat /\ i >= 1 /\ i <= n + 1 /\ DOMAIN s = 1 .. n
  OBVIOUS
<1>1. InsertAt(s, i, e) = W
  <2> DEFINE l == SubSeq(s, 1, i - 1)
             r == SubSeq(s, i, n)
  <2>1. /\ l \in Seq(S) /\ Len(l) = i - 1 /\ \A k \in 1 .. i - 1 : l[k] = s[k]
    BY <1>0
  <2>2. /\ r \in Seq(S) /\ Len(r) = n - i + 1 /\ \A k \in 1 .. n - i + 1 : r[k] = s[i + k - 1]
    BY <1>0
  <2> HIDE DEF l, r
  <2>3. /\ l \o <<e>> \in Seq(S) /\ Len(l \o <<e>>) = i
        /\ \A k \in 1 .. i : (l \o <<e>>)[k] = IF k < i THEN s[k] ELSE e
    BY <1>0, <2>1
  <2> DEFINE h == l \o <<e>>
  <2> HIDE DEF h
  <2>4. /\ h \o r \in Seq(S) /\ Len(h \o r) = n + 1
        /\ \A k \in 1 .. n + 1 : (h \o r)[k] = IF k <= i THEN h[k] ELSE r[k - i]
    BY <1>0, <2>2, <2>3 DEF h
  <2>5. \A k \in 1 .. n + 1 : (h \o r)[k] = W[k]
    BY <1>0, <2>2, <2>3, <2>4 DEF h
  <2>6. h \o r = W
    <3> DEFINE q == h \o r
    <3>1. q \in Seq(S) /\ Len(q) = n + 1
      BY <2>4
    <3>2. W = [k \in 1 .. n + 1 |-> W[k]]
      OBVIOUS
    <3>3. \A k \in 1 .. n + 1 : q[k] = W[k]
      BY <2>5
    <3> HIDE DEF q, W
    <3>4. q \in [1 .. n + 1 -> S]
      BY <1>0, <3>1
    <3>5. q = W
      BY <3>2, <3>3, <3>4
    <3> QED  BY <3>5 DEF q
  <2> QED  BY <2>6 DEF InsertAt, l, r, h
<1>2. W \in Seq(S)
  BY <1>0
<1>3. ToSet(W) = ToSet(s) \cup {e}
  <2>1. W[i] = e /\ DOMAIN W = 1 .. n + 1
    BY <1>0
  <2>2. \A k \in 1 .. n : s[k] = W[IF k < i THEN k ELSE k + 1]
    BY <1>0
  <2>3. \A k \in 1 .. n + 1 : W[k] \in ToSet(s) \cup {e}
    BY <1>0 DEF ToSet
  <2>4. \A k \in 1 .. n : \E j \in 1 .. n + 1 : s[k] = W[j]
    <3> SUFFICES ASSUME NEW k \in 1 .. n PROVE \E j \in 1 .. n + 1 : s[k] = W[j]
      OBVIOUS
    <3>1. k \in 1 .. n + 1 /\ k + 1 \in 1 .. n + 1
      BY <1>0
    <3> HIDE DEF W
    <3> QED  BY <2>2, <3>1
  <2>5. i \in 1 .. n + 1
    BY <1>0
  <2> HIDE DEF W
  <2>6. e \in ToSet(W)
    BY <2>1, <2>5 DEF ToSet
  <2>7. ToSet(W) \subseteq ToSet(s) \cup {e}
    BY <2>1, <2>3 DEF ToSet
  <2>8. ToSet(s) \subseteq ToSet(W)
    BY <1>0, <2>1, <2>4 DEF ToSet
  <2> QED  BY <2>6, <2>7, <2>8
<1>4. ASSUME Unrepeated(s), e \notin ToSet(s) PROVE Unrepeated(W)
  <2> SUFFICES ASSUME NEW k \in 1 .. n + 1, NEW l \in 1 .. n + 1, W[k] = W[l] PROVE k = l
    BY DEF Unrepeated
  <2>1. \A j \in 1 .. n : s[j] # e
    BY <1>0, <1>4 DEF ToSet
  <2>2. \A j, m \in 1 .. n : s[j] = s[m] => j = m
    BY <1>0, <1>4 DEF Unrepeated
  <2> QED  BY <1>0, <2>1, <2>2
<1> QED  BY <1>1, <1>2, <1>3, <1>4

LEMMA AppendIsList ==
  ASSUME NEW S, NEW s \in Seq(S), NEW e \in S
  PROVE  /\ Append(s, e) \in Seq(S) /\ ToSet(Append(s, e)) = ToSet(s) \cup {e}
         /\ Unrepeated(s) /\ e \notin ToSet(s) => Unrepeated(Append(s, e))
<1> DEFINE n == Len(s)
<1>1. /\ n \in Nat /\ DOMAIN s = 1 .. n /\ DOMAIN Append(s, e) = 1 .. n + 1
      /\ Append(s, e) \in Seq(S)
      /\ \A k \in 1 .. n : Append(s, e)[k] = s[k]
      /\ Append(s, e)[n + 1] = e
  OBVIOUS
<1> DEFINE W == Append(s, e)
<1> HIDE DEF W
<1>2. ToSet(W) = ToSet(s) \cup {e}
  <2>1. \A k \in 1 .. n + 1 : k \in 1 .. n \/ k = n + 1
    BY <1>1
  <2> QED  BY <1>1, <2>1 DEF ToSet, W
<1>3. ASSUME Unrepeated(s), e \notin ToSet(s) PROVE Unrepeated(W)
  <2>1. \A j \in 1 .. n : s[j] # e
    BY <1>1, <1>3 DEF ToSet
  <2>2. \A j, m \in 1 .. n : s[j] = s[m] => j = m
    BY <1>1, <1>3 DEF Unrepeated
  <2> QED  BY <1>1, <2>1, <2>2 DEF Unrepeated, W
<1> QED  BY <1>1, <1>2, <1>3 DEF W

-----------------------------------------------------------------------------
\* Entry m of F is the entry at place[m] of list part[m] among the first n of ss, each of
\* them is there once, and they come list by list, each in its order.
Placed(ss, n, F, part, place) ==
  /\ \A m \in DOMAIN F : /\ part[m] \in 1 .. n /\ place[m] \in DOMAIN ss[part[m]]
                         /\ F[m] = ss[part[m]][place[m]]
  /\ \A l, m \in DOMAIN F : part[l] = part[m] /\ place[l] = place[m] => l = m
  /\ \A l, m \in DOMAIN F :
       l < m => part[l] < part[m] \/ (part[l] = part[m] /\ place[l] < place[m])
  /\ \A k \in 1 .. n : \A i \in DOMAIN ss[k] : \E m \in DOMAIN F : part[m] = k /\ place[m] = i

\* F is the first n lists of ss put together: it has their entries and no others.
Together(S, ss, n, F) ==
  /\ F \in Seq(S)
  /\ \A k \in 1 .. n : ToSet(ss[k]) \subseteq ToSet(F)
  /\ \E part, place \in [DOMAIN F -> Nat] : Placed(ss, n, F, part, place)

LEMMA OneTogether ==
  ASSUME NEW S, NEW ss \in Seq(Seq(S)), ss # <<>>
  PROVE  Together(S, ss, 1, ss[1])
<1>1. ss[1] \in Seq(S) /\ 1 .. 1 = {1}
  OBVIOUS
<1>2. PICK F : F = ss[1]
  OBVIOUS
<1> DEFINE part == [m \in DOMAIN F |-> 1]
           place == [m \in DOMAIN F |-> m]
<1>3. /\ F \in Seq(S) /\ DOMAIN F \subseteq Nat
  BY <1>1, <1>2
<1>4. /\ part \in [DOMAIN F -> Nat] /\ place \in [DOMAIN F -> Nat]
      /\ \A m \in DOMAIN F : part[m] = 1 /\ place[m] = m
  BY <1>3
<1>5. \A m \in DOMAIN F : /\ part[m] \in 1 .. 1 /\ place[m] \in DOMAIN ss[part[m]]
                          /\ F[m] = ss[part[m]][place[m]]
  BY <1>1, <1>2, <1>4
<1>6. /\ \A l, m \in DOMAIN F : part[l] = part[m] /\ place[l] = place[m] => l = m
      /\ \A l, m \in DOMAIN F :
           l < m => part[l] < part[m] \/ (part[l] = part[m] /\ place[l] < place[m])
      /\ \A k \in 1 .. 1 : \A i \in DOMAIN ss[k] : \E m \in DOMAIN F : part[m] = k /\ place[m] = i
  BY <1>2, <1>4
<1>7. \A k \in 1 .. 1 : ToSet(ss[k]) \subseteq ToSet(F)
  BY <1>1, <1>2
<1> HIDE DEF part, place
<1>8. Placed(ss, 1, F, part, place)
  BY <1>5, <1>6 DEF Placed
<1>9. Together(S, ss, 1, F)
  BY <1>3, <1>4, <1>7, <1>8 DEF Together
<1> QED  BY <1>2, <1>9

LEMMA MoreTogether ==
  ASSUME NEW S, NEW ss \in Seq(Seq(S)), NEW n \in Nat, n + 1 \in DOMAIN ss,
         NEW F, Together(S, ss, n, F)
  PROVE  Together(S, ss, n + 1, F \o ss[n + 1])
<1>1. PICK G : G = ss[n + 1]
  OBVIOUS
<1>2. G \in Seq(S) /\ F \in Seq(S)
  BY <1>1 DEF Together
<1>3. PICK a, b \in Nat : a = Len(F) /\ b = Len(G)
  BY <1>2
<1>4. DOMAIN F = 1 .. a /\ DOMAIN G = 1 .. b
  BY <1>2, <1>3
<1>5. PICK H : H = F \o G
  OBVIOUS
<1>6. /\ H \in Seq(S) /\ DOMAIN H = 1 .. a + b
      /\ \A m \in 1 .. a : H[m] = F[m]
      /\ \A m \in 1 .. b : H[a + m] = G[m]
  BY <1>2, <1>3, <1>5
<1>7. PICK part, place \in [DOMAIN F -> Nat] : Placed(ss, n, F, part, place)
  BY DEF Together
<1>8. /\ \A m \in DOMAIN F : /\ part[m] \in 1 .. n /\ place[m] \in DOMAIN ss[part[m]]
                             /\ F[m] = ss[part[m]][place[m]]
      /\ \A l, m \in DOMAIN F : part[l] = part[m] /\ place[l] = place[m] => l = m
      /\ \A l, m \in DOMAIN F :
           l < m => part[l] < part[m] \/ (part[l] = part[m] /\ place[l] < place[m])
      /\ \A k \in 1 .. n : \A i \in DOMAIN ss[k] : \E m \in DOMAIN F : part[m] = k /\ place[m] = i
  BY <1>7 DEF Placed
<1> DEFINE q == [m \in 1 .. a + b |-> IF m <= a THEN part[m] ELSE n + 1]
           p == [m \in 1 .. a + b |-> IF m <= a THEN place[m] ELSE m - a]
<1>9. /\ q \in [DOMAIN H -> Nat] /\ p \in [DOMAIN H -> Nat]
      /\ \A m \in 1 .. a : q[m] = part[m] /\ p[m] = place[m]
      /\ \A m \in 1 .. b : q[a + m] = n + 1 /\ p[a + m] = m
  <2>1. DOMAIN H = 1 .. a + b
    BY <1>6
  <2>2. \A m \in 1 .. a : m \in 1 .. a + b /\ m <= a
    BY <1>3
  <2>3. \A m \in 1 .. b : a + m \in 1 .. a + b /\ ~ (a + m <= a) /\ (a + m) - a = m
    BY <1>3
  <2>4. \A m \in 1 .. a + b : m \in Nat /\ (m <= a => m \in 1 .. a) /\ (~ (m <= a) => m - a \in Nat)
    BY <1>3
  <2>5. \A m \in 1 .. a : part[m] \in Nat /\ place[m] \in Nat
    BY <1>4, <1>7
  <2> QED  BY <2>1, <2>2, <2>3, <2>4, <2>5
<1> HIDE DEF q, p
<1>10. \A m \in DOMAIN H : m \in 1 .. a \/ \E i \in 1 .. b : m = a + i
  <2> SUFFICES ASSUME NEW m \in 1 .. a + b, m \notin 1 .. a PROVE \E i \in 1 .. b : m = a + i
    BY <1>6
  <2>1. m - a \in 1 .. b /\ m = a + (m - a)
    BY <1>3
  <2> QED  BY <2>1
<1>11. ASSUME NEW m \in DOMAIN H
       PROVE  q[m] \in 1 .. n + 1 /\ p[m] \in DOMAIN ss[q[m]] /\ H[m] = ss[q[m]][p[m]]
  <2>1. CASE m \in 1 .. a
    <3>1. /\ part[m] \in 1 .. n /\ place[m] \in DOMAIN ss[part[m]]
          /\ F[m] = ss[part[m]][place[m]]
      BY <1>4, <1>8, <2>1
    <3>2. part[m] \in 1 .. n + 1
      BY <3>1
    <3> QED  BY <1>6, <1>9, <2>1, <3>1, <3>2
  <2>2. ASSUME NEW i \in 1 .. b, m = a + i
        PROVE  q[m] \in 1 .. n + 1 /\ p[m] \in DOMAIN ss[q[m]] /\ H[m] = ss[q[m]][p[m]]
    <3>1. n + 1 \in 1 .. n + 1
      OBVIOUS
    <3> QED  BY <1>1, <1>4, <1>6, <1>9, <2>2, <3>1
  <2> QED  BY <1>10, <2>1, <2>2
<1>12. ASSUME NEW l \in DOMAIN H, NEW m \in DOMAIN H, q[l] = q[m], p[l] = p[m] PROVE l = m
  <2>1. \A i \in 1 .. a : q[i] \in 1 .. n
    BY <1>4, <1>8, <1>9
  <2>2. \A i \in 1 .. n : i # n + 1
    OBVIOUS
  <2>3. CASE l \in 1 .. a /\ m \in 1 .. a
    BY <1>4, <1>8, <1>9, <1>12, <2>3
  <2>4. ASSUME NEW i \in 1 .. b, l = a + i PROVE l = m
    <3>1. m \notin 1 .. a
      BY <1>9, <1>12, <2>1, <2>2, <2>4
    <3>2. PICK j \in 1 .. b : m = a + j
      BY <1>10, <3>1
    <3> QED  BY <1>9, <1>12, <2>4, <3>2
  <2>5. ASSUME NEW i \in 1 .. b, m = a + i PROVE l = m
    <3>1. l \notin 1 .. a
      BY <1>9, <1>12, <2>1, <2>2, <2>5
    <3>2. PICK j \in 1 .. b : l = a + j
      BY <1>10, <3>1
    <3> QED  BY <1>9, <1>12, <2>5, <3>2
  <2> QED  BY <1>10, <2>3, <2>4, <2>5
<1>13. ASSUME NEW k \in 1 .. n + 1 PROVE ToSet(ss[k]) \subseteq ToSet(H)
  <2>1. ToSet(F) \subseteq ToSet(H)
    <3>1. \A m \in 1 .. a : m \in DOMAIN H
      BY <1>3, <1>6
    <3> QED  BY <1>4, <1>6, <3>1 DEF ToSet
  <2>2. ToSet(G) \subseteq ToSet(H)
    <3>1. \A m \in 1 .. b : a + m \in DOMAIN H
      BY <1>3, <1>6
    <3> QED  BY <1>4, <1>6, <3>1 DEF ToSet
  <2>3. k \in 1 .. n \/ k = n + 1
    OBVIOUS
  <2>4. \A i \in 1 .. n : ToSet(ss[i]) \subseteq ToSet(F)
    BY DEF Together
  <2> QED  BY <1>1, <2>1, <2>2, <2>3, <2>4
<1>14. ASSUME NEW l \in DOMAIN H, NEW m \in DOMAIN H, l < m
       PROVE  q[l] < q[m] \/ (q[l] = q[m] /\ p[l] < p[m])
  <2>1. CASE m \in 1 .. a
    <3>1. l \in 1 .. a
      BY <1>3, <1>6, <1>14, <2>1
    <3> QED  BY <1>4, <1>8, <1>9, <1>14, <2>1, <3>1
  <2>2. ASSUME NEW j \in 1 .. b, m = a + j PROVE q[l] < q[m] \/ (q[l] = q[m] /\ p[l] < p[m])
    <3>1. CASE l \in 1 .. a
      <4>1. q[l] \in 1 .. n /\ q[m] = n + 1
        BY <1>4, <1>8, <1>9, <2>2, <3>1
      <4> QED  BY <4>1
    <3>2. ASSUME NEW i \in 1 .. b, l = a + i PROVE q[l] = q[m] /\ p[l] < p[m]
      <4>1. i < j
        BY <1>3, <1>14, <2>2, <3>2
      <4> QED  BY <1>9, <2>2, <3>2, <4>1
    <3> QED  BY <1>10, <3>1, <3>2
  <2> QED  BY <1>10, <2>1, <2>2
<1>15. ASSUME NEW k \in 1 .. n + 1, NEW i \in DOMAIN ss[k]
       PROVE  \E m \in DOMAIN H : q[m] = k /\ p[m] = i
  <2>1. (\A m \in 1 .. a : m \in DOMAIN H) /\ \A m \in 1 .. b : a + m \in DOMAIN H
    BY <1>3, <1>6
  <2>2. CASE k \in 1 .. n
    <3>1. PICK m \in 1 .. a : part[m] = k /\ place[m] = i
      BY <1>4, <1>8, <2>2
    <3> QED  BY <1>9, <2>1, <3>1
  <2>3. CASE k = n + 1
    <3>1. i \in 1 .. b
      BY <1>1, <1>4, <2>3
    <3> QED  BY <1>9, <2>1, <2>3, <3>1
  <2> QED  BY <2>2, <2>3
<1>16. Together(S, ss, n + 1, H)
  <2>1. Placed(ss, n + 1, H, q, p)
    BY <1>11, <1>12, <1>14, <1>15 DEF Placed
  <2> QED  BY <1>6, <1>9, <1>13, <2>1 DEF Together
<1> QED  BY <1>1, <1>5, <1>16

\* What FlattenSeq computes list by list.
Flattened(ss, n, f) == f = [i \in 1 .. n |-> IF i = 1 THEN ss[i] ELSE f[i - 1] \o ss[i]]

LEMMA FlatteningEnds ==
  ASSUME NEW ss, NEW n \in Nat
  PROVE  \E f : Flattened(ss, n, f)
<1> DEFINE T == {k \in Nat : \E f : Flattened(ss, k, f)}
<1>1. 0 \in T
  <2>1. 1 .. 0 = {}
    OBVIOUS
  <2> DEFINE e == [i \in {} |-> i]
  <2>2. Flattened(ss, 0, e)
    BY <2>1 DEF Flattened
  <2> QED  BY <2>2
<1>2. ASSUME NEW k \in Nat, k \in T PROVE k + 1 \in T
  <2>1. PICK f : Flattened(ss, k, f)
    BY <1>2
  <2> DEFINE g == [i \in 1 .. k + 1 |->
                     IF i = k + 1 THEN (IF i = 1 THEN ss[i] ELSE f[k] \o ss[i]) ELSE f[i]]
  <2>2. \A i \in 1 .. k : f[i] = IF i = 1 THEN ss[i] ELSE f[i - 1] \o ss[i]
    BY <2>1 DEF Flattened
  <2>3. \A i \in 1 .. k + 1 : g[i] = IF i = 1 THEN ss[i] ELSE g[i - 1] \o ss[i]
    <3> SUFFICES ASSUME NEW i \in 1 .. k + 1
                 PROVE  g[i] = IF i = 1 THEN ss[i] ELSE g[i - 1] \o ss[i]
      OBVIOUS
    <3>1. CASE i = k + 1
      <4>1. i # 1 => i - 1 \in 1 .. k + 1 /\ i - 1 # k + 1 /\ i - 1 = k
        BY <3>1
      <4> QED  BY <3>1, <4>1
    <3>2. CASE i # k + 1
      <4>1. /\ i \in 1 .. k
            /\ i # 1 => i - 1 \in 1 .. k + 1 /\ i - 1 # k + 1
        BY <3>2
      <4> QED  BY <2>2, <3>2, <4>1
    <3> QED  BY <3>1, <3>2
  <2>4. g = [i \in 1 .. k + 1 |-> g[i]]
    OBVIOUS
  <2> HIDE DEF g
  <2>5. g = [i \in 1 .. k + 1 |-> IF i = 1 THEN ss[i] ELSE g[i - 1] \o ss[i]]
    BY <2>3, <2>4
  <2>6. Flattened(ss, k + 1, g)
    BY <2>5 DEF Flattened
  <2> QED  BY <2>6
<1> HIDE DEF T
<1>3. Nat \subseteq T
  BY <1>1, <1>2, SetInduction
<1> QED  BY <1>3 DEF T

LEMMA FlattenIsList ==
  ASSUME NEW S, NEW ss \in Seq(Seq(S))
  PROVE  Together(S, ss, Len(ss), FlattenSeq(ss))
<1>1. PICK n \in Nat : n = Len(ss) /\ DOMAIN ss = 1 .. n
  OBVIOUS
<1>2. CASE n = 0
  <2>1. ss = <<>> /\ FlattenSeq(ss) = ss
    BY <1>1, <1>2 DEF FlattenSeq
  <2>2. <<>> \in Seq(S) /\ DOMAIN <<>> = {} /\ 1 .. 0 = {}
    OBVIOUS
  <2>3. PICK e : e = <<>>
    OBVIOUS
  <2> DEFINE none == [m \in {} |-> 0]
  <2>4. none \in [{} -> Nat]
    OBVIOUS
  <2> HIDE DEF none
  <2>5. Together(S, ss, 0, e)
    BY <2>2, <2>3, <2>4 DEF Together, Placed
  <2> QED  BY <1>1, <1>2, <2>1, <2>3, <2>5
<1>3. CASE n # 0
  <2> DEFINE f == CHOOSE f : Flattened(ss, n, f)
  <2>1. FlattenSeq(ss) = f[n]
    BY <1>1, <1>3 DEF FlattenSeq, Flattened
  <2>2. Flattened(ss, n, f)
    BY FlatteningEnds
  <2> HIDE DEF f
  <2>3. \A i \in 1 .. n : f[i] = IF i = 1 THEN ss[i] ELSE f[i - 1] \o ss[i]
    BY <2>2 DEF Flattened
  <2> DEFINE T == {k \in Nat : k + 1 <= n => Together(S, ss, k + 1, f[k + 1])}
  <2>4. 0 \in T
    <3>1. ss # <<>> /\ 1 \in 1 .. n /\ 0 + 1 = 1
      BY <1>1, <1>3
    <3>2. Together(S, ss, 1, f[1])
      BY <2>3, <3>1, OneTogether
    <3> QED  BY <3>1, <3>2
  <2>5. ASSUME NEW k \in Nat, k \in T PROVE k + 1 \in T
    <3> SUFFICES ASSUME (k + 1) + 1 <= n
                 PROVE  Together(S, ss, (k + 1) + 1, f[(k + 1) + 1])
      OBVIOUS
    <3>1. PICK j \in Nat : j = k + 1
      OBVIOUS
    <3>2. j + 1 \in DOMAIN ss /\ j + 1 \in 1 .. n /\ j + 1 # 1 /\ (j + 1) - 1 = j /\ j <= n
      BY <1>1, <3>1
    <3>3. Together(S, ss, j, f[j])
      BY <2>5, <3>1, <3>2
    <3>4. f[j + 1] = f[j] \o ss[j + 1]
      BY <2>3, <3>2
    <3>5. Together(S, ss, j + 1, f[j] \o ss[j + 1])
      BY <3>2, <3>3, MoreTogether
    <3> QED  BY <3>1, <3>4, <3>5
  <2> HIDE DEF T
  <2>6. Nat \subseteq T
    BY <2>4, <2>5, SetInduction
  <2>7. n - 1 \in Nat /\ (n - 1) + 1 = n
    BY <1>3
  <2>8. Together(S, ss, n, f[n])
    <3>1. \A k \in Nat : k + 1 <= n => Together(S, ss, k + 1, f[k + 1])
      BY <2>6 DEF T
    <3>2. PICK k \in Nat : k + 1 = n
      BY <2>7
    <3>3. k + 1 <= n
      BY <3>2
    <3> QED  BY <3>1, <3>2, <3>3
  <2> QED  BY <1>1, <2>1, <2>8
<1> QED  BY <1>2, <1>3
=============================================================================
