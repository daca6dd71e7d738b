----------------------------- MODULE ListProofs -----------------------------
(***************************************************************************)
(* What the list operations of module Lists return, for lists of anything. *)
(***************************************************************************)
EXTENDS Lists, FiniteSetTheorems, TLAPS

(***************************************************************************)
(* The elements of a finite set, counted up to each in a total order L (a  *)
(* set of pairs), are numbered from 1, in that order and without gaps.     *)
(***************************************************************************)
CountUpTo(S, L, i) == Cardinality({k \in S : <<k, i>> \in L})

LEMMA OrderNumbers ==
    ASSUME NEW S, IsFiniteSet(S), NEW L,
           \A i \in S : <<i, i>> \in L,
           \A i, j \in S : <<i, j>> \in L \/ <<j, i>> \in L,
           \A i, j \in S : <<i, j>> \in L /\ <<j, i>> \in L => i = j,
           \A i, j, k \in S : <<i, j>> \in L /\ <<j, k>> \in L => <<i, k>> \in L
    PROVE  /\ Cardinality(S) \in Nat
           /\ \A i \in S : CountUpTo(S, L, i) \in 1..Cardinality(S)
           /\ \A i, j \in S : <<i, j>> \in L /\ i # j => CountUpTo(S, L, i) < CountUpTo(S, L, j)
           /\ \A r \in 1..Cardinality(S) : \E i \in S : CountUpTo(S, L, i) = r
<1> DEFINE upto(i) == {k \in S : <<k, i>> \in L}
           c == [i \in S |-> Cardinality(upto(i))]
           m == Cardinality(S)
<1>1. m \in Nat
  BY FS_CardinalityType
<1>2. \A i \in S : IsFiniteSet(upto(i)) /\ Cardinality(upto(i)) \in 1..m
  <2> TAKE i \in S
  <2>1. upto(i) \subseteq S /\ i \in upto(i)
    OBVIOUS
  <2>2. IsFiniteSet(upto(i)) /\ Cardinality(upto(i)) <= m
    BY <2>1, FS_Subset
  <2>3. Cardinality(upto(i)) \in Nat /\ Cardinality(upto(i)) # 0
    BY <2>1, <2>2, FS_CardinalityType, FS_EmptySet
  <2> QED
    BY <1>1, <2>2, <2>3
<1>3. \A i, j \in S : <<i, j>> \in L /\ i # j => Cardinality(upto(i)) < Cardinality(upto(j))
  <2> SUFFICES ASSUME NEW i \in S, NEW j \in S, <<i, j>> \in L, i # j
               PROVE  Cardinality(upto(i)) < Cardinality(upto(j))
    OBVIOUS
  <2>1. upto(i) \subseteq upto(j) /\ j \in upto(j) /\ j \notin upto(i)
    OBVIOUS
  <2>2. /\ Cardinality(upto(i)) <= Cardinality(upto(j))
        /\ Cardinality(upto(i)) = Cardinality(upto(j)) => upto(j) = upto(i)
    BY <1>2, <2>1, FS_Subset
  <2> QED
    BY <1>2, <2>1, <2>2
<1>4. \A r \in 1..m : \E i \in S : Cardinality(upto(i)) = r
  <2>1. c \in [S -> 1..m]
    BY <1>2
  <2>2. \A i, j \in S : c[i] = c[j] => i = j
    <3>1. SUFFICES ASSUME NEW i \in S, NEW j \in S, i # j
                   PROVE  c[i] # c[j]
      OBVIOUS
    <3>2. c[i] < c[j] \/ c[j] < c[i]
      BY <1>3, <3>1
    <3> HIDE DEF c
    <3>3. c[i] \in Nat /\ c[j] \in Nat
      BY <1>1, <2>1
    <3> QED
      BY <3>2, <3>3
  <2>3. c \in Injection(S, 1..m)
    BY <2>1, <2>2 DEF Injection, IsInjective
  <2>4. IsFiniteSet(1..m) /\ Cardinality(1..m) = m
    BY <1>1, FS_Interval
  <2>5. c \in Surjection(S, 1..m)
    BY <2>3, <2>4, FS_Injection
  <2> QED
    BY <2>5 DEF Surjection
<1> QED
  BY <1>1, <1>2, <1>3, <1>4 DEF CountUpTo

(***************************************************************************)
(* The rank of an index in a set of indices numbers the set from 1, in     *)
(* increasing order and without gaps.                                      *)
(***************************************************************************)
LEMMA RankOfFinite ==
    ASSUME NEW K \in SUBSET Nat, IsFiniteSet(K)
    PROVE  /\ Cardinality(K) \in Nat
           /\ \A i \in K : Rank(K, i) \in 1..Cardinality(K)
           /\ \A i, j \in K : i < j => Rank(K, i) < Rank(K, j)
           /\ \A r \in 1..Cardinality(K) : \E i \in K : Rank(K, i) = r
<1> DEFINE L == {p \in K \X K : p[1] <= p[2]}
<1>1. \A i \in K : i \in Nat
  OBVIOUS
<1>2. \A i, j \in K : <<i, j>> \in L <=> i <= j
  OBVIOUS
<1> HIDE DEF L
<1>3. /\ \A i, j \in K : i <= j \/ j <= i
      /\ \A i, j \in K : i <= j /\ j <= i => i = j
      /\ \A i, j, k \in K : i <= j /\ j <= k => i <= k
      /\ \A i \in K : i <= i
      /\ \A i, j \in K : i < j => i <= j /\ i # j
  BY <1>1
<1>4. /\ \A i \in K : <<i, i>> \in L
      /\ \A i, j \in K : <<i, j>> \in L \/ <<j, i>> \in L
      /\ \A i, j \in K : <<i, j>> \in L /\ <<j, i>> \in L => i = j
      /\ \A i, j, k \in K : <<i, j>> \in L /\ <<j, k>> \in L => <<i, k>> \in L
  BY <1>2, <1>3
<1>5. /\ Cardinality(K) \in Nat
      /\ \A i \in K : CountUpTo(K, L, i) \in 1..Cardinality(K)
      /\ \A i, j \in K : <<i, j>> \in L /\ i # j => CountUpTo(K, L, i) < CountUpTo(K, L, j)
      /\ \A r \in 1..Cardinality(K) : \E i \in K : CountUpTo(K, L, i) = r
  BY <1>4, OrderNumbers
<1>6. \A i \in K : Rank(K, i) = CountUpTo(K, L, i)
  <2> TAKE i \in K
  <2>1. {k \in K : k <= i} = {k \in K : <<k, i>> \in L}
    BY <1>2
  <2> QED
    BY <2>1 DEF Rank, CountUpTo
<1>7. ASSUME NEW i \in K, NEW j \in K, i < j PROVE Rank(K, i) < Rank(K, j)
  <2>1. <<i, j>> \in L /\ i # j
    BY <1>2, <1>3, <1>7
  <2>2. CountUpTo(K, L, i) < CountUpTo(K, L, j)
    BY <1>5, <2>1
  <2> QED
    BY <1>6, <2>2
<1> QED
  BY <1>5, <1>6, <1>7

LEMMA RankNumbers ==
    ASSUME NEW n \in Nat, NEW K \in SUBSET (1..n)
    PROVE  /\ IsFiniteSet(K)
           /\ Cardinality(K) \in 0..n
           /\ \A i \in K : Rank(K, i) \in 1..Cardinality(K)
           /\ \A i, j \in K : i < j => Rank(K, i) < Rank(K, j)
           /\ \A r \in 1..Cardinality(K) : \E i \in K : Rank(K, i) = r
<1>1. IsFiniteSet(1..n) /\ Cardinality(1..n) = n
  BY FS_Interval
<1>2. IsFiniteSet(K) /\ Cardinality(K) <= n
  BY <1>1, FS_Subset
<1>3. K \in SUBSET Nat
  OBVIOUS
<1>4. Cardinality(K) \in Nat
  BY <1>2, FS_CardinalityType
<1> QED
  BY <1>2, <1>3, <1>4, RankOfFinite

\* A finite set of numbers that is not empty has a greatest element.
LEMMA GreatestNumber ==
    ASSUME NEW K \in SUBSET Nat, IsFiniteSet(K), K # {}
    PROVE  \E i \in K : \A j \in K : j <= i
<1>1. /\ Cardinality(K) \in Nat
      /\ \A i \in K : Rank(K, i) \in 1..Cardinality(K)
      /\ \A i, j \in K : i < j => Rank(K, i) < Rank(K, j)
      /\ \A r \in 1..Cardinality(K) : \E i \in K : Rank(K, i) = r
  BY RankOfFinite
<1>2. Cardinality(K) \in 1..Cardinality(K)
  <2>1. PICK k \in K : Rank(K, k) \in 1..Cardinality(K)
    BY <1>1
  <2> QED
    BY <1>1, <2>1
<1>3. PICK i \in K : Rank(K, i) = Cardinality(K)
  BY <1>1, <1>2
<1>4. ASSUME NEW j \in K
      PROVE  ~(i < j)
  BY <1>1, <1>3
<1>5. \A j \in K : j \in Nat
  OBVIOUS
<1> QED
  BY <1>4, <1>5

\* A set of indices that is not empty has a least element.
LEMMA LeastIndex ==
    ASSUME NEW n \in Nat, NEW K \in SUBSET (1..n), K # {}
    PROVE  \E i \in K : \A j \in K : i <= j
<1>1. /\ Cardinality(K) \in Nat
      /\ \A i \in K : Rank(K, i) \in 1..Cardinality(K)
      /\ \A i, j \in K : i < j => Rank(K, i) < Rank(K, j)
      /\ \A r \in 1..Cardinality(K) : \E i \in K : Rank(K, i) = r
  BY RankNumbers
<1>2. Cardinality(K) >= 1
  <2>1. PICK k \in K : Rank(K, k) \in 1..Cardinality(K)
    BY <1>1
  <2> QED
    BY <1>1, <2>1
<1>3. PICK i \in K : Rank(K, i) = 1
  BY <1>1, <1>2
<1>4. ASSUME NEW j \in K
      PROVE  ~(j < i)
  BY <1>1, <1>3
<1>5. \A j \in K : j \in Nat
  OBVIOUS
<1> QED
  BY <1>4, <1>5

\* A list of n elements has n indices.
LEMMA IndicesCount ==
    ASSUME NEW n \in Nat
    PROVE  IsFiniteSet(1..n) /\ Cardinality(1..n) = n
BY FS_Interval

(***************************************************************************)
(* Keep(s, K) is a list of as many elements as K has; the element of s at  *)
(* an index i of K is at the rank of i, and there is no other.             *)
(***************************************************************************)
LEMMA KeepProperties ==
    ASSUME NEW S, NEW s \in Seq(S), NEW K \in SUBSET (DOMAIN s)
    PROVE  /\ Keep(s, K) \in Seq(S)
           /\ Len(Keep(s, K)) = Cardinality(K)
           /\ Cardinality(K) \in 0..Len(s)
           /\ \A i \in K : /\ Rank(K, i) \in DOMAIN Keep(s, K)
                           /\ Keep(s, K)[Rank(K, i)] = s[i]
           /\ \A j \in DOMAIN Keep(s, K) :
                 \E i \in K : Rank(K, i) = j /\ Keep(s, K)[j] = s[i]
<1> DEFINE m == Cardinality(K)
           at(j) == CHOOSE i \in K : Rank(K, i) = j
<1>1. Len(s) \in Nat /\ K \in SUBSET (1..Len(s))
  OBVIOUS
<1>2. /\ m \in 0..Len(s)
      /\ \A i \in K : Rank(K, i) \in 1..m
      /\ \A i, j \in K : i < j => Rank(K, i) < Rank(K, j)
      /\ \A r \in 1..m : \E i \in K : Rank(K, i) = r
  BY <1>1, RankNumbers
<1>3. \A r \in 1..m : at(r) \in K /\ Rank(K, at(r)) = r
  BY <1>2
<1>4. \A i, j \in K : Rank(K, i) = Rank(K, j) => i = j
  <2> SUFFICES ASSUME NEW i \in K, NEW j \in K, Rank(K, i) = Rank(K, j)
               PROVE  i = j
    OBVIOUS
  <2>1. i \in Nat /\ j \in Nat /\ Rank(K, i) \in Nat
    BY <1>1, <1>2
  <2>2. ~(i < j) /\ ~(j < i)
    BY <1>2, <2>1
  <2> QED
    BY <2>1, <2>2
<1>5. \A i \in K : at(Rank(K, i)) = i
  BY <1>2, <1>3, <1>4
<1>6. Keep(s, K) = [j \in 1..m |-> s[at(j)]]
  BY DEF Keep
<1>7. \A j \in 1..m : s[at(j)] \in S
  BY <1>1, <1>3
<1>8. Keep(s, K) \in Seq(S) /\ Len(Keep(s, K)) = m /\ DOMAIN Keep(s, K) = 1..m
  <2> HIDE DEF at
  <2> QED
    BY <1>2, <1>6, <1>7
<1> HIDE DEF at
<1>9. \A i \in K : Keep(s, K)[Rank(K, i)] = s[i]
  BY <1>2, <1>5, <1>6
<1>10. \A j \in 1..m : at(j) \in K /\ Rank(K, at(j)) = j /\ Keep(s, K)[j] = s[at(j)]
  BY <1>3, <1>6
<1> QED
  BY <1>2, <1>8, <1>9, <1>10

(***************************************************************************)
(* Keep(s, K) keeps the order: two of its elements, one before the other,  *)
(* are two of s, one before the other.                                     *)
(***************************************************************************)
LEMMA KeepOrder ==
    ASSUME NEW S, NEW s \in Seq(S), NEW K \in SUBSET (DOMAIN s)
    PROVE  \A j, k \in DOMAIN Keep(s, K) : j < k =>
               \E i, l \in K : i < l /\ Keep(s, K)[j] = s[i] /\ Keep(s, K)[k] = s[l]
<1>1. SUFFICES ASSUME NEW j \in DOMAIN Keep(s, K), NEW k \in DOMAIN Keep(s, K), j < k
               PROVE  \E i, l \in K : i < l /\ Keep(s, K)[j] = s[i] /\ Keep(s,
                                                                            K)[k] = s[l]
  OBVIOUS
<1>2. Len(s) \in Nat /\ K \in SUBSET (1 .. Len(s))
  OBVIOUS
<1>3. \A i, l \in K : i < l => Rank(K, i) < Rank(K, l)
  BY <1>2, RankNumbers
<1>4. \A i \in K : Rank(K, i) \in 1 .. Cardinality(K)
  BY <1>2, RankNumbers
<1>5. \A m \in DOMAIN Keep(s, K) : \E i \in K : Rank(K, i) = m /\ Keep(s, K)[m] = s[i]
  BY KeepProperties
<1>6. PICK i \in K : Rank(K, i) = j /\ Keep(s, K)[j] = s[i]
  BY <1>5
<1>7. PICK l \in K : Rank(K, l) = k /\ Keep(s, K)[k] = s[l]
  BY <1>5
<1>8. Cardinality(K) \in Nat
  BY KeepProperties
<1>9. i < l
  BY <1>1, <1>2, <1>3, <1>4, <1>6, <1>7, <1>8
<1> QED
  BY <1>6, <1>7, <1>9

\* Two places of Keep(s, K) are two places of s.
LEMMA KeepApart ==
    ASSUME NEW S, NEW s \in Seq(S), NEW K \in SUBSET (DOMAIN s)
    PROVE  \A j, k \in DOMAIN Keep(s, K) : j # k =>
               \E i, l \in K : i # l /\ Keep(s, K)[j] = s[i] /\ Keep(s, K)[k] = s[l]
<1> SUFFICES ASSUME NEW j \in DOMAIN Keep(s, K), NEW k \in DOMAIN Keep(s, K), j # k
             PROVE  \E i, l \in K : i # l /\ Keep(s, K)[j] = s[i] /\ Keep(s, K)[k] = s[l]
  OBVIOUS
<1>1. \A m \in DOMAIN Keep(s, K) : \E i \in K : Rank(K, i) = m /\ Keep(s, K)[m] = s[i]
  BY KeepProperties
<1>2. PICK i \in K : Rank(K, i) = j /\ Keep(s, K)[j] = s[i]
  BY <1>1
<1>3. PICK l \in K : Rank(K, l) = k /\ Keep(s, K)[k] = s[l]
  BY <1>1
<1> QED
  BY <1>2, <1>3

(***************************************************************************)
(* The elements at K and then the others are all elements of the list,     *)
(* each at a place of its own.                                             *)
(***************************************************************************)
Reordered(s, K, o) ==
    /\ Len(o) = Len(s) /\ DOMAIN o = 1 .. Len(s)
    /\ Cardinality(K) \in 0 .. Len(s)
    /\ \A r \in 1 .. Len(s) :
          \E k \in DOMAIN s : o[r] = s[k] /\ (r <= Cardinality(K) <=> k \in K)
    /\ \A k \in DOMAIN s :
          \E r \in 1 .. Len(s) : o[r] = s[k] /\ (r <= Cardinality(K) <=> k \in K)
    /\ \A r, t \in 1 .. Len(s) : r # t =>
          \E k, l \in DOMAIN s : k # l /\ o[r] = s[k] /\ o[t] = s[l]

LEMMA KeepFirst ==
    ASSUME NEW S, NEW s \in Seq(S), NEW K \in SUBSET (DOMAIN s)
    PROVE  /\ Keep(s, K) \o Keep(s, DOMAIN s \ K) \in Seq(S)
           /\ Reordered(s, K, Keep(s, K) \o Keep(s, DOMAIN s \ K))
<1> DEFINE n == Len(s)
           J == DOMAIN s \ K
           a == Keep(s, K)
           b == Keep(s, J)
           m == Cardinality(K)
           p == Cardinality(J)
           o == a \o b
<1>1. n \in Nat /\ DOMAIN s = 1 .. n
  OBVIOUS
<1>0. J \in SUBSET (DOMAIN s)
  OBVIOUS
<1>2. /\ a \in Seq(S) /\ Len(a) = m /\ m \in 0 .. n
      /\ \A i \in K : Rank(K, i) \in DOMAIN a /\ a[Rank(K, i)] = s[i]
      /\ \A j \in DOMAIN a : \E i \in K : a[j] = s[i]
  BY KeepProperties
<1>3. /\ b \in Seq(S) /\ Len(b) = p /\ p \in 0 .. n
      /\ \A i \in J : Rank(J, i) \in DOMAIN b /\ b[Rank(J, i)] = s[i]
      /\ \A j \in DOMAIN b : \E i \in J : b[j] = s[i]
  BY <1>0, KeepProperties
<1>4. m + p = n
  <2>1. IsFiniteSet(1 .. n) /\ Cardinality(1 .. n) = n
    BY <1>1, IndicesCount
  <2>2. K \cap J = {} /\ K \cup J = 1 .. n
    BY <1>1
  <2>3. IsFiniteSet(K) /\ IsFiniteSet(J)
    BY <1>0, <1>1, <2>1, FS_Subset
  <2>4. Cardinality(K \cup J) = m + p - Cardinality(K \cap J)
    BY <2>3, FS_Union
  <2>5. Cardinality(K \cap J) = 0
    BY <2>2, FS_EmptySet
  <2>6. Cardinality(K \cup J) = n
    BY <2>1, <2>2
  <2>7. n \in Nat /\ m \in Nat /\ p \in Nat
    BY <1>1, <1>2, <1>3
  <2> HIDE DEF m, p, J, n
  <2> QED
    BY <2>4, <2>5, <2>6, <2>7
<1>5. \A j, k \in DOMAIN a : j # k => \E i, l \in K : i # l /\ a[j] = s[i] /\ a[k] = s[l]
  BY KeepApart
<1>6. \A j, k \in DOMAIN b : j # k => \E i, l \in J : i # l /\ b[j] = s[i] /\ b[k] = s[l]
  <2> HIDE DEF J
  <2> QED
    BY <1>0, KeepApart
<1>7. o = a \o b
  OBVIOUS
<1>8. \A k \in DOMAIN s : (k \in K /\ k \notin J) \/ (k \notin K /\ k \in J)
  OBVIOUS
<1>9. \A k \in K : k \in DOMAIN s
  OBVIOUS
<1>10. \A k \in J : k \in DOMAIN s
  OBVIOUS
<1> HIDE DEF a, b, m, p, J, n, o
<1>11. o \in Seq(S) /\ Len(o) = n /\ DOMAIN o = 1 .. n
  <2>0. a \in Seq(S) /\ b \in Seq(S)
    BY <1>2, <1>3
  <2>1. o \in Seq(S) /\ Len(o) = Len(a) + Len(b)
    BY <1>7, <2>0
  <2>2. Len(o) = n
    BY <1>2, <1>3, <1>4, <2>1
  <2> QED
    BY <2>1, <2>2
<1>12. /\ DOMAIN a = 1 .. m /\ DOMAIN b = 1 .. p
       /\ \A r \in 1 .. m : o[r] = a[r]
       /\ \A r \in 1 .. p : o[m + r] = b[r]
  BY <1>2, <1>3, <1>4, <1>7
<1>13. /\ \A r \in 1 .. n : (r \in 1 .. m /\ r <= m)
                             \/ (r - m \in 1 .. p /\ m + (r - m) = r /\ ~(r <= m))
       /\ \A r \in 1 .. m : r \in 1 .. n /\ r <= m
       /\ \A r \in 1 .. p : m + r \in 1 .. n /\ ~(m + r <= m)
       /\ \A r, t \in 1 .. n : r # t => r - m # t - m
  BY <1>1, <1>2, <1>3, <1>4
<1>14. ASSUME NEW r \in 1 .. n
       PROVE  \E k \in DOMAIN s : o[r] = s[k] /\ (r <= m <=> k \in K)
  <2>1. CASE r <= m
    <3>1. r \in DOMAIN a /\ o[r] = a[r]
      BY <1>12, <1>13, <2>1
    <3>2. PICK k \in K : a[r] = s[k]
      BY <1>2, <3>1
    <3> QED
      BY <1>9, <2>1, <3>1, <3>2
  <2>2. CASE ~(r <= m)
    <3>1. r - m \in DOMAIN b /\ o[r] = b[r - m]
      BY <1>12, <1>13, <2>2
    <3>2. PICK k \in J : b[r - m] = s[k]
      BY <1>3, <3>1
    <3> QED
      BY <1>8, <1>10, <2>2, <3>1, <3>2
  <2> QED
    BY <2>1, <2>2
<1>15. ASSUME NEW k \in DOMAIN s
       PROVE  \E r \in 1 .. n : o[r] = s[k] /\ (r <= m <=> k \in K)
  <2>1. CASE k \in K
    <3>1. Rank(K, k) \in 1 .. m /\ a[Rank(K, k)] = s[k]
      BY <1>2, <1>12, <2>1
    <3> QED
      BY <1>12, <1>13, <2>1, <3>1
  <2>2. CASE k \notin K
    <3>1. Rank(J, k) \in 1 .. p /\ b[Rank(J, k)] = s[k]
      BY <1>3, <1>8, <1>12, <2>2
    <3> QED
      BY <1>12, <1>13, <2>2, <3>1
  <2> QED
    BY <2>1, <2>2
<1>16. ASSUME NEW r \in 1 .. n, NEW t \in 1 .. n, r # t
       PROVE  \E k, l \in DOMAIN s : k # l /\ o[r] = s[k] /\ o[t] = s[l]
  <2>1. CASE r <= m /\ t <= m
    <3>1. r \in DOMAIN a /\ t \in DOMAIN a /\ o[r] = a[r] /\ o[t] = a[t]
      BY <1>12, <1>13, <2>1
    <3> QED
      BY <1>5, <1>9, <1>16, <3>1
  <2>2. CASE ~(r <= m) /\ ~(t <= m)
    <3>1. /\ r - m \in DOMAIN b /\ t - m \in DOMAIN b /\ r - m # t - m
          /\ o[r] = b[r - m] /\ o[t] = b[t - m]
      BY <1>12, <1>13, <1>16, <2>2
    <3> QED
      BY <1>6, <1>10, <3>1
  <2>3. CASE (r <= m) # (t <= m)
    BY <1>14, <2>3
  <2> QED
    BY <2>1, <2>2, <2>3
<1>17. o \in Seq(S) /\ Reordered(s, K, o)
  BY <1>1, <1>2, <1>11, <1>14, <1>15, <1>16 DEF Reordered, m, n
<1> QED
  BY <1>17 DEF o, a, b, J
=============================================================================
