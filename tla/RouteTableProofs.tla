---------------------------- MODULE RouteTableProofs ----------------------------
(***************************************************************************)
(* For any routes, masks, depth of the hardware table and length of the    *)
(* list: the hardware forwards as the software would, a static route goes  *)
(* before a learned one, and what was configured stays.                    *)
(*                                                                         *)
(* All of it rests on the sort.  The entries are in a weak order, because  *)
(* sets of bits compare like numbers, so that sorting puts each at a place *)
(* of its own with none before it that should come after.                  *)
(***************************************************************************)
EXTENDS RouteTable, ListProofs, TLAPS

-----------------------------------------------------------------------------
(* Addresses compare like numbers.                                         *)

LEMMA AddressFinite ==
    ASSUME NEW x \in Addrs
    PROVE  x \in SUBSET Nat /\ IsFiniteSet(x)
BY BitsAssumption, FS_Subset DEF Addrs

LEMMA AboveAsymmetric ==
    ASSUME NEW x \in Addrs, NEW y \in Addrs, Above(x, y)
    PROVE  ~Above(y, x)
<1>1. x \in SUBSET Nat /\ y \in SUBSET Nat
  BY AddressFinite
<1>2. PICK b \in x \ y : \A c \in y \ x : c < b
  BY DEF Above
<1>3. ASSUME NEW d \in y \ x, \A c \in x \ y : c < d PROVE FALSE
  <2>1. d < b /\ b < d /\ b \in Nat /\ d \in Nat
    BY <1>1, <1>2, <1>3
  <2> QED
    BY <2>1
<1> QED
  BY <1>3 DEF Above

LEMMA AboveTransitive ==
    ASSUME NEW x \in Addrs, NEW y \in Addrs, NEW z \in Addrs, Above(x, y), Above(y, z)
    PROVE  Above(x, z)
<1>1. x \in SUBSET Nat /\ y \in SUBSET Nat /\ z \in SUBSET Nat
  BY AddressFinite
<1>2. PICK b \in x \ y : \A c \in y \ x : c < b
  BY DEF Above
<1>3. PICK d \in y \ z : \A c \in z \ y : c < d
  BY DEF Above
<1>4. b \in Nat /\ d \in Nat /\ \A c \in z : c \in Nat
  BY <1>1
<1>5. CASE d < b
  <2>1. b \notin z
    BY <1>2, <1>3, <1>4, <1>5
  <2>2. \A c \in z \ x : c < b
    BY <1>2, <1>3, <1>4, <1>5
  <2> QED
    BY <2>1, <2>2 DEF Above
<1>6. CASE b < d
  <2>1. d \in x
    BY <1>2, <1>3, <1>4, <1>6
  <2>2. \A c \in z \ x : c < d
    BY <1>2, <1>3, <1>4, <1>6
  <2> QED
    BY <2>1, <2>2 DEF Above
<1> QED
  BY <1>4, <1>5, <1>6

LEMMA AboveTotal ==
    ASSUME NEW x \in Addrs, NEW y \in Addrs, x # y
    PROVE  Above(x, y) \/ Above(y, x)
<1> DEFINE D == (x \ y) \cup (y \ x)
<1>1. D \in SUBSET Nat /\ IsFiniteSet(D) /\ D # {}
  <2>1. D \in Addrs /\ D # {}
    BY DEF Addrs
  <2> HIDE DEF D
  <2> QED
    BY <2>1, AddressFinite
<1>2. PICK b \in D : \A c \in D : c <= b
  <2> HIDE DEF D
  <2> QED
    BY <1>1, GreatestNumber
<1>3. \A c \in D : c # b => c < b
  <2>1. \A c \in D : c \in Nat
    BY <1>1
  <2> HIDE DEF D
  <2> QED
    BY <1>2, <2>1
<1>4. CASE b \in x \ y
  BY <1>3, <1>4 DEF Above
<1>5. CASE b \in y \ x
  BY <1>3, <1>5 DEF Above
<1> QED
  BY <1>2, <1>4, <1>5

\* A set of bits that has all of another and more is above it.
LEMMA AboveSuperset ==
    ASSUME NEW x, NEW y, y \subseteq x, x # y
    PROVE  Above(x, y)
BY DEF Above

-----------------------------------------------------------------------------
(* The sort.                                                               *)

\* Two entries that compare alike.
SameKey(a, b) ==
    a.to.mask = b.to.mask /\ a.to.ip = b.to.ip /\ (a.is_static <=> b.is_static)

LEMMA EntryFields ==
    ASSUME NEW e \in Entries
    PROVE  /\ e.to \in Destinations /\ e.is_static \in BOOLEAN /\ e.is_active \in BOOLEAN
           /\ e.to.ip \in Addrs /\ e.to.mask \in Addrs /\ e.to.mask \in Masks
           /\ e.to.iface \in Ifaces /\ e.to.gw \in Gateways \cup {NoGateway}
BY MasksAssumption DEF Entries, Destinations

LEMMA BeforeAsymmetric ==
    ASSUME NEW a \in Entries, NEW b \in Entries, Before(a, b)
    PROVE  ~Before(b, a)
<1>1. /\ a.to.mask \in Addrs /\ a.to.ip \in Addrs
      /\ b.to.mask \in Addrs /\ b.to.ip \in Addrs
  BY EntryFields
<1>2. \A x, y \in Addrs : Above(x, y) => ~Above(y, x) /\ x # y
  BY AboveAsymmetric
<1> QED
  BY <1>1, <1>2 DEF Before

LEMMA BeforeTransitive ==
    ASSUME NEW a \in Entries, NEW b \in Entries, NEW c \in Entries, Before(a, b),
           Before(b, c)
    PROVE  Before(a, c)
<1>1. /\ a.to.mask \in Addrs /\ a.to.ip \in Addrs
      /\ b.to.mask \in Addrs /\ b.to.ip \in Addrs
      /\ c.to.mask \in Addrs /\ c.to.ip \in Addrs
  BY EntryFields
<1>2. \A x, y, z \in Addrs : Above(x, y) /\ Above(y, z) => Above(x, z)
  BY AboveTransitive
<1> QED
  BY <1>1, <1>2 DEF Before

LEMMA BeforeTotal ==
    ASSUME NEW a \in Entries, NEW b \in Entries, ~Before(a, b), ~Before(b, a)
    PROVE  SameKey(a, b)
<1>1. /\ a.to.mask \in Addrs /\ a.to.ip \in Addrs
      /\ b.to.mask \in Addrs /\ b.to.ip \in Addrs
  BY EntryFields
<1>2. \A x, y \in Addrs : x = y \/ Above(x, y) \/ Above(y, x)
  BY AboveTotal
<1> QED
  BY <1>1, <1>2 DEF Before, SameKey

LEMMA BeforeRespectsKey ==
    ASSUME NEW a, NEW b, NEW c, SameKey(a, b)
    PROVE  (Before(a, c) <=> Before(b, c)) /\ (Before(c, a) <=> Before(c, b))
BY DEF SameKey, Before

\* The entry at j goes before that at i, or ties and was before it.
Goes(s, j, i) == Before(s[j], s[i]) \/ (~Before(s[i], s[j]) /\ j <= i)

LEMMA GoesOrders ==
    ASSUME NEW s \in Seq(Entries)
    PROVE  /\ \A i \in DOMAIN s : Goes(s, i, i)
           /\ \A i, j \in DOMAIN s : Goes(s, i, j) \/ Goes(s, j, i)
           /\ \A i, j \in DOMAIN s : Goes(s, i, j) /\ Goes(s, j, i) => i = j
           /\ \A i, j, k \in DOMAIN s : Goes(s, i, j) /\ Goes(s, j, k) => Goes(s, i, k)
<1>1. \A i \in DOMAIN s : i \in Nat /\ s[i] \in Entries
  OBVIOUS
<1>2. \A i \in DOMAIN s : Goes(s, i, i)
  BY <1>1 DEF Goes
<1>3. \A i, j \in DOMAIN s : Goes(s, i, j) \/ Goes(s, j, i)
  BY <1>1 DEF Goes
<1>4. \A i, j \in DOMAIN s : Goes(s, i, j) /\ Goes(s, j, i) => i = j
  BY <1>1, BeforeAsymmetric DEF Goes
<1>5. ASSUME NEW i \in DOMAIN s, NEW j \in DOMAIN s, NEW k \in DOMAIN s,
             Goes(s, i, j), Goes(s, j, k)
      PROVE  Goes(s, i, k)
  <2>1. s[i] \in Entries /\ s[j] \in Entries /\ s[k] \in Entries
    BY <1>1
  <2>2. CASE Before(s[i], s[j]) /\ Before(s[j], s[k])
    BY <2>1, <2>2, BeforeTransitive DEF Goes
  <2>3. CASE Before(s[i], s[j]) /\ ~Before(s[j], s[k])
    <3>1. ~Before(s[k], s[j])
      BY <1>5, <2>3 DEF Goes
    <3>2. SameKey(s[j], s[k])
      BY <2>1, <2>3, <3>1, BeforeTotal
    <3> QED
      BY <2>3, <3>2, BeforeRespectsKey DEF Goes
  <2>4. CASE ~Before(s[i], s[j])
    <3>1. ~Before(s[j], s[i]) /\ i <= j
      BY <1>5, <2>4 DEF Goes
    <3>2. SameKey(s[i], s[j])
      BY <2>1, <2>4, <3>1, BeforeTotal
    <3>3. (Before(s[i], s[k]) <=> Before(s[j], s[k]))
          /\ (Before(s[k], s[i]) <=> Before(s[k], s[j]))
      BY <3>2, BeforeRespectsKey
    <3>4. i \in Nat /\ j \in Nat /\ k \in Nat
      BY <1>1
    <3>5. j <= k => i <= k
      BY <3>1, <3>4
    <3> QED
      BY <1>5, <3>3, <3>5 DEF Goes
  <2> QED
    BY <2>2, <2>3, <2>4
<1> QED
  BY <1>2, <1>3, <1>4, <1>5

LEMMA PlaceNumbers ==
    ASSUME NEW s \in Seq(Entries)
    PROVE  /\ \A i \in DOMAIN s : Place(s, i) \in DOMAIN s
           /\ \A i, j \in DOMAIN s : Goes(s, i, j) /\ i # j => Place(s, i) < Place(s, j)
           /\ \A k \in DOMAIN s : \E i \in DOMAIN s : Place(s, i) = k
<1> DEFINE D == DOMAIN s
           L == {p \in D \X D : Goes(s, p[1], p[2])}
<1>1. Len(s) \in Nat /\ D = 1 .. Len(s)
  OBVIOUS
<1>2. IsFiniteSet(D) /\ Cardinality(D) = Len(s)
  BY <1>1, IndicesCount
<1>3. \A i, j \in D : <<i, j>> \in L <=> Goes(s, i, j)
  OBVIOUS
<1>4. /\ \A i \in D : Goes(s, i, i)
      /\ \A i, j \in D : Goes(s, i, j) \/ Goes(s, j, i)
      /\ \A i, j \in D : Goes(s, i, j) /\ Goes(s, j, i) => i = j
      /\ \A i, j, k \in D : Goes(s, i, j) /\ Goes(s, j, k) => Goes(s, i, k)
  BY GoesOrders
<1> HIDE DEF L
<1>5. \A i \in D : Place(s, i) = CountUpTo(D, L, i)
  <2> TAKE i \in D
  <2>1. {j \in D : \/ Before(s[j], s[i])
                   \/ ~Before(s[i], s[j]) /\ j <= i} = {j \in D : <<j, i>> \in L}
    BY <1>3 DEF Goes
  <2> QED
    BY <2>1 DEF Place, CountUpTo
<1> HIDE DEF D
<1>6. /\ \A i \in D : <<i, i>> \in L
      /\ \A i, j \in D : <<i, j>> \in L \/ <<j, i>> \in L
      /\ \A i, j \in D : <<i, j>> \in L /\ <<j, i>> \in L => i = j
      /\ \A i, j, k \in D : <<i, j>> \in L /\ <<j, k>> \in L => <<i, k>> \in L
  BY <1>3, <1>4
<1>7. /\ \A i \in D : CountUpTo(D, L, i) \in 1 .. Cardinality(D)
      /\ \A i, j \in D : <<i, j>> \in L /\ i # j => CountUpTo(D, L, i) < CountUpTo(D, L, j)
      /\ \A r \in 1 .. Cardinality(D) : \E i \in D : CountUpTo(D, L, i) = r
  BY <1>2, <1>6, OrderNumbers
<1>8. 1 .. Cardinality(D) = D
  BY <1>1, <1>2
<1>9. \A i \in D : Place(s, i) \in D
  BY <1>5, <1>7, <1>8
<1>10. \A i, j \in D : Goes(s, i, j) /\ i # j => Place(s, i) < Place(s, j)
  BY <1>3, <1>5, <1>7
<1>11. \A k \in D : \E i \in D : Place(s, i) = k
  BY <1>5, <1>7, <1>8
<1> QED
  BY <1>9, <1>10, <1>11 DEF D

\* No entry comes after one that it should come before.
InOrder(s) == \A k, l \in DOMAIN s : k < l => ~Before(s[l], s[k])

(***************************************************************************)
(* Sorted has the same entries, each as often, in order.                   *)
(***************************************************************************)
LEMMA SortedProperties ==
    ASSUME NEW s \in Seq(Entries)
    PROVE  /\ Sorted(s) \in Seq(Entries) /\ DOMAIN Sorted(s) = DOMAIN s
           /\ InOrder(Sorted(s))
           /\ \A i \in DOMAIN s : Place(s, i) \in DOMAIN s /\ Sorted(s)[Place(s, i)] = s[i]
           /\ \A i, j \in DOMAIN s : Place(s, i) = Place(s, j) => i = j
           /\ \A k \in DOMAIN s : \E i \in DOMAIN s : Place(s, i) = k /\ Sorted(s)[k] = s[i]
<1> DEFINE at(k) == CHOOSE i \in DOMAIN s : Place(s, i) = k
           D == DOMAIN s
           t == Sorted(s)
<1>1. Len(s) \in Nat /\ D = 1 .. Len(s) /\ \A i \in D : i \in Nat /\ s[i] \in Entries
  OBVIOUS
<1>2. /\ \A i \in D : Place(s, i) \in D
      /\ \A i, j \in D : Goes(s, i, j) /\ i # j => Place(s, i) < Place(s, j)
      /\ \A k \in D : \E i \in D : Place(s, i) = k
  BY PlaceNumbers
<1>3. \A i, j \in D : Goes(s, i, j) \/ Goes(s, j, i)
  BY GoesOrders
<1>4. \A i, j \in D : Place(s, i) = Place(s, j) => i = j
  <2>1. SUFFICES ASSUME NEW i \in D, NEW j \in D, i # j
                 PROVE  Place(s, i) # Place(s, j)
    OBVIOUS
  <2>2. Place(s, i) < Place(s, j) \/ Place(s, j) < Place(s, i)
    BY <1>2, <1>3, <2>1
  <2>3. Place(s, i) \in Nat /\ Place(s, j) \in Nat
    BY <1>1, <1>2
  <2> QED
    BY <2>2, <2>3
<1>5. \A k \in D : at(k) \in D /\ Place(s, at(k)) = k
  BY <1>2
<1>6. t = [k \in D |-> s[at(k)]]
  BY DEF Sorted
<1> HIDE DEF at, t
<1>7. \A i \in D : at(Place(s, i)) = i
  BY <1>2, <1>4, <1>5
<1>8. DOMAIN t = D /\ \A k \in D : t[k] = s[at(k)]
  BY <1>6
<1>9. t \in Seq(Entries)
  <2>1. \A k \in D : s[at(k)] \in Entries
    BY <1>1, <1>5
  <2> HIDE DEF D
  <2> QED
    BY <1>1, <1>6, <2>1
<1>10. \A i \in D : t[Place(s, i)] = s[i]
  BY <1>2, <1>7, <1>8
<1>11. InOrder(t)
  <2>1. SUFFICES ASSUME NEW k \in D, NEW l \in D, k < l PROVE ~Before(t[l], t[k])
    BY <1>8 DEF InOrder
  <2>2. t[k] = s[at(k)] /\ t[l] = s[at(l)] /\ at(k) \in D /\ at(l) \in D /\ k \in Nat
        /\ l \in Nat
    BY <1>1, <1>5, <1>8
  <2>3. ~(l < k) /\ at(l) # at(k)
    BY <1>5, <2>1, <2>2
  <2>4. ~Goes(s, at(l), at(k))
    BY <1>2, <1>5, <2>2, <2>3
  <2> QED
    BY <2>2, <2>4 DEF Goes
<1>12. \A k \in D : \E i \in D : Place(s, i) = k /\ t[k] = s[i]
  BY <1>5, <1>8
<1> QED
  BY <1>2, <1>4, <1>8, <1>9, <1>10, <1>11, <1>12 DEF t

-----------------------------------------------------------------------------
(* The rows of the hardware.                                               *)

\* What write_rtable_to_hw makes of a list.
RowsOf(s) ==
    LET active == Keep(s, Active(s))
    IN [r \in 1 .. ROUTE_DEPTH |->
           IF r <= Len(active) THEN RowOf(active[r]) ELSE BlankRow]

LEMMA RowTyped ==
    ASSUME NEW e \in Entries
    PROVE  /\ RowOf(e) \in Rows /\ RowOf(e).ip = e.to.ip /\ RowOf(e).mask = e.to.mask
           /\ RowOf(e).gw = e.to.gw /\ RowOf(e).port = e.to.iface /\ e.to.iface # NoPort
BY EntryFields, NamesAssumption DEF RowOf, Rows

LEMMA BlankTyped ==
    BlankRow \in Rows /\ BlankRow.port = NoPort
BY DEF BlankRow, Rows, Addrs

LEMMA RowsTyped ==
    ASSUME NEW s \in Seq(Entries)
    PROVE  RowsOf(s) \in [1 .. ROUTE_DEPTH -> Rows]
<1> DEFINE active == Keep(s, Active(s))
<1>1. Active(s) \in SUBSET (DOMAIN s)
  BY DEF Active
<1>2. active \in Seq(Entries)
  BY <1>1, KeepProperties
<1>3. RowsOf(s) = [r \in 1 .. ROUTE_DEPTH |->
                     IF r <= Len(active) THEN RowOf(active[r]) ELSE BlankRow]
  BY DEF RowsOf
<1> HIDE DEF active
<1>4. \A r \in 1 .. ROUTE_DEPTH : r <= Len(active) => active[r] \in Entries
  BY <1>2, DepthAssumption
<1>5. \A r \in 1 .. ROUTE_DEPTH :
          (IF r <= Len(active) THEN RowOf(active[r]) ELSE BlankRow) \in Rows
  BY <1>4, RowTyped, BlankTyped
<1> QED
  BY <1>3, <1>5

\* In a sorted list the first match is the longest, because masks are prefixes.
LEMMA FirstIsLongest ==
    ASSUME rtable \in Seq(Entries), InOrder(rtable), NEW dst,
           NEW i \in Matches(dst), \A j \in Matches(dst) : i <= j
    PROVE  LongestMatch(dst) = {i}
<1> DEFINE bits(k) == Cardinality(rtable[k].to.mask)
<1>1. Matches(dst) \subseteq DOMAIN rtable /\ \A j \in DOMAIN rtable : j \in Nat
  BY DEF Matches, Active
<1>2. \A j \in Matches(dst) : bits(j) \in Nat /\ rtable[j] \in Entries
  BY <1>1, EntryFields, AddressFinite, FS_CardinalityType
<1>3. ASSUME NEW j \in Matches(dst)
      PROVE  bits(j) <= bits(i)
  <2> DEFINE x == rtable[i].to.mask
             y == rtable[j].to.mask
  <2>1. x \in Masks /\ y \in Masks /\ x \in Addrs
    BY <1>2, EntryFields
  <2>2. j # i => ~Above(y, x)
    <3>1. j # i => i < j
      BY <1>1
    <3>2. j # i => ~Before(rtable[j], rtable[i])
      BY <1>1, <3>1 DEF InOrder
    <3> QED
      BY <3>2 DEF Before
  <2>3. y \subseteq x
    BY <2>1, <2>2, MasksAssumption, AboveSuperset
  <2>4. Cardinality(y) <= Cardinality(x)
    <3> HIDE DEF x, y
    <3> QED
      BY <2>1, <2>3, AddressFinite, FS_Subset
  <2> QED
    BY <2>4
<1>4. LongestMatch(dst) =
         {k \in Matches(dst) : \A j \in Matches(dst) :
             bits(j) < bits(k) \/ (bits(j) = bits(k) /\ k <= j)}
  BY DEF LongestMatch
<1> HIDE DEF bits
<1>5. i \in LongestMatch(dst)
  <2>1. \A j \in Matches(dst) : bits(j) < bits(i) \/ bits(j) = bits(i)
    BY <1>2, <1>3
  <2> QED
    BY <1>4, <2>1
<1>6. ASSUME NEW k \in LongestMatch(dst)
      PROVE  k = i
  <2>1. k \in Matches(dst) /\ (bits(i) < bits(k) \/ (bits(i) = bits(k) /\ k <= i))
    BY <1>4
  <2>2. ~(bits(i) < bits(k))
    BY <1>2, <1>3, <2>1
  <2>3. i <= k /\ i \in Nat /\ k \in Nat
    BY <1>1, <2>1
  <2> QED
    BY <2>1, <2>2, <2>3
<1> QED
  BY <1>5, <1>6

(***************************************************************************)
(* The row that the hardware takes first is that of the active entry that  *)
(* matches first.                                                          *)
(***************************************************************************)
LEMMA RowsAgree ==
    ASSUME rtable \in Seq(Entries), InOrder(rtable), hwTable = RowsOf(rtable), NEW dst
    PROVE  LET hw == lpm_lookup(dst)
               sw == get_next_hop(dst)
           IN /\ hw.port # NoPort => hw = sw
              /\ Cardinality(Active(rtable)) <= ROUTE_DEPTH => hw.port = sw.port
<1> DEFINE A == Active(rtable)
           active == Keep(rtable, A)
           n == Cardinality(A)
           hw == lpm_lookup(dst)
           sw == get_next_hop(dst)
           first(r) == RowMatches(r, dst) /\ \A q \in 1 .. (r - 1) : ~RowMatches(q, dst)
           result(i) == [hop |-> NextHop(rtable[i].to.gw, dst), port |-> rtable[i].to.iface]
<1>1. A \in SUBSET (DOMAIN rtable)
  BY DEF Active
<1>2. /\ n \in Nat /\ Len(active) = n
      /\ \A i \in A : Rank(A, i) \in DOMAIN active /\ active[Rank(A, i)] = rtable[i]
      /\ \A r \in DOMAIN active : \E i \in A : Rank(A, i) = r /\ active[r] = rtable[i]
      /\ DOMAIN active = 1 .. n
  BY <1>1, KeepProperties
<1>3. \A i, j \in A : i < j => Rank(A, i) < Rank(A, j)
  <2>1. Len(rtable) \in Nat /\ A \in SUBSET (1 .. Len(rtable))
    BY <1>1
  <2> HIDE DEF A
  <2> QED
    BY <2>1, RankNumbers
<1>4. /\ DOMAIN hwTable = 1 .. ROUTE_DEPTH
      /\ \A r \in 1 .. ROUTE_DEPTH :
            hwTable[r] = IF r <= n THEN RowOf(active[r]) ELSE BlankRow
  BY <1>2 DEF RowsOf
<1> HIDE DEF active
<1>5. \A i \in A : i \in DOMAIN rtable /\ rtable[i] \in Entries /\ i \in Nat
  BY <1>1
<1>6. Matches(dst) = {i \in A : SameNetwork(rtable[i].to.ip, dst, rtable[i].to.mask)}
  BY DEF Matches
<1> HIDE DEF A, n
<1>7. ASSUME NEW r \in 1 .. ROUTE_DEPTH, r <= n
      PROVE  \E i \in A : /\ Rank(A, i) = r
                          /\ RowMatches(r, dst) <=> i \in Matches(dst)
                          /\ hwTable[r].gw = rtable[i].to.gw
                          /\ hwTable[r].port = rtable[i].to.iface
                          /\ hwTable[r].port # NoPort
  <2>1. r \in DOMAIN active
    BY <1>2, <1>7, DepthAssumption
  <2>2. PICK i \in A : Rank(A, i) = r /\ active[r] = rtable[i]
    BY <1>2, <2>1
  <2>3. hwTable[r] = RowOf(rtable[i]) /\ rtable[i] \in Entries
    BY <1>4, <1>5, <1>7, <2>2
  <2>4. /\ hwTable[r].ip = rtable[i].to.ip /\ hwTable[r].mask = rtable[i].to.mask
        /\ hwTable[r].gw = rtable[i].to.gw /\ hwTable[r].port = rtable[i].to.iface
        /\ hwTable[r].port # NoPort
    BY <2>3, RowTyped
  <2>5. RowMatches(r, dst) <=> i \in Matches(dst)
    BY <1>6, <2>4 DEF RowMatches
  <2> QED
    BY <2>2, <2>4, <2>5
<1>8. \A i \in A : Rank(A, i) \in 1 .. n
  BY <1>2
<1>9. \A i, j \in A : Rank(A, i) = Rank(A, j) => i = j
  <2>1. SUFFICES ASSUME NEW i \in A, NEW j \in A, i # j PROVE Rank(A, i) # Rank(A, j)
    OBVIOUS
  <2>2. i < j \/ j < i
    BY <1>5, <2>1
  <2>3. Rank(A, i) \in Nat /\ Rank(A, j) \in Nat
    BY <1>2, <1>8
  <2> QED
    BY <1>3, <2>2, <2>3
\* A row that holds a matching entry matches.
<1>10. \A i \in Matches(dst) : Rank(A, i) \in 1 .. ROUTE_DEPTH => RowMatches(Rank(A, i), dst)
  <2>1. SUFFICES ASSUME NEW i \in Matches(dst), Rank(A, i) \in 1 .. ROUTE_DEPTH
                 PROVE  RowMatches(Rank(A, i), dst)
    OBVIOUS
  <2>2. i \in A /\ Rank(A, i) <= n
    BY <1>2, <1>6, <1>8
  <2>3. PICK k \in A : Rank(A, k) = Rank(A, i)
        /\ (RowMatches(Rank(A, i), dst) <=> k \in Matches(dst))
    BY <1>7, <2>1, <2>2
  <2> QED
    BY <1>9, <2>2, <2>3
\* The first row that matches holds the longest match.
<1>11. ASSUME NEW r \in 1 .. ROUTE_DEPTH, r <= n, first(r)
       PROVE  \E i \in A : /\ LongestMatch(dst) = {i}
                           /\ hwTable[r].gw = rtable[i].to.gw
                           /\ hwTable[r].port = rtable[i].to.iface
                           /\ hwTable[r].port # NoPort
  <2>1. PICK i \in A : /\ Rank(A, i) = r
                       /\ RowMatches(r, dst) <=> i \in Matches(dst)
                       /\ hwTable[r].gw = rtable[i].to.gw
                       /\ hwTable[r].port = rtable[i].to.iface
                       /\ hwTable[r].port # NoPort
    BY <1>7, <1>11
  <2>2. i \in Matches(dst)
    BY <1>11, <2>1
  <2>3. ASSUME NEW j \in Matches(dst)
        PROVE  i <= j
    <3>1. j \in A /\ i \in Nat /\ j \in Nat
      BY <1>5, <1>6
    <3>2. SUFFICES ASSUME j < i PROVE FALSE
      BY <3>1
    <3>3. Rank(A, j) < r /\ Rank(A, j) \in 1 .. n
      BY <1>3, <1>8, <2>1, <3>1, <3>2
    <3>4. Rank(A, j) \in 1 .. ROUTE_DEPTH /\ Rank(A, j) \in 1 .. (r - 1)
      BY <1>2, <3>3, DepthAssumption
    <3> QED
      BY <1>10, <1>11, <3>4
  <2>4. LongestMatch(dst) = {i}
    BY <2>2, <2>3, FirstIsLongest
  <2> QED
    BY <2>1, <2>4
<1>12. lpm_hit(dst) => \E r \in 1 .. ROUTE_DEPTH : first(r)
  <2> DEFINE R == {r \in 1 .. ROUTE_DEPTH : RowMatches(r, dst)}
  <2>1. SUFFICES ASSUME lpm_hit(dst) PROVE \E r \in 1 .. ROUTE_DEPTH : first(r)
    OBVIOUS
  <2>2. R # {} /\ R \in SUBSET (1 .. ROUTE_DEPTH)
    BY <1>4, <2>1 DEF lpm_hit
  <2>3. PICK r \in R : \A q \in R : r <= q
    <3> HIDE DEF R
    <3> QED
      BY <2>2, DepthAssumption, LeastIndex
  <2>4. \A q \in 1 .. (r - 1) : q \in 1 .. ROUTE_DEPTH /\ ~(r <= q)
    BY DepthAssumption
  <2>5. \A q \in 1 .. (r - 1) : ~RowMatches(q, dst)
    BY <2>3, <2>4
  <2> QED
    BY <2>5
<1>13. lpm_hit(dst) => \E r \in 1 .. ROUTE_DEPTH :
           first(r) /\ hw = [hop |-> NextHop(hwTable[r].gw, dst), port |-> hwTable[r].port]
  <2> DEFINE c == CHOOSE r \in 1 .. ROUTE_DEPTH : first(r)
  <2>1. SUFFICES ASSUME lpm_hit(dst)
                 PROVE  first(c) /\ c \in 1 .. ROUTE_DEPTH
                        /\ hw = [hop |-> NextHop(hwTable[c].gw, dst), port |-> hwTable[c].port]
    OBVIOUS
  <2>2. first(c) /\ c \in 1 .. ROUTE_DEPTH
    <3> HIDE DEF first
    <3> QED
      BY <1>12, <2>1
  <2>3. hw = [hop |-> NextHop(hwTable[c].gw, dst), port |-> hwTable[c].port]
    BY <1>4, <2>1 DEF lpm_lookup
  <2> QED
    BY <2>2, <2>3
<1>14. ~lpm_hit(dst) => hw = Miss
  BY DEF lpm_lookup
<1>15. \A i : LongestMatch(dst) = {i} => sw = result(i)
  <2>1. TAKE i
  <2>2. HAVE LongestMatch(dst) = {i}
  <2>3. (CHOOSE k \in LongestMatch(dst) : TRUE) = i
    BY <2>2
  <2> QED
    BY <2>2, <2>3 DEF get_next_hop
<1> HIDE DEF hw, sw, first
<1>16. hw.port # NoPort => hw = sw
  <2>1. SUFFICES ASSUME hw.port # NoPort PROVE hw = sw
    OBVIOUS
  <2>2. lpm_hit(dst)
    BY <1>14, <2>1 DEF Miss
  <2>3. PICK r \in 1 .. ROUTE_DEPTH :
            first(r) /\ hw = [hop |-> NextHop(hwTable[r].gw, dst), port |-> hwTable[r].port]
    BY <1>13, <2>2
  <2>4. hw.port = hwTable[r].port
    BY <2>3
  <2>5. r <= n
    BY <1>4, <2>1, <2>4, BlankTyped
  <2>6. PICK i \in A : /\ LongestMatch(dst) = {i}
                       /\ hwTable[r].gw = rtable[i].to.gw
                       /\ hwTable[r].port = rtable[i].to.iface
    BY <1>11, <2>3, <2>5
  <2> QED
    BY <1>15, <2>3, <2>6
<1>17. n <= ROUTE_DEPTH => hw.port = sw.port
  <2>1. SUFFICES ASSUME n <= ROUTE_DEPTH, hw.port = NoPort PROVE sw.port = NoPort
    BY <1>16
  <2>2. ASSUME NEW i \in Matches(dst) PROVE FALSE
    <3>1. i \in A /\ Rank(A, i) \in 1 .. n /\ Rank(A, i) \in 1 .. ROUTE_DEPTH
      BY <1>2, <1>6, <1>8, <2>1, DepthAssumption
    <3>2. RowMatches(Rank(A, i), dst)
      BY <1>10, <3>1
    <3>3. lpm_hit(dst)
      BY <1>4, <3>1, <3>2 DEF lpm_hit
    <3>4. PICK r \in 1 .. ROUTE_DEPTH :
              first(r) /\ hw = [hop |-> NextHop(hwTable[r].gw, dst), port |-> hwTable[r].port]
      BY <1>13, <3>3
    <3>5. r <= n
      <4>1. Rank(A, i) \notin 1 .. (r - 1)
        BY <3>2, <3>4 DEF first
      <4> QED
        BY <1>2, <3>1, <4>1, DepthAssumption
    <3>6. hwTable[r].port # NoPort
      BY <1>11, <3>4, <3>5
    <3> QED
      BY <2>1, <3>4, <3>6
  <2>3. LongestMatch(dst) = {}
    BY <2>2 DEF LongestMatch
  <2> QED
    BY <2>3 DEF get_next_hop, sw, Miss
<1> QED
  BY <1>16, <1>17 DEF hw, sw, n, A

-----------------------------------------------------------------------------
(* The inductive invariant.                                                *)

(***************************************************************************)
(* What is learned has a masked address and is active: it is removed when  *)
(* its interface goes down, not put aside.                                 *)
(***************************************************************************)
Good(e) == ~e.is_static => e.is_active /\ e.to.ip \subseteq e.to.mask

GoodEntries == {e \in Entries : Good(e)}

TableInv ==
    /\ rtable \in Seq(GoodEntries)
    /\ booted => InOrder(rtable) /\ hwTable = RowsOf(rtable)
    /\ ~booted => \A i \in DOMAIN rtable : rtable[i].is_static

StateInv ==
    /\ booted \in BOOLEAN
    /\ hwTable \in [1 .. ROUTE_DEPTH -> Rows]
    /\ ifUp \subseteq Ifaces

IInv == StateInv /\ TableInv

LEMMA GoodSequences ==
    ASSUME NEW s \in Seq(Entries)
    PROVE  s \in Seq(GoodEntries) <=> \A i \in DOMAIN s : Good(s[i])
<1>1. ASSUME \A i \in DOMAIN s : Good(s[i])
      PROVE  s \in Seq(GoodEntries)
  <2>1. Len(s) \in Nat /\ s \in [1 .. Len(s) -> Entries] /\ DOMAIN s = 1 .. Len(s)
    OBVIOUS
  <2>2. s \in [1 .. Len(s) -> GoodEntries]
    BY <1>1, <2>1 DEF GoodEntries
  <2> QED
    BY <2>1, <2>2
<1>2. ASSUME s \in Seq(GoodEntries)
      PROVE  \A i \in DOMAIN s : Good(s[i])
  <2>1. \A i \in DOMAIN s : s[i] \in GoodEntries
    BY <1>2
  <2> QED
    BY <2>1 DEF GoodEntries
<1> QED
  BY <1>1, <1>2

LEMMA GoodAreEntries ==
    ASSUME NEW s \in Seq(GoodEntries)
    PROVE  s \in Seq(Entries)
<1>1. Len(s) \in Nat /\ s \in [1 .. Len(s) -> GoodEntries]
  OBVIOUS
<1>2. s \in [1 .. Len(s) -> Entries]
  BY <1>1 DEF GoodEntries
<1> QED
  BY <1>1, <1>2

\* Lists of good entries stay such lists: sorted, ...
LEMMA SortedGood ==
    ASSUME NEW s \in Seq(GoodEntries)
    PROVE  Sorted(s) \in Seq(GoodEntries)
<1>1. s \in Seq(Entries)
  BY GoodAreEntries
<1>2. /\ Sorted(s) \in Seq(Entries) /\ DOMAIN Sorted(s) = DOMAIN s
      /\ \A k \in DOMAIN s : \E i \in DOMAIN s : Sorted(s)[k] = s[i]
  BY <1>1, SortedProperties
<1>3. \A i \in DOMAIN s : Good(s[i])
  BY <1>1, GoodSequences
<1>4. \A k \in DOMAIN Sorted(s) : Good(Sorted(s)[k])
  BY <1>2, <1>3
<1> QED
  BY <1>2, <1>4, GoodSequences

\* ... and when all that are kept of a list are good.
LEMMA KeptGood ==
    ASSUME NEW s \in Seq(Entries), NEW K \in SUBSET (DOMAIN s), \A i \in K : Good(s[i])
    PROVE  Keep(s, K) \in Seq(GoodEntries)
<1>1. /\ Keep(s, K) \in Seq(Entries)
      /\ \A j \in DOMAIN Keep(s, K) : \E i \in K : Keep(s, K)[j] = s[i]
  BY KeepProperties
<1>2. \A j \in DOMAIN Keep(s, K) : Good(Keep(s, K)[j])
  BY <1>1
<1> QED
  BY <1>1, <1>2, GoodSequences

LEMMA StaticGood ==
    ASSUME NEW d \in StaticRoutes
    PROVE  Static(d) \in GoodEntries /\ Static(d) \in Entries /\ Static(d).is_static
BY RoutesAssumption DEF Static, GoodEntries, Good, Entries

LEMMA LearnedGood ==
    ASSUME NEW d \in LearnedRoutes
    PROVE  Learned(d) \in GoodEntries
<1>1. d \in Destinations /\ d.ip \subseteq d.mask
  BY RoutesAssumption
<1>2. Learned(d) \in Entries
  BY <1>1 DEF Learned, Entries
<1>3. Good(Learned(d))
  BY <1>1 DEF Learned, Good
<1> QED
  BY <1>2, <1>3 DEF GoodEntries

(***************************************************************************)
(* Sorting a good list and writing it to the hardware establishes it all.  *)
(***************************************************************************)
LEMMA ModifiedKeepsInv ==
    ASSUME NEW s \in Seq(GoodEntries), trigger_rtable_modified(s), ifUp' \subseteq Ifaces
    PROVE  IInv'
<1>1. rtable' = Sorted(s) /\ booted' = TRUE /\ hwTable' = RowsOf(rtable')
  BY DEF trigger_rtable_modified, write_rtable_to_hw, RowsOf
<1>2. s \in Seq(Entries)
  BY GoodAreEntries
<1>3. rtable' \in Seq(GoodEntries) /\ rtable' \in Seq(Entries) /\ InOrder(rtable')
  BY <1>1, <1>2, SortedGood, SortedProperties
<1>4. hwTable' \in [1 .. ROUTE_DEPTH -> Rows]
  BY <1>1, <1>3, RowsTyped
<1> QED
  BY <1>1, <1>3, <1>4 DEF IInv, StateInv, TableInv

-----------------------------------------------------------------------------
(* The lists that the operations make.                                     *)

\* s carries at least as many static routes to d as r does.
CopyPlaces(s, d) == {i \in Statics(s) : s[i].to = d}

LEMMA CopiesFinite ==
    ASSUME NEW s \in Seq(Entries), NEW d
    PROVE  /\ CopyPlaces(s, d) \in SUBSET (DOMAIN s) /\ IsFiniteSet(CopyPlaces(s, d))
           /\ Copies(s, d) = Cardinality(CopyPlaces(s, d)) /\ Copies(s, d) \in Nat
<1>1. CopyPlaces(s, d) \in SUBSET (DOMAIN s)
  BY DEF CopyPlaces, Statics
<1>2. IsFiniteSet(DOMAIN s)
  <2>1. Len(s) \in Nat /\ DOMAIN s = 1 .. Len(s)
    OBVIOUS
  <2> QED
    BY <2>1, IndicesCount
<1>3. Copies(s, d) = Cardinality(CopyPlaces(s, d))
  BY DEF Copies, CopyPlaces
<1> QED
  BY <1>1, <1>2, <1>3, FS_Subset, FS_CardinalityType

(***************************************************************************)
(* When each static route to d of s has a place of its own in t, t has at  *)
(* least as many.                                                          *)
(***************************************************************************)
LEMMA CopiesFollow ==
    ASSUME NEW s \in Seq(Entries), NEW t \in Seq(Entries), NEW d,
           NEW f \in [CopyPlaces(s, d) -> DOMAIN t],
           \A i \in CopyPlaces(s, d) : t[f[i]] = s[i],
           \A i, j \in CopyPlaces(s, d) : f[i] = f[j] => i = j
    PROVE  Copies(t, d) >= Copies(s, d)
<1>1. \A i \in CopyPlaces(s, d) : f[i] \in CopyPlaces(t, d)
  BY DEF CopyPlaces, Statics
<1>2. f \in [CopyPlaces(s, d) -> CopyPlaces(t, d)]
  BY <1>1
<1>3. f \in Injection(CopyPlaces(s, d), CopyPlaces(t, d))
  BY <1>2 DEF Injection, IsInjective
<1>4. Cardinality(CopyPlaces(s, d)) <= Cardinality(CopyPlaces(t, d))
  BY <1>3, CopiesFinite, FS_Injection
<1> QED
  BY <1>4, CopiesFinite

\* Sorting, ...
LEMMA SortedCopies ==
    ASSUME NEW s \in Seq(Entries), NEW d
    PROVE  Copies(Sorted(s), d) >= Copies(s, d)
<1> DEFINE f == [i \in CopyPlaces(s, d) |-> Place(s, i)]
<1>1. CopyPlaces(s, d) \in SUBSET (DOMAIN s)
  BY CopiesFinite
<1>2. /\ Sorted(s) \in Seq(Entries)
      /\ \A i \in DOMAIN s : Place(s, i) \in DOMAIN Sorted(s)
         /\ Sorted(s)[Place(s, i)] = s[i]
      /\ \A i, j \in DOMAIN s : Place(s, i) = Place(s, j) => i = j
  BY SortedProperties
<1>3. f \in [CopyPlaces(s, d) -> DOMAIN Sorted(s)]
  BY <1>1, <1>2
<1>4. \A i \in CopyPlaces(s, d) : Sorted(s)[f[i]] = s[i]
  BY <1>1, <1>2
<1>5. \A i, j \in CopyPlaces(s, d) : f[i] = f[j] => i = j
  BY <1>1, <1>2
<1> HIDE DEF f
<1> QED
  BY <1>2, <1>3, <1>4, <1>5, CopiesFollow

\* ... removing others, ...
LEMMA KeptCopies ==
    ASSUME NEW s \in Seq(Entries), NEW K \in SUBSET (DOMAIN s), NEW d,
           CopyPlaces(s, d) \subseteq K
    PROVE  Copies(Keep(s, K), d) >= Copies(s, d)
<1> DEFINE f == [i \in CopyPlaces(s, d) |-> Rank(K, i)]
           t == Keep(s, K)
<1>1. /\ t \in Seq(Entries)
      /\ \A i \in K : Rank(K, i) \in DOMAIN t /\ t[Rank(K, i)] = s[i]
  BY KeepProperties
<1>2. Len(s) \in Nat /\ K \in SUBSET (1 .. Len(s))
  OBVIOUS
<1>3. /\ Cardinality(K) \in Nat
      /\ \A i \in K : i \in Nat /\ Rank(K, i) \in 1 .. Cardinality(K)
      /\ \A i, j \in K : i < j => Rank(K, i) < Rank(K, j)
  <2> HIDE DEF f
  <2>1. /\ Cardinality(K) \in 0 .. Len(s)
        /\ \A i \in K : Rank(K, i) \in 1 .. Cardinality(K)
        /\ \A i, j \in K : i < j => Rank(K, i) < Rank(K, j)
    BY <1>2, RankNumbers
  <2>2. \A i \in K : i \in Nat
    BY <1>2
  <2> QED
    BY <2>1, <2>2
<1> HIDE DEF t
<1>3a. \A i, j \in K : Rank(K, i) = Rank(K, j) => i = j
  <2>1. SUFFICES ASSUME NEW i \in K, NEW j \in K, i # j PROVE Rank(K, i) # Rank(K, j)
    OBVIOUS
  <2>2. i < j \/ j < i
    BY <1>3, <2>1
  <2>3. Rank(K, i) \in Nat /\ Rank(K, j) \in Nat
    BY <1>3
  <2> QED
    BY <1>3, <2>2, <2>3
<1>5. f \in [CopyPlaces(s, d) -> DOMAIN t]
  BY <1>1
<1>6. \A i \in CopyPlaces(s, d) : t[f[i]] = s[i]
  BY <1>1
<1>7. \A i, j \in CopyPlaces(s, d) : f[i] = f[j] => i = j
  BY <1>3a
<1> HIDE DEF f
<1>8. Copies(t, d) >= Copies(s, d)
  BY <1>1, <1>5, <1>6, <1>7, CopiesFollow
<1> QED
  BY <1>8 DEF t

\* ... and a list that begins with one, or has the same routes at the same
\* places, take no static route away.
LEMMA SamePlaceCopies ==
    ASSUME NEW s \in Seq(Entries), NEW t \in Seq(Entries), NEW d,
           \A i \in DOMAIN s : /\ i \in DOMAIN t /\ t[i].to = s[i].to
                               /\ t[i].is_static = s[i].is_static
    PROVE  Copies(t, d) >= Copies(s, d)
<1>1. CopyPlaces(s, d) \subseteq CopyPlaces(t, d)
  BY DEF CopyPlaces, Statics
<1>2. Cardinality(CopyPlaces(s, d)) <= Cardinality(CopyPlaces(t, d))
  BY <1>1, CopiesFinite, FS_Subset
<1> QED
  BY <1>2, CopiesFinite

-----------------------------------------------------------------------------
(* One operation at a time: what it hands to trigger_rtable_modified is a  *)
(* list of good entries and, "ip route del" apart, has no static route     *)
(* less than the table.                                                    *)

Stays(s) == \A d : Copies(s, d) >= Copies(rtable, d)

LEMMA AddedList ==
    ASSUME IInv, NEW d \in StaticRoutes
    PROVE  /\ node_push_back(rtable, Static(d)) \in Seq(GoodEntries)
           /\ Stays(node_push_back(rtable, Static(d)))
<1> DEFINE x == node_push_back(rtable, Static(d))
<1>1. rtable \in Seq(GoodEntries) /\ rtable \in Seq(Entries) /\ Static(d) \in GoodEntries
  BY StaticGood, GoodAreEntries DEF IInv, TableInv
<1>2. x \in Seq(GoodEntries) /\ x \in Seq(Entries)
  <2>1. x \in Seq(GoodEntries)
    BY <1>1 DEF node_push_back
  <2> QED
    BY <2>1, GoodAreEntries
<1>3. \A i \in DOMAIN rtable : i \in DOMAIN x /\ x[i] = rtable[i]
  BY <1>1 DEF node_push_back
<1> HIDE DEF x
<1>4. \A e : Copies(x, e) >= Copies(rtable, e)
  BY <1>1, <1>2, <1>3, SamePlaceCopies
<1> QED
  BY <1>2, <1>4 DEF x, Stays

LEMMA DeletedList ==
    ASSUME IInv, NEW ip, NEW mask
    PROVE  LET gone == {i \in DOMAIN rtable : /\ rtable[i].to.ip = ip
                                              /\ rtable[i].to.mask = mask}
           IN /\ node_remove(rtable, gone) \in Seq(GoodEntries)
              /\ \A d : \/ d.ip = ip /\ d.mask = mask
                        \/ Copies(node_remove(rtable, gone), d) >= Copies(rtable, d)
<1> DEFINE gone == {i \in DOMAIN rtable : rtable[i].to.ip = ip /\ rtable[i].to.mask = mask}
           K == DOMAIN rtable \ gone
<1>1. rtable \in Seq(Entries) /\ K \in SUBSET (DOMAIN rtable)
  BY GoodAreEntries DEF IInv, TableInv
<1>2. \A i \in K : Good(rtable[i])
  BY <1>1, GoodSequences DEF IInv, TableInv
<1>3. \A d : (d.ip = ip /\ d.mask = mask) \/ CopyPlaces(rtable, d) \subseteq K
  BY DEF CopyPlaces, Statics
<1> HIDE DEF K
<1>4. Keep(rtable, K) \in Seq(GoodEntries)
  BY <1>1, <1>2, KeptGood
<1>5. \A d : (d.ip = ip /\ d.mask = mask) \/ Copies(Keep(rtable, K), d) >= Copies(rtable, d)
  BY <1>1, <1>3, KeptCopies
<1>6. Keep(rtable, K) = node_remove(rtable, gone)
  BY DEF node_remove, K
<1> QED
  BY <1>4, <1>5, <1>6

LEMMA FlaggedList ==
    ASSUME IInv, NEW iface, NEW flag \in BOOLEAN
    PROVE  /\ SetActive(iface, flag) \in Seq(Entries)
           /\ DOMAIN SetActive(iface, flag) = DOMAIN rtable
           /\ \A i \in DOMAIN rtable :
                 /\ SetActive(iface, flag)[i].to = rtable[i].to
                 /\ SetActive(iface, flag)[i].is_static = rtable[i].is_static
                 /\ SetActive(iface, flag)[i].is_active =
                       IF i \in Through(iface) THEN flag ELSE rtable[i].is_active
           /\ Stays(SetActive(iface, flag))
<1> DEFINE x == SetActive(iface, flag)
           at(i) == IF i \in Through(iface) THEN [rtable[i] EXCEPT !.is_active = flag]
                                            ELSE rtable[i]
<1>1. rtable \in Seq(Entries) /\ Len(rtable) \in Nat /\ DOMAIN rtable = 1 .. Len(rtable)
  BY GoodAreEntries DEF IInv, TableInv
<1>2. \A i \in DOMAIN rtable :
          /\ at(i) \in Entries /\ at(i).to = rtable[i].to
          /\ at(i).is_static = rtable[i].is_static
          /\ at(i).is_active = IF i \in Through(iface) THEN flag ELSE rtable[i].is_active
  <2>1. TAKE i \in DOMAIN rtable
  <2>2. rtable[i] \in Entries
    BY <1>1
  <2> QED
    BY <2>2 DEF Entries
<1>3. x = [i \in DOMAIN rtable |-> at(i)]
  BY DEF SetActive
<1> HIDE DEF at, x
<1>4. x \in Seq(Entries) /\ DOMAIN x = DOMAIN rtable
      /\ \A i \in DOMAIN rtable : x[i] = at(i)
  <2>1. x \in [1 .. Len(rtable) -> Entries]
    BY <1>1, <1>2, <1>3
  <2>2. x \in Seq(Entries)
    BY <1>1, <2>1
  <2> QED
    BY <1>3, <2>2
<1>5. \A i \in DOMAIN rtable :
          /\ i \in DOMAIN x /\ x[i].to = rtable[i].to
             /\ x[i].is_static = rtable[i].is_static
  BY <1>2, <1>4
<1>6. \A d : Copies(x, d) >= Copies(rtable, d)
  BY <1>1, <1>4, <1>5, SamePlaceCopies
<1> QED
  BY <1>2, <1>4, <1>6 DEF x, Stays

LEMMA UpList ==
    ASSUME IInv, NEW iface
    PROVE  SetActive(iface, TRUE) \in Seq(GoodEntries) /\ Stays(SetActive(iface, TRUE))
<1> DEFINE x == SetActive(iface, TRUE)
<1>1. /\ x \in Seq(Entries) /\ DOMAIN x = DOMAIN rtable /\ Stays(x)
      /\ \A i \in DOMAIN rtable :
            /\ x[i].to = rtable[i].to /\ x[i].is_static = rtable[i].is_static
            /\ x[i].is_active = IF i \in Through(iface) THEN TRUE ELSE rtable[i].is_active
  BY FlaggedList
<1>2. \A i \in DOMAIN rtable : Good(rtable[i])
  BY GoodAreEntries, GoodSequences DEF IInv, TableInv
<1> HIDE DEF x
<1>3. \A i \in DOMAIN x : Good(x[i])
  BY <1>1, <1>2 DEF Good
<1>4. x \in Seq(GoodEntries)
  BY <1>1, <1>3, GoodSequences
<1> QED
  BY <1>1, <1>4 DEF x

LEMMA DownList ==
    ASSUME IInv, NEW iface
    PROVE  deactivate_routes(iface) \in Seq(GoodEntries) /\ Stays(deactivate_routes(iface))
<1> DEFINE x == SetActive(iface, FALSE)
           K == DOMAIN x \ (Through(iface) \ Statics(rtable))
           y == Keep(x, K)
<1>1. /\ x \in Seq(Entries) /\ DOMAIN x = DOMAIN rtable /\ Stays(x)
      /\ \A i \in DOMAIN rtable :
            /\ x[i].to = rtable[i].to /\ x[i].is_static = rtable[i].is_static
            /\ x[i].is_active = IF i \in Through(iface) THEN FALSE ELSE rtable[i].is_active
  BY FlaggedList
<1>2. rtable \in Seq(Entries) /\ \A i \in DOMAIN rtable : Good(rtable[i])
  BY GoodAreEntries, GoodSequences DEF IInv, TableInv
<1> HIDE DEF x
<1>3. \A i \in K : i \in Statics(rtable) \/ i \notin Through(iface)
  BY <1>1
<1>4. \A i \in K : Good(x[i])
  BY <1>1, <1>2, <1>3 DEF Good, Statics
<1>5. Statics(x) = Statics(rtable)
  BY <1>1 DEF Statics
<1>6. \A d : CopyPlaces(x, d) \subseteq K
  BY <1>1, <1>5 DEF CopyPlaces, Statics
<1>7. K \in SUBSET (DOMAIN x) /\ y = deactivate_routes(iface)
  BY DEF deactivate_routes, node_remove, x
<1> HIDE DEF K
<1>8. y \in Seq(GoodEntries)
  BY <1>1, <1>4, <1>7, KeptGood
<1>9. ASSUME NEW d
      PROVE  Copies(y, d) >= Copies(rtable, d)
  <2>1. Copies(y, d) >= Copies(x, d)
    BY <1>1, <1>6, <1>7, KeptCopies
  <2>2. Copies(x, d) >= Copies(rtable, d)
    BY <1>1 DEF Stays
  <2>3. Copies(x, d) \in Nat /\ Copies(rtable, d) \in Nat /\ Copies(y, d) \in Nat
    BY <1>1, <1>2, <1>8, CopiesFinite, GoodAreEntries
  <2> HIDE DEF y
  <2> QED
    BY <2>1, <2>2, <2>3
<1> QED
  BY <1>7, <1>8, <1>9 DEF Stays

LEMMA ComputedList ==
    ASSUME IInv, NEW n \in Nat, NEW routes \in [1 .. n -> LearnedRoutes]
    PROVE  LET x == Keep(rtable, Statics(rtable))
                       \o [i \in DOMAIN routes |-> Learned(routes[i])]
           IN x \in Seq(GoodEntries) /\ Stays(x)
<1> DEFINE K == Statics(rtable)
           a == Keep(rtable, K)
           b == [i \in DOMAIN routes |-> Learned(routes[i])]
           x == a \o b
<1>1. /\ rtable \in Seq(Entries) /\ K \in SUBSET (DOMAIN rtable)
      /\ \A i \in K : Good(rtable[i])
  BY GoodAreEntries, GoodSequences DEF IInv, TableInv, Statics
<1>2. \A d : CopyPlaces(rtable, d) \subseteq K
  BY DEF CopyPlaces
<1> HIDE DEF K
<1>3. a \in Seq(GoodEntries) /\ a \in Seq(Entries)
  BY <1>1, KeptGood, GoodAreEntries
<1>4. b \in Seq(GoodEntries)
  <2>1. DOMAIN routes = 1 .. n /\ \A i \in 1 .. n : Learned(routes[i]) \in GoodEntries
    BY LearnedGood
  <2>2. b \in [1 .. n -> GoodEntries]
    BY <2>1
  <2> HIDE DEF b
  <2> QED
    BY <2>2
<1>5. \A d : Copies(a, d) >= Copies(rtable, d)
  BY <1>1, <1>2, KeptCopies
<1> HIDE DEF a, b
<1>6. x \in Seq(GoodEntries) /\ x \in Seq(Entries)
  BY <1>3, <1>4, GoodAreEntries
<1>7. \A i \in DOMAIN a : i \in DOMAIN x /\ x[i] = a[i]
  BY <1>3, <1>4
<1> HIDE DEF x
<1>8. \A d : Copies(x, d) >= Copies(a, d)
  BY <1>3, <1>6, <1>7, SamePlaceCopies
<1>9. \A d : Copies(x, d) \in Nat /\ Copies(a, d) \in Nat /\ Copies(rtable, d) \in Nat
  BY <1>1, <1>3, <1>6, CopiesFinite
<1>10. \A d : Copies(x, d) >= Copies(rtable, d)
  BY <1>5, <1>8, <1>9
<1> QED
  BY <1>6, <1>10 DEF x, a, b, K, Stays

-----------------------------------------------------------------------------
(* The theorems.                                                           *)

LEMMA InitInv == Init => IInv
<1>1. SUFFICES ASSUME Init PROVE IInv
  OBVIOUS
<1>2. PICK file \in SeqsUpTo(StaticRoutes, MAX_ROUTES) :
          rtable = [i \in DOMAIN file |-> Static(file[i])]
  BY <1>1 DEF Init
<1>3. PICK n \in 0 .. MAX_ROUTES : file \in [1 .. n -> StaticRoutes]
  BY DEF SeqsUpTo
<1>4. n \in Nat /\ DOMAIN file = 1 .. n
  BY <1>3, DepthAssumption
<1>5. \A i \in 1 .. n : Static(file[i]) \in GoodEntries /\ Static(file[i]).is_static
  BY <1>3, StaticGood
<1>6. rtable \in Seq(GoodEntries) /\ \A i \in DOMAIN rtable : rtable[i].is_static
  <2>1. rtable \in [1 .. n -> GoodEntries]
    BY <1>2, <1>4, <1>5
  <2>2. rtable \in Seq(GoodEntries)
    BY <1>4, <2>1
  <2> QED
    BY <1>2, <1>4, <1>5, <2>2
<1>7. hwTable \in [1 .. ROUTE_DEPTH -> Rows]
  <2>1. hwTable = [r \in 1 .. ROUTE_DEPTH |->
                      IF r <= Len(rtable) THEN RowOf(rtable[r]) ELSE BlankRow]
    BY <1>1 DEF Init
  <2>2. \A r \in 1 .. ROUTE_DEPTH : r <= Len(rtable) => rtable[r] \in Entries
    BY <1>6, GoodAreEntries, DepthAssumption
  <2> QED
    BY <2>1, <2>2, RowTyped, BlankTyped
<1> QED
  BY <1>1, <1>6, <1>7 DEF Init, IInv, StateInv, TableInv

(***************************************************************************)
(* A step hands trigger_rtable_modified a list of good entries, and one    *)
(* with every static route, unless it is "ip route del" for its network.   *)
(***************************************************************************)
Modifies(s) ==
    /\ s \in Seq(GoodEntries) /\ trigger_rtable_modified(s) /\ ifUp' \subseteq Ifaces
    /\ \A d \in StaticRoutes :
          Copies(s, d) >= Copies(rtable, d) \/ cli_ip_route_del(d.ip, d.mask)

LEMMA StepModifies ==
    ASSUME IInv, Next
    PROVE  \E s : Modifies(s)
<1>0. ifUp \subseteq Ifaces
  BY DEF IInv, StateInv
<1>1. ASSUME NEW d \in StaticRoutes, cli_ip_route_add(d)
      PROVE  Modifies(node_push_back(rtable, Static(d)))
  <2>1. /\ trigger_rtable_modified(node_push_back(rtable, Static(d)))
        /\ ifUp' \subseteq Ifaces
    BY <1>0, <1>1 DEF cli_ip_route_add
  <2> QED
    BY <2>1, AddedList DEF Modifies, Stays
<1>2. ASSUME NEW e \in StaticRoutes, cli_ip_route_del(e.ip, e.mask)
      PROVE  Modifies(node_remove(rtable, {i \in DOMAIN rtable :
                 rtable[i].to.ip = e.ip /\ rtable[i].to.mask = e.mask}))
  <2> DEFINE s == node_remove(rtable, {i \in DOMAIN rtable :
                      rtable[i].to.ip = e.ip /\ rtable[i].to.mask = e.mask})
  <2>1. trigger_rtable_modified(s) /\ ifUp' \subseteq Ifaces
    BY <1>0, <1>2 DEF cli_ip_route_del
  <2>2. /\ s \in Seq(GoodEntries)
        /\ \A d : (d.ip = e.ip /\ d.mask = e.mask) \/ Copies(s, d) >= Copies(rtable, d)
    BY DeletedList
  <2> HIDE DEF s
  <2>3. ASSUME NEW d \in StaticRoutes, d.ip = e.ip, d.mask = e.mask
        PROVE  cli_ip_route_del(d.ip, d.mask)
    BY <1>2, <2>3
  <2>4. Modifies(s)
    BY <2>1, <2>2, <2>3 DEF Modifies
  <2> QED
    BY <2>4 DEF s
<1>3. ASSUME NEW iface \in Ifaces, iface_up(iface)
      PROVE  Modifies(SetActive(iface, TRUE))
  <2>1. trigger_rtable_modified(SetActive(iface, TRUE)) /\ ifUp' \subseteq Ifaces
    BY <1>0, <1>3 DEF iface_up
  <2> QED
    BY <2>1, UpList DEF Modifies, Stays
<1>4. ASSUME NEW iface \in Ifaces, iface_down(iface)
      PROVE  Modifies(deactivate_routes(iface))
  <2>1. trigger_rtable_modified(deactivate_routes(iface)) /\ ifUp' \subseteq Ifaces
    BY <1>0, <1>4 DEF iface_down
  <2> QED
    BY <2>1, DownList DEF Modifies, Stays
<1>5. ASSUME NEW n \in 0 .. MAX_ROUTES, NEW routes \in [1 .. n -> LearnedRoutes],
             dijkstra_thread(routes)
      PROVE  Modifies(Keep(rtable, Statics(rtable))
                          \o [i \in DOMAIN routes |-> Learned(routes[i])])
  <2> DEFINE s == Keep(rtable, Statics(rtable))
                      \o [i \in DOMAIN routes |-> Learned(routes[i])]
  <2>1. trigger_rtable_modified(s) /\ ifUp' \subseteq Ifaces
    BY <1>0, <1>5 DEF dijkstra_thread
  <2>2. n \in Nat
    BY DepthAssumption
  <2>3. s \in Seq(GoodEntries) /\ Stays(s)
    BY <2>2, ComputedList
  <2> HIDE DEF s
  <2>4. Modifies(s)
    BY <2>1, <2>3 DEF Modifies, Stays
  <2> QED
    BY <2>4 DEF s
<1> QED
  BY <1>1, <1>2, <1>3, <1>4, <1>5 DEF Next

LEMMA NextInv == IInv /\ [Next]_vars => IInv'
<1>1. ASSUME IInv, Next PROVE IInv'
  <2>1. PICK s : Modifies(s)
    BY <1>1, StepModifies
  <2> QED
    BY <2>1, ModifiedKeepsInv DEF Modifies
<1>2. ASSUME IInv, UNCHANGED vars PROVE IInv'
  BY <1>2 DEF IInv, StateInv, TableInv, RowsOf, vars
<1> QED
  BY <1>1, <1>2

\* The invariant of every reachable state.
THEOREM Invariance == Spec => []IInv
BY InitInv, NextInv, PTL DEF Spec

\* The variables have their types, and only static routes are ever inactive.
THEOREM TypeCorrect == Spec => []TypeOK
<1>1. IInv => TypeOK
  <2>1. SUFFICES ASSUME IInv PROVE TypeOK
    OBVIOUS
  <2>2. rtable \in Seq(Entries) /\ \A i \in DOMAIN rtable : Good(rtable[i])
    BY <2>1, GoodAreEntries, GoodSequences DEF IInv, TableInv
  <2>3. \A i \in DOMAIN rtable : rtable[i].is_static \/ rtable[i].is_active
    BY <2>2 DEF Good
  <2> QED
    BY <2>1, <2>2, <2>3 DEF TypeOK, IInv, StateInv
<1> QED
  BY <1>1, Invariance, PTL

(***************************************************************************)
(* Once the table has been sorted, the hardware forwards each destination  *)
(* as get_next_hop would, or leaves it to software: for any depth of the   *)
(* hardware table and any masks that are prefixes.                         *)
(***************************************************************************)
THEOREM HardwareAlwaysAgrees == Spec => []HardwareAgrees
<1>1. IInv => HardwareAgrees
  <2>1. SUFFICES ASSUME IInv, booted, NEW dst \in Addrs
                 PROVE  LET hw == lpm_lookup(dst)
                            sw == get_next_hop(dst)
                        IN /\ hw.port # NoPort => hw = sw
                           /\ Cardinality(Active(rtable)) <= ROUTE_DEPTH => hw.port = sw.port
    BY DEF HardwareAgrees
  <2>2. rtable \in Seq(Entries) /\ InOrder(rtable) /\ hwTable = RowsOf(rtable)
    BY <2>1, GoodAreEntries DEF IInv, TableInv
  <2> QED
    BY <2>2, RowsAgree
<1> QED
  BY <1>1, Invariance, PTL

(***************************************************************************)
(* A learned route is never used for a destination for which there is an   *)
(* active static route with the same mask: the sort puts the static first, *)
(* because no address within a network is less than its masked address.    *)
(***************************************************************************)
THEOREM StaticAlwaysBeatsLearned == Spec => []StaticBeatsLearned
<1>1. IInv => StaticBeatsLearned
  <2>1. SUFFICES ASSUME IInv, NEW dst \in Addrs, NEW i \in LongestMatch(dst),
                        NEW j \in Matches(dst), rtable[j].is_static,
                        rtable[j].to.mask = rtable[i].to.mask, ~rtable[i].is_static
                 PROVE  FALSE
    BY DEF StaticBeatsLearned
  <2>2. rtable \in Seq(Entries) /\ \A k \in DOMAIN rtable : Good(rtable[k])
    BY <2>1, GoodAreEntries, GoodSequences DEF IInv, TableInv
  <2>3. i \in Matches(dst) /\ i \in DOMAIN rtable /\ j \in DOMAIN rtable
    BY DEF LongestMatch, Matches, Active
  <2>4. InOrder(rtable)
    BY <2>1, <2>3 DEF IInv, TableInv, StateInv
  <2> DEFINE a == rtable[i]
             b == rtable[j]
  <2>5. a \in Entries /\ b \in Entries /\ i \in Nat /\ j \in Nat
    BY <2>2, <2>3
  <2>6. a.to.ip \subseteq a.to.mask
    BY <2>1, <2>2, <2>3 DEF Good
  <2>7. a.to.ip \cap a.to.mask = dst \cap a.to.mask
        /\ b.to.ip \cap a.to.mask = dst \cap a.to.mask
    BY <2>1, <2>3 DEF Matches, SameNetwork
  <2>8. a.to.ip \subseteq b.to.ip
    BY <2>6, <2>7
  <2>9. Before(b, a)
    BY <2>1, <2>8, AboveSuperset DEF Before
  <2>10. ~(i < j) /\ i # j
    BY <2>1, <2>3, <2>4, <2>9 DEF InOrder
  <2>11. \/ Cardinality(b.to.mask) < Cardinality(a.to.mask)
         \/ i <= j
    BY <2>1 DEF LongestMatch
  <2>12. Cardinality(a.to.mask) \in Nat
    BY <2>5, EntryFields, AddressFinite, FS_CardinalityType
  <2>13. i <= j
    BY <2>1, <2>11, <2>12
  <2> QED
    BY <2>5, <2>10, <2>13
<1> QED
  BY <1>1, Invariance, PTL

(***************************************************************************)
(* Only "ip route del" for its very network takes a static route out of    *)
(* the list.                                                               *)
(***************************************************************************)
THEOREM StaticsAlwaysStay == Spec => StaticsStay
<1> DEFINE Stay == \A d \in StaticRoutes : \/ Copies(rtable', d) >= Copies(rtable, d)
                                           \/ cli_ip_route_del(d.ip, d.mask)
<1>1. ASSUME IInv, Next PROVE Stay
  <2>1. PICK s : Modifies(s)
    BY <1>1, StepModifies
  <2>2. rtable \in Seq(Entries) /\ s \in Seq(Entries) /\ rtable' = Sorted(s)
    BY <1>1, <2>1, GoodAreEntries
    DEF Modifies, IInv, TableInv, trigger_rtable_modified
  <2>3. Sorted(s) \in Seq(Entries)
    BY <2>2, SortedProperties
  <2>4. SUFFICES ASSUME NEW d \in StaticRoutes, Copies(s, d) >= Copies(rtable, d)
                 PROVE  Copies(rtable', d) >= Copies(rtable, d)
    BY <2>1 DEF Modifies
  <2>5. Copies(Sorted(s), d) >= Copies(s, d)
    BY <2>2, SortedCopies
  <2>6. /\ Copies(Sorted(s), d) \in Nat /\ Copies(s, d) \in Nat
        /\ Copies(rtable, d) \in Nat
    BY <2>2, <2>3, CopiesFinite
  <2> QED
    BY <2>2, <2>4, <2>5, <2>6
<1>2. IInv /\ [Next]_vars => [Stay]_vars
  BY <1>1
<1> HIDE DEF Stay
<1>3. Spec => [][Stay]_vars
  BY <1>2, Invariance, PTL DEF Spec
<1> QED
  BY <1>3 DEF StaticsStay, Stay
=============================================================================
