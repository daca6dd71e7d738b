--------------------------- MODULE LinkStateProofs ---------------------------
(***************************************************************************)
(* For any interfaces, routers and updates: a router advertises what it    *)
(* sees on its interfaces, a learned route leaves to a neighbour known on  *)
(* its interface, and the routes computed are shortest.                    *)
(***************************************************************************)
EXTENDS LinkState, ListProofs, SequenceTheorems, TLAPS

-----------------------------------------------------------------------------
(* The loop of compute_rtable.                                             *)

(***************************************************************************)
(* A loop of n rounds from the state a, where G says what each round makes *)
(* of the state before it, has a run.                                      *)
(***************************************************************************)
IsRun(f, n, a, G) ==
    f[0] = a /\ \A k \in 1..n : f[k] = G[<<k, f[k - 1]>>]

LEMMA RunExists ==
    ASSUME NEW n \in Nat, NEW D, NEW a \in D, NEW G \in [(1..n) \X D -> D]
    PROVE  \E f \in [0..n -> D] : IsRun(f, n, a, G)
<1> DEFINE Good(m) == \E f \in [0..m -> D] : IsRun(f, m, a, G)
           K == {m \in 1..n : ~Good(m)}
<1>1. Good(0)
  <2>1. [k \in 0..0 |-> a] \in [0..0 -> D] /\ IsRun([k \in 0..0 |-> a], 0, a, G)
    BY DEF IsRun
  <2> QED
    BY <2>1
<1>2. ASSUME NEW m \in 1..n, Good(m - 1) PROVE Good(m)
  <2>1. PICK f \in [0..(m - 1) -> D] : IsRun(f, m - 1, a, G)
    BY <1>2
  <2> DEFINE g == [k \in 0..m |-> IF k = m THEN G[<<m, f[m - 1]>>] ELSE f[k]]
  <2>2. m \in Nat /\ m - 1 \in 0..(m - 1) /\ \A k \in 0..m : k # m => k \in 0..(m - 1)
    OBVIOUS
  <2>3. f[m - 1] \in D /\ <<m, f[m - 1]>> \in (1..n) \X D
    BY <2>2
  <2>4. G[<<m, f[m - 1]>>] \in D
    BY <2>3
  <2>5. g \in [0..m -> D]
    BY <2>2, <2>4
  <2>6. g[0] = a
    BY <2>1, <2>2 DEF IsRun
  <2>7. ASSUME NEW k \in 1..m PROVE g[k] = G[<<k, g[k - 1]>>]
    <3>1. k \in 0..m /\ k - 1 \in 0..m /\ k - 1 # m
      OBVIOUS
    <3>2. g[k - 1] = f[k - 1]
      BY <3>1
    <3>3. CASE k = m
      BY <3>1, <3>2, <3>3
    <3>4. CASE k # m
      <4>1. k \in 1..(m - 1)
        BY <3>4
      <4>2. f[k] = G[<<k, f[k - 1]>>]
        BY <2>1, <4>1 DEF IsRun
      <4> QED
        BY <3>1, <3>2, <3>4, <4>2
    <3> QED
      BY <3>3, <3>4
  <2>8. IsRun(g, m, a, G)
    BY <2>6, <2>7 DEF IsRun
  <2> QED
    BY <2>5, <2>8
<1>3. K = {}
  <2>1. SUFFICES ASSUME K # {} PROVE FALSE
    OBVIOUS
  <2>2. PICK m \in K : \A j \in K : m <= j
    <3>1. K \in SUBSET (1..n)
      OBVIOUS
    <3> QED
      BY <2>1, <3>1, LeastIndex
  <2>3. m \in 1..n /\ ~Good(m)
    OBVIOUS
  <2>4. Good(m - 1)
    <3>1. CASE m = 1
      BY <1>1, <3>1
    <3>2. CASE m # 1
      <4>1. m - 1 \in 1..n /\ ~(m <= m - 1)
        BY <2>3, <3>2
      <4>2. m - 1 \notin K
        BY <2>2, <4>1
      <4> QED
        BY <4>1, <4>2
    <3> QED
      BY <3>1, <3>2
  <2> QED
    BY <1>2, <2>3, <2>4
<1>4. Good(n)
  <2>1. n = 0 \/ n \in 1..n
    OBVIOUS
  <2> QED
    BY <1>1, <1>3, <2>1
<1> QED
  BY <1>4

(***************************************************************************)
(* What holds before a round and holds after it, when it held before the   *)
(* round, holds after every round.                                         *)
(***************************************************************************)
LEMMA RunStays ==
    ASSUME NEW n \in Nat, NEW f, NEW I, f[0] \in I,
           \A k \in 1..n : f[k - 1] \in I => f[k] \in I
    PROVE  f[n] \in I
<1> DEFINE K == {m \in 1..n : f[m] \notin I}
<1>1. K = {}
  <2>1. SUFFICES ASSUME K # {} PROVE FALSE
    OBVIOUS
  <2>2. PICK m \in K : \A j \in K : m <= j
    <3>1. K \in SUBSET (1..n)
      OBVIOUS
    <3> QED
      BY <2>1, <3>1, LeastIndex
  <2>3. m \in 1..n /\ f[m] \notin I /\ (m - 1 = 0 \/ m - 1 \in 1..n) /\ ~(m <= m - 1)
    OBVIOUS
  <2>4. m - 1 \notin K
    BY <2>2, <2>3
  <2>5. f[m - 1] \in I
    BY <2>3, <2>4
  <2> QED
    BY <2>3, <2>5
<1>2. n = 0 \/ n \in 1..n
  OBVIOUS
<1> QED
  BY <1>1, <1>2

(***************************************************************************)
(* States of the loop: P is where the pointers prev_router are from, and   *)
(* from the first round on our own entry keeps the one it had.             *)
(***************************************************************************)
Loops(list, P) ==
    [found    : SUBSET (DOMAIN list),
     distance : [DOMAIN list -> Nat],
     prev     : [DOMAIN list -> P]]

Round(list, n, st) ==
    LET next == IF n = 1 THEN {Us} ELSE get_shortest(list, st)
    IN IF next = {} THEN st
       ELSE update_neighbor_distance(list, st, CHOOSE w \in next : TRUE)

\* The state before the first round.
Start(list, prev) ==
    [found    |-> {},
     distance |-> [i \in DOMAIN list |-> IF i = Us THEN 0 ELSE Infinity],
     prev     |-> prev]

LEMMA RoundTyped ==
    ASSUME NEW list, NEW P, \A i \in DOMAIN list : list[i].rid \in P,
           Us \in DOMAIN list, NEW n, NEW st \in Loops(list, P)
    PROVE  /\ Round(list, n, st) \in Loops(list, P)
           /\ n = 1 \/ Us \in st.found =>
                 /\ Round(list, n, st).prev[Us] = st.prev[Us]
                 /\ Us \in Round(list, n, st).found
<1> DEFINE next == IF n = 1 THEN {Us} ELSE get_shortest(list, st)
           w    == CHOOSE w \in next : TRUE
<1>1. next \subseteq DOMAIN list
  BY DEF get_shortest
<1>2. CASE next = {}
  <2>1. n # 1
    BY <1>2
  <2>2. Round(list, n, st) = st
    BY <1>2 DEF Round
  <2> QED
    BY <2>1, <2>2
<1>3. CASE next # {}
  <2>1. w \in DOMAIN list /\ (n = 1 => w = Us)
    BY <1>1, <1>3
  <2>2. Round(list, n, st) = update_neighbor_distance(list, st, w)
    BY <1>3 DEF Round
  <2> HIDE DEF w
  <2>3. update_neighbor_distance(list, st, w) \in Loops(list, P)
    BY <2>1 DEF update_neighbor_distance, Loops
  <2>4. n = 1 \/ Us \in st.found => Us \in st.found \cup {w}
    BY <2>1
  <2>5. n = 1 \/ Us \in st.found =>
           /\ update_neighbor_distance(list, st, w).prev[Us] = st.prev[Us]
           /\ Us \in update_neighbor_distance(list, st, w).found
    BY <2>4 DEF update_neighbor_distance
  <2> QED
    BY <2>2, <2>3, <2>5
<1> QED
  BY <1>2, <1>3

LEMMA FoundIsRun ==
    ASSUME NEW list, Len(list) \in Nat, NEW prev, NEW P, prev \in [DOMAIN list -> P],
           \A i \in DOMAIN list : list[i].rid \in P, Us \in DOMAIN list
    PROVE  \E f : /\ Found(list, prev) = f[Len(list)]
                  /\ f[0] = Start(list, prev)
                  /\ \A n \in 1..Len(list) : f[n] = Round(list, n, f[n - 1])
<1> DEFINE N == Len(list)
           D == Loops(list, P)
           a == Start(list, prev)
           G == [p \in (1..N) \X D |-> Round(list, p[1], p[2])]
           Body(st) == [n \in 0..N |-> IF n = 0 THEN a ELSE Round(list, n, st[n - 1])]
<1>1. a \in D
  BY InfinityAssumption DEF Loops, Start
<1>2. G \in [(1..N) \X D -> D]
  BY RoundTyped
<1>3. PICK f \in [0..N -> D] : IsRun(f, N, a, G)
  <2> HIDE DEF D, a, G
  <2> QED
    BY <1>1, <1>2, RunExists
<1>4. Found(list, prev) = (CHOOSE st : st = Body(st))[N]
  BY DEF Found, Start, Round
<1>5. f = Body(f)
  <2>1. \A n \in 0..N : n = 0 \/ (n \in 1..N /\ n - 1 \in 0..N)
    OBVIOUS
  <2>2. ASSUME NEW n \in 0..N PROVE f[n] = IF n = 0 THEN a ELSE Round(list, n, f[n - 1])
    <3>1. CASE n = 0
      BY <1>3, <3>1 DEF IsRun
    <3>2. CASE n \in 1..N
      <4>1. f[n - 1] \in D
        BY <2>1, <3>2
      <4>2. f[n] = G[<<n, f[n - 1]>>]
        BY <1>3, <3>2 DEF IsRun
      <4>3. n # 0
        BY <3>2
      <4> HIDE DEF D, a
      <4>4. G[<<n, f[n - 1]>>] = Round(list, n, f[n - 1])
        BY <3>2, <4>1
      <4> QED
        BY <4>2, <4>3, <4>4
    <3> QED
      BY <2>1, <3>1, <3>2
  <2> HIDE DEF D, a
  <2> QED
    BY <2>2
<1> DEFINE st == CHOOSE st : st = Body(st)
<1>6. st = Body(st)
  <2> HIDE DEF Body
  <2> QED
    BY <1>5
<1>7. Found(list, prev) = st[N]
  BY <1>4
<1> HIDE DEF st
<1>8. \A n \in 0..N : st[n] = IF n = 0 THEN a ELSE Round(list, n, st[n - 1])
  <2> HIDE DEF a
  <2> QED
    BY <1>6
<1>9. st[0] = a /\ \A n \in 1..N : st[n] = Round(list, n, st[n - 1])
  <2> HIDE DEF a
  <2>1. 0 \in 0..N /\ \A n \in 1..N : n \in 0..N /\ n # 0
    OBVIOUS
  <2> QED
    BY <1>8, <2>1
<1> QED
  BY <1>7, <1>9

(***************************************************************************)
(* The computation leaves in every entry a pointer it had or the id of a   *)
(* router, and in our own entry the one it had.                            *)
(***************************************************************************)
LEMMA FoundPointers ==
    ASSUME NEW list, Len(list) \in Nat, NEW prev, NEW P, prev \in [DOMAIN list -> P],
           \A i \in DOMAIN list : list[i].rid \in P, Us \in DOMAIN list
    PROVE  /\ Found(list, prev) \in Loops(list, P)
           /\ Found(list, prev).prev[Us] = prev[Us]
<1>1. PICK f : /\ Found(list, prev) = f[Len(list)]
               /\ f[0] = Start(list, prev)
               /\ \A n \in 1..Len(list) : f[n] = Round(list, n, f[n - 1])
  BY FoundIsRun
<1> DEFINE N == Len(list)
           h == [k \in 0..N |-> <<k, f[k]>>]
           I == {p \in Nat \X Loops(list, P) :
                    p[2].prev[Us] = prev[Us] /\ (p[1] = 0 \/ Us \in p[2].found)}
<1>2. h[0] \in I
  <2>1. Start(list, prev) \in Loops(list, P) /\ Start(list, prev).prev[Us] = prev[Us]
    BY InfinityAssumption DEF Loops, Start
  <2>2. h[0] = <<0, Start(list, prev)>>
    BY <1>1
  <2> QED
    BY <2>1, <2>2
<1>3. ASSUME NEW k \in 1..N, h[k - 1] \in I PROVE h[k] \in I
  <2>1. k \in Nat /\ k \in 0..N /\ k - 1 \in 0..N /\ (k - 1 = 0 => k = 1)
    OBVIOUS
  <2>2. h[k - 1] = <<k - 1, f[k - 1]>> /\ h[k] = <<k, f[k]>>
    BY <2>1
  <2>3. /\ f[k - 1] \in Loops(list, P) /\ f[k - 1].prev[Us] = prev[Us]
        /\ k = 1 \/ Us \in f[k - 1].found
    BY <1>3, <2>1, <2>2
  <2>4. f[k] = Round(list, k, f[k - 1])
    BY <1>1
  <2>5. f[k] \in Loops(list, P) /\ f[k].prev[Us] = prev[Us] /\ Us \in f[k].found
    BY <2>3, <2>4, RoundTyped
  <2> QED
    BY <2>1, <2>2, <2>5
<1>4. h[N] \in I
  <2> HIDE DEF h, I
  <2> QED
    BY <1>2, <1>3, RunStays
<1>5. h[N] = <<N, f[N]>>
  OBVIOUS
<1> QED
  BY <1>1, <1>4, <1>5

-----------------------------------------------------------------------------
(* Links.                                                                  *)

(***************************************************************************)
(* On the subnet the links show the routers of N, each once, and no other. *)
(***************************************************************************)
Shows(links, subnet, N) ==
    /\ \A k \in DOMAIN links : links[k].subnet = subnet => links[k].rid \in N
    /\ \A rid \in N :
          \E k \in DOMAIN links : links[k].subnet = subnet /\ links[k].rid = rid
    /\ \A j, k \in DOMAIN links :
          /\ links[j].subnet = subnet /\ links[k].subnet = subnet
          /\ links[j].rid = links[k].rid
          => j = k

\* A link is added, ...
LEMMA ShowsAdded ==
    ASSUME NEW links \in Seq(LinkRecords), NEW link \in LinkRecords, NEW subnet, NEW N,
           Shows(links, subnet, N)
    PROVE  /\ node_push_back(links, link) \in Seq(LinkRecords)
           /\ link.subnet # subnet => Shows(node_push_back(links, link), subnet, N)
           /\ link.subnet = subnet /\ link.rid \notin N =>
                 Shows(node_push_back(links, link), subnet, N \cup {link.rid})
<1> DEFINE r == node_push_back(links, link)
           n == Len(links)
<1>1. /\ n \in Nat /\ DOMAIN links = 1..n /\ DOMAIN r = 1..(n + 1)
      /\ \A k \in 1..n : r[k] = links[k]
      /\ r[n + 1] = link
      /\ r \in Seq(LinkRecords)
  BY DEF node_push_back
<1>2. /\ \A k \in 1..(n + 1) : k \in 1..n \/ k = n + 1
      /\ \A k \in 1..n : k \in 1..(n + 1) /\ k # n + 1
      /\ n + 1 \in 1..(n + 1)
  BY <1>1
<1> HIDE DEF n, r
<1>3. ASSUME link.subnet # subnet PROVE Shows(r, subnet, N)
  BY <1>1, <1>2, <1>3 DEF Shows
<1>4. ASSUME link.subnet = subnet, link.rid \notin N
      PROVE  Shows(r, subnet, N \cup {link.rid})
  <2>1. \A k \in DOMAIN r : r[k].subnet = subnet => r[k].rid \in N \cup {link.rid}
    BY <1>1, <1>2, <1>4 DEF Shows
  <2>2. ASSUME NEW rid \in N \cup {link.rid}
        PROVE  \E k \in DOMAIN r : r[k].subnet = subnet /\ r[k].rid = rid
    BY <1>1, <1>2, <1>4 DEF Shows
  <2>3. ASSUME NEW j \in DOMAIN r, NEW k \in DOMAIN r,
               r[j].subnet = subnet, r[k].subnet = subnet, r[j].rid = r[k].rid
        PROVE  j = k
    BY <1>1, <1>2, <1>4, <2>3 DEF Shows
  <2> QED
    BY <2>1, <2>2, <2>3 DEF Shows
<1> QED
  BY <1>1, <1>3, <1>4 DEF r

\* ... the neighbour of a link that is alone on its subnet changes, ...
LEMMA ShowsRenamed ==
    ASSUME NEW links \in Seq(LinkRecords), NEW k \in DOMAIN links,
           NEW rid \in Rids \cup {NoRouter}, NEW subnet, NEW N, Shows(links, subnet, N)
    PROVE  /\ [links EXCEPT ![k].rid = rid] \in Seq(LinkRecords)
           /\ links[k].subnet # subnet => Shows([links EXCEPT ![k].rid = rid], subnet, N)
           /\ links[k].subnet = subnet /\ N = {links[k].rid} =>
                 Shows([links EXCEPT ![k].rid = rid], subnet, {rid})
<1> DEFINE r == [links EXCEPT ![k].rid = rid]
<1>1. /\ DOMAIN r = DOMAIN links
      /\ \A j \in DOMAIN links : j # k => r[j] = links[j]
      /\ r[k].subnet = links[k].subnet /\ r[k].rid = rid
      /\ r \in Seq(LinkRecords)
  <2> DEFINE link == [links[k] EXCEPT !.rid = rid]
  <2>1. link \in LinkRecords /\ link.subnet = links[k].subnet /\ link.rid = rid
    <3>1. links[k] \in LinkRecords
      OBVIOUS
    <3> QED
      BY <3>1 DEF LinkRecords
  <2>2. r = [links EXCEPT ![k] = link]
    OBVIOUS
  <2> HIDE DEF link, r
  <2> QED
    BY <2>1, <2>2
<1> HIDE DEF r
<1>2. ASSUME links[k].subnet # subnet PROVE Shows(r, subnet, N)
  BY <1>1, <1>2 DEF Shows
<1>3. ASSUME links[k].subnet = subnet, N = {links[k].rid} PROVE Shows(r, subnet, {rid})
  <2>1. \A j \in DOMAIN links : links[j].subnet = subnet => j = k
    BY <1>3 DEF Shows
  <2> QED
    BY <1>1, <1>3, <2>1 DEF Shows
<1> QED
  BY <1>1, <1>2, <1>3 DEF r

\* ... and links are removed.
LEMMA ShowsKept ==
    ASSUME NEW links \in Seq(LinkRecords), NEW gone \in SUBSET (DOMAIN links),
           NEW subnet, NEW N, NEW M, Shows(links, subnet, N), M \subseteq N,
           \A k \in DOMAIN links :
              links[k].subnet = subnet => (k \in gone <=> links[k].rid \notin M)
    PROVE  /\ node_remove(links, gone) \in Seq(LinkRecords)
           /\ Shows(node_remove(links, gone), subnet, M)
<1> DEFINE K == DOMAIN links \ gone
           r == Keep(links, K)
<1>1. K \in SUBSET (DOMAIN links)
  OBVIOUS
<1>2. /\ r \in Seq(LinkRecords)
      /\ \A i \in K : \E j \in DOMAIN r : r[j] = links[i]
      /\ \A j \in DOMAIN r : \E i \in K : r[j] = links[i]
  <2> HIDE DEF K
  <2> QED
    BY <1>1, KeepProperties
<1>3. \A j, k \in DOMAIN r : j # k =>
         \E i, l \in K : i # l /\ r[j] = links[i] /\ r[k] = links[l]
  <2> HIDE DEF K
  <2> QED
    BY <1>1, KeepApart
<1>4. \A k \in K : links[k].subnet = subnet => links[k].rid \in M
  OBVIOUS
<1>5. \A k \in DOMAIN links : links[k].subnet = subnet /\ links[k].rid \in M => k \in K
  OBVIOUS
<1> HIDE DEF K, r
<1>6. \A j \in DOMAIN r : r[j].subnet = subnet => r[j].rid \in M
  BY <1>2, <1>4
<1>7. \A rid \in M : \E j \in DOMAIN r : r[j].subnet = subnet /\ r[j].rid = rid
  <2> TAKE rid \in M
  <2>1. PICK k \in DOMAIN links : links[k].subnet = subnet /\ links[k].rid = rid
    BY DEF Shows
  <2>2. k \in K
    BY <1>5, <2>1
  <2> QED
    BY <1>2, <2>1, <2>2
<1>8. ASSUME NEW j \in DOMAIN r, NEW k \in DOMAIN r,
             r[j].subnet = subnet, r[k].subnet = subnet, r[j].rid = r[k].rid
      PROVE  j = k
  <2>1. SUFFICES ASSUME j # k PROVE FALSE
    OBVIOUS
  <2>2. PICK i \in K, l \in K : i # l /\ r[j] = links[i] /\ r[k] = links[l]
    BY <1>3, <2>1
  <2>3. i \in DOMAIN links /\ l \in DOMAIN links
    BY <1>1
  <2> QED
    BY <1>8, <2>2, <2>3 DEF Shows
<1>9. Shows(r, subnet, M)
  BY <1>6, <1>7, <1>8 DEF Shows
<1> QED
  BY <1>2, <1>9 DEF r, K, node_remove

-----------------------------------------------------------------------------
(* The list of routers.                                                    *)

Routers == [rid : Rids, seq : 0..(SEQ_MOD - 1), interface_list : Seq(LinkRecords),
            prev_router : Rids \cup {Null, Freed}]

\* We are its first, without a pointer, and nobody is in it twice.
GoodList(list) ==
    /\ list \in Seq(Routers) /\ list # <<>>
    /\ list[Us].rid = OurRid /\ list[Us].prev_router = Null
    /\ \A i, j \in DOMAIN list : list[i].rid = list[j].rid => i = j

LEMMA GoodListIndices ==
    ASSUME NEW list, GoodList(list)
    PROVE  /\ Len(list) \in Nat /\ DOMAIN list = 1..Len(list) /\ Us \in DOMAIN list
           /\ \A i \in DOMAIN list : list[i] \in Routers
           /\ \A i \in DOMAIN list : list[i].rid \in Others <=> i # Us
<1>1. /\ Len(list) \in Nat /\ DOMAIN list = 1..Len(list) /\ Len(list) # 0
      /\ \A i \in DOMAIN list : list[i] \in Routers
  BY DEF GoodList
<1>2. Us \in DOMAIN list
  BY <1>1 DEF Us
<1>3. \A i \in DOMAIN list : list[i].rid \in Others \cup {OurRid}
  BY <1>1 DEF Routers, Rids
<1> QED
  BY <1>1, <1>2, <1>3, RidsAssumption DEF GoodList

\* An entry is replaced, for the same router.
LEMMA EntryReplaced ==
    ASSUME NEW list, GoodList(list), NEW i \in DOMAIN list, NEW e \in Routers,
           e.rid = list[i].rid, i = Us => e.prev_router = Null
    PROVE  GoodList([list EXCEPT ![i] = e])
<1> DEFINE r == [list EXCEPT ![i] = e]
<1>1. list \in Seq(Routers) /\ Len(list) # 0 /\ Us \in DOMAIN list
  BY GoodListIndices DEF GoodList
<1>2. /\ r \in Seq(Routers) /\ DOMAIN r = DOMAIN list
      /\ r[i] = e /\ \A j \in DOMAIN list : j # i => r[j] = list[j]
  BY <1>1
<1> HIDE DEF r
<1>3. r # <<>>
  BY <1>1, <1>2
<1>4. \A j \in DOMAIN list : r[j].rid = list[j].rid
  BY <1>2
<1>5. r[Us].prev_router = Null
  BY <1>1, <1>2 DEF GoodList
<1> QED
  BY <1>1, <1>2, <1>3, <1>4, <1>5 DEF GoodList, r

\* A router that is not in the list is added, ...
LEMMA RouterAdded ==
    ASSUME NEW list, GoodList(list), NEW e \in Routers,
           \A i \in DOMAIN list : list[i].rid # e.rid
    PROVE  /\ GoodList(node_push_back(list, e))
           /\ node_push_back(list, e)[Us] = list[Us]
<1> DEFINE r == node_push_back(list, e)
           n == Len(list)
<1>1. list \in Seq(Routers) /\ Us \in DOMAIN list /\ n \in Nat /\ DOMAIN list = 1..n
  BY GoodListIndices DEF GoodList
<1>2. /\ r \in Seq(Routers) /\ DOMAIN r = 1..(n + 1)
      /\ r[n + 1] = e /\ \A j \in 1..n : r[j] = list[j]
  BY <1>1 DEF node_push_back
<1>3. Len(r) # 0
  BY <1>1, <1>2
<1> HIDE DEF n, r
<1>4. /\ \A k \in 1..(n + 1) : k \in 1..n \/ k = n + 1
      /\ n + 1 \in 1..(n + 1)
  BY <1>1
<1>5. r # <<>>
  BY <1>2, <1>3
<1>6. \A i, j \in DOMAIN r : r[i].rid = r[j].rid => i = j
  <2> SUFFICES ASSUME NEW i \in DOMAIN r, NEW j \in DOMAIN r, r[i].rid = r[j].rid
               PROVE  i = j
    OBVIOUS
  <2>1. CASE i \in 1..n /\ j \in 1..n
    BY <1>1, <1>2, <2>1 DEF GoodList
  <2>2. CASE i = n + 1 /\ j \in 1..n
    BY <1>1, <1>2, <2>2
  <2>3. CASE i \in 1..n /\ j = n + 1
    BY <1>1, <1>2, <2>3
  <2> QED
    BY <1>2, <1>4, <2>1, <2>2, <2>3
<1>7. r[Us] = list[Us]
  BY <1>1, <1>2
<1> QED
  BY <1>2, <1>5, <1>6, <1>7 DEF GoodList, r

\* ... and routers other than us are removed.
LEMMA RoutersRemoved ==
    ASSUME NEW list, GoodList(list), NEW gone \in SUBSET (DOMAIN list), Us \notin gone
    PROVE  /\ GoodList(node_remove(list, gone))
           /\ node_remove(list, gone)[Us] = list[Us]
<1> DEFINE K == DOMAIN list \ gone
           r == Keep(list, K)
<1>1. list \in Seq(Routers) /\ K \in SUBSET (DOMAIN list) /\ Us \in K
  BY GoodListIndices DEF GoodList
<1>2. K \in SUBSET (1..Len(list)) /\ Len(list) \in Nat
  BY <1>1
<1> HIDE DEF K
<1>3. /\ r \in Seq(Routers)
      /\ Rank(K, Us) \in DOMAIN r /\ r[Rank(K, Us)] = list[Us]
      /\ \A j \in DOMAIN r : \E i \in K : r[j] = list[i]
  BY <1>1, KeepProperties
<1>4. \A j, k \in DOMAIN r : j # k =>
         \E i, l \in K : i # l /\ r[j] = list[i] /\ r[k] = list[l]
  BY <1>1, KeepApart
<1>5. Rank(K, Us) = Us
  <2>1. {k \in K : k <= Us} = {Us}
    BY <1>1, <1>2 DEF Us
  <2> QED
    BY <2>1, FS_Singleton DEF Rank, Us
<1> HIDE DEF r
<1>6. r # <<>>
  BY <1>3
<1>7. r[Us] = list[Us]
  BY <1>3, <1>5
<1>8. \A i, j \in DOMAIN r : r[i].rid = r[j].rid => i = j
  BY <1>1, <1>4 DEF GoodList
<1> QED
  BY <1>3, <1>6, <1>7, <1>8 DEF GoodList, r, K, node_remove

-----------------------------------------------------------------------------
(* The invariant.                                                          *)

\* What we see at an interface.
Seen(iface) ==
    IF nbr_routers[iface] # {} THEN nbr_routers[iface]
    ELSE IF iface \in ifUp THEN {NoRouter} ELSE {}

\* What of TypeOK the list of routers does not say.
RestTyped ==
    /\ nbr_routers \in [Ifaces -> SUBSET Others]
    /\ checked \subseteq Attached /\ \A p, q \in checked : p = q
    /\ ifUp \subseteq Ifaces
    /\ learned \subseteq [subnet : Subnets, iface : Ifaces, gw : Others \cup {Direct}]
    /\ dijkstra_dirty \in BOOLEAN
    /\ sent \in [Others -> 0..(SEQ_MOD - 1)]
    /\ fault \in {"none", "freed router", "assertion", "freed twice"}

AllShown == \A iface \in Ifaces : Shows(Ours, SubnetOf[iface], Seen(iface))

\* Of the HELLOs let in before an interface went down at most one is handled
\* after it: once a neighbour is seen there, no other HELLO is waiting.
DownSettled ==
    \A iface \in Ifaces : iface \notin ifUp =>
        /\ \A r, s \in nbr_routers[iface] : r = s
        /\ nbr_routers[iface] # {} => \A p \in checked : p[1] # iface

IInv == GoodList(router_list) /\ RestTyped /\ AllShown /\ DownSettled /\ RoutesUseNeighbors

LEMMA IInvImpliesTypeOK == IInv => TypeOK
<1> SUFFICES ASSUME IInv PROVE TypeOK
  OBVIOUS
<1> QED
  BY DEF IInv, GoodList, RestTyped, Routers, TypeOK

LEMMA IInvImpliesNeighbors == IInv => NeighborsAdvertised
<1> SUFFICES ASSUME IInv, NEW iface \in Ifaces
             PROVE  LET seen == [k \in OnSubnet(iface) |-> Ours[k].rid]
                    IN /\ \A j, k \in OnSubnet(iface) : seen[j] = seen[k] => j = k
                       /\ {seen[k] : k \in OnSubnet(iface)} = Seen(iface)
                       /\ iface \notin ifUp => \A r, s \in nbr_routers[iface] : r = s
  BY DEF NeighborsAdvertised, Seen
<1> DEFINE seen == [k \in OnSubnet(iface) |-> Ours[k].rid]
<1>1. Shows(Ours, SubnetOf[iface], Seen(iface))
  BY DEF IInv, AllShown
<1>2. \A k : k \in OnSubnet(iface) <=>
              k \in DOMAIN Ours /\ Ours[k].subnet = SubnetOf[iface]
  BY DEF OnSubnet
<1>3. \A k \in OnSubnet(iface) : seen[k] = Ours[k].rid
  OBVIOUS
<1> HIDE DEF seen
<1>4. \A j, k \in OnSubnet(iface) : seen[j] = seen[k] => j = k
  BY <1>1, <1>2, <1>3 DEF Shows
<1>5. {seen[k] : k \in OnSubnet(iface)} = Seen(iface)
  BY <1>1, <1>2, <1>3 DEF Shows
<1>6. iface \notin ifUp => \A r, s \in nbr_routers[iface] : r = s
  BY DEF IInv, DownSettled
<1> QED
  BY <1>4, <1>5, <1>6 DEF seen

\* What is known of an interface and its links.
LEMMA IfaceFacts ==
    ASSUME IInv, NEW iface \in Ifaces
    PROVE  /\ SubnetOf[iface] \in Subnets
           /\ Ours \in Seq(LinkRecords)
           /\ Shows(Ours, SubnetOf[iface], Seen(iface))
           /\ nbr_routers[iface] \subseteq Others
           /\ \A i \in Ifaces : SubnetOf[i] = SubnetOf[iface] => i = iface
           /\ \A i \in Ifaces : Shows(Ours, SubnetOf[i], Seen(i))
<1>1. Us \in DOMAIN router_list /\ router_list[Us] \in Routers
  BY GoodListIndices DEF IInv
<1>2. Ours \in Seq(LinkRecords)
  BY <1>1 DEF Routers, Ours
<1>3. SubnetOf[iface] \in Subnets
  BY DEF Subnets
<1>4. nbr_routers[iface] \subseteq Others
  BY DEF IInv, RestTyped
<1>5. \A i \in Ifaces : Shows(Ours, SubnetOf[i], Seen(i))
  BY DEF IInv, AllShown
<1>6. \A i \in Ifaces : SubnetOf[i] = SubnetOf[iface] => i = iface
  BY IfacesAssumption
<1> QED
  BY <1>2, <1>3, <1>4, <1>5, <1>6

(***************************************************************************)
(* Our links are replaced by ones that show on every subnet what is seen   *)
(* there afterwards.                                                       *)
(***************************************************************************)
LEMMA OursReplaced ==
    ASSUME IInv, NEW links \in Seq(LinkRecords)
    PROVE  GoodList(WithOurs(links)) /\ WithOurs(links)[Us].interface_list = links
<1> DEFINE e == [router_list[Us] EXCEPT !.interface_list = links]
<1>1. /\ GoodList(router_list) /\ Us \in DOMAIN router_list /\ router_list[Us] \in Routers
      /\ router_list[Us].prev_router = Null
  BY GoodListIndices DEF IInv, GoodList
<1>2. /\ e \in Routers /\ e.rid = router_list[Us].rid /\ e.prev_router = Null
      /\ e.interface_list = links
  BY <1>1 DEF Routers
<1>3. WithOurs(links) = [router_list EXCEPT ![Us] = e]
  BY DEF WithOurs
<1> HIDE DEF e
<1>4. GoodList([router_list EXCEPT ![Us] = e])
  BY <1>1, <1>2, EntryReplaced
<1>5. WithOurs(links)[Us] = e
  BY <1>1, <1>3
<1> QED
  BY <1>2, <1>3, <1>4, <1>5

LEMMA InitIInv == Init => IInv
<1> SUFFICES ASSUME Init PROVE IInv
  OBVIOUS
<1> DEFINE links == [n \in DOMAIN IfList |->
                        [subnet |-> SubnetOf[IfList[n]], rid |-> NoRouter]]
           e == [rid |-> OurRid, seq |-> 0, prev_router |-> Null,
                 interface_list |-> links]
<1>1. /\ Len(IfList) \in Nat /\ DOMAIN IfList = 1..Len(IfList)
      /\ \A n \in DOMAIN IfList : IfList[n] \in Ifaces /\ SubnetOf[IfList[n]] \in Subnets
  BY IfacesAssumption DEF Subnets
<1>2. links \in Seq(LinkRecords)
  <2>1. \A n \in DOMAIN IfList :
           [subnet |-> SubnetOf[IfList[n]], rid |-> NoRouter] \in LinkRecords
    BY <1>1 DEF LinkRecords
  <2> QED
    BY <1>1, <2>1
<1>3. /\ DOMAIN links = DOMAIN IfList
      /\ \A n \in DOMAIN IfList :
            links[n].subnet = SubnetOf[IfList[n]] /\ links[n].rid = NoRouter
  OBVIOUS
<1> HIDE DEF links
<1>4. e \in Routers /\ e.rid = OurRid /\ e.prev_router = Null /\ e.interface_list = links
  BY <1>2, LimitsAssumption DEF Routers, Rids
<1>5. router_list = <<e>>
  BY DEF Init, links
<1> HIDE DEF e
<1>6. GoodList(router_list) /\ Ours = links
  <2>1. /\ router_list \in Seq(Routers) /\ router_list # <<>>
        /\ DOMAIN router_list = {Us} /\ router_list[Us] = e
    BY <1>4, <1>5 DEF Us
  <2> QED
    BY <1>4, <2>1 DEF GoodList, Ours
<1>7. RestTyped /\ DownSettled /\ RoutesUseNeighbors
  BY LimitsAssumption DEF Init, RestTyped, DownSettled, RoutesUseNeighbors
<1>8. ASSUME NEW iface \in Ifaces PROVE Shows(Ours, SubnetOf[iface], Seen(iface))
  <2>1. Seen(iface) = {NoRouter}
    BY DEF Init, Seen
  <2>2. PICK n \in DOMAIN IfList : IfList[n] = iface
    BY DEF Ifaces
  <2>3. \A k \in DOMAIN links : links[k].subnet = SubnetOf[iface] <=> k = n
    BY <1>1, <1>3, <2>2, IfacesAssumption
  <2> QED
    BY <1>3, <1>6, <2>1, <2>2, <2>3 DEF Shows
<1> QED
  BY <1>6, <1>7, <1>8 DEF IInv, AllShown

-----------------------------------------------------------------------------
(* The steps.                                                              *)

\* A handler that propagates its change, with links shown as they should be.
LEMMA Propagated ==
    ASSUME IInv, Propagates, GoodList(router_list'),
           nbr_routers' \in [Ifaces -> SUBSET Others], ifUp' \subseteq Ifaces,
           learned' \subseteq learned, sent' \in [Others -> 0..(SEQ_MOD - 1)],
           checked' \subseteq checked, fault' = fault, DownSettled', AllShown'
    PROVE  IInv'
<1>1. checked' \subseteq Attached /\ \A p, q \in checked' : p = q
  BY DEF IInv, RestTyped
<1>2. RestTyped' /\ RoutesUseNeighbors'
  BY <1>1 DEF IInv, Propagates, RestTyped, RoutesUseNeighbors
<1> QED
  BY <1>2 DEF IInv

\* A step that leaves neighbours, links and routes alone.
LEMMA NothingChanged ==
    ASSUME IInv, UNCHANGED <<router_list, nbr_routers, ifUp, learned, dijkstra_dirty, sent>>,
           checked' \subseteq Attached, \A p, q \in checked' : p = q,
           \A p \in checked' : p \in checked \/ p[1] \in ifUp,
           fault' \in {"none", "freed router", "assertion", "freed twice"}
    PROVE  IInv'
<1>1. Ours' = Ours /\ \A i \in Ifaces : Seen(i)' = Seen(i)
  BY DEF Ours, Seen
<1>2. AllShown'
  BY <1>1 DEF IInv, AllShown
<1>3. DownSettled'
  <2>1. SUFFICES ASSUME NEW i \in Ifaces, i \notin ifUp
                 PROVE  /\ \A r, s \in nbr_routers[i] : r = s
                        /\ nbr_routers[i] # {} => \A p \in checked' : p[1] # i
    BY DEF DownSettled
  <2>2. /\ \A r, s \in nbr_routers[i] : r = s
        /\ nbr_routers[i] # {} => \A p \in checked : p[1] # i
    BY <2>1 DEF IInv, DownSettled
  <2> QED
    BY <2>1, <2>2
<1>4. GoodList(router_list') /\ RestTyped'
  BY DEF IInv, RestTyped
<1>5. RoutesUseNeighbors'
  BY DEF IInv, RoutesUseNeighbors
<1> QED
  BY <1>2, <1>3, <1>4, <1>5 DEF IInv

LEMMA PacketKeeps ==
    ASSUME IInv, NEW iface \in Ifaces, NEW rid \in Others, <<iface, rid>> \in Attached,
           process_packet(iface, rid)
    PROVE  IInv'
<1>1. /\ UNCHANGED <<router_list, nbr_routers, ifUp, learned, dijkstra_dirty, sent, fault>>
      /\ iface \in ifUp /\ checked' = {<<iface, rid>>}
  BY DEF process_packet
<1>2. \A p \in checked' : p = <<iface, rid>> /\ p[1] = iface
  BY <1>1
<1>3. fault' \in {"none", "freed router", "assertion", "freed twice"}
  BY <1>1 DEF IInv, RestTyped
<1> QED
  BY <1>1, <1>2, <1>3, NothingChanged

\* A HELLO of a new neighbour, which has its link.
LEMMA NeighborAdded ==
    ASSUME IInv, NEW iface \in Ifaces, NEW rid \in Others,
           process_pwospf_hello_packet(iface, rid), rid \notin nbr_routers[iface],
           Ours # <<>>
    PROVE  IInv'
<1> DEFINE blank == {k \in OnSubnet(iface) : Ours[k].rid = NoRouter}
           links == LinkAdded(iface, rid)
<1>1. /\ Propagates /\ <<iface, rid>> \in checked /\ checked' = {}
      /\ nbr_routers' = [nbr_routers EXCEPT ![iface] = @ \cup {rid}]
      /\ router_list' = WithOurs(links)
      /\ ifUp' = ifUp /\ learned' = learned /\ sent' = sent /\ fault' = fault
  BY DEF process_pwospf_hello_packet
<1>2. /\ SubnetOf[iface] \in Subnets
      /\ Ours \in Seq(LinkRecords)
      /\ Shows(Ours, SubnetOf[iface], Seen(iface))
      /\ nbr_routers[iface] \subseteq Others
      /\ \A i \in Ifaces : SubnetOf[i] = SubnetOf[iface] => i = iface
      /\ \A i \in Ifaces : Shows(Ours, SubnetOf[i], Seen(i))
  BY IfaceFacts
<1>3. NoRouter \notin Others /\ rid \in Rids /\ rid # NoRouter
  BY RidsAssumption DEF Rids
<1>4. \/ Seen(iface) = nbr_routers[iface]
      \/ nbr_routers[iface] = {} /\ Seen(iface) = {NoRouter}
  BY DEF Seen
<1>5. /\ links \in Seq(LinkRecords)
      /\ Shows(links, SubnetOf[iface], nbr_routers[iface] \cup {rid})
      /\ \A i \in Ifaces : i # iface => Shows(links, SubnetOf[i], Seen(i))
  <2>1. CASE blank = {}
    <3> DEFINE link == [subnet |-> SubnetOf[iface], rid |-> rid]
    <3>1. links = node_push_back(Ours, link)
      BY <2>1 DEF LinkAdded
    <3>2. link \in LinkRecords /\ link.subnet = SubnetOf[iface] /\ link.rid = rid
      BY <1>2, <1>3 DEF LinkRecords
    <3>3. NoRouter \notin Seen(iface)
      BY <1>2, <2>1 DEF Shows, OnSubnet
    <3>4. Seen(iface) = nbr_routers[iface]
      BY <1>4, <3>3
    <3> HIDE DEF link, links
    <3>5. /\ links \in Seq(LinkRecords)
          /\ Shows(links, SubnetOf[iface], Seen(iface) \cup {rid})
      BY <1>1, <1>2, <3>1, <3>2, <3>4, ShowsAdded
    <3>6. ASSUME NEW i \in Ifaces, i # iface PROVE Shows(links, SubnetOf[i], Seen(i))
      <4>1. link.subnet # SubnetOf[i] /\ Shows(Ours, SubnetOf[i], Seen(i))
        BY <1>2, <3>2, <3>6
      <4> QED
        BY <1>2, <3>1, <3>2, <4>1, ShowsAdded
    <3> QED
      BY <3>4, <3>5, <3>6
  <2>2. CASE blank # {}
    <3> DEFINE k == CHOOSE k \in First(blank) : TRUE
    <3>1. links = [Ours EXCEPT ![k].rid = rid]
      BY <2>2 DEF LinkAdded
    <3>2. blank \subseteq 1..Len(Ours) /\ Len(Ours) \in Nat /\ DOMAIN Ours = 1..Len(Ours)
      BY <1>2 DEF OnSubnet
    <3>3. First(blank) # {}
      <4>1. \E i \in blank : \A j \in blank : i <= j
        <5> HIDE DEF blank
        <5> QED
          BY <2>2, <3>2, LeastIndex
      <4> QED
        BY <4>1 DEF First
    <3>4. k \in blank
      BY <3>3 DEF First
    <3> HIDE DEF k
    <3>5. k \in DOMAIN Ours /\ Ours[k].subnet = SubnetOf[iface] /\ Ours[k].rid = NoRouter
      BY <3>4 DEF OnSubnet
    <3>6. NoRouter \in Seen(iface)
      BY <1>2, <3>5 DEF Shows
    <3>7. nbr_routers[iface] = {} /\ Seen(iface) = {Ours[k].rid}
      BY <1>2, <1>3, <1>4, <3>5, <3>6
    <3>8. rid \in Rids \cup {NoRouter}
      BY <1>3
    <3> HIDE DEF links
    <3>9. links \in Seq(LinkRecords) /\ Shows(links, SubnetOf[iface], {rid})
      BY <1>2, <3>1, <3>5, <3>7, <3>8, ShowsRenamed
    <3>10. ASSUME NEW i \in Ifaces, i # iface PROVE Shows(links, SubnetOf[i], Seen(i))
      <4>1. Ours[k].subnet # SubnetOf[i] /\ Shows(Ours, SubnetOf[i], Seen(i))
        BY <1>2, <3>5, <3>10
      <4> QED
        BY <1>2, <3>1, <3>5, <3>8, <4>1, ShowsRenamed
    <3> QED
      BY <3>7, <3>9, <3>10
  <2> QED
    BY <2>1, <2>2
<1> HIDE DEF links
<1>6. GoodList(router_list') /\ Ours' = links
  BY <1>1, <1>5, OursReplaced DEF Ours
<1>7. /\ nbr_routers' \in [Ifaces -> SUBSET Others]
      /\ nbr_routers'[iface] = nbr_routers[iface] \cup {rid}
      /\ \A i \in Ifaces : i # iface => nbr_routers'[i] = nbr_routers[i]
  BY <1>1 DEF IInv, RestTyped
<1>8. AllShown'
  <2>1. Seen(iface)' = nbr_routers[iface] \cup {rid}
    BY <1>1, <1>7 DEF Seen
  <2>2. \A i \in Ifaces : i # iface => Seen(i)' = Seen(i)
    BY <1>1, <1>7 DEF Seen
  <2> QED
    BY <1>5, <1>6, <2>1, <2>2 DEF AllShown
<1>9. DownSettled'
  <2>1. iface \notin ifUp => nbr_routers[iface] = {}
    BY <1>1 DEF DownSettled, IInv
  <2> QED
    BY <1>1, <1>7, <2>1 DEF DownSettled, IInv
<1>10. checked' \subseteq checked
  BY <1>1
<1> QED
  BY <1>1, <1>6, <1>7, <1>8, <1>9, <1>10, Propagated DEF IInv, RestTyped

LEMMA HelloKeeps ==
    ASSUME IInv, NEW iface \in Ifaces, NEW rid \in Others,
           process_pwospf_hello_packet(iface, rid)
    PROVE  IInv'
<1>1. CASE rid \in nbr_routers[iface] \/ Ours = <<>>
  <2>1. /\ UNCHANGED <<router_list, nbr_routers, ifUp, learned, dijkstra_dirty, sent>>
        /\ checked' = {} /\ (fault' = fault \/ fault' = "assertion")
    BY <1>1 DEF process_pwospf_hello_packet
  <2>2. fault' \in {"none", "freed router", "assertion", "freed twice"}
    BY <2>1 DEF IInv, RestTyped
  <2> QED
    BY <2>1, <2>2, NothingChanged
<1>2. CASE rid \notin nbr_routers[iface] /\ Ours # <<>>
  BY <1>2, NeighborAdded
<1> QED
  BY <1>1, <1>2

LEMMA TimeoutKeeps ==
    ASSUME IInv, NEW iface \in Ifaces, NEW rid \in Others,
           determine_timedout_interface(iface, rid)
    PROVE  IInv'
<1> DEFINE links == LinkDropped(iface, rid)
           rest  == nbr_routers[iface] \ {rid}
           shown == IF rest = {} THEN {NoRouter} ELSE rest
<1>1. /\ Propagates /\ iface \in ifUp /\ rid \in nbr_routers[iface]
      /\ nbr_routers' = [nbr_routers EXCEPT ![iface] = @ \ {rid}]
      /\ router_list' = WithOurs(links) /\ checked' = checked
      /\ ifUp' = ifUp /\ learned' = learned /\ sent' = sent /\ fault' = fault
  BY DEF determine_timedout_interface
<1>2. /\ SubnetOf[iface] \in Subnets
      /\ Ours \in Seq(LinkRecords)
      /\ Shows(Ours, SubnetOf[iface], Seen(iface))
      /\ nbr_routers[iface] \subseteq Others
      /\ \A i \in Ifaces : SubnetOf[i] = SubnetOf[iface] => i = iface
      /\ \A i \in Ifaces : Shows(Ours, SubnetOf[i], Seen(i))
  BY IfaceFacts
<1>3. Seen(iface) = nbr_routers[iface]
  BY <1>1 DEF Seen
<1>4. PICK k \in DOMAIN Ours : Ours[k].subnet = SubnetOf[iface] /\ Ours[k].rid = rid
  BY <1>1, <1>2, <1>3 DEF Shows
<1>5. \A j : j \in OnSubnet(iface) <=>
              j \in DOMAIN Ours /\ Ours[j].subnet = SubnetOf[iface]
  BY DEF OnSubnet
<1>6. /\ \A j \in OnSubnet(iface) : Ours[j].rid = rid => j = k
      /\ k \in OnSubnet(iface)
  BY <1>2, <1>4, <1>5 DEF Shows
<1>7. /\ links \in Seq(LinkRecords)
      /\ Shows(links, SubnetOf[iface], shown)
      /\ \A i \in Ifaces : i # iface => Shows(links, SubnetOf[i], Seen(i))
  <2>1. CASE Cardinality(OnSubnet(iface)) = 1
    <3>1. OnSubnet(iface) = {k}
      <4>1. OnSubnet(iface) \subseteq 1..Len(Ours) /\ Len(Ours) \in Nat
        BY <1>2, <1>5
      <4>2. IsFiniteSet(OnSubnet(iface))
        BY <4>1, IndicesCount, FS_Subset
      <4>3. /\ {k} \subseteq OnSubnet(iface) /\ Cardinality({k}) = 1
        BY <1>6, FS_Singleton
      <4> QED
        BY <2>1, <4>2, <4>3, FS_Subset
    <3>2. (CHOOSE j \in OnSubnet(iface) : TRUE) = k
      BY <3>1
    <3>3. links = [Ours EXCEPT ![k].rid = NoRouter]
      BY <2>1, <3>2 DEF LinkDropped
    <3>4. Seen(iface) = {rid}
      BY <1>1, <1>2, <1>3, <1>5, <1>4, <3>1 DEF Shows
    <3>5. shown = {NoRouter} /\ NoRouter \in Rids \cup {NoRouter}
      BY <1>3, <3>4
    <3> HIDE DEF links, shown
    <3>6. links \in Seq(LinkRecords) /\ Shows(links, SubnetOf[iface], {NoRouter})
      BY <1>2, <1>4, <3>3, <3>4, <3>5, ShowsRenamed
    <3>7. ASSUME NEW i \in Ifaces, i # iface PROVE Shows(links, SubnetOf[i], Seen(i))
      <4>1. Ours[k].subnet # SubnetOf[i] /\ Shows(Ours, SubnetOf[i], Seen(i))
        BY <1>2, <1>4, <3>7
      <4> QED
        BY <1>2, <1>4, <3>3, <3>5, <4>1, ShowsRenamed
    <3> QED
      BY <3>5, <3>6, <3>7
  <2>2. CASE Cardinality(OnSubnet(iface)) # 1
    <3>1. {j \in OnSubnet(iface) : Ours[j].rid = rid} = {k}
      BY <1>4, <1>6
    <3>2. First({k}) = {k}
      <4>1. k \in Nat
        BY <1>2, <1>4
      <4> QED
        BY <4>1 DEF First
    <3>3. links = node_remove(Ours, {k})
      BY <2>2, <3>1, <3>2 DEF LinkDropped
    <3>4. rest # {}
      <4>1. OnSubnet(iface) # {k}
        BY <2>2, FS_Singleton
      <4>2. PICK j \in OnSubnet(iface) : j # k
        BY <1>6, <4>1
      <4>3. Ours[j].rid \in Seen(iface) /\ Ours[j].rid # rid
        BY <1>2, <1>5, <1>6, <4>2 DEF Shows
      <4> QED
        BY <1>3, <4>3
    <3>5. shown = rest /\ rest \subseteq Seen(iface) /\ rid \notin rest
      BY <1>3, <3>4
    <3>6. \A j \in DOMAIN Ours :
             Ours[j].subnet = SubnetOf[iface] => (j \in {k} <=> Ours[j].rid \notin rest)
      <4>1. ASSUME NEW j \in DOMAIN Ours, Ours[j].subnet = SubnetOf[iface]
            PROVE  /\ Ours[j].rid \in nbr_routers[iface]
                   /\ Ours[j].rid = rid <=> j = k
        <5>1. Ours[j].rid \in Seen(iface)
          BY <1>2, <4>1 DEF Shows
        <5>2. j \in OnSubnet(iface)
          BY <1>5, <4>1
        <5> QED
          BY <1>3, <1>4, <1>6, <5>1, <5>2
      <4> QED
        BY <4>1
    <3>7. {k} \in SUBSET (DOMAIN Ours)
      BY <1>4
    <3> HIDE DEF links, rest, shown
    <3>8. links \in Seq(LinkRecords) /\ Shows(links, SubnetOf[iface], rest)
      BY <1>2, <3>3, <3>5, <3>6, <3>7, ShowsKept
    <3>9. ASSUME NEW i \in Ifaces, i # iface PROVE Shows(links, SubnetOf[i], Seen(i))
      <4>1. Shows(Ours, SubnetOf[i], Seen(i)) /\ Ours[k].subnet # SubnetOf[i]
        BY <1>2, <1>4, <3>9
      <4>2. \A j \in DOMAIN Ours :
               Ours[j].subnet = SubnetOf[i] => (j \in {k} <=> Ours[j].rid \notin Seen(i))
        BY <4>1 DEF Shows
      <4> QED
        BY <1>2, <3>3, <3>7, <4>1, <4>2, ShowsKept
    <3> QED
      BY <3>5, <3>8, <3>9
  <2> QED
    BY <2>1, <2>2
<1> HIDE DEF links
<1>8. GoodList(router_list') /\ Ours' = links
  BY <1>1, <1>7, OursReplaced DEF Ours
<1>9. /\ nbr_routers' \in [Ifaces -> SUBSET Others]
      /\ nbr_routers'[iface] = rest
      /\ \A i \in Ifaces : i # iface => nbr_routers'[i] = nbr_routers[i]
  BY <1>1 DEF IInv, RestTyped
<1>10. AllShown'
  <2>1. Seen(iface)' = shown
    BY <1>1, <1>9 DEF Seen
  <2>2. \A i \in Ifaces : i # iface => Seen(i)' = Seen(i)
    BY <1>1, <1>9 DEF Seen
  <2> QED
    BY <1>7, <1>8, <2>1, <2>2 DEF AllShown
<1>11. DownSettled'
  BY <1>1, <1>9 DEF DownSettled, IInv
<1> QED
  BY <1>1, <1>8, <1>9, <1>10, <1>11, Propagated DEF IInv, RestTyped

LEMMA DownKeeps ==
    ASSUME IInv, NEW iface \in Ifaces, iface_down(iface)
    PROVE  IInv'
<1>1. CASE nbr_routers[iface] # {}
  <2>1. /\ UNCHANGED <<router_list, nbr_routers, ifUp, learned, dijkstra_dirty, sent>>
        /\ checked' = checked /\ fault' = "freed twice"
    BY <1>1 DEF iface_down
  <2> QED
    BY <2>1, NothingChanged DEF IInv, RestTyped
<1>2. CASE nbr_routers[iface] = {}
  <2> DEFINE links == node_remove(Ours, OnSubnet(iface))
  <2>1. /\ Propagates /\ ifUp' = ifUp \ {iface} /\ router_list' = WithOurs(links)
        /\ learned' = {q \in learned : q.iface # iface}
        /\ fault' = fault /\ nbr_routers' = nbr_routers /\ sent' = sent
        /\ checked' = checked
    BY <1>2 DEF iface_down
  <2>2. /\ SubnetOf[iface] \in Subnets
        /\ Ours \in Seq(LinkRecords)
        /\ \A i \in Ifaces : SubnetOf[i] = SubnetOf[iface] => i = iface
        /\ \A i \in Ifaces : Shows(Ours, SubnetOf[i], Seen(i))
    BY IfaceFacts
  <2>3. \A j : j \in OnSubnet(iface) <=>
                j \in DOMAIN Ours /\ Ours[j].subnet = SubnetOf[iface]
    BY DEF OnSubnet
  <2>4. OnSubnet(iface) \in SUBSET (DOMAIN Ours)
    BY <2>3
  <2>5. ASSUME NEW i \in Ifaces
        PROVE  links \in Seq(LinkRecords) /\ Shows(links, SubnetOf[i], Seen(i)')
    <3>1. Seen(i)' = IF i = iface THEN {} ELSE Seen(i)
      BY <1>2, <2>1 DEF Seen
    <3>2. Seen(i)' \subseteq Seen(i)
      BY <3>1
    <3>3. \A k \in DOMAIN Ours : Ours[k].subnet = SubnetOf[i] =>
             (k \in OnSubnet(iface) <=> Ours[k].rid \notin Seen(i)')
      BY <2>2, <2>3, <3>1 DEF Shows
    <3> QED
      BY <2>2, <2>4, <3>2, <3>3, ShowsKept
  <2> HIDE DEF links
  <2>6. GoodList(router_list') /\ Ours' = links
    BY <2>1, <2>5, OursReplaced DEF Ours
  <2>7. AllShown'
    BY <2>5, <2>6 DEF AllShown
  <2>8. DownSettled'
    BY <1>2, <2>1 DEF DownSettled, IInv
  <2>9. /\ nbr_routers' \in [Ifaces -> SUBSET Others] /\ ifUp' \subseteq Ifaces
        /\ sent' \in [Others -> 0..(SEQ_MOD - 1)]
    BY <2>1 DEF IInv, RestTyped
  <2>10. learned' \subseteq learned
    BY <2>1
  <2>11. Propagates /\ fault' = fault /\ checked' \subseteq checked
    BY <2>1
  <2> QED
    BY <2>6, <2>7, <2>8, <2>9, <2>10, <2>11, Propagated
<1> QED
  BY <1>1, <1>2

\* An interface without neighbours comes up.
LEMMA BroughtUp ==
    ASSUME IInv, NEW iface \in Ifaces, iface_up(iface), nbr_routers[iface] = {}
    PROVE  IInv'
<1> DEFINE link == [subnet |-> SubnetOf[iface], rid |-> NoRouter]
           links == node_push_back(Ours, link)
<1>1. /\ Propagates /\ iface \notin ifUp /\ ifUp' = ifUp \cup {iface}
      /\ router_list' = IF \E k \in DOMAIN Ours : Ours[k] = link THEN router_list
                        ELSE WithOurs(links)
      /\ UNCHANGED <<nbr_routers, checked, learned, sent, fault>>
  BY DEF iface_up
<1>2. /\ SubnetOf[iface] \in Subnets
      /\ Ours \in Seq(LinkRecords)
      /\ Shows(Ours, SubnetOf[iface], Seen(iface))
      /\ \A i \in Ifaces : SubnetOf[i] = SubnetOf[iface] => i = iface
      /\ \A i \in Ifaces : Shows(Ours, SubnetOf[i], Seen(i))
  BY IfaceFacts
<1>3. link \in LinkRecords /\ link.subnet = SubnetOf[iface] /\ link.rid = NoRouter
  BY <1>2 DEF LinkRecords
<1>4. /\ Seen(iface) = {} /\ Seen(iface)' = {NoRouter}
      /\ \A i \in Ifaces : i # iface => Seen(i)' = Seen(i)
  BY <1>1 DEF Seen
<1>5. router_list' = WithOurs(links)
  BY <1>1, <1>2, <1>3, <1>4 DEF Shows
<1> HIDE DEF link
<1>6. links \in Seq(LinkRecords) /\ Shows(links, SubnetOf[iface], {NoRouter})
  <2>1. NoRouter \notin Seen(iface) /\ Seen(iface) \cup {NoRouter} = {NoRouter}
    BY <1>4
  <2> QED
    BY <1>2, <1>3, <2>1, ShowsAdded
<1>7. ASSUME NEW i \in Ifaces, i # iface PROVE Shows(links, SubnetOf[i], Seen(i))
  <2>1. link.subnet # SubnetOf[i]
    BY <1>2, <1>3, <1>7
  <2> QED
    BY <1>2, <1>3, <2>1, ShowsAdded
<1> HIDE DEF links
<1>8. GoodList(router_list') /\ Ours' = links
  BY <1>5, <1>6, OursReplaced DEF Ours
<1>9. AllShown'
  BY <1>4, <1>6, <1>7, <1>8 DEF AllShown
<1>10. DownSettled'
  BY <1>1 DEF DownSettled, IInv
<1> QED
  BY <1>1, <1>8, <1>9, <1>10, Propagated DEF IInv, RestTyped

LEMMA UpKeeps ==
    ASSUME IInv, NEW iface \in Ifaces, iface_up(iface)
    PROVE  IInv'
<1>1. CASE nbr_routers[iface] # {}
  <2>1. /\ UNCHANGED <<router_list, nbr_routers, ifUp, learned, dijkstra_dirty, sent>>
        /\ checked' = checked /\ fault' = "freed twice"
    BY <1>1 DEF iface_up
  <2> QED
    BY <2>1, NothingChanged DEF IInv, RestTyped
<1>2. CASE nbr_routers[iface] = {}
  BY <1>2, BroughtUp
<1> QED
  BY <1>1, <1>2

\* A handler that only changes entries of other routers.
LEMMA OthersChanged ==
    ASSUME IInv, GoodList(router_list'), router_list'[Us].interface_list = Ours,
           UNCHANGED <<nbr_routers, checked, ifUp, learned, fault>>,
           dijkstra_dirty' \in BOOLEAN, dijkstra_dirty => dijkstra_dirty',
           sent' \in [Others -> 0..(SEQ_MOD - 1)]
    PROVE  IInv'
<1>1. Ours' = Ours /\ \A i \in Ifaces : Seen(i)' = Seen(i)
  BY DEF Ours, Seen
<1>2. AllShown' /\ DownSettled'
  BY <1>1 DEF IInv, AllShown, DownSettled
<1>3. RestTyped'
  BY DEF IInv, RestTyped
<1>4. RoutesUseNeighbors'
  BY DEF IInv, RoutesUseNeighbors
<1> QED
  BY <1>2, <1>3, <1>4 DEF IInv

LEMMA PopulatedTyped ==
    ASSUME NEW old \in Seq(LinkRecords), NEW adv \in Seq(LinkRecords)
    PROVE  Populated(old, adv) \in Seq(LinkRecords)
<1> DEFINE both == {k \in DOMAIN old : \E l \in DOMAIN adv : adv[l] = old[k]}
           new  == {l \in DOMAIN adv : /\ \A k \in DOMAIN old : old[k] # adv[l]
                                       /\ \A k \in 1..(l - 1) : adv[k] # adv[l]}
<1>1. both \in SUBSET (DOMAIN old) /\ new \in SUBSET (DOMAIN adv)
  OBVIOUS
<1>2. Populated(old, adv) = IF old = <<>> THEN adv ELSE Keep(old, both) \o Keep(adv, new)
  BY DEF Populated
<1> HIDE DEF both, new
<1>3. Keep(old, both) \in Seq(LinkRecords) /\ Keep(adv, new) \in Seq(LinkRecords)
  BY <1>1, KeepProperties
<1>4. Keep(old, both) \o Keep(adv, new) \in Seq(LinkRecords)
  BY <1>3, ConcatProperties
<1> QED
  BY <1>2, <1>4

LEMMA LsuKeeps ==
    ASSUME IInv, NEW rid \in Others, NEW seq \in 0..(SEQ_MOD - 1),
           NEW adv \in Advertised[rid], process_pwospf_lsu_packet(rid, seq, adv),
           sent' \in [Others -> 0..(SEQ_MOD - 1)]
    PROVE  IInv'
<1>1. /\ GoodList(router_list) /\ Us \in DOMAIN router_list
      /\ \A i \in DOMAIN router_list : router_list[i] \in Routers
      /\ \A i \in DOMAIN router_list : router_list[i].rid \in Others <=> i # Us
  BY GoodListIndices DEF IInv
<1>2. adv \in Seq(LinkRecords) /\ rid \in Rids
  BY AdvertisedAssumption DEF Rids
<1>3. UNCHANGED <<nbr_routers, checked, ifUp, learned, fault>> /\ dijkstra_dirty \in BOOLEAN
  BY DEF process_pwospf_lsu_packet, IInv, RestTyped
<1>4. CASE Known(rid) = {}
  <2> DEFINE e == [rid |-> rid, seq |-> seq, interface_list |-> adv, prev_router |-> Null]
  <2>1. router_list' = node_push_back(router_list, e) /\ dijkstra_dirty' = TRUE
    BY <1>4 DEF process_pwospf_lsu_packet, Propagates
  <2>2. e \in Routers /\ e.rid = rid
    BY <1>2 DEF Routers
  <2>3. \A i \in DOMAIN router_list : router_list[i].rid # e.rid
    BY <1>4 DEF Known
  <2> HIDE DEF e
  <2>4. GoodList(router_list') /\ router_list'[Us] = router_list[Us]
    BY <1>1, <2>1, <2>2, <2>3, RouterAdded
  <2> QED
    BY <1>3, <2>1, <2>4, OthersChanged DEF Ours
<1>5. CASE Known(rid) # {}
  <2> DEFINE i == CHOOSE i \in Known(rid) : TRUE
             links == Populated(router_list[i].interface_list, adv)
             e == [router_list[i] EXCEPT !.seq = seq, !.interface_list = links]
  <2>1. /\ router_list' = [router_list EXCEPT ![i].seq = seq, ![i].interface_list = links]
        /\ dijkstra_dirty' =
              (dijkstra_dirty \/ links # router_list[i].interface_list \/ links = <<>>)
    BY <1>5 DEF process_pwospf_lsu_packet
  <2>2. i \in Known(rid)
    BY <1>5
  <2> HIDE DEF i
  <2>3. /\ i \in DOMAIN router_list /\ router_list[i].rid = rid
        /\ i # Us /\ router_list[i] \in Routers
    BY <1>1, <2>2 DEF Known
  <2>4. links \in Seq(LinkRecords)
    BY <1>2, <2>3, PopulatedTyped DEF Routers
  <2> HIDE DEF links
  <2>5. e \in Routers /\ e.rid = router_list[i].rid
    BY <2>3, <2>4 DEF Routers
  <2>6. router_list' = [router_list EXCEPT ![i] = e]
    BY <2>1
  <2> HIDE DEF e
  <2>7. GoodList(router_list')
    BY <1>1, <2>3, <2>5, <2>6, EntryReplaced
  <2>8. router_list'[Us] = router_list[Us]
    BY <1>1, <2>3, <2>6
  <2>9. dijkstra_dirty' \in BOOLEAN /\ (dijkstra_dirty => dijkstra_dirty')
    BY <2>1, Zenon
  <2> QED
    BY <1>3, <2>7, <2>8, <2>9, OthersChanged DEF Ours
<1> QED
  BY <1>4, <1>5

LEMMA LsuTimeoutKeeps ==
    ASSUME IInv, NEW rid \in Others, pwospf_lsu_timeout_thread(rid)
    PROVE  IInv'
<1> DEFINE rest == node_remove(router_list, Known(rid))
           r == [i \in DOMAIN rest |->
                   IF rest[i].prev_router = rid
                   THEN [rest[i] EXCEPT !.prev_router = Freed] ELSE rest[i]]
<1>1. /\ Propagates /\ router_list' = r
      /\ UNCHANGED <<nbr_routers, checked, ifUp, learned, sent, fault>>
  BY DEF pwospf_lsu_timeout_thread
<1>2. /\ GoodList(router_list) /\ Us \in DOMAIN router_list
      /\ \A i \in DOMAIN router_list : router_list[i].rid \in Others <=> i # Us
  BY GoodListIndices DEF IInv
<1>3. Known(rid) \in SUBSET (DOMAIN router_list) /\ Us \notin Known(rid)
  BY <1>2 DEF Known
<1> HIDE DEF rest
<1>4. GoodList(rest) /\ rest[Us] = router_list[Us]
  BY <1>2, <1>3, RoutersRemoved DEF rest
<1>5. /\ Len(rest) \in Nat /\ DOMAIN rest = 1..Len(rest) /\ Us \in DOMAIN rest
      /\ \A i \in DOMAIN rest : rest[i] \in Routers
  BY <1>4, GoodListIndices
<1>6. DOMAIN r = 1..Len(rest)
  BY <1>5
<1>7. ASSUME NEW i \in DOMAIN rest
      PROVE  /\ r[i] \in Routers /\ r[i].rid = rest[i].rid
             /\ r[i].interface_list = rest[i].interface_list
             /\ rest[i].prev_router # rid => r[i] = rest[i]
  <2>1. rest[i] \in Routers
    BY <1>5
  <2>2. CASE rest[i].prev_router = rid
    <3> DEFINE e == [rest[i] EXCEPT !.prev_router = Freed]
    <3>1. r[i] = e
      BY <2>2
    <3>2. /\ e \in Routers /\ e.rid = rest[i].rid
          /\ e.interface_list = rest[i].interface_list
      BY <2>1 DEF Routers
    <3> HIDE DEF e, r
    <3> QED
      BY <2>2, <3>1, <3>2
  <2>3. CASE rest[i].prev_router # rid
    <3>1. r[i] = rest[i]
      BY <2>3
    <3> HIDE DEF r
    <3> QED
      BY <2>1, <3>1
  <2> QED
    BY <2>2, <2>3
<1> HIDE DEF r
<1>8. rest[Us].prev_router # rid
  BY <1>4, RidsAssumption DEF GoodList, Rids
<1>9. GoodList(r)
  <2>1. r \in Seq(Routers)
    <3>1. DOMAIN r = DOMAIN rest
      BY <1>5, <1>6
    <3>2. r = [i \in 1..Len(rest) |-> r[i]]
      BY <1>5, <1>6 DEF r
    <3>3. \A i \in 1..Len(rest) : r[i] \in Routers
      BY <1>5, <1>7
    <3> QED
      BY <1>5, <3>2, <3>3
  <2>2. r # <<>>
    BY <1>5, <1>6
  <2> QED
    BY <1>4, <1>5, <1>6, <1>7, <1>8, <2>1, <2>2 DEF GoodList
<1>10. r[Us].interface_list = Ours
  BY <1>4, <1>5, <1>7 DEF Ours
<1> QED
  BY <1>1, <1>9, <1>10, OthersChanged DEF Propagates, IInv, RestTyped

-----------------------------------------------------------------------------
(* The routes.                                                             *)

\* The interface of a route is the only one found, and one of those looked in.
LEMMA FirstIfaceFacts ==
    ASSUME NEW S, NEW a \in FirstIface(S), NEW b \in FirstIface(S)
    PROVE  a = b /\ a \in S /\ a \in Ifaces
<1>1. PICK m \in DOMAIN IfList : /\ a = IfList[m] /\ a \in S
                                  /\ \A l \in 1..(m - 1) : IfList[l] \notin S
  BY DEF FirstIface
<1>2. PICK n \in DOMAIN IfList : /\ b = IfList[n] /\ b \in S
                                  /\ \A l \in 1..(n - 1) : IfList[l] \notin S
  BY DEF FirstIface
<1>3. m \in 1..Len(IfList) /\ n \in 1..Len(IfList) /\ Len(IfList) \in Nat
  BY IfacesAssumption
<1>4. ~(m < n)
  <2>1. SUFFICES ASSUME m < n PROVE FALSE
    OBVIOUS
  <2>2. m \in 1..(n - 1)
    BY <1>3, <2>1
  <2> QED
    BY <1>1, <1>2, <2>2
<1>5. ~(n < m)
  <2>1. SUFFICES ASSUME n < m PROVE FALSE
    OBVIOUS
  <2>2. n \in 1..(m - 1)
    BY <1>3, <2>1
  <2> QED
    BY <1>1, <1>2, <2>2
<1>6. m = n
  BY <1>3, <1>4, <1>5
<1> QED
  BY <1>1, <1>2, <1>6 DEF Ifaces

LEMMA DijkstraKeeps ==
    ASSUME IInv, dijkstra_thread
    PROVE  IInv'
<1> DEFINE st == Found(router_list, Prevs)
           next(c) == NextOf(router_list, st, c)
           ifaces(c) == IfaceFor(next(c), Subnet(router_list, c))
           routed == {c \in Wrappers(router_list, st) : ifaces(c) # {}}
           lost == {c \in routed :
                      /\ c[1] # Us
                      /\ \A iface \in ifaces(c) : next(c) \notin nbr_routers[iface]}
           route(c) == [subnet |-> Subnet(router_list, c),
                        iface  |-> CHOOSE iface \in ifaces(c) : TRUE,
                        gw     |-> IF c[1] = Us THEN Direct ELSE next(c)]
           r == [i \in DOMAIN router_list |->
                   [router_list[i] EXCEPT !.prev_router = st.prev[i]]]
<1>1. /\ dijkstra_dirty' = FALSE /\ router_list' = r
      /\ fault' \in {"none", "freed router", "assertion"}
      /\ fault' = "none" => lost = {}
      /\ learned' = IF fault' = "none" THEN {route(c) : c \in routed} ELSE {}
      /\ UNCHANGED <<nbr_routers, checked, ifUp, sent>>
  BY DEF dijkstra_thread
<1>2. /\ Len(router_list) \in Nat /\ DOMAIN router_list = 1..Len(router_list)
      /\ Us \in DOMAIN router_list
      /\ \A i \in DOMAIN router_list : router_list[i] \in Routers
  BY GoodListIndices DEF IInv
<1>3. /\ st.prev \in [DOMAIN router_list -> Rids \cup {Null, Freed}]
      /\ st.prev[Us] = Null
  <2> DEFINE P == Rids \cup {Null, Freed}
  <2>1. /\ Prevs \in [DOMAIN router_list -> P]
        /\ \A i \in DOMAIN router_list : router_list[i].rid \in P
    BY <1>2 DEF Prevs, Routers
  <2>2. Prevs[Us] = Null
    BY <1>2 DEF Prevs, IInv, GoodList
  <2> HIDE DEF P
  <2>3. st \in Loops(router_list, P) /\ st.prev[Us] = Prevs[Us]
    BY <1>2, <2>1, FoundPointers
  <2> HIDE DEF st
  <2>4. st.prev \in [DOMAIN router_list -> P]
    BY <2>3 DEF Loops
  <2> QED
    BY <2>2, <2>3, <2>4 DEF P
<1> HIDE DEF st
<1>4. GoodList(r) /\ r[Us].interface_list = Ours
  <2>1. ASSUME NEW i \in DOMAIN router_list
        PROVE  /\ r[i] \in Routers /\ r[i].rid = router_list[i].rid
               /\ r[i].interface_list = router_list[i].interface_list
               /\ r[i].prev_router = st.prev[i]
    <3> DEFINE e == [router_list[i] EXCEPT !.prev_router = st.prev[i]]
    <3>1. st.prev[i] \in Rids \cup {Null, Freed} /\ router_list[i] \in Routers
      BY <1>2, <1>3
    <3>2. /\ e \in Routers /\ e.rid = router_list[i].rid /\ e.prev_router = st.prev[i]
          /\ e.interface_list = router_list[i].interface_list
      BY <3>1 DEF Routers
    <3>3. r[i] = e
      OBVIOUS
    <3> HIDE DEF e, r
    <3> QED
      BY <3>2, <3>3
  <2>2. DOMAIN r = 1..Len(router_list)
    BY <1>2
  <2>3. r = [i \in 1..Len(router_list) |-> r[i]]
    BY <1>2
  <2> HIDE DEF r
  <2>4. r \in Seq(Routers)
    BY <1>2, <2>1, <2>3
  <2>5. r # <<>>
    BY <1>2, <2>2
  <2> QED
    BY <1>2, <1>3, <2>1, <2>2, <2>4, <2>5 DEF GoodList, IInv, Ours
<1> HIDE DEF r
<1>5. Ours' = Ours /\ \A i \in Ifaces : Seen(i)' = Seen(i)
  BY <1>1, <1>4 DEF Ours, Seen
<1>6. AllShown' /\ DownSettled'
  <2>1. AllShown'
    BY <1>5 DEF IInv, AllShown
  <2>2. DownSettled'
    BY <1>1 DEF IInv, DownSettled
  <2> QED
    BY <2>1, <2>2
<1>7. ASSUME fault' = "none", NEW c \in routed
      PROVE  /\ route(c) \in [subnet : Subnets, iface : Ifaces, gw : Others \cup {Direct}]
             /\ route(c).iface \in ifUp \/ nbr_routers[route(c).iface] # {}
             /\ route(c).gw = Direct \/ route(c).gw \in nbr_routers[route(c).iface]
  <2> DEFINE iface == CHOOSE iface \in ifaces(c) : TRUE
             rid == next(c)
             subnet == Subnet(router_list, c)
             byRid == {i \in Ifaces : rid \in nbr_routers[i]}
             bySubnet == {i \in Ifaces : SubnetOf[i] = subnet}
             S == IF byRid # {} THEN byRid ELSE bySubnet
  <2>1. ifaces(c) = FirstIface(S)
    BY DEF IfaceFor
  <2>2. ifaces(c) # {} /\ c \in Wrappers(router_list, st)
    OBVIOUS
  <2>3. iface \in FirstIface(S)
    BY <2>1, <2>2
  <2>4. route(c) = [subnet |-> subnet, iface |-> iface,
                    gw |-> IF c[1] = Us THEN Direct ELSE rid]
    OBVIOUS
  <2>5. c \in Links(router_list)
    BY <2>2 DEF Wrappers, Wrapped
  <2>6. PICK i \in DOMAIN router_list :
               \E k \in DOMAIN router_list[i].interface_list : c = <<i, k>>
    BY <2>5 DEF Links
  <2>7. PICK k \in DOMAIN router_list[i].interface_list : c = <<i, k>>
    BY <2>6
  <2>8. subnet = router_list[i].interface_list[k].subnet /\ c[1] = i
    BY <2>7 DEF Subnet
  <2>9. subnet \in Subnets
    <3>1. router_list[i].interface_list \in Seq(LinkRecords)
      BY <1>2 DEF Routers
    <3>2. router_list[i].interface_list[k] \in LinkRecords
      BY <3>1
    <3> QED
      BY <2>8, <3>2 DEF LinkRecords
  <2>10. c[1] = Us \/ \E a \in ifaces(c) : rid \in nbr_routers[a]
    BY <1>1, <1>7
  <2> HIDE DEF S, iface, rid, subnet, ifaces, routed, lost, next, route
  <2>11. iface \in S /\ iface \in Ifaces
    BY <2>3, FirstIfaceFacts
  <2>12. c[1] = Us \/ rid \in nbr_routers[iface]
    BY <2>1, <2>3, <2>10, FirstIfaceFacts
  <2>13. iface \in ifUp \/ nbr_routers[iface] # {}
    <3>1. SUFFICES ASSUME rid \notin nbr_routers[iface]
                   PROVE  iface \in ifUp \/ nbr_routers[iface] # {}
      OBVIOUS
    <3>2. i = Us /\ SubnetOf[iface] = subnet
      BY <2>8, <2>11, <2>12, <3>1 DEF S
    <3>3. k \in DOMAIN Ours /\ Ours[k].subnet = SubnetOf[iface]
      BY <2>7, <2>8, <3>2 DEF Ours
    <3>4. Shows(Ours, SubnetOf[iface], Seen(iface))
      BY <2>11 DEF IInv, AllShown
    <3>5. Seen(iface) # {}
      BY <3>3, <3>4 DEF Shows
    <3> QED
      BY <3>5 DEF Seen
  <2>14. nbr_routers[iface] \subseteq Others
    BY <2>11 DEF IInv, RestTyped
  <2>15. CASE c[1] = Us
    BY <2>4, <2>9, <2>11, <2>13, <2>15
  <2>16. CASE c[1] # Us
    BY <2>4, <2>9, <2>11, <2>12, <2>13, <2>14, <2>16
  <2> QED
    BY <2>15, <2>16
<1> HIDE DEF routed, route, lost
<1>8. RestTyped'
  <2>1. learned' \subseteq [subnet : Subnets, iface : Ifaces, gw : Others \cup {Direct}]
    BY <1>1, <1>7
  <2> QED
    BY <1>1, <2>1 DEF IInv, RestTyped
<1>9. RoutesUseNeighbors'
  BY <1>1, <1>7 DEF RoutesUseNeighbors
<1> QED
  BY <1>1, <1>4, <1>6, <1>8, <1>9 DEF IInv

LEMMA NextIInv == IInv /\ [Next]_vars => IInv'
<1> SUFFICES ASSUME IInv, [Next]_vars PROVE IInv'
  OBVIOUS
<1>1. ASSUME NEW iface \in Ifaces, NEW rid \in Others, <<iface, rid>> \in Attached,
             \/ process_packet(iface, rid)
             \/ process_pwospf_hello_packet(iface, rid)
             \/ determine_timedout_interface(iface, rid)
      PROVE  IInv'
  BY <1>1, PacketKeeps, HelloKeeps, TimeoutKeeps
<1>2. sent \in [Others -> 0..(SEQ_MOD - 1)] /\ SEQ_MOD \in Nat /\ SEQ_MOD > 0
  <2>1. sent \in [Others -> 0..(SEQ_MOD - 1)]
    BY DEF IInv, RestTyped
  <2>2. SEQ_MOD \in Nat /\ SEQ_MOD > 0
    BY LimitsAssumption
  <2> QED
    BY <2>1, <2>2
<1>3. ASSUME NEW rid \in Others, NEW adv \in Advertised[rid], NewLsu(rid, adv)
      PROVE  IInv'
  <2> DEFINE seq == (sent[rid] + 1) % SEQ_MOD
  <2>1. seq \in 0..(SEQ_MOD - 1)
    BY <1>2
  <2>2. sent' = [sent EXCEPT ![rid] = seq]
    BY <1>3 DEF NewLsu
  <2>3. \/ process_pwospf_lsu_packet(rid, seq, adv)
        \/ UNCHANGED <<router_list, nbr_routers, checked, ifUp, learned,
                       dijkstra_dirty, fault>>
    BY <1>3 DEF NewLsu
  <2> HIDE DEF seq
  <2>4. sent' \in [Others -> 0..(SEQ_MOD - 1)]
    BY <1>2, <2>1, <2>2
  <2>5. CASE process_pwospf_lsu_packet(rid, seq, adv)
    BY <2>1, <2>4, <2>5, LsuKeeps
  <2>6. CASE UNCHANGED <<router_list, nbr_routers, checked, ifUp, learned,
                       dijkstra_dirty, fault>>
    <3>1. GoodList(router_list') /\ router_list'[Us].interface_list = Ours
      BY <2>6 DEF IInv, Ours
    <3>2. dijkstra_dirty' \in BOOLEAN /\ (dijkstra_dirty => dijkstra_dirty')
      BY <2>6 DEF IInv, RestTyped
    <3> QED
      BY <2>4, <2>6, <3>1, <3>2, OthersChanged
  <2> QED
    BY <2>3, <2>5, <2>6
<1>4. ASSUME NEW rid \in Others, NEW adv \in Advertised[rid],
             NEW seq \in 0..(SEQ_MOD - 1), LateLsu(rid, seq, adv)
      PROVE  IInv'
  BY <1>2, <1>4, LsuKeeps DEF LateLsu
<1>5. ASSUME NEW rid \in Others, pwospf_lsu_timeout_thread(rid) PROVE IInv'
  BY <1>5, LsuTimeoutKeeps
<1>6. ASSUME NEW iface \in Ifaces, iface_up(iface) \/ iface_down(iface) PROVE IInv'
  BY <1>6, UpKeeps, DownKeeps
<1>7. CASE dijkstra_thread
  BY <1>7, DijkstraKeeps
<1>8. CASE UNCHANGED vars
  BY <1>8, NothingChanged DEF vars, IInv, RestTyped
<1> QED
  BY <1>1, <1>3, <1>4, <1>5, <1>6, <1>7, <1>8 DEF Next

THEOREM Invariance == Spec => []IInv
BY InitIInv, NextIInv, PTL DEF Spec

(***************************************************************************)
(* The variables have their types: the handlers of process_pwospf_packet,  *)
(* the time-outs, the interface commands and compute_rtable keep the list  *)
(* of routers free of doubles and ourselves at its head.                   *)
(***************************************************************************)
THEOREM TypeCorrect == Spec => []TypeOK
BY Invariance, IInvImpliesTypeOK, PTL

(***************************************************************************)
(* What we advertise is what we see: HELLOs, their time-outs and the       *)
(* interface commands keep the links of our entry equal to the neighbours  *)
(* of the interfaces, also when a HELLO is handled after its interface     *)
(* went down; of those there is one on an interface that is down, at most. *)
(***************************************************************************)
THEOREM NeighborsAlwaysAdvertised == Spec => []NeighborsAdvertised
BY Invariance, IInvImpliesNeighbors, PTL

(***************************************************************************)
(* Once compute_rtable has run, every learned route to a gateway leaves to *)
(* a router that is still a neighbour on its interface, until the next     *)
(* change is noticed; an interface that is down has a route only when a    *)
(* late HELLO left a neighbour there.                                      *)
(***************************************************************************)
THEOREM RoutesAlwaysUseNeighbors == Spec => []RoutesUseNeighbors
<1>1. IInv => RoutesUseNeighbors
  BY DEF IInv
<1> QED
  BY <1>1, Invariance, PTL
-----------------------------------------------------------------------------
(* Distances.                                                              *)

(***************************************************************************)
(* What the rounds keep, where n have been run: distances are those of     *)
(* paths whose last link but one was found, and those found are nearest.   *)
(***************************************************************************)
PathsFrom(list, st) ==
    \A v \in DOMAIN list \ {Us} : st.distance[v] < Infinity =>
        \E w \in st.found : /\ st.prev[v] = list[w].rid
                            /\ Linked(list, w, v)
                            /\ st.distance[v] = st.distance[w] + 1

LinksFollowed(list, st) ==
    \A u \in st.found : \A v \in DOMAIN list :
        Linked(list, u, v) => st.distance[v] <= st.distance[u] + 1

FoundNearest(list, st) ==
    \A u \in st.found :
        /\ st.distance[u] < Infinity
        /\ \A v \in DOMAIN list \ st.found : st.distance[u] <= st.distance[v]

GoodRound(list, n, st) ==
    /\ st.distance[Us] = 0
    /\ \A v \in DOMAIN list : /\ st.distance[v] <= Infinity
                              /\ \/ st.distance[v] = Infinity
                                 \/ st.distance[v] <= Cardinality(st.found)
    /\ PathsFrom(list, st) /\ LinksFollowed(list, st) /\ FoundNearest(list, st)
    /\ n = 0 => st.found = {}
    /\ Cardinality(st.found) = n \/ get_shortest(list, st) = {}

\* None that has not been found is nearer.
Nearest(list, st, w) ==
    /\ w \in DOMAIN list \ st.found /\ st.distance[w] < Infinity
    /\ \A v \in DOMAIN list \ st.found : st.distance[w] <= st.distance[v]

LEMMA NearestFound ==
    ASSUME NEW list, Len(list) \in Nat, DOMAIN list = 1..Len(list), NEW P,
           Us \in DOMAIN list, NEW st \in Loops(list, P), NEW n \in Nat,
           GoodRound(list, n, st), Cardinality(st.found) = n, NEW w, Nearest(list, st, w)
    PROVE  GoodRound(list, n + 1, update_neighbor_distance(list, st, w))
<1> DEFINE L == DOMAIN list
           s == update_neighbor_distance(list, st, w)
           F == st.found \cup {w}
           d == st.distance
           nearer == {v \in L \ F : Linked(list, w, v) /\ d[w] + 1 < d[v]}
<1>1. /\ Infinity \in Nat /\ st.found \in SUBSET L /\ d \in [L -> Nat]
      /\ Us \in L /\ w \in L /\ w \notin st.found /\ d[w] < Infinity /\ d[w] \in Nat
      /\ \A v \in L : d[v] \in Nat
      /\ \A v \in L \ st.found : d[w] <= d[v]
  BY InfinityAssumption DEF Loops, Nearest
<1>2. /\ s.found = F
      /\ \A v \in L : s.distance[v] = IF v \in nearer THEN d[w] + 1 ELSE d[v]
      /\ \A v \in L : s.prev[v] = IF v \in nearer THEN list[w].rid ELSE st.prev[v]
  BY DEF update_neighbor_distance
<1>3. /\ d[Us] = 0 /\ \A v \in L : d[v] <= Infinity /\ (d[v] = Infinity \/ d[v] <= n)
      /\ PathsFrom(list, st) /\ LinksFollowed(list, st) /\ FoundNearest(list, st)
  BY DEF GoodRound
<1>4. IsFiniteSet(F) /\ Cardinality(F) = n + 1
  <2>1. IsFiniteSet(st.found)
    BY <1>1, IndicesCount, FS_Subset
  <2> QED
    BY <1>1, <2>1, FS_AddElement
<1> HIDE DEF s, d
<1>5. \A v \in F : v \in L /\ v \notin nearer /\ s.distance[v] = d[v]
  BY <1>1, <1>2
<1>6. \A v \in nearer : v \in L /\ v \notin F /\ Linked(list, w, v) /\ d[w] + 1 < d[v]
  OBVIOUS
<1>7. \A v \in L : v \notin F /\ v \notin nearer /\ Linked(list, w, v) => d[v] <= d[w] + 1
  BY <1>1
<1> HIDE DEF nearer, L
<1>8. \A v \in L : s.distance[v] \in Nat /\ s.distance[v] <= d[v]
  <2> TAKE v \in L
  <2>1. CASE v \in nearer
    BY <1>1, <1>2, <1>6, <2>1
  <2>2. CASE v \notin nearer
    BY <1>1, <1>2, <2>2
  <2> QED
    BY <2>1, <2>2
<1>9. s.distance[Us] = 0
  <2>1. s.distance[Us] \in Nat /\ s.distance[Us] <= 0
    BY <1>1, <1>3, <1>8
  <2> QED
    BY <2>1
<1>10. \A v \in L : /\ s.distance[v] <= Infinity
                    /\ s.distance[v] = Infinity \/ s.distance[v] <= n + 1
  <2> TAKE v \in L
  <2>1. CASE v \in nearer
    BY <1>1, <1>2, <1>3, <1>6, <2>1
  <2>2. CASE v \notin nearer
    BY <1>1, <1>2, <1>3, <2>2
  <2> QED
    BY <2>1, <2>2
<1>11. PathsFrom(list, s)
  <2>1. SUFFICES ASSUME NEW v \in L \ {Us}, s.distance[v] < Infinity
                 PROVE  \E u \in F : /\ s.prev[v] = list[u].rid
                                     /\ Linked(list, u, v)
                                     /\ s.distance[v] = s.distance[u] + 1
    BY <1>2 DEF PathsFrom, L
  <2>2. CASE v \in nearer
    BY <1>2, <1>5, <1>6, <2>2
  <2>3. CASE v \notin nearer
    <3>1. s.distance[v] = d[v] /\ s.prev[v] = st.prev[v]
      BY <1>2, <2>3
    <3>2. PICK u \in st.found : /\ st.prev[v] = list[u].rid
                                /\ Linked(list, u, v)
                                /\ d[v] = d[u] + 1
      BY <1>3, <2>1, <3>1 DEF PathsFrom, L, d
    <3> QED
      BY <1>5, <3>1, <3>2
  <2> QED
    BY <2>2, <2>3
<1>12. LinksFollowed(list, s)
  <2>1. SUFFICES ASSUME NEW u \in F, NEW v \in L, Linked(list, u, v)
                 PROVE  s.distance[v] <= s.distance[u] + 1
    BY <1>2 DEF LinksFollowed, L
  <2>2. CASE u \in st.found
    <3>1. d[v] <= d[u] + 1
      BY <1>3, <2>1, <2>2 DEF LinksFollowed, L, d
    <3>2. s.distance[u] = d[u] /\ d[u] \in Nat /\ d[v] \in Nat
      BY <1>1, <1>5
    <3> QED
      BY <1>8, <3>1, <3>2
  <2>3. CASE u = w
    <3>1. s.distance[u] = d[w]
      BY <1>5, <2>3
    <3>2. CASE v \in F
      <4>1. v = w \/ d[v] <= d[w]
        BY <1>1, <1>3, <3>2 DEF FoundNearest, d, L
      <4>2. s.distance[v] = d[v]
        BY <1>5, <3>2
      <4> QED
        BY <1>1, <3>1, <4>1, <4>2
    <3>3. CASE v \notin F
      <4>1. CASE v \in nearer
        BY <1>1, <1>2, <3>1, <4>1
      <4>2. CASE v \notin nearer
        BY <1>2, <1>7, <2>1, <2>3, <3>1, <3>3, <4>2
      <4> QED
        BY <4>1, <4>2
    <3> QED
      BY <3>2, <3>3
  <2> QED
    BY <2>2, <2>3
<1>13. FoundNearest(list, s)
  <2>1. SUFFICES ASSUME NEW u \in F
                 PROVE  /\ s.distance[u] < Infinity
                        /\ \A v \in L \ F : s.distance[u] <= s.distance[v]
    BY <1>2 DEF FoundNearest, L
  <2>2. d[u] < Infinity /\ d[u] <= d[w]
    <3>1. CASE u \in st.found
      BY <1>1, <1>3, <3>1 DEF FoundNearest, d, L
    <3>2. CASE u = w
      BY <1>1, <3>2
    <3> QED
      BY <3>1, <3>2
  <2>3. ASSUME NEW v \in L \ F PROVE d[u] <= s.distance[v]
    <3>1. d[w] <= d[v] /\ d[u] \in Nat /\ d[v] \in Nat
      BY <1>1, <1>5
    <3>2. s.distance[v] = d[v] \/ s.distance[v] = d[w] + 1
      BY <1>2
    <3> QED
      BY <1>1, <2>2, <3>1, <3>2
  <2> QED
    BY <1>5, <2>2, <2>3
<1>14. n + 1 # 0
  OBVIOUS
<1> QED
  BY <1>2, <1>4, <1>9, <1>10, <1>11, <1>12, <1>13, <1>14 DEF GoodRound, s, L

\* get_shortest finds one, when a router is in reach that has not been found.
LEMMA ShortestNearest ==
    ASSUME NEW list, Len(list) \in Nat, DOMAIN list = 1..Len(list), NEW P,
           NEW st \in Loops(list, P)
    PROVE  /\ \A w \in get_shortest(list, st) : Nearest(list, st, w)
           /\ get_shortest(list, st) = {} =>
                 \A v \in DOMAIN list \ st.found : ~(st.distance[v] < Infinity)
<1> DEFINE L == DOMAIN list \ st.found
           d == st.distance
<1>1. Infinity \in Nat /\ L \in SUBSET (1..Len(list)) /\ \A v \in L : d[v] \in Nat
  BY InfinityAssumption DEF Loops
<1>2. ASSUME NEW w \in get_shortest(list, st) PROVE Nearest(list, st, w)
  BY <1>1 DEF get_shortest, Nearest
<1>3. ASSUME NEW v \in L, d[v] < Infinity PROVE get_shortest(list, st) # {}
  <2> DEFINE K == {m \in 1..Infinity : \E u \in L : d[u] + 1 = m}
  <2>1. d[v] + 1 \in K
    BY <1>1, <1>3
  <2>2. PICK m \in K : \A j \in K : m <= j
    <3>1. K \in SUBSET (1..Infinity) /\ K # {}
      BY <2>1
    <3> QED
      BY <1>1, <3>1, LeastIndex
  <2>3. ASSUME NEW u \in L, d[u] < Infinity PROVE d[u] + 1 \in K
    <3>1. d[u] + 1 \in 1..Infinity
      BY <1>1, <2>3
    <3> QED
      BY <3>1
  <2> DEFINE J == {u \in L : d[u] + 1 = m}
  <2>4. PICK w \in J : \A j \in J : w <= j
    <3>1. J \in SUBSET (1..Len(list)) /\ J # {}
      BY <1>1, <2>2
    <3> QED
      BY <3>1, LeastIndex
  <2>5. w \in L /\ d[w] + 1 = m /\ m \in 1..Infinity
    BY <2>2, <2>4
  <2>6. d[w] < Infinity
    BY <1>1, <2>5
  <2>7. ASSUME NEW u \in L PROVE d[w] < d[u] \/ (d[w] = d[u] /\ w <= u)
    <3>1. d[w] \in Nat /\ d[u] \in Nat
      BY <1>1, <2>5
    <3>2. CASE d[u] < Infinity
      <4>1. m <= d[u] + 1
        BY <2>2, <2>3, <3>2
      <4>2. d[u] = d[w] => w <= u
        BY <2>4, <2>5
      <4> HIDE DEF L, d
      <4> QED
        BY <2>5, <3>1, <4>1, <4>2
    <3>3. CASE ~(d[u] < Infinity)
      <4> HIDE DEF d
      <4> QED
        BY <1>1, <2>6, <3>1, <3>3
    <3> QED
      BY <3>2, <3>3
  <2>8. w \in get_shortest(list, st)
    BY <2>5, <2>6, <2>7 DEF get_shortest
  <2> QED
    BY <2>8
<1> QED
  BY <1>2, <1>3

\* Every round keeps it, ...
LEMMA RoundGood ==
    ASSUME NEW list, Len(list) \in Nat, DOMAIN list = 1..Len(list), Us \in DOMAIN list,
           NEW P, NEW st \in Loops(list, P), NEW n \in Nat, Infinity > 0,
           GoodRound(list, n, st)
    PROVE  GoodRound(list, n + 1, Round(list, n + 1, st))
<1> DEFINE next == IF n + 1 = 1 THEN {Us} ELSE get_shortest(list, st)
           w    == CHOOSE w \in next : TRUE
<1>1. st.distance[Us] = 0 /\ (n = 0 => st.found = {})
  BY DEF GoodRound
<1>2. CASE next = {}
  <2>1. n + 1 # 1 /\ get_shortest(list, st) = {}
    BY <1>2
  <2>2. Round(list, n + 1, st) = st
    BY <1>2 DEF Round
  <2>3. n + 1 # 0
    OBVIOUS
  <2> QED
    BY <2>1, <2>2, <2>3 DEF GoodRound
<1>3. CASE next # {}
  <2>1. Round(list, n + 1, st) = update_neighbor_distance(list, st, w)
    BY <1>3 DEF Round
  <2>2. w \in next
    BY <1>3
  <2>3. Nearest(list, st, w) /\ Cardinality(st.found) = n
    <3>1. CASE n = 0
      <4>1. w = Us /\ st.found = {}
        BY <1>1, <2>2, <3>1
      <4>2. \A v \in DOMAIN list : st.distance[v] \in Nat
        BY DEF Loops
      <4>3. \A v \in DOMAIN list : st.distance[Us] <= st.distance[v]
        BY <1>1, <4>2
      <4>4. Nearest(list, st, Us)
        BY <1>1, <4>1, <4>3 DEF Nearest
      <4>5. Cardinality(st.found) = 0
        BY <4>1, FS_EmptySet
      <4> HIDE DEF w
      <4> QED
        BY <3>1, <4>1, <4>4, <4>5
    <3>2. CASE n # 0
      <4>1. w \in get_shortest(list, st)
        BY <2>2, <3>2
      <4>2. Cardinality(st.found) = n
        BY <4>1 DEF GoodRound
      <4> HIDE DEF w
      <4> QED
        BY <4>1, <4>2, ShortestNearest
    <3> QED
      BY <3>1, <3>2
  <2> HIDE DEF w
  <2> QED
    BY <2>1, <2>3, NearestFound
<1> QED
  BY <1>2, <1>3

(***************************************************************************)
(* ... and after the last one the distances are right: a router at a       *)
(* distance has its pointer to one that is one link nearer, and no link of *)
(* a router at a distance leads more than one link farther.                *)
(***************************************************************************)
RightDistances(list, st) ==
    /\ st.distance[Us] = 0
    /\ \A v \in DOMAIN list : /\ st.distance[v] \in Nat
                              /\ st.distance[v] < Infinity => st.distance[v] <= Len(list)
    /\ \A v \in DOMAIN list \ {Us} : st.distance[v] < Infinity =>
          \E w \in DOMAIN list : /\ st.prev[v] = list[w].rid
                                 /\ Linked(list, w, v)
                                 /\ st.distance[v] = st.distance[w] + 1
    /\ \A u, v \in DOMAIN list : st.distance[u] < Infinity /\ Linked(list, u, v)
          => st.distance[v] <= st.distance[u] + 1

LEMMA FoundDistances ==
    ASSUME NEW list, Len(list) \in Nat, DOMAIN list = 1..Len(list),
           NEW prev, NEW P, prev \in [DOMAIN list -> P],
           \A i \in DOMAIN list : list[i].rid \in P, Us \in DOMAIN list, Infinity > 0
    PROVE  RightDistances(list, Found(list, prev))
<1>1. PICK f : /\ Found(list, prev) = f[Len(list)]
               /\ f[0] = Start(list, prev)
               /\ \A n \in 1..Len(list) : f[n] = Round(list, n, f[n - 1])
  BY FoundIsRun
<1> DEFINE N == Len(list)
           h == [k \in 0..N |-> <<k, f[k]>>]
           I == {p \in Nat \X Loops(list, P) : GoodRound(list, p[1], p[2])}
<1>2. h[0] \in I
  <2>1. Start(list, prev) \in Loops(list, P)
    BY InfinityAssumption DEF Loops, Start
  <2>2. GoodRound(list, 0, Start(list, prev))
    <3>1. /\ Start(list, prev).found = {}
          /\ \A v \in DOMAIN list : Start(list, prev).distance[v] =
                                       IF v = Us THEN 0 ELSE Infinity
      BY DEF Start
    <3>2. Cardinality({}) = 0
      BY FS_EmptySet
    <3>3. PathsFrom(list, Start(list, prev))
      BY <3>1, InfinityAssumption DEF PathsFrom
    <3>4. LinksFollowed(list, Start(list, prev)) /\ FoundNearest(list, Start(list, prev))
      BY <3>1 DEF LinksFollowed, FoundNearest
    <3> QED
      BY <3>1, <3>2, <3>3, <3>4, InfinityAssumption DEF GoodRound
  <2>3. h[0] = <<0, Start(list, prev)>>
    BY <1>1
  <2> QED
    BY <2>1, <2>2, <2>3
<1>3. ASSUME NEW k \in 1..N, h[k - 1] \in I PROVE h[k] \in I
  <2>1. k \in Nat /\ k \in 0..N /\ k - 1 \in 0..N /\ k - 1 \in Nat /\ (k - 1) + 1 = k
    OBVIOUS
  <2>2. h[k - 1] = <<k - 1, f[k - 1]>> /\ h[k] = <<k, f[k]>>
    BY <2>1
  <2>3. f[k - 1] \in Loops(list, P) /\ GoodRound(list, k - 1, f[k - 1])
    BY <1>3, <2>1, <2>2
  <2>4. f[k] = Round(list, k, f[k - 1])
    BY <1>1
  <2>5. f[k] \in Loops(list, P)
    BY <2>3, <2>4, RoundTyped
  <2>6. GoodRound(list, k, f[k])
    <3> HIDE DEF h, I
    <3>1. GoodRound(list, (k - 1) + 1, Round(list, (k - 1) + 1, f[k - 1]))
      BY <2>1, <2>3, RoundGood
    <3> QED
      BY <2>1, <2>4, <3>1
  <2> QED
    BY <2>1, <2>2, <2>5, <2>6
<1>4. h[N] \in I
  <2> HIDE DEF h, I
  <2> QED
    BY <1>2, <1>3, RunStays
<1>5. h[N] = <<N, f[N]>>
  OBVIOUS
<1> DEFINE st == Found(list, prev)
           d == st.distance
<1>6. st \in Loops(list, P) /\ GoodRound(list, N, st)
  BY <1>1, <1>4, <1>5
<1> HIDE DEF st, h, I
<1>7. st.found \in SUBSET (DOMAIN list) /\ \A v \in DOMAIN list : d[v] \in Nat
  BY <1>6 DEF Loops
<1>8. IsFiniteSet(st.found) /\ Cardinality(st.found) <= N
  BY <1>7, IndicesCount, FS_Subset
<1>9. Cardinality(st.found) \in Nat
  BY <1>8, FS_CardinalityType
<1>10. \A v \in DOMAIN list : d[v] < Infinity => v \in st.found
  <2>1. CASE get_shortest(list, st) = {}
    BY <1>6, <2>1, ShortestNearest
  <2>2. CASE Cardinality(st.found) = N
    <3>1. st.found = DOMAIN list
      BY <1>7, <2>2, IndicesCount, FS_Subset
    <3> QED
      BY <3>1
  <2> QED
    BY <1>6, <2>1, <2>2 DEF GoodRound
<1>11. /\ d[Us] = 0
       /\ \A v \in DOMAIN list : d[v] = Infinity \/ d[v] <= Cardinality(st.found)
       /\ PathsFrom(list, st) /\ LinksFollowed(list, st)
  BY <1>6 DEF GoodRound
<1> HIDE DEF d
<1>12. \A v \in DOMAIN list : d[v] < Infinity => d[v] <= N
  BY <1>7, <1>8, <1>9, <1>11, InfinityAssumption
<1>13. \A v \in DOMAIN list \ {Us} : d[v] < Infinity =>
          \E w \in DOMAIN list : /\ st.prev[v] = list[w].rid
                                 /\ Linked(list, w, v)
                                 /\ d[v] = d[w] + 1
  BY <1>7, <1>11 DEF PathsFrom, d
<1>14. \A u, v \in DOMAIN list : d[u] < Infinity /\ Linked(list, u, v)
          => d[v] <= d[u] + 1
  BY <1>10, <1>11 DEF LinksFollowed, d
<1> QED
  BY <1>7, <1>11, <1>12, <1>13, <1>14 DEF RightDistances, d, st

-----------------------------------------------------------------------------
(* What is in reach.                                                       *)

\* A set with 0, and with k whenever it has k - 1, has every number up to n.
LEMMA UpTo ==
    ASSUME NEW n \in Nat, NEW K, 0 \in K, \A k \in 1..n : k - 1 \in K => k \in K
    PROVE  \A k \in 0..n : k \in K
<1> DEFINE J == {k \in 1..n : k \notin K}
<1>1. J = {}
  <2>1. SUFFICES ASSUME J # {} PROVE FALSE
    OBVIOUS
  <2>2. PICK m \in J : \A j \in J : m <= j
    <3>1. J \in SUBSET (1..n)
      OBVIOUS
    <3> QED
      BY <2>1, <3>1, LeastIndex
  <2>3. m \in 1..n /\ m \notin K /\ (m - 1 = 0 \/ m - 1 \in 1..n) /\ ~(m <= m - 1)
    OBVIOUS
  <2>4. m - 1 \in K
    BY <2>2, <2>3
  <2> QED
    BY <2>3, <2>4
<1>2. \A k \in 0..n : k = 0 \/ k \in 1..n
  OBVIOUS
<1> QED
  BY <1>1, <1>2

\* One link more.
Wider(list, B) == B \cup {v \in DOMAIN list : \E w \in B : Linked(list, w, v)}

LEMMA WithinLevels ==
    ASSUME NEW list, Len(list) \in Nat, NEW i \in DOMAIN list
    PROVE  /\ Within(list, i) \in [0..Len(list) -> SUBSET (DOMAIN list)]
           /\ Within(list, i)[0] = {i}
           /\ \A n \in 1..Len(list) :
                 Within(list, i)[n] = Wider(list, Within(list, i)[n - 1])
<1> DEFINE N == Len(list)
           D == SUBSET (DOMAIN list)
           a == {i}
           G == [p \in (1..N) \X D |-> Wider(list, p[2])]
           Body(b) == [n \in 0..N |-> IF n = 0 THEN a ELSE Wider(list, b[n - 1])]
<1>1. a \in D
  OBVIOUS
<1>2. G \in [(1..N) \X D -> D]
  BY DEF Wider
<1>3. PICK f \in [0..N -> D] : IsRun(f, N, a, G)
  <2> HIDE DEF D, a, G
  <2> QED
    BY <1>1, <1>2, RunExists
<1>4. Within(list, i) = CHOOSE b : b = Body(b)
  BY DEF Within, Wider
<1>5. f = Body(f)
  <2>1. ASSUME NEW n \in 0..N PROVE f[n] = IF n = 0 THEN a ELSE Wider(list, f[n - 1])
    <3>1. CASE n = 0
      BY <1>3, <3>1 DEF IsRun
    <3>2. CASE n # 0
      <4>1. n \in 1..N /\ n - 1 \in 0..N
        BY <3>2
      <4>2. f[n - 1] \in D /\ f[n] = G[<<n, f[n - 1]>>]
        BY <1>3, <4>1 DEF IsRun
      <4> HIDE DEF D, a
      <4>3. G[<<n, f[n - 1]>>] = Wider(list, f[n - 1])
        BY <4>1, <4>2
      <4> QED
        BY <3>2, <4>2, <4>3
    <3> QED
      BY <3>1, <3>2
  <2> HIDE DEF D, a
  <2> QED
    BY <2>1
<1> DEFINE b == Within(list, i)
<1>6. b = Body(b)
  <2> HIDE DEF Body
  <2> QED
    BY <1>4, <1>5
<1> HIDE DEF b
<1>7. \A n \in 0..N : b[n] = IF n = 0 THEN a ELSE Wider(list, b[n - 1])
  <2> HIDE DEF a
  <2> QED
    BY <1>6
<1>8. b[0] = a /\ \A n \in 1..N : b[n] = Wider(list, b[n - 1])
  <2> HIDE DEF a
  <2>1. 0 \in 0..N /\ \A n \in 1..N : n \in 0..N /\ n # 0
    OBVIOUS
  <2> QED
    BY <1>7, <2>1
<1>9. \A n \in 0..N : b[n] \in D
  <2> DEFINE K == {n \in 0..N : b[n] \in D}
  <2>1. 0 \in K
    BY <1>1, <1>8
  <2>2. ASSUME NEW k \in 1..N, k - 1 \in K PROVE k \in K
    <3>1. b[k] = Wider(list, b[k - 1]) /\ b[k - 1] \in D /\ k \in 0..N
      BY <1>8, <2>2
    <3> HIDE DEF K
    <3>2. b[k] \in D
      BY <3>1 DEF Wider
    <3> QED
      BY <3>1, <3>2 DEF K
  <2>3. \A k \in 0..N : k \in K
    <3> HIDE DEF K
    <3> QED
      BY <2>1, <2>2, UpTo
  <2> QED
    BY <2>3
<1>10. b = [n \in 0..N |-> b[n]]
  <2>1. DOMAIN Body(b) = 0..N /\ Body(b) = [n \in DOMAIN Body(b) |-> Body(b)[n]]
    OBVIOUS
  <2> HIDE DEF Body
  <2> QED
    BY <1>6, <2>1
<1>11. b \in [0..N -> D]
  <2> HIDE DEF D
  <2> QED
    BY <1>9, <1>10
<1> QED
  BY <1>8, <1>11 DEF b

\* More links reach more.
LEMMA WithinGrows ==
    ASSUME NEW list, Len(list) \in Nat, NEW i \in DOMAIN list,
           NEW n \in 0..Len(list), NEW m \in 0..n
    PROVE  Within(list, i)[m] \subseteq Within(list, i)[n]
<1> DEFINE b == Within(list, i)
           N == Len(list)
           K == {k \in 0..N : \A j \in 0..k : b[j] \subseteq b[k]}
<1>1. \A k \in 1..N : b[k] = Wider(list, b[k - 1])
  BY WithinLevels
<1> HIDE DEF b
<1>2. 0 \in K
  OBVIOUS
<1>3. ASSUME NEW k \in 1..N, k - 1 \in K PROVE k \in K
  <2>1. \A j \in 0..(k - 1) : b[j] \subseteq b[k - 1]
    BY <1>3
  <2>2. b[k - 1] \subseteq b[k]
    BY <1>1 DEF Wider
  <2>3. k \in 0..N /\ \A j \in 0..k : j = k \/ j \in 0..(k - 1)
    OBVIOUS
  <2> QED
    BY <2>1, <2>2, <2>3
<1>4. \A k \in 0..N : k \in K
  <2> HIDE DEF K
  <2> QED
    BY <1>2, <1>3, UpTo
<1> QED
  BY <1>4 DEF b

\* A link before the way leads one link farther.
LEMMA WithinBehind ==
    ASSUME NEW list, Len(list) \in Nat, NEW w \in DOMAIN list, NEW x \in DOMAIN list,
           Linked(list, w, x), NEW n \in Nat, n + 1 <= Len(list)
    PROVE  Within(list, x)[n] \subseteq Within(list, w)[n + 1]
<1> DEFINE a == Within(list, w)
           b == Within(list, x)
           N == Len(list)
           K == {k \in 0..n : b[k] \subseteq a[k + 1]}
<1>1. /\ a[0] = {w} /\ \A k \in 1..N : a[k] = Wider(list, a[k - 1])
      /\ b[0] = {x} /\ \A k \in 1..N : b[k] = Wider(list, b[k - 1])
  BY WithinLevels
<1> HIDE DEF a, b
<1>2. 0 \in K
  <2>1. a[0 + 1] = Wider(list, {w})
    <3>1. 1 \in 1..N /\ 1 - 1 = 0 /\ 0 + 1 = 1
      OBVIOUS
    <3> QED
      BY <1>1, <3>1
  <2>2. x \in Wider(list, {w})
    BY DEF Wider
  <2>3. b[0] \subseteq a[0 + 1]
    BY <1>1, <2>1, <2>2
  <2> QED
    BY <2>3
<1>3. ASSUME NEW k \in 1..n, k - 1 \in K PROVE k \in K
  <2>1. k \in 1..N /\ k + 1 \in 1..N /\ (k + 1) - 1 = k /\ (k - 1) + 1 = k
    OBVIOUS
  <2>2. b[k - 1] \subseteq a[k]
    <3>1. b[k - 1] \subseteq a[(k - 1) + 1]
      BY <1>3
    <3> QED
      BY <2>1, <3>1
  <2>3. b[k] = Wider(list, b[k - 1]) /\ a[k + 1] = Wider(list, a[k])
    BY <1>1, <2>1
  <2>4. Wider(list, b[k - 1]) \subseteq Wider(list, a[k])
    BY <2>2 DEF Wider
  <2> QED
    BY <2>3, <2>4
<1>4. \A k \in 0..n : k \in K
  <2> HIDE DEF K
  <2> QED
    BY <1>2, <1>3, UpTo
<1> QED
  BY <1>4 DEF a, b

(***************************************************************************)
(* The distance of a router is the least number of links it is within.     *)
(***************************************************************************)
LEMMA WithinDistance ==
    ASSUME NEW list, Len(list) \in Nat, Us \in DOMAIN list, Len(list) < Infinity,
           NEW st, RightDistances(list, st), NEW n \in 0..Len(list),
           NEW v \in DOMAIN list
    PROVE  v \in Within(list, Us)[n] <=> st.distance[v] <= n
<1> DEFINE b == Within(list, Us)
           d == st.distance
           N == Len(list)
<1>1. /\ b[0] = {Us} /\ \A k \in 1..N : b[k] = Wider(list, b[k - 1])
      /\ \A k \in 0..N : b[k] \subseteq DOMAIN list
  BY WithinLevels
<1>2. /\ d[Us] = 0 /\ Infinity \in Nat
      /\ \A u \in DOMAIN list : d[u] \in Nat /\ (d[u] < Infinity => d[u] <= N)
      /\ \A u \in DOMAIN list \ {Us} : d[u] < Infinity =>
            \E w \in DOMAIN list : Linked(list, w, u) /\ d[u] = d[w] + 1
      /\ \A w, u \in DOMAIN list : d[w] < Infinity /\ Linked(list, w, u)
            => d[u] <= d[w] + 1
  BY InfinityAssumption DEF RightDistances
<1>3. \A m \in 0..N : \A k \in 0..m : b[k] \subseteq b[m]
  BY WithinGrows
<1> HIDE DEF b, d
<1>4. \A k \in 0..N : \A u \in b[k] : d[u] <= k
  <2> DEFINE K == {k \in 0..N : \A u \in b[k] : d[u] <= k}
  <2>1. 0 \in K
    BY <1>1, <1>2
  <2>2. ASSUME NEW k \in 1..N, k - 1 \in K PROVE k \in K
    <3>1. k \in 0..N /\ k - 1 \in 0..N /\ \A u \in b[k - 1] : d[u] <= k - 1
      BY <2>2
    <3>2. ASSUME NEW u \in b[k] PROVE d[u] <= k
      <4>1. u \in DOMAIN list /\ d[u] \in Nat
        BY <1>1, <1>2, <3>1
      <4>2. CASE u \in b[k - 1]
        <5>1. d[u] <= k - 1
          BY <3>1, <4>2
        <5> QED
          BY <4>1, <5>1
      <4>3. CASE u \notin b[k - 1]
        <5>1. PICK w \in b[k - 1] : Linked(list, w, u)
          BY <1>1, <4>3 DEF Wider
        <5>2. w \in DOMAIN list /\ d[w] <= k - 1 /\ d[w] \in Nat
          BY <1>1, <1>2, <3>1
        <5>3. d[w] < Infinity
          BY <1>2, <5>2
        <5>4. d[u] <= d[w] + 1
          BY <1>2, <4>1, <5>1, <5>2, <5>3
        <5> QED
          BY <4>1, <5>2, <5>4
      <4> QED
        BY <4>2, <4>3
    <3> QED
      BY <3>1, <3>2
  <2> HIDE DEF K
  <2>3. \A k \in 0..N : k \in K
    BY <2>1, <2>2, UpTo
  <2> QED
    BY <2>3 DEF K
<1>5. \A k \in 0..N : \A u \in DOMAIN list : d[u] = k => u \in b[k]
  <2> DEFINE K == {k \in 0..N : \A u \in DOMAIN list : d[u] = k => u \in b[k]}
  <2>1. 0 \in K
    <3>1. ASSUME NEW u \in DOMAIN list, d[u] = 0 PROVE u = Us
      <4>1. SUFFICES ASSUME u # Us PROVE FALSE
        OBVIOUS
      <4>2. PICK w \in DOMAIN list : d[u] = d[w] + 1
        BY <1>2, <3>1, <4>1
      <4> QED
        BY <1>2, <3>1, <4>2
    <3> QED
      BY <1>1, <3>1
  <2>2. ASSUME NEW k \in 1..N, k - 1 \in K PROVE k \in K
    <3>1. k \in 0..N /\ k # 0 /\ \A u \in DOMAIN list : d[u] = k - 1 => u \in b[k - 1]
      BY <2>2
    <3>2. ASSUME NEW u \in DOMAIN list, d[u] = k PROVE u \in b[k]
      <4>1. d[u] < Infinity /\ u # Us
        BY <1>2, <3>1, <3>2
      <4>2. PICK w \in DOMAIN list : Linked(list, w, u) /\ d[u] = d[w] + 1
        BY <1>2, <4>1
      <4>3. d[w] = k - 1
        BY <1>2, <3>2, <4>2
      <4>4. w \in b[k - 1]
        BY <3>1, <4>3
      <4> QED
        BY <1>1, <4>2, <4>4 DEF Wider
    <3> QED
      BY <3>1, <3>2
  <2> HIDE DEF K
  <2>3. \A k \in 0..N : k \in K
    BY <2>1, <2>2, UpTo
  <2> QED
    BY <2>3 DEF K
<1>6. ASSUME d[v] <= n PROVE v \in b[n]
  <2>1. d[v] \in 0..N /\ d[v] \in 0..n
    BY <1>2, <1>6
  <2> QED
    BY <1>3, <1>5, <2>1
<1> QED
  BY <1>4, <1>6 DEF b, d

-----------------------------------------------------------------------------
(* The walk along the pointers.                                            *)

\* Distances are right, and no two routers of the list have the same id.
Computes(list, st) ==
    /\ Len(list) \in Nat /\ DOMAIN list = 1..Len(list) /\ Us \in DOMAIN list
    /\ Len(list) < Infinity
    /\ \A i, j \in DOMAIN list : list[i].rid = list[j].rid => i = j
    /\ \A i \in DOMAIN list : list[i].rid # Null /\ list[i].rid # Freed
    /\ RightDistances(list, st)

\* Where the walk is next, from router v.
Hop(list, st, v) ==
    IF st.prev[v] \in {list[Us].rid, Freed} THEN v ELSE IndexOf(list, st.prev[v])

\* The walk comes nearer until it is at a neighbour of ours.
LEMMA HopNearer ==
    ASSUME NEW list, NEW st, Computes(list, st),
           NEW v \in DOMAIN list \ {Us}, st.distance[v] < Infinity
    PROVE  /\ st.distance[v] \in 1..Len(list) /\ st.prev[v] # Null
           /\ st.distance[v] = 1 => /\ st.prev[v] = list[Us].rid
                                    /\ Linked(list, Us, v)
                                    /\ Hop(list, st, v) = v
           /\ st.distance[v] # 1 => /\ Hop(list, st, v) \in DOMAIN list \ {Us}
                                    /\ Linked(list, Hop(list, st, v), v)
                                    /\ st.distance[Hop(list, st, v)] = st.distance[v] - 1
<1> DEFINE d == st.distance
<1>1. /\ d[Us] = 0 /\ Us \in DOMAIN list /\ Len(list) \in Nat /\ Infinity \in Nat
      /\ \A u \in DOMAIN list : d[u] \in Nat
      /\ d[v] <= Len(list)
  BY InfinityAssumption DEF Computes, RightDistances
<1>2. PICK w \in DOMAIN list : /\ st.prev[v] = list[w].rid
                               /\ Linked(list, w, v)
                               /\ d[v] = d[w] + 1
  BY DEF Computes, RightDistances
<1>3. IndexOf(list, list[w].rid) = w
  BY DEF IndexOf, Computes
<1>4. list[w].rid # Null /\ list[w].rid # Freed /\ (list[w].rid = list[Us].rid => w = Us)
  BY <1>1 DEF Computes
<1>5. ASSUME w # Us PROVE d[w] # 0
  <2>1. SUFFICES ASSUME d[w] = 0 PROVE FALSE
    OBVIOUS
  <2>2. d[w] < Infinity
    BY <1>1, <2>1 DEF Computes
  <2>3. PICK u \in DOMAIN list : d[w] = d[u] + 1
    BY <1>5, <2>2 DEF Computes, RightDistances
  <2> HIDE DEF d
  <2> QED
    BY <1>1, <2>1, <2>3
<1> HIDE DEF d
<1>6. d[v] \in 1..Len(list) /\ st.prev[v] # Null
  BY <1>1, <1>2, <1>4
<1>7. CASE w = Us
  <2>1. d[v] = 1 /\ Linked(list, Us, v) /\ st.prev[v] = list[Us].rid
    BY <1>1, <1>2, <1>7
  <2>2. Hop(list, st, v) = v
    BY <2>1 DEF Hop
  <2> QED
    BY <1>6, <2>1, <2>2 DEF d
<1>8. CASE w # Us
  <2>1. d[v] # 1 /\ d[w] = d[v] - 1
    BY <1>1, <1>2, <1>5, <1>8
  <2>2. Hop(list, st, v) = w
    BY <1>2, <1>3, <1>4, <1>8 DEF Hop
  <2> QED
    BY <1>2, <1>6, <1>8, <2>1, <2>2 DEF d
<1> QED
  BY <1>7, <1>8

\* The walk from a router in reach, step by step.
LEMMA WalkIsRun ==
    ASSUME NEW list, NEW st, Computes(list, st), NEW i \in DOMAIN list \ {Us},
           st.distance[i] < Infinity, NEW link
    PROVE  \E f : /\ f[0] = i
                  /\ \A n \in 1..Len(list) : f[n] = Hop(list, st, f[n - 1])
                  /\ NextRid(list, st, i, link) =
                        IF st.prev[i] = Null THEN link.rid
                        ELSE IF st.prev[f[Len(list)]] = Freed THEN Freed
                        ELSE list[f[Len(list)]].rid
<1> DEFINE N == Len(list)
           D == {v \in DOMAIN list \ {Us} : st.distance[v] < Infinity}
           G == [p \in (1..N) \X D |-> Hop(list, st, p[2])]
           Body(h) == [n \in 0..N |-> IF n = 0 THEN i ELSE Hop(list, st, h[n - 1])]
           hop == CHOOSE h : h = Body(h)
<1>1. i \in D
  OBVIOUS
<1>2. N \in Nat
  BY DEF Computes
<1>3. \A v \in D : Hop(list, st, v) \in D
  <2> TAKE v \in D
  <2>1. v \in DOMAIN list \ {Us} /\ st.distance[v] < Infinity
    OBVIOUS
  <2>2. CASE st.distance[v] = 1
    BY <2>1, <2>2, HopNearer
  <2>3. CASE st.distance[v] # 1
    <3>1. /\ Hop(list, st, v) \in DOMAIN list \ {Us}
          /\ st.distance[Hop(list, st, v)] = st.distance[v] - 1
          /\ st.distance[v] \in 1..N
      BY <2>1, <2>3, HopNearer
    <3>2. st.distance[v] - 1 < Infinity
      BY <1>2, <2>1, <3>1, InfinityAssumption
    <3> QED
      BY <3>1, <3>2
  <2> QED
    BY <2>2, <2>3
<1>4. G \in [(1..N) \X D -> D]
  <2> HIDE DEF D
  <2> QED
    BY <1>3
<1>5. PICK f \in [0..N -> D] : IsRun(f, N, i, G)
  <2> HIDE DEF D, G
  <2> QED
    BY <1>1, <1>2, <1>4, RunExists
<1>6. f = Body(f)
  <2>1. ASSUME NEW n \in 0..N
        PROVE  f[n] = IF n = 0 THEN i ELSE Hop(list, st, f[n - 1])
    <3>1. CASE n = 0
      BY <1>5, <3>1 DEF IsRun
    <3>2. CASE n # 0
      <4>1. n \in 1..N /\ n - 1 \in 0..N
        BY <1>2, <3>2
      <4>2. f[n - 1] \in D /\ f[n] = G[<<n, f[n - 1]>>]
        BY <1>5, <4>1 DEF IsRun
      <4> HIDE DEF D
      <4>3. G[<<n, f[n - 1]>>] = Hop(list, st, f[n - 1])
        BY <4>1, <4>2
      <4> QED
        BY <3>2, <4>2, <4>3
    <3> QED
      BY <3>1, <3>2
  <2> HIDE DEF D
  <2> QED
    BY <2>1
<1>7. hop = Body(hop)
  <2> HIDE DEF Body
  <2> QED
    BY <1>6
<1>8. NextRid(list, st, i, link) =
         IF st.prev[i] = Null THEN link.rid
         ELSE IF st.prev[hop[N]] = Freed THEN Freed ELSE list[hop[N]].rid
  BY DEF NextRid, Hop
<1> HIDE DEF hop
<1>9. \A n \in 0..N : hop[n] = IF n = 0 THEN i ELSE Hop(list, st, hop[n - 1])
  BY <1>7
<1>10. hop[0] = i /\ \A n \in 1..N : hop[n] = Hop(list, st, hop[n - 1])
  <2>1. 0 \in 0..N /\ \A n \in 1..N : n \in 0..N /\ n # 0
    BY <1>2
  <2> QED
    BY <1>9, <2>1
<1> QED
  BY <1>8, <1>10

(***************************************************************************)
(* The walk ends at a neighbour of ours from which it takes one link less. *)
(***************************************************************************)
LEMMA WalkNearest ==
    ASSUME NEW list, NEW st, Computes(list, st), NEW i \in DOMAIN list \ {Us},
           st.distance[i] < Infinity, NEW link
    PROVE  \E h \in DOMAIN list :
              /\ Linked(list, Us, h)
              /\ NextRid(list, st, i, link) = list[h].rid
              /\ i \in Within(list, h)[st.distance[i] - 1]
<1> DEFINE N == Len(list)
           d == st.distance
           e == d[i]
<1>1. PICK f : /\ f[0] = i
               /\ \A n \in 1..N : f[n] = Hop(list, st, f[n - 1])
               /\ NextRid(list, st, i, link) =
                     IF st.prev[i] = Null THEN link.rid
                     ELSE IF st.prev[f[N]] = Freed THEN Freed ELSE list[f[N]].rid
  BY WalkIsRun
<1>2. N \in Nat /\ Infinity \in Nat /\ e \in 1..N /\ st.prev[i] # Null
  BY HopNearer, InfinityAssumption DEF Computes
<1> DEFINE Good(n, v) == /\ v \in DOMAIN list \ {Us} /\ d[v] \in 1..N
                         /\ d[v] <= e /\ d[v] < Infinity
                         /\ i \in Within(list, v)[e - d[v]]
                         /\ d[v] = 1 \/ d[v] + n = e
           K == {n \in 0..N : Good(n, f[n])}
<1>3. 0 \in K
  <2>1. i \in Within(list, i)[0]
    BY <1>2, WithinLevels
  <2>2. e - e = 0 /\ e + 0 = e
    BY <1>2
  <2> HIDE DEF e
  <2>3. Good(0, i)
    BY <1>2, <2>1, <2>2 DEF e
  <2> HIDE DEF Good
  <2> QED
    BY <1>1, <1>2, <2>3
<1>4. ASSUME NEW n \in 1..N, n - 1 \in K PROVE n \in K
  <2> DEFINE v == f[n - 1]
             w == Hop(list, st, v)
  <2>1. Good(n - 1, v)
    BY <1>4
  <2>2. f[n] = w /\ n \in 0..N
    BY <1>1, <1>2
  <2> HIDE DEF v, K, e
  <2>3. CASE d[v] = 1
    <3>1. w = v
      BY <2>1, <2>3, HopNearer
    <3>2. Good(n, w)
      BY <2>1, <2>3, <3>1
    <3> HIDE DEF Good
    <3> QED
      BY <2>2, <3>2 DEF K
  <2>4. CASE d[v] # 1
    <3>1. w \in DOMAIN list \ {Us} /\ Linked(list, w, v) /\ d[w] = d[v] - 1
      BY <2>1, <2>4, HopNearer
    <3>2. /\ d[w] \in 1..N /\ d[w] <= e /\ d[w] < Infinity
          /\ e - d[w] = (e - d[v]) + 1 /\ d[w] + n = e
          /\ e - d[v] \in Nat /\ (e - d[v]) + 1 <= N
      <4>1. d[v] + (n - 1) = e
        BY <2>1, <2>4
      <4>2. d[v] \in 1..N /\ d[v] <= e /\ d[v] < Infinity /\ d[v] \in Nat
        BY <1>2, <2>1
      <4>3. d[w] = d[v] - 1 /\ d[v] # 1 /\ e \in Nat /\ N \in Nat /\ e <= N
        BY <1>2, <2>4, <3>1
      <4> HIDE DEF d, w, v, e, N, Good
      <4> QED
        BY <1>2, <4>1, <4>2, <4>3
    <3>3. i \in Within(list, w)[e - d[w]]
      <4>1. i \in Within(list, v)[e - d[v]] /\ v \in DOMAIN list
        BY <2>1
      <4>2. Within(list, v)[e - d[v]] \subseteq Within(list, w)[(e - d[v]) + 1]
        <5> HIDE DEF w, d, Good
        <5> QED
          BY <1>2, <3>1, <3>2, <4>1, WithinBehind
      <4> QED
        BY <3>2, <4>1, <4>2
    <3> HIDE DEF w, d
    <3>4. Good(n, w)
      BY <3>1, <3>2, <3>3
    <3> HIDE DEF Good
    <3> QED
      BY <2>2, <3>4 DEF K
  <2> QED
    BY <2>3, <2>4
<1>5. Good(N, f[N])
  <2>1. N \in K
    <3>1. N \in 0..N
      BY <1>2
    <3> HIDE DEF K
    <3> QED
      BY <1>2, <1>3, <1>4, <3>1, UpTo
  <2> QED
    BY <2>1
<1> DEFINE h == f[N]
<1>6. d[h] = 1 /\ h \in DOMAIN list \ {Us} /\ d[h] < Infinity
  <2>1. /\ d[h] \in 1..N /\ (d[h] = 1 \/ d[h] + N = e)
        /\ h \in DOMAIN list \ {Us} /\ d[h] < Infinity
    BY <1>5
  <2> HIDE DEF d, e, h, Good
  <2> QED
    BY <1>2, <2>1
<1>7. i \in Within(list, h)[e - 1]
  BY <1>5, <1>6
<1>8. st.prev[h] = list[Us].rid /\ Linked(list, Us, h)
  BY <1>6, HopNearer
<1>9. st.prev[h] # Freed
  BY <1>8 DEF Computes
<1>10. NextRid(list, st, i, link) = list[h].rid
  BY <1>1, <1>2, <1>9
<1> HIDE DEF h
<1> QED
  BY <1>6, <1>7, <1>8, <1>10

-----------------------------------------------------------------------------
(* The route to a subnet.                                                  *)

LEMMA LinkOfList ==
    ASSUME NEW list, NEW c
    PROVE  c \in Links(list) <=>
              \E i \in DOMAIN list : \E k \in DOMAIN list[i].interface_list : c = <<i, k>>
BY DEF Links

(***************************************************************************)
(* Of the links to a subnet exactly one makes the route, and its router is *)
(* the nearest that advertises the subnet.                                 *)
(***************************************************************************)
LEMMA WrapperChosen ==
    ASSUME NEW list, NEW st, Computes(list, st),
           \A i \in DOMAIN list : /\ Len(list[i].interface_list) \in Nat
                                  /\ DOMAIN list[i].interface_list =
                                        1..Len(list[i].interface_list),
           NEW subnet, NEW g \in DOMAIN list, Advertises(list, g, subnet)
    PROVE  \E i \in DOMAIN list : \E k \in DOMAIN list[i].interface_list :
              /\ list[i].interface_list[k].subnet = subnet
              /\ \A j \in DOMAIN list :
                    Advertises(list, j, subnet) => st.distance[i] <= st.distance[j]
              /\ <<i, k>> \in Wrappers(list, st)
              /\ \A b \in Wrappers(list, st) : Subnet(list, b) = subnet => b = <<i, k>>
<1> DEFINE N == Len(list)
           d == st.distance
           A == {i \in DOMAIN list : Advertises(list, i, subnet)}
<1>1. /\ N \in Nat /\ DOMAIN list = 1..N /\ A \in SUBSET (1..N) /\ g \in A
      /\ \A i \in DOMAIN list : d[i] \in Nat
  BY DEF Computes, RightDistances
<1>2. PICK i \in A : \A j \in A : /\ d[i] <= d[j]
                                  /\ d[j] = d[i] => i <= j
  <2> DEFINE M == {m \in 1..(d[g] + 1) : \E j \in A : d[j] + 1 = m}
  <2>1. d[g] + 1 \in M
    BY <1>1
  <2>2. PICK m \in M : \A l \in M : m <= l
    <3>1. M \in SUBSET (1..(d[g] + 1)) /\ M # {} /\ d[g] + 1 \in Nat
      BY <1>1, <2>1
    <3> HIDE DEF M
    <3> QED
      BY <3>1, LeastIndex
  <2> DEFINE J == {j \in A : d[j] + 1 = m}
  <2>3. PICK i \in J : \A j \in J : i <= j
    <3>1. J \in SUBSET (1..N) /\ J # {}
      BY <1>1, <2>2
    <3> HIDE DEF J
    <3> QED
      BY <1>1, <3>1, LeastIndex
  <2>4. ASSUME NEW j \in A PROVE d[i] <= d[j] /\ (d[j] = d[i] => i <= j)
    <3>1. d[i] + 1 = m /\ i \in A /\ m <= d[g] + 1 /\ m \in Nat
      BY <2>2, <2>3
    <3>2. d[i] \in Nat /\ d[j] \in Nat /\ d[g] \in Nat
      BY <1>1, <3>1
    <3>3. d[j] + 1 \in 1..(d[g] + 1) => m <= d[j] + 1
      BY <2>2
    <3>4. d[j] + 1 = m => i <= j
      BY <2>3
    <3> HIDE DEF d, M, J
    <3> QED
      BY <3>1, <3>2, <3>3, <3>4
  <2> QED
    BY <2>3, <2>4
<1>3. i \in DOMAIN list
  BY <1>1
<1> DEFINE ls == list[i].interface_list
           Ks == {k \in DOMAIN ls : ls[k].subnet = subnet}
<1>4. PICK k \in Ks : \A l \in Ks : k <= l
  <2>1. Ks \in SUBSET (1..Len(ls)) /\ Len(ls) \in Nat /\ Ks # {}
    BY <1>3 DEF Advertises
  <2> HIDE DEF Ks
  <2> QED
    BY <2>1, LeastIndex
<1> DEFINE c == <<i, k>>
<1>5. k \in DOMAIN ls /\ ls[k].subnet = subnet /\ Subnet(list, c) = subnet
  BY <1>4 DEF Subnet
<1>6. c \in Links(list)
  BY <1>3, <1>5, LinkOfList
<1>7. ASSUME NEW b \in Links(list), Subnet(list, b) = subnet
      PROVE  /\ b[1] \in A /\ b[1] \in Nat /\ b[2] \in Nat /\ b = <<b[1], b[2]>>
             /\ d[i] <= d[b[1]]
             /\ ComesBefore(b, c) => d[i] < d[b[1]]
             /\ b = c \/ ComesBefore(b, c) \/ ComesBefore(c, b)
  <2>1. PICK j \in DOMAIN list : \E l \in DOMAIN list[j].interface_list : b = <<j, l>>
    BY LinkOfList
  <2>2. PICK l \in DOMAIN list[j].interface_list : b = <<j, l>>
    BY <2>1
  <2>3. list[j].interface_list[l].subnet = subnet
    BY <1>7, <2>2 DEF Subnet
  <2>4. j \in A /\ b[1] = j /\ b[2] = l
    BY <2>2, <2>3 DEF Advertises
  <2>5. j \in Nat /\ l \in Nat /\ i \in Nat /\ k \in Nat
    BY <1>1, <1>3, <1>5
  <2>6. d[i] \in Nat /\ d[j] \in Nat /\ d[i] <= d[j] /\ (d[j] = d[i] => i <= j)
    BY <1>1, <1>2, <1>3, <2>4
  <2>7. j = i => k <= l
    BY <1>4, <2>2, <2>3
  <2>8. c[1] = i /\ c[2] = k
    OBVIOUS
  <2> HIDE DEF A, d, ls, Ks
  <2>9. ComesBefore(b, c) => d[i] < d[j]
    BY <2>4, <2>5, <2>6, <2>7, <2>8 DEF ComesBefore
  <2>10. b = c \/ ComesBefore(b, c) \/ ComesBefore(c, b)
    BY <2>2, <2>4, <2>5, <2>8 DEF ComesBefore
  <2> QED
    BY <2>2, <2>4, <2>5, <2>6, <2>9, <2>10
<1>8. c[1] = i
  OBVIOUS
<1>9. d[i] \in Nat /\ \A j \in A : d[j] \in Nat
  BY <1>1, <1>3
<1> HIDE DEF A, d, ls, Ks, c
<1>10. c \in Wrapped(list, st)
  BY <1>5, <1>6, <1>7, <1>8 DEF Wrapped, d
<1>11. ASSUME NEW b \in Wrapped(list, st), Subnet(list, b) = subnet
       PROVE  ~ComesBefore(c, b)
  <2>1. b \in Links(list)
    BY DEF Wrapped
  <2>2. d[i] <= d[b[1]] /\ d[b[1]] \in Nat
    BY <1>7, <1>9, <1>11, <2>1
  <2>3. ComesBefore(c, b) => d[b[1]] < d[i]
    BY <1>5, <1>6, <1>8, <1>11 DEF Wrapped, d
  <2> QED
    BY <1>9, <2>2, <2>3
<1>12. c \in Wrappers(list, st)
  BY <1>5, <1>10, <1>11 DEF Wrappers
<1>13. ASSUME NEW b \in Wrappers(list, st), Subnet(list, b) = subnet PROVE b = c
  <2>1. b \in Wrapped(list, st) /\ b \in Links(list)
    BY DEF Wrappers, Wrapped
  <2>2. ~ComesBefore(b, c)
    BY <1>5, <1>10, <1>13 DEF Wrappers
  <2> QED
    BY <1>7, <1>11, <1>13, <2>1, <2>2
<1>14. \A j \in DOMAIN list : Advertises(list, j, subnet) => d[i] <= d[j]
  BY <1>2 DEF A
<1> QED
  BY <1>3, <1>5, <1>12, <1>13, <1>14 DEF c, ls, d

(***************************************************************************)
(* The invariant of our links: they are on our subnets, and the neighbours *)
(* of an interface are routers that send their HELLOs there.               *)
(***************************************************************************)
OwnSubnets == {SubnetOf[iface] : iface \in Ifaces}

OnOwn(links) == \A k \in DOMAIN links : links[k].subnet \in OwnSubnets

OwnLinks ==
    /\ OnOwn(Ours)
    /\ \A iface \in Ifaces : \A rid \in nbr_routers[iface] : <<iface, rid>> \in Attached

RInv == IInv /\ OwnLinks

LEMMA OnOwnAdded ==
    ASSUME NEW links \in Seq(LinkRecords), OnOwn(links),
           NEW link \in LinkRecords, link.subnet \in OwnSubnets
    PROVE  /\ node_push_back(links, link) \in Seq(LinkRecords)
           /\ OnOwn(node_push_back(links, link))
<1>1. /\ DOMAIN node_push_back(links, link) = 1..(Len(links) + 1)
      /\ DOMAIN links = 1..Len(links) /\ Len(links) \in Nat
      /\ \A k \in 1..Len(links) : node_push_back(links, link)[k] = links[k]
      /\ node_push_back(links, link)[Len(links) + 1] = link
      /\ node_push_back(links, link) \in Seq(LinkRecords)
  BY DEF node_push_back
<1>2. \A k \in 1..(Len(links) + 1) : k \in 1..Len(links) \/ k = Len(links) + 1
  BY <1>1
<1> QED
  BY <1>1, <1>2 DEF OnOwn

LEMMA OnOwnRenamed ==
    ASSUME NEW links \in Seq(LinkRecords), OnOwn(links), NEW k \in DOMAIN links,
           NEW rid \in Rids \cup {NoRouter}
    PROVE  /\ [links EXCEPT ![k].rid = rid] \in Seq(LinkRecords)
           /\ OnOwn([links EXCEPT ![k].rid = rid])
<1> DEFINE r == [links EXCEPT ![k].rid = rid]
<1> DEFINE link == [links[k] EXCEPT !.rid = rid]
<1>1. link \in LinkRecords /\ link.subnet = links[k].subnet
  <2>1. links[k] \in LinkRecords
    OBVIOUS
  <2> QED
    BY <2>1 DEF LinkRecords
<1>2. r = [links EXCEPT ![k] = link]
  OBVIOUS
<1> HIDE DEF r, link
<1>3. /\ DOMAIN r = DOMAIN links /\ r[k] = link
      /\ \A j \in DOMAIN links : j # k => r[j] = links[j]
      /\ r \in Seq(LinkRecords)
  BY <1>1, <1>2
<1>4. OnOwn(r)
  BY <1>1, <1>3 DEF OnOwn
<1> QED
  BY <1>3, <1>4 DEF r

LEMMA OnOwnKept ==
    ASSUME NEW links \in Seq(LinkRecords), OnOwn(links),
           NEW gone \in SUBSET (DOMAIN links)
    PROVE  /\ node_remove(links, gone) \in Seq(LinkRecords)
           /\ OnOwn(node_remove(links, gone))
<1> DEFINE K == DOMAIN links \ gone
<1>1. K \in SUBSET (DOMAIN links)
  OBVIOUS
<1>2. node_remove(links, gone) = Keep(links, K)
  BY DEF node_remove
<1> HIDE DEF K
<1>3. /\ Keep(links, K) \in Seq(LinkRecords)
      /\ \A j \in DOMAIN Keep(links, K) : \E i \in K : Keep(links, K)[j] = links[i]
  BY <1>1, KeepProperties
<1> QED
  BY <1>1, <1>2, <1>3 DEF OnOwn

LEMMA OursTyped ==
    ASSUME IInv
    PROVE  Ours \in Seq(LinkRecords) /\ Us \in DOMAIN router_list
<1>1. Us \in DOMAIN router_list /\ router_list[Us] \in Routers
  BY GoodListIndices DEF IInv
<1> QED
  BY <1>1 DEF Routers, Ours

LEMMA InitOwnLinks == Init => OwnLinks
<1> SUFFICES ASSUME Init PROVE OwnLinks
  OBVIOUS
<1>1. Ours = [n \in DOMAIN IfList |-> [subnet |-> SubnetOf[IfList[n]], rid |-> NoRouter]]
  BY DEF Init, Ours, Us
<1>2. \A n \in DOMAIN IfList : SubnetOf[IfList[n]] \in OwnSubnets
  BY DEF OwnSubnets, Ifaces
<1> QED
  BY <1>1, <1>2 DEF Init, OwnLinks, OnOwn

\* Neighbours and interface commands.
LEMMA IfaceStepsOwn ==
    ASSUME RInv, NEW iface \in Ifaces, NEW rid \in Others, <<iface, rid>> \in Attached,
           <<router_list, nbr_routers>>' # <<router_list, nbr_routers>>,
           \/ process_pwospf_hello_packet(iface, rid)
           \/ determine_timedout_interface(iface, rid)
    PROVE  OwnLinks'
<1>1. /\ IInv /\ OnOwn(Ours) /\ Ours \in Seq(LinkRecords)
      /\ DOMAIN Ours = 1..Len(Ours) /\ Len(Ours) \in Nat
      /\ nbr_routers \in [Ifaces -> SUBSET Others]
  <2>1. IInv /\ OnOwn(Ours) /\ nbr_routers \in [Ifaces -> SUBSET Others]
    BY DEF RInv, OwnLinks, IInv, RestTyped
  <2>2. Ours \in Seq(LinkRecords)
    BY <2>1, OursTyped
  <2> HIDE DEF Ours
  <2> QED
    BY <2>1, <2>2
<1>2. \A i \in Ifaces : \A r \in nbr_routers'[i] : <<i, r>> \in Attached
  <2>1. \A i \in Ifaces : \A r \in nbr_routers'[i] :
           r \in nbr_routers[i] \/ (i = iface /\ r = rid)
    <3>1. CASE nbr_routers' = [nbr_routers EXCEPT ![iface] = @ \cup {rid}]
      BY <1>1, <3>1
    <3>2. CASE nbr_routers' = [nbr_routers EXCEPT ![iface] = @ \ {rid}]
      BY <1>1, <3>2
    <3> QED
      BY <3>1, <3>2 DEF process_pwospf_hello_packet, determine_timedout_interface
  <2> QED
    BY <2>1 DEF RInv, OwnLinks
<1>3. \A k : k \in OnSubnet(iface) <=>
              k \in DOMAIN Ours /\ Ours[k].subnet = SubnetOf[iface]
  BY DEF OnSubnet
<1>4. CASE process_pwospf_hello_packet(iface, rid)
  <2> DEFINE blank == {k \in OnSubnet(iface) : Ours[k].rid = NoRouter}
             link == [subnet |-> SubnetOf[iface], rid |-> rid]
  <2>1. router_list' = WithOurs(LinkAdded(iface, rid))
    BY <1>4 DEF process_pwospf_hello_packet
  <2>2. rid \in Rids \cup {NoRouter} /\ SubnetOf[iface] \in Subnets
    BY DEF Rids, Subnets
  <2>3. LinkAdded(iface, rid) \in Seq(LinkRecords) /\ OnOwn(LinkAdded(iface, rid))
    <3>1. CASE blank = {}
      <4>1. LinkAdded(iface, rid) = node_push_back(Ours, link)
        BY <3>1 DEF LinkAdded
      <4>2. link \in LinkRecords /\ link.subnet \in OwnSubnets
        BY <2>2 DEF LinkRecords, OwnSubnets
      <4> HIDE DEF link
      <4> QED
        BY <1>1, <4>1, <4>2, OnOwnAdded
    <3>2. CASE blank # {}
      <4> DEFINE k == CHOOSE k \in First(blank) : TRUE
      <4>1. LinkAdded(iface, rid) = [Ours EXCEPT ![k].rid = rid]
        BY <3>2 DEF LinkAdded
      <4>2. blank \in SUBSET (1..Len(Ours))
        BY <1>1, <1>3
      <4>3. First(blank) # {}
        <5> HIDE DEF blank
        <5>1. \E i \in blank : \A j \in blank : i <= j
          BY <1>1, <3>2, <4>2, LeastIndex
        <5> QED
          BY <5>1 DEF First
      <4>4. k \in DOMAIN Ours
        BY <1>1, <4>2, <4>3 DEF First
      <4> HIDE DEF k
      <4>5. /\ [Ours EXCEPT ![k].rid = rid] \in Seq(LinkRecords)
            /\ OnOwn([Ours EXCEPT ![k].rid = rid])
        <5> HIDE DEF Ours
        <5> QED
          BY <1>1, <2>2, <4>4, OnOwnRenamed
      <4> QED
        BY <4>1, <4>5
    <3> QED
      BY <3>1, <3>2
  <2>4. Ours' = LinkAdded(iface, rid)
    BY <1>1, <2>1, <2>3, OursReplaced DEF Ours
  <2>5. OnOwn(Ours')
    BY <2>3, <2>4
  <2> QED
    BY <1>2, <2>5 DEF OwnLinks, OnOwn
<1>5. CASE determine_timedout_interface(iface, rid)
  <2>1. /\ router_list' = WithOurs(LinkDropped(iface, rid)) /\ iface \in ifUp
        /\ rid \in nbr_routers[iface]
    BY <1>5 DEF determine_timedout_interface
  <2>2. LinkDropped(iface, rid) \in Seq(LinkRecords) /\ OnOwn(LinkDropped(iface, rid))
    <3>1. CASE Cardinality(OnSubnet(iface)) = 1
      <4> DEFINE k == CHOOSE k \in OnSubnet(iface) : TRUE
      <4>1. LinkDropped(iface, rid) = [Ours EXCEPT ![k].rid = NoRouter]
        BY <3>1 DEF LinkDropped
      <4>2. OnSubnet(iface) # {}
        BY <3>1, FS_EmptySet
      <4>3. k \in DOMAIN Ours
        BY <1>3, <4>2
      <4> HIDE DEF k
      <4>4. NoRouter \in Rids \cup {NoRouter}
        OBVIOUS
      <4>5. /\ [Ours EXCEPT ![k].rid = NoRouter] \in Seq(LinkRecords)
            /\ OnOwn([Ours EXCEPT ![k].rid = NoRouter])
        BY <1>1, <4>3, <4>4, OnOwnRenamed
      <4> QED
        BY <4>1, <4>5
    <3>2. CASE Cardinality(OnSubnet(iface)) # 1
      <4> DEFINE gone == First({k \in OnSubnet(iface) : Ours[k].rid = rid})
      <4>1. LinkDropped(iface, rid) = node_remove(Ours, gone)
        BY <3>2 DEF LinkDropped
      <4>2. gone \in SUBSET (DOMAIN Ours)
        BY <1>3 DEF First
      <4> HIDE DEF gone
      <4> QED
        BY <1>1, <4>1, <4>2, OnOwnKept
    <3> QED
      BY <3>1, <3>2
  <2>3. Ours' = LinkDropped(iface, rid)
    BY <1>1, <2>1, <2>2, OursReplaced DEF Ours
  <2>4. OnOwn(Ours')
    BY <2>2, <2>3
  <2> QED
    BY <1>2, <2>4 DEF OwnLinks, OnOwn
<1> QED
  BY <1>4, <1>5

LEMMA CommandsOwn ==
    ASSUME RInv, NEW iface \in Ifaces, iface_up(iface) \/ iface_down(iface)
    PROVE  OwnLinks'
<1>1. /\ IInv /\ OnOwn(Ours) /\ Ours \in Seq(LinkRecords)
  BY OursTyped DEF RInv, OwnLinks
<1>2. \A i \in Ifaces : \A r \in nbr_routers'[i] : <<i, r>> \in Attached
  <2>1. nbr_routers' = nbr_routers
    BY DEF iface_up, iface_down
  <2> QED
    BY <2>1 DEF RInv, OwnLinks
<1> DEFINE link == [subnet |-> SubnetOf[iface], rid |-> NoRouter]
<1>3. \/ router_list' = router_list
      \/ router_list' = WithOurs(node_push_back(Ours, link))
      \/ router_list' = WithOurs(node_remove(Ours, OnSubnet(iface)))
  <2>1. CASE iface_up(iface)
    BY <2>1 DEF iface_up
  <2>2. CASE iface_down(iface)
    BY <2>2 DEF iface_down
  <2> QED
    BY <2>1, <2>2
<1>4. CASE router_list' = router_list
  BY <1>1, <1>2, <1>4 DEF OwnLinks, OnOwn, Ours
<1>5. CASE router_list' = WithOurs(node_push_back(Ours, link))
  <2>1. link \in LinkRecords /\ link.subnet \in OwnSubnets
    BY DEF LinkRecords, OwnSubnets, Subnets
  <2> HIDE DEF link
  <2>2. /\ node_push_back(Ours, link) \in Seq(LinkRecords)
        /\ OnOwn(node_push_back(Ours, link))
    BY <1>1, <2>1, OnOwnAdded
  <2>3. Ours' = node_push_back(Ours, link)
    BY <1>1, <1>5, <2>2, OursReplaced DEF Ours
  <2>4. OnOwn(Ours')
    BY <2>2, <2>3
  <2> QED
    BY <1>2, <2>4 DEF OwnLinks, OnOwn
<1>6. CASE router_list' = WithOurs(node_remove(Ours, OnSubnet(iface)))
  <2>1. OnSubnet(iface) \in SUBSET (DOMAIN Ours)
    BY DEF OnSubnet
  <2>2. /\ node_remove(Ours, OnSubnet(iface)) \in Seq(LinkRecords)
        /\ OnOwn(node_remove(Ours, OnSubnet(iface)))
    BY <1>1, <2>1, OnOwnKept
  <2>3. Ours' = node_remove(Ours, OnSubnet(iface))
    BY <1>1, <1>6, <2>2, OursReplaced DEF Ours
  <2>4. OnOwn(Ours')
    BY <2>2, <2>3
  <2> QED
    BY <1>2, <2>4 DEF OwnLinks, OnOwn
<1> QED
  BY <1>3, <1>4, <1>5, <1>6

\* Updates of other routers, their time-out and the computation keep our links.
LEMMA OthersOwn ==
    ASSUME RInv, router_list'[Us].interface_list = Ours, nbr_routers' = nbr_routers
    PROVE  OwnLinks'
<1>1. Ours' = Ours
  BY DEF Ours
<1> QED
  BY <1>1 DEF RInv, OwnLinks, OnOwn

LEMMA LsuOwn ==
    ASSUME RInv, NEW rid \in Others, NEW seq, NEW adv,
           process_pwospf_lsu_packet(rid, seq, adv)
    PROVE  OwnLinks'
<1>1. /\ GoodList(router_list) /\ Us \in DOMAIN router_list
      /\ router_list \in Seq(Routers)
      /\ \A i \in DOMAIN router_list : router_list[i].rid \in Others <=> i # Us
  BY GoodListIndices DEF RInv, IInv, GoodList
<1>2. nbr_routers' = nbr_routers
  BY DEF process_pwospf_lsu_packet
<1>3. CASE Known(rid) = {}
  <2> DEFINE e == [rid |-> rid, seq |-> seq, interface_list |-> adv, prev_router |-> Null]
  <2>1. router_list' = Append(router_list, e)
    BY <1>3 DEF process_pwospf_lsu_packet, node_push_back
  <2> HIDE DEF e
  <2>2. router_list'[Us] = router_list[Us]
    BY <1>1, <2>1
  <2> QED
    BY <1>2, <2>2, OthersOwn DEF Ours
<1>4. CASE Known(rid) # {}
  <2> DEFINE i == CHOOSE i \in Known(rid) : TRUE
             links == Populated(router_list[i].interface_list, adv)
             e == [router_list[i] EXCEPT !.seq = seq, !.interface_list = links]
  <2>1. router_list' = [router_list EXCEPT ![i] = e]
    BY <1>4 DEF process_pwospf_lsu_packet
  <2>2. i \in Known(rid)
    BY <1>4
  <2> HIDE DEF i, e
  <2>3. i # Us
    BY <1>1, <2>2 DEF Known
  <2>4. router_list'[Us] = router_list[Us]
    BY <1>1, <2>1, <2>3
  <2> QED
    BY <1>2, <2>4, OthersOwn DEF Ours
<1> QED
  BY <1>3, <1>4

LEMMA LsuTimeoutOwn ==
    ASSUME RInv, NEW rid \in Others, pwospf_lsu_timeout_thread(rid)
    PROVE  OwnLinks'
<1> DEFINE rest == node_remove(router_list, Known(rid))
<1>1. /\ GoodList(router_list) /\ Us \in DOMAIN router_list
      /\ \A i \in DOMAIN router_list : router_list[i].rid \in Others <=> i # Us
  BY GoodListIndices DEF RInv, IInv
<1>2. Known(rid) \in SUBSET (DOMAIN router_list) /\ Us \notin Known(rid)
  BY <1>1 DEF Known
<1>3. /\ nbr_routers' = nbr_routers
      /\ router_list' = [i \in DOMAIN rest |->
             IF rest[i].prev_router = rid THEN [rest[i] EXCEPT !.prev_router = Freed]
                                          ELSE rest[i]]
  BY DEF pwospf_lsu_timeout_thread
<1> HIDE DEF rest
<1>4. GoodList(rest) /\ rest[Us] = router_list[Us]
  BY <1>1, <1>2, RoutersRemoved DEF rest
<1>5. Us \in DOMAIN rest /\ rest[Us] \in Routers
  BY <1>4, GoodListIndices
<1>6. router_list'[Us].interface_list = rest[Us].interface_list
  BY <1>3, <1>5 DEF Routers
<1> QED
  BY <1>3, <1>4, <1>6, OthersOwn DEF Ours

LEMMA DijkstraOwn ==
    ASSUME RInv, dijkstra_thread
    PROVE  OwnLinks'
<1>1. Us \in DOMAIN router_list /\ router_list[Us] \in Routers
  BY GoodListIndices DEF RInv, IInv
<1>2. PICK st : /\ nbr_routers' = nbr_routers
                /\ router_list' = [i \in DOMAIN router_list |->
                      [router_list[i] EXCEPT !.prev_router = st.prev[i]]]
  BY DEF dijkstra_thread
<1>3. router_list'[Us].interface_list = Ours
  BY <1>1, <1>2 DEF Routers, Ours
<1> QED
  BY <1>2, <1>3, OthersOwn

LEMMA NextRInv == RInv /\ [Next]_vars => RInv'
<1> SUFFICES ASSUME RInv, [Next]_vars PROVE OwnLinks'
  BY NextIInv DEF RInv
<1>1. ASSUME NEW iface \in Ifaces, NEW rid \in Others, <<iface, rid>> \in Attached,
             \/ process_packet(iface, rid)
             \/ process_pwospf_hello_packet(iface, rid)
             \/ determine_timedout_interface(iface, rid)
      PROVE  OwnLinks'
  <2>1. CASE UNCHANGED <<router_list, nbr_routers>>
    BY <2>1, OthersOwn DEF Ours
  <2>2. CASE <<router_list, nbr_routers>>' # <<router_list, nbr_routers>>
    <3>1. ~process_packet(iface, rid)
      BY <2>2 DEF process_packet
    <3> QED
      BY <1>1, <2>2, <3>1, IfaceStepsOwn
  <2> QED
    BY <2>1, <2>2
<1>2. ASSUME NEW rid \in Others, NEW adv \in Advertised[rid], NewLsu(rid, adv)
      PROVE  OwnLinks'
  <2>1. CASE process_pwospf_lsu_packet(rid, (sent[rid] + 1) % SEQ_MOD, adv)
    BY <2>1, LsuOwn
  <2>2. CASE UNCHANGED <<router_list, nbr_routers>>
    BY <2>2, OthersOwn DEF Ours
  <2> QED
    BY <1>2, <2>1, <2>2 DEF NewLsu
<1>3. ASSUME NEW rid \in Others, NEW adv, NEW seq, LateLsu(rid, seq, adv)
      PROVE  OwnLinks'
  BY <1>3, LsuOwn DEF LateLsu
<1>4. ASSUME NEW rid \in Others, pwospf_lsu_timeout_thread(rid) PROVE OwnLinks'
  BY <1>4, LsuTimeoutOwn
<1>5. ASSUME NEW iface \in Ifaces, iface_up(iface) \/ iface_down(iface) PROVE OwnLinks'
  BY <1>5, CommandsOwn
<1>6. CASE dijkstra_thread
  BY <1>6, DijkstraOwn
<1>7. CASE UNCHANGED vars
  BY <1>7, OthersOwn DEF Ours, vars
<1> QED
  BY <1>1, <1>2, <1>3, <1>4, <1>5, <1>6, <1>7 DEF Next

\* Only the computation brings the routes up to date.
LEMMA ComputedByThread ==
    ASSUME [Next]_vars, Computed
    PROVE  dijkstra_thread
<1>1. dijkstra_dirty /\ ~dijkstra_dirty'
  BY DEF Computed
<1>2. ASSUME NEW iface, NEW rid,
             \/ process_packet(iface, rid)
             \/ process_pwospf_hello_packet(iface, rid)
             \/ determine_timedout_interface(iface, rid)
      PROVE  FALSE
  BY <1>1, <1>2 DEF process_packet, process_pwospf_hello_packet,
                    determine_timedout_interface, Propagates
<1>3. ASSUME NEW rid, NEW seq, NEW adv, process_pwospf_lsu_packet(rid, seq, adv)
      PROVE  FALSE
  <2>1. CASE Known(rid) = {}
    BY <1>1, <1>3, <2>1 DEF process_pwospf_lsu_packet, Propagates
  <2>2. CASE Known(rid) # {}
    <3> DEFINE i == CHOOSE i \in Known(rid) : TRUE
               links == Populated(router_list[i].interface_list, adv)
    <3>1. dijkstra_dirty' =
             (dijkstra_dirty \/ links # router_list[i].interface_list \/ links = <<>>)
      BY <1>3, <2>2 DEF process_pwospf_lsu_packet
    <3> QED
      BY <1>1, <3>1, Zenon
  <2> QED
    BY <2>1, <2>2
<1>4. ASSUME NEW rid, NEW adv, NewLsu(rid, adv) PROVE FALSE
  BY <1>1, <1>3, <1>4 DEF NewLsu
<1>5. ASSUME NEW rid, NEW seq, NEW adv, LateLsu(rid, seq, adv) PROVE FALSE
  BY <1>3, <1>5 DEF LateLsu
<1>6. ASSUME NEW rid, pwospf_lsu_timeout_thread(rid) PROVE FALSE
  BY <1>1, <1>6 DEF pwospf_lsu_timeout_thread, Propagates
<1>7. ASSUME NEW iface, iface_up(iface) \/ iface_down(iface) PROVE FALSE
  BY <1>1, <1>7 DEF iface_up, iface_down, Propagates
<1>8. ~UNCHANGED vars
  BY <1>1 DEF vars
<1> QED
  BY <1>2, <1>4, <1>5, <1>6, <1>7, <1>8 DEF Next

-----------------------------------------------------------------------------
(* The computed routes.                                                    *)

\* What the computation works on is as it should be.
LEMMA ThreadComputes ==
    ASSUME RInv
    PROVE  /\ Computes(router_list, Found(router_list, Prevs))
           /\ Found(router_list, Prevs).prev[Us] = Null
           /\ \A i \in DOMAIN router_list :
                 /\ Len(router_list[i].interface_list) \in Nat
                 /\ DOMAIN router_list[i].interface_list =
                       1..Len(router_list[i].interface_list)
<1> DEFINE P == Rids \cup {Null, Freed}
           N == Len(router_list)
<1>1. /\ N \in Nat /\ DOMAIN router_list = 1..N /\ Us \in DOMAIN router_list
      /\ \A i \in DOMAIN router_list : router_list[i] \in Routers
  BY GoodListIndices DEF RInv, IInv
<1>2. /\ Prevs \in [DOMAIN router_list -> P] /\ Prevs[Us] = Null
      /\ \A i \in DOMAIN router_list : router_list[i].rid \in Rids
      /\ \A i, j \in DOMAIN router_list : router_list[i].rid = router_list[j].rid => i = j
  BY <1>1 DEF Prevs, Routers, RInv, IInv, GoodList
<1>3. N < Infinity /\ Infinity > 0
  <2>1. Cardinality(Rids) \in Nat /\ IsFiniteSet(Rids) /\ Cardinality(Rids) < Infinity
    BY DistancesAssumption, FS_CardinalityType
  <2>2. N <= Cardinality(Rids)
    <3>1. SUFFICES ASSUME Cardinality(Rids) < N PROVE FALSE
      BY <1>1, <2>1
    <3> DEFINE f == [i \in 1..N |-> router_list[i].rid]
    <3>2. f \in [1..N -> Rids]
      BY <1>1, <1>2
    <3>3. IsFiniteSet(1..N) /\ Cardinality(1..N) = N
      BY <1>1, IndicesCount
    <3>4. \E x, y \in 1..N : x # y /\ f[x] = f[y]
      <4> HIDE DEF f, N
      <4> QED
        BY <2>1, <3>1, <3>2, <3>3, FS_PigeonHole
    <3> QED
      BY <1>1, <1>2, <3>4
  <2> QED
    BY <1>1, <2>1, <2>2, InfinityAssumption
<1>4. \A i \in DOMAIN router_list : router_list[i].rid \in P
  BY <1>2
<1>5. Found(router_list, Prevs).prev[Us] = Null
  <2> HIDE DEF P
  <2> QED
    BY <1>1, <1>2, <1>4, FoundPointers
<1>6. RightDistances(router_list, Found(router_list, Prevs))
  <2> HIDE DEF P
  <2> QED
    BY <1>1, <1>2, <1>3, <1>4, FoundDistances
<1>7. \A i \in DOMAIN router_list :
         router_list[i].rid # Null /\ router_list[i].rid # Freed
  BY <1>2, RidsAssumption
<1>8. \A i \in DOMAIN router_list :
         /\ Len(router_list[i].interface_list) \in Nat
         /\ DOMAIN router_list[i].interface_list = 1..Len(router_list[i].interface_list)
  <2> TAKE i \in DOMAIN router_list
  <2>1. router_list[i].interface_list \in Seq(LinkRecords)
    BY <1>1 DEF Routers
  <2> QED
    BY <2>1
<1> QED
  BY <1>1, <1>2, <1>3, <1>5, <1>6, <1>7, <1>8 DEF Computes

LEMMA FirstIfaceFound ==
    ASSUME NEW S, NEW a \in S, a \in Ifaces
    PROVE  FirstIface(S) # {}
<1> DEFINE K == {n \in DOMAIN IfList : IfList[n] \in S}
<1>1. Len(IfList) \in Nat /\ DOMAIN IfList = 1..Len(IfList)
  BY IfacesAssumption
<1>2. PICK n \in K : \A m \in K : n <= m
  <2>1. K \in SUBSET (1..Len(IfList)) /\ K # {}
    BY <1>1 DEF Ifaces
  <2> HIDE DEF K
  <2> QED
    BY <1>1, <2>1, LeastIndex
<1>3. \A m \in 1..(n - 1) : IfList[m] \notin S
  <2> TAKE m \in 1..(n - 1)
  <2>1. m \in DOMAIN IfList /\ ~(n <= m)
    BY <1>1
  <2> QED
    BY <1>2, <2>1
<1>4. IfList[n] \in FirstIface(S)
  BY <1>3 DEF FirstIface
<1> QED
  BY <1>4

\* The route to a neighbour leaves by an interface on which it is one.
LEMMA NeighborIface ==
    ASSUME NEW iface \in Ifaces, NEW rid \in nbr_routers[iface], NEW subnet
    PROVE  /\ IfaceFor(rid, subnet) # {}
           /\ \A a \in IfaceFor(rid, subnet) : a \in Ifaces /\ rid \in nbr_routers[a]
<1> DEFINE byRid == {i \in Ifaces : rid \in nbr_routers[i]}
<1>1. iface \in byRid
  OBVIOUS
<1>2. IfaceFor(rid, subnet) = FirstIface(byRid)
  BY <1>1 DEF IfaceFor
<1>3. FirstIface(byRid) # {} /\ \A a \in FirstIface(byRid) : a \in byRid
  <2> HIDE DEF byRid
  <2> QED
    BY <1>1, FirstIfaceFound, FirstIfaceFacts
<1> QED
  BY <1>2, <1>3

\* A link of ours is that of an interface, and shows a neighbour there or none.
LEMMA OurLink ==
    ASSUME RInv, NEW k \in DOMAIN Ours
    PROVE  \E iface \in Ifaces :
              /\ Ours[k].subnet = SubnetOf[iface]
              /\ Ours[k].rid = NoRouter \/ Ours[k].rid \in nbr_routers[iface]
<1>1. PICK iface \in Ifaces : Ours[k].subnet = SubnetOf[iface]
  BY DEF RInv, OwnLinks, OnOwn, OwnSubnets
<1>2. Shows(Ours, SubnetOf[iface], Seen(iface))
  BY DEF RInv, IInv, AllShown
<1>3. Ours[k].rid \in Seen(iface)
  BY <1>1, <1>2 DEF Shows
<1> QED
  BY <1>1, <1>3 DEF Seen

(***************************************************************************)
(* Every other router sends its HELLOs on one interface of ours: there are *)
(* no two links to one neighbour.                                          *)
(***************************************************************************)
OneLinkEach == \A p, q \in Attached : p[2] = q[2] => p[1] = q[1]

\* Then the interface of a route to a subnet of ours is the one on it.
LEMMA OwnIface ==
    ASSUME RInv, OneLinkEach, NEW k \in DOMAIN Ours
    PROVE  /\ IfaceFor(Ours[k].rid, Ours[k].subnet) # {}
           /\ \A a \in IfaceFor(Ours[k].rid, Ours[k].subnet) :
                 SubnetOf[a] = Ours[k].subnet
<1>1. PICK iface \in Ifaces :
         /\ Ours[k].subnet = SubnetOf[iface]
         /\ Ours[k].rid = NoRouter \/ Ours[k].rid \in nbr_routers[iface]
  BY OurLink
<1>2. \A i \in Ifaces : \A rid \in nbr_routers[i] :
         rid \in Others /\ <<i, rid>> \in Attached
  BY DEF RInv, IInv, RestTyped, OwnLinks
<1>3. CASE Ours[k].rid \in nbr_routers[iface]
  <2> DEFINE rid == Ours[k].rid
             subnet == Ours[k].subnet
  <2> HIDE DEF rid, subnet
  <2>1. rid \in nbr_routers[iface]
    BY <1>3 DEF rid
  <2>2. /\ IfaceFor(rid, subnet) # {}
        /\ \A a \in IfaceFor(rid, subnet) : a \in Ifaces /\ rid \in nbr_routers[a]
    BY <2>1, NeighborIface
  <2>3. ASSUME NEW a \in IfaceFor(rid, subnet) PROVE a = iface
    <3>1. <<a, rid>> \in Attached /\ <<iface, rid>> \in Attached
      BY <1>2, <2>1, <2>2
    <3> QED
      BY <3>1 DEF OneLinkEach
  <2> QED
    BY <1>1, <2>2, <2>3 DEF rid, subnet
<1>4. CASE Ours[k].rid = NoRouter
  <2> DEFINE bySubnet == {i \in Ifaces : SubnetOf[i] = Ours[k].subnet}
  <2>1. {i \in Ifaces : Ours[k].rid \in nbr_routers[i]} = {}
    BY <1>2, <1>4, RidsAssumption DEF Rids
  <2>2. IfaceFor(Ours[k].rid, Ours[k].subnet) = FirstIface(bySubnet)
    BY <2>1 DEF IfaceFor
  <2>3. iface \in bySubnet
    BY <1>1
  <2>4. FirstIface(bySubnet) # {} /\ \A a \in FirstIface(bySubnet) : a \in bySubnet
    <3> HIDE DEF bySubnet
    <3> QED
      BY <2>3, FirstIfaceFound, FirstIfaceFacts
  <2> QED
    BY <2>2, <2>4
<1> QED
  BY <1>1, <1>3, <1>4

(***************************************************************************)
(* Where the goals are within some number of links, the fewest is the      *)
(* least distance of a goal.                                               *)
(***************************************************************************)
LEMMA FewestDistance ==
    ASSUME NEW list, NEW st, Computes(list, st), NEW goals \in SUBSET (DOMAIN list),
           NEW i \in goals, st.distance[i] \in 0..Len(list),
           \A j \in goals : st.distance[i] <= st.distance[j]
    PROVE  Fewest(Within(list, Us), goals) = st.distance[i]
<1> DEFINE ball == Within(list, Us)
           N == Len(list)
           d == st.distance
<1>1. /\ N \in Nat /\ Us \in DOMAIN list /\ N < Infinity
      /\ \A j \in DOMAIN list : d[j] \in Nat
  BY DEF Computes, RightDistances
<1>2. DOMAIN ball = 0..N
  BY <1>1, WithinLevels
<1>3. \A n \in 0..N : \A j \in DOMAIN list : j \in ball[n] <=> d[j] <= n
  BY <1>1, WithinDistance DEF Computes
<1>4. i \in DOMAIN list
  OBVIOUS
<1> HIDE DEF ball, d, N
<1> DEFINE Least(n) == /\ ball[n] \cap goals # {}
                       /\ \A m \in 0..(n - 1) : ball[m] \cap goals = {}
<1>5. \A n \in 0..N : ball[n] \cap goals # {} <=> d[i] <= n
  <2> TAKE n \in 0..N
  <2>1. ASSUME d[i] <= n PROVE ball[n] \cap goals # {}
    BY <1>3, <1>4, <2>1
  <2>2. ASSUME ball[n] \cap goals # {} PROVE d[i] <= n
    <3>1. PICK j \in goals : j \in ball[n]
      BY <2>2
    <3>2. d[j] <= n /\ d[i] <= d[j] /\ d[i] \in Nat /\ d[j] \in Nat
      BY <1>1, <1>3, <1>4, <3>1 DEF d
    <3> QED
      BY <1>1, <3>2
  <2> QED
    BY <2>1, <2>2
<1>6. d[i] \in 0..N
  BY DEF d, N
<1>7. \A n \in 0..N : Least(n) <=> n = d[i]
  <2> TAKE n \in 0..N
  <2>1. ASSUME n = d[i] PROVE Least(n)
    <3>1. \A m \in 0..(n - 1) : m \in 0..N /\ ~(d[i] <= m)
      BY <1>1, <1>6, <2>1
    <3>2. d[i] <= n
      BY <1>6, <2>1
    <3> QED
      BY <1>5, <3>1, <3>2
  <2>2. ASSUME Least(n) PROVE n = d[i]
    <3>1. d[i] <= n
      BY <1>5, <2>2
    <3>2. ~(d[i] < n)
      <4>1. SUFFICES ASSUME d[i] < n PROVE FALSE
        OBVIOUS
      <4>2. d[i] \in 0..(n - 1) /\ d[i] <= d[i]
        BY <1>1, <1>6, <4>1
      <4> QED
        BY <1>5, <1>6, <2>2, <4>2
    <3> QED
      BY <1>1, <1>6, <3>1, <3>2
  <2> QED
    BY <2>1, <2>2
<1>8. Fewest(ball, goals) = CHOOSE n \in 0..N : Least(n)
  BY <1>2 DEF Fewest
<1> HIDE DEF Least
<1>9. (CHOOSE n \in 0..N : Least(n)) = d[i]
  BY <1>6, <1>7
<1> QED
  BY <1>8, <1>9 DEF ball, d

(***************************************************************************)
(* The computation gives a subnet that is in reach its shortest route.     *)
(***************************************************************************)
LEMMA ComputedShortest ==
    ASSUME RInv, OneLinkEach, dijkstra_thread, fault' = "none", NEW subnet
    PROVE  ShortestTo(subnet)
<1> DEFINE list == router_list
           st == Found(list, Prevs)
           next(c) == NextOf(list, st, c)
           ifaces(c) == IfaceFor(next(c), Subnet(list, c))
           routed == {c \in Wrappers(list, st) : ifaces(c) # {}}
           route(c) == [subnet |-> Subnet(list, c),
                        iface  |-> CHOOSE iface \in ifaces(c) : TRUE,
                        gw     |-> IF c[1] = Us THEN Direct ELSE next(c)]
           goals == Advertisers(list, subnet)
           ball == Within(list, Us)
           routes == {q \in learned' : q.subnet = subnet}
           N == Len(list)
<1>1. learned' = {route(c) : c \in routed}
  BY DEF dijkstra_thread
<1>2. /\ Computes(list, st) /\ st.prev[Us] = Null
      /\ \A j \in DOMAIN list : /\ Len(list[j].interface_list) \in Nat
                                /\ DOMAIN list[j].interface_list =
                                      1..Len(list[j].interface_list)
  BY ThreadComputes
<1> HIDE DEF st
<1>3. /\ N \in Nat /\ Us \in DOMAIN list /\ N < Infinity /\ Infinity \in Nat
      /\ RightDistances(list, st)
  BY <1>2, InfinityAssumption DEF Computes
<1>4. SUFFICES ASSUME goals # {}
               PROVE  \E q \in routes :
                         /\ routes = {q}
                         /\ IF Fewest(ball, goals) = 0
                            THEN q.gw = Direct /\ SubnetOf[q.iface] = subnet
                            ELSE \E h \in DOMAIN list :
                                    /\ list[h].rid = q.gw
                                    /\ Linked(list, Us, h)
                                    /\ q.gw \in nbr_routers[q.iface]
                                    /\ goals \cap ball[Fewest(ball, goals)] \cap
                                          Within(list, h)[Fewest(ball, goals) - 1] # {}
  BY DEF ShortestTo
<1>5. \A j : j \in goals <=>
              j \in DOMAIN list /\ Advertises(list, j, subnet) /\ st.distance[j] <= N
  <2>1. \A j \in ball[N] : j \in DOMAIN list
    BY <1>3, WithinLevels
  <2>2. \A j \in DOMAIN list : j \in ball[N] <=> st.distance[j] <= N
    <3>1. N \in 0..N
      BY <1>3
    <3> QED
      BY <1>3, <3>1, WithinDistance
  <2> QED
    BY <2>1, <2>2 DEF Advertisers
<1> HIDE DEF goals, ball, list, N
<1>6. PICK g : g \in goals
  BY <1>4
<1>7. PICK i \in DOMAIN list : \E k \in DOMAIN list[i].interface_list :
         /\ list[i].interface_list[k].subnet = subnet
         /\ \A j \in DOMAIN list :
               Advertises(list, j, subnet) => st.distance[i] <= st.distance[j]
         /\ <<i, k>> \in Wrappers(list, st)
         /\ \A b \in Wrappers(list, st) : Subnet(list, b) = subnet => b = <<i, k>>
  <2>1. g \in DOMAIN list /\ Advertises(list, g, subnet)
    BY <1>5, <1>6
  <2> QED
    BY <1>2, <2>1, WrapperChosen
<1>8. PICK k \in DOMAIN list[i].interface_list :
         /\ list[i].interface_list[k].subnet = subnet
         /\ \A j \in DOMAIN list :
               Advertises(list, j, subnet) => st.distance[i] <= st.distance[j]
         /\ <<i, k>> \in Wrappers(list, st)
         /\ \A b \in Wrappers(list, st) : Subnet(list, b) = subnet => b = <<i, k>>
  BY <1>7
<1> DEFINE c == <<i, k>>
           e == st.distance[i]
<1>9. c[1] = i /\ c[2] = k /\ Subnet(list, c) = subnet /\ c \in Wrappers(list, st)
  BY <1>8 DEF Subnet
<1>10. e \in 0..N /\ i \in goals /\ e < Infinity
  <2>1. e <= st.distance[g] /\ st.distance[g] <= N
    BY <1>5, <1>6, <1>8
  <2>2. e \in Nat /\ st.distance[g] \in Nat
    BY <1>3, <1>5, <1>6 DEF RightDistances
  <2>3. e <= N
    BY <1>3, <2>1, <2>2
  <2>4. Advertises(list, i, subnet)
    BY <1>8 DEF Advertises
  <2> QED
    BY <1>3, <1>5, <2>2, <2>3, <2>4
<1>11. Fewest(ball, goals) = e
  <2>1. goals \in SUBSET (DOMAIN list) /\ \A j \in goals : e <= st.distance[j]
    BY <1>5, <1>8
  <2> QED
    BY <1>2, <1>10, <2>1, FewestDistance DEF ball, N
<1>12. i \in ball[e]
  BY <1>3, <1>10, WithinDistance DEF ball, N
<1>13. ASSUME ifaces(c) # {} PROVE routes = {route(c)}
  <2>1. c \in routed /\ route(c).subnet = subnet
    BY <1>9, <1>13
  <2>2. \A b \in routed : route(b).subnet = subnet => b = c
    BY <1>8
  <2> HIDE DEF routed, route
  <2> QED
    BY <1>1, <2>1, <2>2
<1>14. route(c).gw = IF i = Us THEN Direct ELSE next(c)
  OBVIOUS
<1>15. ifaces(c) # {} => route(c).iface \in ifaces(c)
  OBVIOUS
<1>16. e = 0 <=> i = Us
  <2>1. i = Us => e = 0
    BY <1>3 DEF RightDistances
  <2>2. i # Us => e # 0
    <3>1. i # Us => e \in 1..N
      BY <1>2, <1>10, HopNearer DEF N
    <3> QED
      BY <3>1
  <2> QED
    BY <2>1, <2>2
<1> HIDE DEF routes, route, c, e
<1>17. CASE i = Us
  <2>1. k \in DOMAIN Ours /\ Ours[k].subnet = subnet
    BY <1>8, <1>17 DEF Ours, list
  <2>2. next(c) = Ours[k].rid
    <3>1. next(c) = NextRid(list, st, Us, Ours[k])
      BY <1>9, <1>17 DEF NextOf, Ours, list
    <3> QED
      BY <1>2, <3>1 DEF NextRid
  <2>3. ifaces(c) = IfaceFor(Ours[k].rid, Ours[k].subnet)
    BY <1>9, <2>1, <2>2
  <2> HIDE DEF ifaces
  <2>4. ifaces(c) # {} /\ \A a \in ifaces(c) : SubnetOf[a] = subnet
    BY <2>1, <2>3, OwnIface
  <2>5. route(c).gw = Direct /\ SubnetOf[route(c).iface] = subnet
    BY <1>14, <1>15, <1>17, <2>4
  <2> QED
    BY <1>11, <1>13, <1>16, <1>17, <2>4, <2>5
<1>18. CASE i # Us
  <2>1. PICK h \in DOMAIN list :
           /\ Linked(list, Us, h)
           /\ NextRid(list, st, i, list[i].interface_list[k]) = list[h].rid
           /\ i \in Within(list, h)[e - 1]
    BY <1>2, <1>10, <1>18, WalkNearest DEF e
  <2>2. next(c) = list[h].rid
    BY <1>9, <2>1 DEF NextOf
  <2>3. PICK l \in DOMAIN Ours : Ours[l].rid = list[h].rid
    BY <2>1 DEF Linked, Ours, list
  <2>4. list[h].rid # NoRouter
    <3>1. list[h] \in Routers
      BY GoodListIndices DEF RInv, IInv, list
    <3> QED
      BY <3>1, RidsAssumption DEF Routers
  <2>5. PICK iface \in Ifaces : list[h].rid \in nbr_routers[iface]
    BY <2>3, <2>4, OurLink
  <2>6. ifaces(c) = IfaceFor(list[h].rid, subnet)
    BY <1>9, <2>2
  <2>7. ifaces(c) # {} /\ \A a \in ifaces(c) : list[h].rid \in nbr_routers[a]
    BY <2>5, <2>6, NeighborIface
  <2>8. route(c).gw = list[h].rid /\ list[h].rid \in nbr_routers[route(c).iface]
    BY <1>14, <1>15, <1>18, <2>2, <2>7
  <2>9. goals \cap ball[e] \cap Within(list, h)[e - 1] # {}
    BY <1>10, <1>12, <2>1
  <2> HIDE DEF ifaces
  <2> QED
    BY <1>11, <1>13, <1>16, <1>18, <2>1, <2>7, <2>8, <2>9
<1> QED
  BY <1>17, <1>18

(***************************************************************************)
(* Every time compute_rtable has run, a subnet in reach has one route, to  *)
(* a neighbour on a shortest way to it, or to our interface on it.         *)
(***************************************************************************)
THEOREM RoutesAlwaysShortest ==
    ASSUME OneLinkEach
    PROVE  Spec => ShortestRoutes
<1>1. RInv /\ [Next]_vars => [Computed => \A subnet \in Subnets : ShortestTo(subnet)]_vars
  <2>1. SUFFICES ASSUME RInv, [Next]_vars, Computed
                 PROVE  \A subnet \in Subnets : ShortestTo(subnet)
    OBVIOUS
  <2>2. dijkstra_thread /\ fault' = "none"
    BY <2>1, ComputedByThread DEF Computed
  <2> QED
    BY <2>1, <2>2, ComputedShortest
<1>2. Init => RInv
  BY InitIInv, InitOwnLinks DEF RInv
<1> QED
  BY <1>1, <1>2, NextRInv, PTL DEF Spec, ShortestRoutes
=============================================================================
