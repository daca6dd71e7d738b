------------------------- MODULE ContentTableProofs -------------------------
(***************************************************************************)
(* Proofs about ContentTable, for any set of names, versions, addresses    *)
(* and ports and any depth of the tables.                                  *)
(***************************************************************************)
EXTENDS ContentTable, ListProofs

-----------------------------------------------------------------------------
(* Lists of entries.                                                       *)

(***************************************************************************)
(* A list with no two entries for the same content behind the same port.   *)
(***************************************************************************)
Unique(ct) ==
    \A i, j \in DOMAIN ct :
        ct[i].content = ct[j].content /\ ct[i].iface = ct[j].iface => i = j

\* Taking entries out of a list without duplicates leaves none behind.
LEMMA KeepUnique ==
    ASSUME NEW S, NEW s \in Seq(S), NEW K \in SUBSET (DOMAIN s), Unique(s)
    PROVE  Unique(Keep(s, K))
<1> SUFFICES ASSUME NEW i \in DOMAIN Keep(s, K), NEW j \in DOMAIN Keep(s, K),
                    Keep(s, K)[i].content = Keep(s, K)[j].content,
                    Keep(s, K)[i].iface = Keep(s, K)[j].iface
             PROVE  i = j
  BY DEF Unique
<1>1. PICK x \in K : Rank(K, x) = i /\ Keep(s, K)[i] = s[x]
  BY KeepProperties
<1>2. PICK y \in K : Rank(K, y) = j /\ Keep(s, K)[j] = s[y]
  BY KeepProperties
<1>3. x = y
  BY <1>1, <1>2 DEF Unique
<1> QED
  BY <1>1, <1>2, <1>3

(***************************************************************************)
(* An entry put in front of a list without duplicates, none of which is    *)
(* for its content and port, makes no duplicate.                           *)
(***************************************************************************)
LEMMA PushUnique ==
    ASSUME NEW S, NEW s \in Seq(S), NEW e \in S, Unique(s),
           \A j \in DOMAIN s : ~Matches(s[j], e.content, e.iface)
    PROVE  Unique(<<e>> \o s)
<1> DEFINE t == <<e>> \o s
<1>1. /\ t \in Seq(S)
      /\ DOMAIN t = 1..(Len(s) + 1)
      /\ DOMAIN s = 1..Len(s)
      /\ Len(s) \in Nat
      /\ t[1] = e
      /\ \A j \in 2..(Len(s) + 1) : j - 1 \in DOMAIN s /\ t[j] = s[j - 1]
  OBVIOUS
<1> HIDE DEF t
<1>2. SUFFICES ASSUME NEW i \in DOMAIN t, NEW j \in DOMAIN t,
                      t[i].content = t[j].content, t[i].iface = t[j].iface
               PROVE  i = j
  BY <1>2 DEF Unique, t
<1>3. CASE i = 1
  <2>1. j \in 2..(Len(s) + 1) => FALSE
    BY <1>1, <1>2, <1>3 DEF Matches
  <2> QED
    BY <1>1, <1>3, <2>1
<1>4. CASE j = 1
  <2>1. i \in 2..(Len(s) + 1) => FALSE
    BY <1>1, <1>2, <1>4 DEF Matches
  <2> QED
    BY <1>1, <1>4, <2>1
<1>5. CASE i # 1 /\ j # 1
  <2>1. i \in 2..(Len(s) + 1) /\ j \in 2..(Len(s) + 1)
    BY <1>1, <1>5
  <2>2. /\ i - 1 \in DOMAIN s /\ j - 1 \in DOMAIN s
        /\ t[i] = s[i - 1] /\ t[j] = s[j - 1]
    BY <1>1, <2>1
  <2>3. i - 1 = j - 1
    BY <1>2, <2>2 DEF Unique
  <2> QED
    BY <1>1, <2>1, <2>3
<1> QED
  BY <1>3, <1>4, <1>5

(***************************************************************************)
(* node_update reorders a list: it has as many entries after as before and *)
(* no duplicates if it had none.                                           *)
(***************************************************************************)
LEMMA UpdateProperties ==
    ASSUME NEW S, NEW s \in Seq(S), NEW i \in DOMAIN s
    PROVE  /\ node_update(s, i) \in Seq(S)
           /\ Len(node_update(s, i)) = Len(s)
           /\ Unique(s) => Unique(node_update(s, i))
<1> DEFINE K == DOMAIN s \ {i}
           t == Keep(s, K)
<1>1. K \in SUBSET (DOMAIN s) /\ s[i] \in S /\ Len(s) \in Nat /\ DOMAIN s = 1..Len(s)
  OBVIOUS
<1>2. t \in Seq(S) /\ Len(t) = Cardinality(K)
  BY <1>1, KeepProperties
<1>3. Cardinality(K) = Len(s) - 1
  <2>1. IsFiniteSet(DOMAIN s) /\ Cardinality(DOMAIN s) = Len(s)
    BY <1>1, IndicesCount
  <2>2. Cardinality(DOMAIN s \ {i}) = Cardinality(DOMAIN s) - 1
    BY <2>1, FS_RemoveElement
  <2> QED
    BY <2>1, <2>2
<1>4. node_update(s, i) = <<s[i]>> \o t
  BY DEF node_update, node_remove
<1>5. ASSUME Unique(s)
      PROVE  Unique(<<s[i]>> \o t)
  <2>1. Unique(t)
    BY <1>1, <1>5, KeepUnique
  <2>2. \A j \in DOMAIN t : ~Matches(t[j], s[i].content, s[i].iface)
    <3> TAKE j \in DOMAIN t
    <3>1. PICK x \in K : t[j] = s[x]
      BY <1>1, KeepProperties
    <3> QED
      BY <1>1, <1>5, <3>1 DEF Unique, Matches
  <2> HIDE DEF t
  <2> QED
    BY <1>1, <1>2, <2>1, <2>2, PushUnique
<1> HIDE DEF t, K
<1>6. <<s[i]>> \o t \in Seq(S) /\ Len(<<s[i]>> \o t) = Len(t) + 1
  BY <1>1, <1>2
<1>7. Len(t) + 1 = Len(s)
  BY <1>1, <1>2, <1>3
<1> QED
  BY <1>4, <1>5, <1>6, <1>7

\* The indices add_content may stop at are at most one, and an index there
\* is of an entry for this name and port.
LEMMA FirstMatchProperties ==
    ASSUME NEW S, NEW ct \in Seq(S), NEW name, NEW iface
    PROVE  /\ FirstMatch(ct, name, iface) \subseteq DOMAIN ct
           /\ \A i \in FirstMatch(ct, name, iface) : Matches(ct[i], name, iface)
           /\ FirstMatch(ct, name, iface) = {} =>
                 \A i \in DOMAIN ct : ~Matches(ct[i], name, iface)
<1> DEFINE hits == {i \in DOMAIN ct : Matches(ct[i], name, iface)}
<1>1. FirstMatch(ct, name, iface) \subseteq hits
  BY DEF FirstMatch
<1>2. ASSUME hits # {}
      PROVE  FirstMatch(ct, name, iface) # {}
  <2>1. hits \in SUBSET (1..Len(ct)) /\ Len(ct) \in Nat
    OBVIOUS
  <2>2. PICK i \in hits : \A j \in hits : i <= j
    <3> HIDE DEF hits
    <3> QED
      BY <1>2, <2>1, LeastIndex
  <2>3. \A j \in 1..(i - 1) : ~Matches(ct[j], name, iface)
    BY <2>1, <2>2
  <2> QED
    BY <2>2, <2>3 DEF FirstMatch
<1> QED
  BY <1>1, <1>2

-----------------------------------------------------------------------------
(* The operations on the table.                                            *)

(***************************************************************************)
(* A list of entries that fits the table, without duplicates: what every   *)
(* operation of or_ctable.c keeps.                                         *)
(***************************************************************************)
GoodList(ct) ==
    /\ ct \in Seq(ctable_entry)
    /\ Len(ct) <= MAX_CTABLE_DEPTH
    /\ Unique(ct)

\* add_content keeps a good list good.
LEMMA AddContentGood ==
    ASSUME NEW ct, GoodList(ct), NEW e \in ctable_entry
    PROVE  GoodList(AddContent(ct, e))
<1> DEFINE hit == FirstMatch(ct, e.content, e.iface)
<1>1. ct \in Seq(ctable_entry) /\ Len(ct) <= MAX_CTABLE_DEPTH /\ Unique(ct)
  BY DEF GoodList
<1>2. /\ hit \subseteq DOMAIN ct
      /\ hit = {} => \A i \in DOMAIN ct : ~Matches(ct[i], e.content, e.iface)
  BY <1>1, FirstMatchProperties
<1> HIDE DEF hit
<1>3. CASE hit # {}
  <2> DEFINE i == CHOOSE i \in hit : TRUE
  <2>1. i \in DOMAIN ct
    BY <1>2, <1>3
  <2>2. AddContent(ct, e) = node_update(ct, i)
    BY <1>3 DEF AddContent, hit
  <2> HIDE DEF i
  <2> QED
    BY <1>1, <2>1, <2>2, UpdateProperties DEF GoodList
<1>4. CASE hit = {} /\ Len(ct) < MAX_CTABLE_DEPTH
  <2>1. AddContent(ct, e) = <<e>> \o ct
    BY <1>4 DEF AddContent, hit, node_push_front
  <2>2. Unique(<<e>> \o ct)
    BY <1>1, <1>2, <1>4, PushUnique
  <2>3. <<e>> \o ct \in Seq(ctable_entry) /\ Len(<<e>> \o ct) = Len(ct) + 1
    BY <1>1
  <2>4. Len(ct) + 1 <= MAX_CTABLE_DEPTH
    BY <1>1, <1>4, DepthAssumption
  <2> QED
    BY <2>1, <2>2, <2>3, <2>4 DEF GoodList
<1>5. CASE hit = {} /\ Len(ct) = MAX_CTABLE_DEPTH
  <2> DEFINE t == SubSeq(ct, 1, Len(ct) - 1)
  <2>1. /\ t \in Seq(ctable_entry)
        /\ Len(t) = Len(ct) - 1
        /\ DOMAIN t \subseteq DOMAIN ct
        /\ \A j \in DOMAIN t : t[j] = ct[j]
    BY <1>1, <1>5, DepthAssumption
  <2>2. AddContent(ct, e) = <<e>> \o t
    BY <1>5, DepthAssumption DEF AddContent, hit, node_insert_front
  <2> HIDE DEF t
  <2>3. Unique(t)
    BY <1>1, <2>1 DEF Unique
  <2>4. \A j \in DOMAIN t : ~Matches(t[j], e.content, e.iface)
    BY <1>2, <1>5, <2>1
  <2>5. Unique(<<e>> \o t)
    BY <2>1, <2>3, <2>4, PushUnique
  <2>6. <<e>> \o t \in Seq(ctable_entry) /\ Len(<<e>> \o t) = Len(t) + 1
    BY <2>1
  <2>7. Len(t) + 1 <= MAX_CTABLE_DEPTH
    BY <1>5, <2>1, DepthAssumption
  <2> QED
    BY <2>2, <2>5, <2>6, <2>7 DEF GoodList
<1>6. Len(ct) \in Nat
  BY <1>1
<1> QED
  BY <1>1, <1>3, <1>4, <1>5, <1>6, DepthAssumption

\* Removing entries keeps a good list good.
LEMMA RemoveGood ==
    ASSUME NEW ct, GoodList(ct), NEW gone
    PROVE  GoodList(node_remove(ct, gone))
<1> DEFINE K == DOMAIN ct \ gone
<1>1. /\ ct \in Seq(ctable_entry) /\ Len(ct) <= MAX_CTABLE_DEPTH /\ Unique(ct)
      /\ K \in SUBSET (DOMAIN ct)
  BY DEF GoodList
<1>2. /\ Keep(ct, K) \in Seq(ctable_entry)
      /\ Len(Keep(ct, K)) = Cardinality(K)
      /\ Cardinality(K) \in 0..Len(ct)
  BY <1>1, KeepProperties
<1>3. Len(Keep(ct, K)) <= MAX_CTABLE_DEPTH
  <2> HIDE DEF K
  <2>1. Len(ct) \in Nat
    BY <1>1
  <2> QED
    BY <1>1, <1>2, <2>1, DepthAssumption
<1>4. Unique(Keep(ct, K))
  BY <1>1, KeepUnique
<1> QED
  BY <1>2, <1>3, <1>4 DEF GoodList, node_remove

(***************************************************************************)
(* The hardware rows and the version register have their types, and the    *)
(* rows are a copy of the list.                                            *)
(***************************************************************************)
HardwareOK ==
    /\ hwTable \in [1..HW_DEPTH -> Row]
    /\ vnReg \in Versions \cup {0}
    /\ HardwareMirrorsTable

\* write_ctable_to_hw copies a good list.
LEMMA CopyMirrors ==
    ASSUME NEW ct, GoodList(ct), vnReg \in Versions \cup {0},
           write_ctable_to_hw(ct)
    PROVE  /\ hwTable' \in [1..HW_DEPTH -> Row]
           /\ vnReg' \in Versions \cup {0}
           /\ \A r \in 1..HW_DEPTH :
                 IF r <= Len(ct)
                 THEN hwTable'[r] = HwRow(ct[r])
                 ELSE hwTable'[r].name = 0 /\ hwTable'[r].port = 0
<1>1. /\ ct \in Seq(ctable_entry) /\ Len(ct) \in Nat
      /\ \A r \in 1..Len(ct) : ct[r] \in ctable_entry
  BY DEF GoodList
<1>2. /\ hwTable' = [r \in 1..HW_DEPTH |->
                        IF r <= Len(ct) THEN HwRow(ct[r])
                                        ELSE BlankRow(VnRegAfter(ct))]
      /\ vnReg' = VnRegAfter(ct)
  BY DEF write_ctable_to_hw
<1>3. VnRegAfter(ct) \in Versions \cup {0}
  <2>1. Written(ct) \in 0..Len(ct)
    BY <1>1, DepthAssumption DEF Written
  <2>2. Written(ct) # 0 => ct[Written(ct)] \in ctable_entry
    BY <1>1, <2>1
  <2> QED
    BY <2>2 DEF VnRegAfter, ctable_entry
<1>4. \A e \in ctable_entry : HwRow(e) \in Row
  <2> TAKE e \in ctable_entry
  <2>1. /\ e.content \in Contents /\ e.ver_num \in Versions
        /\ e.nexthop \in Addrs /\ e.iface \in Ifaces
    BY DEF ctable_entry
  <2>2. getOneHotPortNumber(e.iface) \in Ports
    BY <2>1 DEF Ports
  <2> QED
    BY <2>1, <2>2 DEF HwRow, Row
<1>5. BlankRow(VnRegAfter(ct)) \in Row
  BY <1>3 DEF BlankRow, Row, Ports
<1>6. \A r \in 1..HW_DEPTH :
         /\ hwTable'[r] = IF r <= Len(ct) THEN HwRow(ct[r])
                                          ELSE BlankRow(VnRegAfter(ct))
         /\ r <= Len(ct) => r \in 1..Len(ct)
  BY <1>1, <1>2, DepthAssumption
<1>7. \A r \in 1..HW_DEPTH : hwTable'[r] \in Row
  BY <1>1, <1>4, <1>5, <1>6
<1>8. hwTable' \in [1..HW_DEPTH -> Row]
  <2>1. /\ hwTable' = [r \in 1..HW_DEPTH |-> hwTable'[r]]
    BY <1>2
  <2> QED
    BY <1>7, <2>1
<1>9. BlankRow(VnRegAfter(ct)).name = 0 /\ BlankRow(VnRegAfter(ct)).port = 0
  BY DEF BlankRow
<1> QED
  BY <1>2, <1>3, <1>6, <1>8, <1>9

\* A list that is good and has just been copied leaves the hardware right.
LEMMA CopyStep ==
    ASSUME GoodList(ctable'), vnReg \in Versions \cup {0},
           write_ctable_to_hw(ctable')
    PROVE  HardwareOK'
BY CopyMirrors DEF HardwareOK, HardwareMirrorsTable

\* add_content leaves a good list and right rows.
LEMMA AddStep ==
    ASSUME GoodList(ctable), HardwareOK, NEW e \in ctable_entry, add_content(e)
    PROVE  GoodList(ctable)' /\ HardwareOK'
<1>1. GoodList(ctable')
  BY AddContentGood DEF add_content
<1>2. Len(ctable) <= MAX_CTABLE_DEPTH /\ Len(ctable) \in Nat
  BY DEF GoodList
<1>3. write_ctable_to_hw(ctable')
  BY <1>2, DepthAssumption DEF add_content
<1>4. HardwareOK'
  BY <1>1, <1>3, CopyStep DEF HardwareOK
<1> QED
  BY <1>1, <1>4 DEF GoodList, Unique

\* Removing entries and copying the list leaves a good list and right rows.
LEMMA RemoveStep ==
    ASSUME GoodList(ctable), HardwareOK, NEW gone,
           ctable' = node_remove(ctable, gone), write_ctable_to_hw(ctable')
    PROVE  GoodList(ctable)' /\ HardwareOK'
<1>1. GoodList(ctable')
  BY RemoveGood
<1>2. HardwareOK'
  BY <1>1, CopyStep DEF HardwareOK
<1> QED
  BY <1>1, <1>2 DEF GoodList, Unique

-----------------------------------------------------------------------------
(* Requests.                                                               *)

(***************************************************************************)
(* In a list without duplicates a request finds at most one hit behind     *)
(* each port: three downward and one upward.                               *)
(***************************************************************************)
LEMMA FewMatches ==
    ASSUME NEW ct, GoodList(ct), NEW name, NEW vn, NEW iface
    PROVE  LET down == DownHits(ct, name, vn, iface)
               up   == UpHits(ct, name, vn, iface)
           IN  /\ IsFiniteSet(down) /\ Cardinality(down) <= NUM_DNPORT
               /\ IsFiniteSet(up) /\ Cardinality(up) <= NUM_UPPORT
<1> DEFINE down == DownHits(ct, name, vn, iface)
           up   == UpHits(ct, name, vn, iface)
           DnPorts == {"eth0", "eth1", "eth2"}
           UpPorts == {"eth3"}
<1>1. /\ \A i \in DOMAIN ct : ct[i].iface \in Ifaces
      /\ \A i, j \in DOMAIN ct :
            ct[i].content = ct[j].content /\ ct[i].iface = ct[j].iface => i = j
  <2>1. \A i \in DOMAIN ct : ct[i] \in ctable_entry
    BY DEF GoodList
  <2>2. \A e \in ctable_entry : e.iface \in Ifaces
    BY DEF ctable_entry
  <2> QED
    BY <2>1, <2>2 DEF GoodList, Unique
<1>2. IsFiniteSet(DnPorts) /\ Cardinality(DnPorts) = 3
  <2>1. IsFiniteSet({"eth0"}) /\ Cardinality({"eth0"}) = 1
    BY FS_Singleton
  <2>2. {"eth0", "eth1"} = {"eth0"} \cup {"eth1"} /\ "eth1" \notin {"eth0"}
    OBVIOUS
  <2>3. IsFiniteSet({"eth0", "eth1"}) /\ Cardinality({"eth0", "eth1"}) = 2
    BY <2>1, <2>2, FS_AddElement
  <2>4. DnPorts = {"eth0", "eth1"} \cup {"eth2"} /\ "eth2" \notin {"eth0", "eth1"}
    OBVIOUS
  <2> QED
    BY <2>3, <2>4, FS_AddElement
<1>3. IsFiniteSet(UpPorts) /\ Cardinality(UpPorts) = 1
  BY FS_Singleton
<1>4. \A p \in Ifaces : IF IsDown(p) THEN p \in DnPorts ELSE p \in UpPorts
  BY IfacesAssumption DEF IsDown, getOneHotPortNumber, DIVIDE_LINE
<1>5. IsFiniteSet(down) /\ Cardinality(down) <= Cardinality(DnPorts)
  <2> DEFINE f == [i \in down |-> ct[i].iface]
  <2>1. \A i \in down : i \in DOMAIN ct /\ ct[i].content = name /\ ct[i].iface \in DnPorts
    BY <1>1, <1>4 DEF DownHits, IsHit
  <2> HIDE DEF down, DnPorts
  <2>2. f \in [down -> DnPorts] /\ \A i, j \in down : f[i] = f[j] => i = j
    BY <1>1, <2>1
  <2>3. f \in Injection(down, DnPorts)
    BY <2>2 DEF Injection, IsInjective
  <2> QED
    BY <1>2, <2>3, FS_Injection
<1>6. IsFiniteSet(up) /\ Cardinality(up) <= Cardinality(UpPorts)
  <2> DEFINE f == [i \in up |-> ct[i].iface]
  <2>1. \A i \in up : i \in DOMAIN ct /\ ct[i].content = name /\ ct[i].iface \in UpPorts
    BY <1>1, <1>4 DEF UpHits, IsHit
  <2> HIDE DEF up, UpPorts
  <2>2. f \in [up -> UpPorts] /\ \A i, j \in up : f[i] = f[j] => i = j
    BY <1>1, <2>1
  <2>3. f \in Injection(up, UpPorts)
    BY <2>2 DEF Injection, IsInjective
  <2> QED
    BY <1>3, <2>3, FS_Injection
<1> QED
  BY <1>2, <1>3, <1>5, <1>6 DEF NUM_DNPORT, NUM_UPPORT

\* So the walk of a request visits the whole list.
LEMMA WalkVisitsAll ==
    ASSUME NEW ct, GoodList(ct), NEW name, NEW vn, NEW iface
    PROVE  Visited(ct, name, vn, iface) = DOMAIN ct
<1> DEFINE down == DownHits(ct, name, vn, iface)
           up   == UpHits(ct, name, vn, iface)
<1>1. /\ IsFiniteSet(down) /\ Cardinality(down) <= NUM_DNPORT
      /\ IsFiniteSet(up) /\ Cardinality(up) <= NUM_UPPORT
  BY FewMatches
<1>2. ASSUME NEW j
      PROVE  ~TooMany(UpTo(down, j), UpTo(up, j))
  <2> HIDE DEF down, up
  <2>1. UpTo(down, j) \subseteq down /\ UpTo(up, j) \subseteq up
    BY DEF UpTo
  <2>2. /\ Cardinality(UpTo(down, j)) <= Cardinality(down)
        /\ Cardinality(UpTo(up, j)) <= Cardinality(up)
        /\ IsFiniteSet(UpTo(down, j)) /\ IsFiniteSet(UpTo(up, j))
    BY <1>1, <2>1, FS_Subset
  <2>3. /\ Cardinality(UpTo(down, j)) \in Nat /\ Cardinality(down) \in Nat
        /\ Cardinality(UpTo(up, j)) \in Nat /\ Cardinality(up) \in Nat
    BY <1>1, <2>2, FS_CardinalityType
  <2> QED
    BY <1>1, <2>2, <2>3 DEF TooMany, NUM_DNPORT, NUM_UPPORT
<1> QED
  BY <1>2 DEF Visited

\* The number of a hit that the name picks is the number of a hit.
LEMMA HitNumberIsHit ==
    ASSUME NEW n \in Nat, NEW hits \in SUBSET (1..n), NEW name \in Nat,
           Cardinality(hits) > 0
    PROVE  HitNumber(hits, name % Cardinality(hits)) \in hits
<1> DEFINE m == Cardinality(hits)
<1>1. /\ m \in Nat
      /\ \A r \in 1..m : \E i \in hits : Rank(hits, i) = r
  BY RankNumbers
<1> HIDE DEF m
<1>2. (name % m) + 1 \in 1..m
  BY <1>1 DEF m
<1>3. \E i \in hits : Rank(hits, i) = (name % m) + 1
  BY <1>1, <1>2
<1> QED
  BY <1>3 DEF HitNumber, m

(***************************************************************************)
(* The entry a request is sent to is a hit, and it is behind the uplink    *)
(* only if no downward port has a hit.                                     *)
(***************************************************************************)
LEMMA ChosenIsHit ==
    ASSUME NEW ct, GoodList(ct), NEW name \in Contents, NEW vn, NEW iface,
           NEW i \in Chosen(ct, name, vn, iface)
    PROVE  /\ i \in DOMAIN ct
           /\ IsHit(ct[i], name, vn, iface)
           /\ ~IsDown(ct[i].iface) => DownHits(ct, name, vn, iface) = {}
<1> DEFINE down == DownHits(ct, name, vn, iface)
           up   == UpHits(ct, name, vn, iface)
<1>1. Visited(ct, name, vn, iface) = DOMAIN ct
  BY WalkVisitsAll
<1>2. /\ down \cap Visited(ct, name, vn, iface) = down
      /\ up \cap Visited(ct, name, vn, iface) = up
  BY <1>1 DEF DownHits, UpHits
<1>3. /\ \A k \in down : k \in DOMAIN ct /\ IsHit(ct[k], name, vn, iface)
                                                  /\ IsDown(ct[k].iface)
      /\ \A k \in up : k \in DOMAIN ct /\ IsHit(ct[k], name, vn, iface)
  BY DEF DownHits, UpHits
<1>4. IsFiniteSet(down) /\ IsFiniteSet(up) /\ Cardinality(down) <= NUM_DNPORT
  BY FewMatches
<1>5. Len(ct) \in Nat /\ down \in SUBSET (1..Len(ct)) /\ up \in SUBSET (1..Len(ct))
  BY DEF GoodList, DownHits, UpHits
<1>6. name \in Nat
  BY ContentsAssumption
<1>7. \/ Cardinality(down) > 0 /\ i = HitNumber(down, name % Cardinality(down))
      \/ /\ ~(0 < Cardinality(down) /\ Cardinality(down) <= NUM_DNPORT)
         /\ Cardinality(up) > 0 /\ i = HitNumber(up, name % Cardinality(up))
  <2> HIDE DEF down, up
  <2> QED
    BY <1>2 DEF Chosen, down, up
<1> HIDE DEF down, up
<1>8. CASE Cardinality(down) > 0 /\ i = HitNumber(down, name % Cardinality(down))
  <2>1. i \in down
    BY <1>5, <1>6, <1>8, HitNumberIsHit
  <2> QED
    BY <1>3, <2>1
<1>9. CASE /\ ~(0 < Cardinality(down) /\ Cardinality(down) <= NUM_DNPORT)
           /\ Cardinality(up) > 0 /\ i = HitNumber(up, name % Cardinality(up))
  <2>1. i \in up
    BY <1>5, <1>6, <1>9, HitNumberIsHit
  <2>2. Cardinality(down) = 0
    BY <1>4, <1>9, FS_CardinalityType DEF NUM_DNPORT
  <2>3. down = {}
    BY <1>4, <2>2, FS_EmptySet
  <2> QED
    BY <1>3, <2>1, <2>3 DEF down
<1> QED
  BY <1>7, <1>8, <1>9

(***************************************************************************)
(* What a request does: the list stays good and copied, it holds no stale  *)
(* entry any more, and the hit that was chosen, if any, is still in it.    *)
(***************************************************************************)
LEMMA RequestStep ==
    ASSUME GoodList(ctable), HardwareOK,
           NEW name \in Contents, NEW vn \in Versions, NEW iface \in Ifaces,
           NEW fate \in Fates, Request(name, vn, iface, fate)
    PROVE  /\ GoodList(ctable)' /\ HardwareOK' /\ last' \in Packet
           /\ RedirectedToLiveEntry' /\ RequestPurgesStale'
<1> DEFINE stale == StaleEntries(ctable, name, vn, iface)
           chosen == Chosen(ctable, name, vn, iface)
           K == DOMAIN ctable \ stale
<1>1. /\ stale # {} => ctable' = node_remove(ctable, stale) /\ write_ctable_to_hw(ctable')
      /\ stale = {} => UNCHANGED <<ctable, hwTable, vnReg>>
      /\ chosen = {} => Handled("REQUEST", name, vn, iface)
      /\ chosen # {} => \E i \in chosen : Redirected(name, vn, iface, ctable[i], fate)
  BY DEF Request
<1>2. GoodList(ctable)' /\ HardwareOK'
  <2>1. CASE stale # {}
    BY <1>1, <2>1, RemoveStep
  <2>2. CASE stale = {}
    BY <1>1, <2>2 DEF GoodList, Unique, HardwareOK, HardwareMirrorsTable
  <2> QED
    BY <2>1, <2>2
<1>3. stale = {i \in DOMAIN ctable : IsStale(ctable[i], name, vn, iface)}
  BY WalkVisitsAll DEF StaleEntries
<1>4. /\ ctable \in Seq(ctable_entry)
      /\ \A i \in DOMAIN ctable : ctable[i] \in ctable_entry
  BY DEF GoodList
<1>5. /\ \A i \in K : \E j \in DOMAIN ctable' : ctable'[j] = ctable[i]
      /\ \A j \in DOMAIN ctable' : \E i \in K : ctable'[j] = ctable[i]
  <2>1. CASE stale # {}
    <3>1. ctable' = Keep(ctable, K)
      BY <1>1, <2>1 DEF node_remove
    <3>2. K \in SUBSET (DOMAIN ctable)
      OBVIOUS
    <3> QED
      BY <1>4, <3>1, <3>2, KeepProperties
  <2>2. CASE stale = {}
    BY <1>1, <2>2
  <2> QED
    BY <2>1, <2>2
<1> HIDE DEF stale, chosen
<1>6. last' \in Packet /\ last'.type = "REQUEST"
      /\ last'.content = name /\ last'.vn = vn /\ last'.iface = iface
  <2>1. CASE chosen = {}
    BY <1>1, <2>1 DEF Handled, Packet
  <2>2. CASE chosen # {}
    <3>1. PICK i \in chosen : Redirected(name, vn, iface, ctable[i], fate)
      BY <1>1, <2>2
    <3>2. ctable[i].nexthop \in Addrs /\ ctable[i].iface \in Ifaces
      BY <1>4, <3>1, ChosenIsHit DEF chosen, ctable_entry
    <3>3. OutPort(fate) \in Ifaces \cup {"icmp", NoPort}
      BY DEF OutPort
    <3> QED
      BY <3>1, <3>2, <3>3 DEF Redirected, Packet
  <2> QED
    BY <2>1, <2>2
<1>7. RequestPurgesStale'
  <2> SUFFICES ASSUME NEW j \in DOMAIN ctable'
               PROVE  ~IsStale(ctable'[j], name, vn, iface)
    BY <1>6 DEF RequestPurgesStale
  <2> QED
    BY <1>3, <1>5
<1>8. RedirectedToLiveEntry'
  <2> SUFFICES ASSUME last'.port # NoPort
               PROVE  RedirectedToLiveEntry'
    BY DEF RedirectedToLiveEntry
  <2>1. chosen # {}
    BY <1>1 DEF Handled
  <2>2. PICK i \in chosen : Redirected(name, vn, iface, ctable[i], fate)
    BY <1>1, <2>1
  <2>3. /\ i \in DOMAIN ctable
        /\ IsHit(ctable[i], name, vn, iface)
        /\ ~IsDown(ctable[i].iface) => DownHits(ctable, name, vn, iface) = {}
    BY <2>2, ChosenIsHit DEF chosen
  <2>4. ctable[i] \in ctable_entry /\ vn \in Nat
    BY <1>4, <2>3, VersionsAssumption
  <2>5. i \in K
    BY <1>3, <2>3, <2>4 DEF IsHit, IsStale
  <2>6. PICK j \in DOMAIN ctable' : ctable'[j] = ctable[i]
    BY <1>5, <2>5
  <2>7. ctable'[j] = [content |-> name, ver_num |-> vn,
                      nexthop |-> ctable[i].nexthop, iface |-> ctable[i].iface]
    BY <2>3, <2>4, <2>6 DEF IsHit, ctable_entry
  <2>8. ~IsDown(ctable[i].iface) => DownHits(ctable', name, vn, iface) = {}
    BY <1>5, <2>3 DEF DownHits
  <2>9. /\ last'.content = name /\ last'.vn = vn /\ last'.iface = iface
        /\ last'.nexthop = ctable[i].nexthop /\ last'.port = ctable[i].iface
    BY <2>2 DEF Redirected
  <2>10. ctable[i].iface # iface
    BY <2>3 DEF IsHit
  <2> QED
    BY <2>6, <2>7, <2>8, <2>9, <2>10 DEF RedirectedToLiveEntry
<1> QED
  BY <1>2, <1>6, <1>7, <1>8

-----------------------------------------------------------------------------
(* The specification.                                                      *)

(***************************************************************************)
(* The inductive invariant.  The rows must be known to have the version    *)
(* register's type for the copy to have it; the list must be known to be   *)
(* free of duplicates for the walk to visit all of it; and nothing has     *)
(* been handled before the input thread starts.                            *)
(***************************************************************************)
IInv ==
    /\ booted \in BOOLEAN
    /\ GoodList(ctable)
    /\ HardwareOK
    /\ last \in Packet
    /\ booted \/ last.type = "none"
    /\ RedirectedToLiveEntry
    /\ RequestPurgesStale

LEMMA InitIInv == Init => IInv
<1> SUFFICES ASSUME Init
             PROVE  IInv
  OBVIOUS
<1>1. booted = FALSE /\ ctable = <<>> /\ vnReg = 0 /\ last = NoPacket
      /\ hwTable = [r \in 1..HW_DEPTH |-> BlankRow(0)]
  BY DEF Init
<1>2. GoodList(ctable)
  BY <1>1, DepthAssumption DEF GoodList, Unique
<1>3. HardwareOK
  <2>1. BlankRow(0) \in Row
    BY DEF BlankRow, Row, Ports
  <2>2. Len(ctable) = 0
    BY <1>1
  <2>3. \A r \in 1..HW_DEPTH : ~(r <= Len(ctable))
    BY <2>2, DepthAssumption
  <2>4. HardwareMirrorsTable
    BY <1>1, <2>3 DEF HardwareMirrorsTable, BlankRow
  <2> QED
    BY <1>1, <2>1, <2>4 DEF HardwareOK
<1>4. last \in Packet /\ last.type = "none"
  BY <1>1 DEF NoPacket, Packet
<1> QED
  BY <1>1, <1>2, <1>3, <1>4
     DEF IInv, RedirectedToLiveEntry, RequestPurgesStale

LEMMA NextIInv == IInv /\ [Next]_vars => IInv'
<1> SUFFICES ASSUME IInv, [Next]_vars
             PROVE  IInv'
  OBVIOUS
<1>1. GoodList(ctable) /\ HardwareOK /\ last \in Packet /\ booted \in BOOLEAN
  BY DEF IInv
<1>2. ASSUME NEW e \in ctable_entry, LoadLine(e)
      PROVE  IInv'
  <2>1. GoodList(ctable)' /\ HardwareOK'
    BY <1>1, <1>2, AddStep DEF LoadLine
  <2>2. booted' = booted /\ last' = last /\ last.type = "none"
    BY <1>2 DEF LoadLine, IInv
  <2> QED
    BY <1>1, <2>1, <2>2 DEF IInv, RedirectedToLiveEntry, RequestPurgesStale
<1>3. ASSUME StartInput
      PROVE  IInv'
  <2>1. GoodList(ctable)' /\ HardwareOK'
    <3>1. GoodList(ctable') /\ write_ctable_to_hw(ctable')
      BY <1>1, <1>3 DEF StartInput
    <3>2. HardwareOK'
      BY <1>1, <3>1, CopyStep DEF HardwareOK
    <3> QED
      BY <3>1, <3>2 DEF GoodList, Unique
  <2>2. booted' = TRUE /\ last' = last /\ last.type = "none"
    BY <1>3 DEF StartInput, IInv
  <2> QED
    BY <1>1, <2>1, <2>2 DEF IInv, RedirectedToLiveEntry, RequestPurgesStale
<1>4. ASSUME NEW name \in Contents, NEW vn \in Versions, NEW iface \in Ifaces,
             NEW fate \in Fates, Request(name, vn, iface, fate)
      PROVE  IInv'
  <2>1. booted' = TRUE
    BY <1>4, <1>1 DEF Request
  <2> QED
    BY <1>1, <1>4, <2>1, RequestStep DEF IInv
<1>5. ASSUME NEW type \in {"REPLY", "REJECT", "UNKNOWN"}, NEW name \in Contents,
             NEW vn \in Versions, NEW iface \in Ifaces,
             Handled(type, name, vn, iface), booted, UNCHANGED booted,
             GoodList(ctable)', HardwareOK'
      PROVE  IInv'
  <2>1. last' \in Packet /\ last'.type # "REQUEST"
    BY <1>5 DEF Handled, Packet
  <2> QED
    BY <1>5, <2>1, <1>1 DEF IInv, RedirectedToLiveEntry, RequestPurgesStale
<1>6. ASSUME UNCHANGED <<ctable, hwTable, vnReg>>
      PROVE  GoodList(ctable)' /\ HardwareOK'
  BY <1>1, <1>6 DEF GoodList, Unique, HardwareOK, HardwareMirrorsTable
<1>7. ASSUME NEW name \in Contents, NEW vn \in Versions, NEW src \in Addrs,
             NEW iface \in Ifaces, NEW fate \in Fates,
             Reply(name, vn, src, iface, fate)
      PROVE  IInv'
  <2> DEFINE e == [content |-> name, ver_num |-> vn, nexthop |-> src, iface |-> iface]
  <2>1. e \in ctable_entry
    BY DEF ctable_entry
  <2>2. add_content(e) \/ UNCHANGED <<ctable, hwTable, vnReg>>
    BY <1>7 DEF Reply
  <2> HIDE DEF e
  <2>3. GoodList(ctable)' /\ HardwareOK'
    BY <1>1, <1>6, <2>1, <2>2, AddStep
  <2> QED
    BY <1>5, <1>7, <2>3 DEF Reply
<1>8. ASSUME NEW name \in Contents, NEW vn \in Versions, NEW iface \in Ifaces,
             NEW fate \in Fates, Reject(name, vn, iface, fate)
      PROVE  IInv'
  <2>1. del_content(name, iface) \/ UNCHANGED <<ctable, hwTable, vnReg>>
    BY <1>8 DEF Reject
  <2>2. GoodList(ctable)' /\ HardwareOK'
    BY <1>1, <1>6, <2>1, RemoveStep DEF del_content
  <2> QED
    BY <1>5, <1>8, <2>2 DEF Reject
<1>9. ASSUME NEW name \in Contents, NEW vn \in Versions, NEW iface \in Ifaces,
             Unknown(name, vn, iface)
      PROVE  IInv'
  <2>1. GoodList(ctable)' /\ HardwareOK'
    BY <1>6, <1>9 DEF Unknown
  <2> QED
    BY <1>5, <1>9, <2>1 DEF Unknown
<1>10. CASE UNCHANGED vars
  BY <1>6, <1>10 DEF vars, IInv, RedirectedToLiveEntry, RequestPurgesStale
<1> QED
  BY <1>2, <1>3, <1>4, <1>7, <1>8, <1>9, <1>10 DEF Next

\* Every reachable state satisfies the inductive invariant.
THEOREM Invariance == Spec => []IInv
BY InitIInv, NextIInv, PTL DEF Spec

(***************************************************************************)
(* The variables have their types, and the list, whatever its capacity,    *)
(* never outgrows it.                                                      *)
(***************************************************************************)
THEOREM TypeCorrect == Spec => []TypeOK
<1>1. IInv => TypeOK
  BY DEF IInv, GoodList, HardwareOK, TypeOK
<1> QED
  BY <1>1, Invariance, PTL

\* add_content never files a content twice behind the same port.
THEOREM EntriesUnique == Spec => []UniqueEntries
<1>1. IInv => UniqueEntries
  BY DEF IInv, GoodList, Unique, UniqueEntries
<1> QED
  BY <1>1, Invariance, PTL

\* The "too many matches" branch of get_nexthop_by_content is dead.
THEOREM FewMatchesAlways == Spec => []NeverTooManyMatches
<1>1. IInv => NeverTooManyMatches
  <2> SUFFICES ASSUME IInv, NEW name \in Contents, NEW vn \in Versions,
                      NEW iface \in Ifaces
               PROVE  ~TooMany(DownHits(ctable, name, vn, iface),
                               UpHits(ctable, name, vn, iface))
    BY DEF NeverTooManyMatches
  <2> DEFINE down == DownHits(ctable, name, vn, iface)
             up   == UpHits(ctable, name, vn, iface)
  <2>1. /\ IsFiniteSet(down) /\ Cardinality(down) <= NUM_DNPORT
        /\ IsFiniteSet(up) /\ Cardinality(up) <= NUM_UPPORT
    BY FewMatches DEF IInv
  <2>2. Cardinality(down) \in Nat /\ Cardinality(up) \in Nat
    BY <2>1, FS_CardinalityType
  <2> HIDE DEF down, up
  <2>3. ~TooMany(down, up)
    BY <2>1, <2>2 DEF TooMany, NUM_DNPORT, NUM_UPPORT
  <2> QED
    BY <2>3 DEF down, up
<1> QED
  BY <1>1, Invariance, PTL

\* Between packets the hardware rows are a copy of the list.
THEOREM MirrorAlways == Spec => []HardwareMirrorsTable
<1>1. IInv => HardwareMirrorsTable
  BY DEF IInv, HardwareOK
<1> QED
  BY <1>1, Invariance, PTL

\* A redirected request goes to an entry the same walk left in the table.
THEOREM RedirectionsLive == Spec => []RedirectedToLiveEntry
<1>1. IInv => RedirectedToLiveEntry
  BY DEF IInv
<1> QED
  BY <1>1, Invariance, PTL

\* A request leaves no entry behind that it found stale.
THEOREM StalePurged == Spec => []RequestPurgesStale
<1>1. IInv => RequestPurgesStale
  BY DEF IInv
<1> QED
  BY <1>1, Invariance, PTL

-----------------------------------------------------------------------------
(* Why an entry leaves the table.                                          *)

\* Only the tail of a full table gives way to what is learned, and only if
\* that is for another content or port.
LEMMA AddContentLoses ==
    ASSUME NEW ct, GoodList(ct), NEW e \in ctable_entry,
           NEW x \in Entries(ct) \ Entries(AddContent(ct, e))
    PROVE  /\ Len(ct) = MAX_CTABLE_DEPTH
           /\ x = ct[MAX_CTABLE_DEPTH]
           /\ ~Matches(x, e.content, e.iface)
<1> DEFINE hit == FirstMatch(ct, e.content, e.iface)
<1>1. ct \in Seq(ctable_entry) /\ Len(ct) \in Nat /\ Len(ct) <= MAX_CTABLE_DEPTH
  BY DEF GoodList
<1>2. /\ hit \subseteq DOMAIN ct
      /\ hit = {} => \A i \in DOMAIN ct : ~Matches(ct[i], e.content, e.iface)
  BY <1>1, FirstMatchProperties
<1>3. PICK n \in DOMAIN ct : x = ct[n]
  BY DEF Entries
<1> HIDE DEF hit
<1>4. CASE hit # {}
  <2> DEFINE i == CHOOSE i \in hit : TRUE
             K == DOMAIN ct \ {i}
             t == Keep(ct, K)
  <2>1. i \in DOMAIN ct
    BY <1>2, <1>4
  <2>2. AddContent(ct, e) = <<ct[i]>> \o t
    BY <1>4 DEF AddContent, hit, node_update, node_remove
  <2>3. K \in SUBSET (DOMAIN ct)
    OBVIOUS
  <2> HIDE DEF i, K
  <2>4. t \in Seq(ctable_entry) /\ \A k \in K : \E j \in DOMAIN t : t[j] = ct[k]
    BY <1>1, <2>3, KeepProperties
  <2> HIDE DEF t
  <2>5. /\ 1 \in DOMAIN (<<ct[i]>> \o t) /\ (<<ct[i]>> \o t)[1] = ct[i]
        /\ \A j \in DOMAIN t : /\ j + 1 \in DOMAIN (<<ct[i]>> \o t)
                               /\ (<<ct[i]>> \o t)[j + 1] = t[j]
    BY <1>1, <2>1, <2>4
  <2>6. ct[n] \in Entries(<<ct[i]>> \o t)
    <3>1. CASE n = i
      BY <2>5, <3>1 DEF Entries
    <3>2. CASE n # i
      <4>1. n \in K
        BY <1>3, <3>2 DEF K
      <4>2. PICK j \in DOMAIN t : t[j] = ct[n]
        BY <2>4, <4>1
      <4> QED
        BY <2>5, <4>2 DEF Entries
    <3> QED
      BY <3>1, <3>2
  <2> QED
    BY <1>3, <2>2, <2>6
<1>5. CASE hit = {} /\ Len(ct) < MAX_CTABLE_DEPTH
  <2>1. AddContent(ct, e) = <<e>> \o ct
    BY <1>5 DEF AddContent, hit, node_push_front
  <2>2. n + 1 \in DOMAIN (<<e>> \o ct) /\ (<<e>> \o ct)[n + 1] = ct[n]
    BY <1>1, <1>3
  <2> QED
    BY <1>3, <2>1, <2>2 DEF Entries
<1>6. CASE hit = {} /\ Len(ct) = MAX_CTABLE_DEPTH
  <2> DEFINE t == SubSeq(ct, 1, Len(ct) - 1)
  <2>1. AddContent(ct, e) = <<e>> \o t
    BY <1>6, DepthAssumption DEF AddContent, hit, node_insert_front
  <2>2. n # Len(ct) => n + 1 \in DOMAIN (<<e>> \o t) /\ (<<e>> \o t)[n + 1] = ct[n]
    BY <1>1, <1>3, <1>6, DepthAssumption
  <2>3. n = Len(ct)
    BY <1>3, <2>1, <2>2 DEF Entries
  <2> QED
    BY <1>2, <1>3, <1>6, <2>3
<1> QED
  BY <1>1, <1>4, <1>5, <1>6, DepthAssumption

\* node_remove takes out what it was told to and nothing else.
LEMMA RemoveLoses ==
    ASSUME NEW ct, GoodList(ct), NEW gone,
           NEW x \in Entries(ct) \ Entries(node_remove(ct, gone))
    PROVE  \E i \in gone \cap DOMAIN ct : x = ct[i]
<1> DEFINE K == DOMAIN ct \ gone
<1>1. ct \in Seq(ctable_entry) /\ K \in SUBSET (DOMAIN ct)
  BY DEF GoodList
<1>2. PICK n \in DOMAIN ct : x = ct[n]
  BY DEF Entries
<1>3. ASSUME n \in K
      PROVE  \E j \in DOMAIN Keep(ct, K) : Keep(ct, K)[j] = ct[n]
  <2> HIDE DEF K
  <2>1. Rank(K, n) \in DOMAIN Keep(ct, K) /\ Keep(ct, K)[Rank(K, n)] = ct[n]
    BY <1>1, <1>3, KeepProperties
  <2> QED
    BY <2>1
<1>4. n \notin K
  BY <1>2, <1>3 DEF Entries, node_remove
<1> QED
  BY <1>2, <1>4

(***************************************************************************)
(* Once the router runs an entry leaves the table only because it is       *)
(* stale, rejected, or the tail of a full table that learns another key.   *)
(***************************************************************************)
THEOREM LeavesOnlyForCause == Spec => EntriesLeaveForCause
<1>1. IInv /\ [Next]_vars => [LeavesForCause]_vars
  <2> SUFFICES ASSUME IInv, Next, booted,
                      NEW x \in Entries(ctable) \ Entries(ctable')
               PROVE  CauseFor(x)
    BY DEF LeavesForCause
  <2>1. GoodList(ctable) /\ booted = TRUE /\ x \in ctable_entry
    BY DEF IInv, GoodList, Entries
  <2>2. ASSUME NEW e \in ctable_entry, LoadLine(e)
        PROVE  CauseFor(x)
    BY <2>1, <2>2 DEF LoadLine
  <2>3. ASSUME StartInput
        PROVE  CauseFor(x)
    BY <2>1, <2>3 DEF StartInput
  <2>4. ASSUME NEW name \in Contents, NEW vn \in Versions, NEW iface \in Ifaces,
               NEW fate \in Fates, Request(name, vn, iface, fate)
        PROVE  CauseFor(x)
    <3> DEFINE stale == StaleEntries(ctable, name, vn, iface)
    <3>1. \/ ctable' = node_remove(ctable, stale)
          \/ ctable' = ctable
      BY <2>4 DEF Request
    <3>2. PICK i \in stale : x = ctable[i]
      BY <2>1, <3>1, RemoveLoses
    <3>3. IsStale(x, name, vn, iface)
      BY <3>2 DEF StaleEntries
    <3>4. /\ last'.type = "REQUEST" /\ last'.content = name
          /\ last'.vn = vn /\ last'.iface = iface
      BY <2>4 DEF Request, Handled, Redirected
    <3> QED
      BY <3>3, <3>4 DEF IsStale, CauseFor
  <2>5. ASSUME NEW name \in Contents, NEW vn \in Versions, NEW src \in Addrs,
               NEW iface \in Ifaces, NEW fate \in Fates,
               Reply(name, vn, src, iface, fate)
        PROVE  CauseFor(x)
    <3> DEFINE e == [content |-> name, ver_num |-> vn, nexthop |-> src, iface |-> iface]
    <3>1. e \in ctable_entry /\ e.content = name /\ e.iface = iface
      BY DEF ctable_entry
    <3>2. ctable' = AddContent(ctable, e) \/ ctable' = ctable
      BY <2>5 DEF Reply, add_content
    <3> HIDE DEF e
    <3>3. /\ Len(ctable) = MAX_CTABLE_DEPTH
          /\ x = ctable[MAX_CTABLE_DEPTH]
          /\ ~Matches(x, name, iface)
      BY <2>1, <3>1, <3>2, AddContentLoses
    <3>4. last'.type = "REPLY" /\ last'.content = name /\ last'.iface = iface
      BY <2>5 DEF Reply, Handled
    <3> QED
      BY <3>3, <3>4 DEF CauseFor
  <2>6. ASSUME NEW name \in Contents, NEW vn \in Versions, NEW iface \in Ifaces,
               NEW fate \in Fates, Reject(name, vn, iface, fate)
        PROVE  CauseFor(x)
    <3> DEFINE gone == {i \in DOMAIN ctable : Matches(ctable[i], name, iface)}
    <3>1. ctable' = node_remove(ctable, gone) \/ ctable' = ctable
      BY <2>6 DEF Reject, del_content
    <3>2. PICK i \in gone : x = ctable[i]
      BY <2>1, <3>1, RemoveLoses
    <3>3. last'.type = "REJECT" /\ last'.content = name /\ last'.iface = iface
      BY <2>6 DEF Reject, Handled
    <3> QED
      BY <3>2, <3>3 DEF CauseFor
  <2>7. ASSUME NEW name \in Contents, NEW vn \in Versions, NEW iface \in Ifaces,
               Unknown(name, vn, iface)
        PROVE  CauseFor(x)
    BY <2>7 DEF Unknown
  <2> QED
    BY <2>2, <2>3, <2>4, <2>5, <2>6, <2>7 DEF Next
<1> QED
  BY <1>1, Invariance, PTL DEF Spec, EntriesLeaveForCause

-----------------------------------------------------------------------------
(* The list is a cache.                                                    *)

\* What LruCache calls present and older, for any list.
PresentIn(s) == {Key(s[i]) : i \in DOMAIN s}

OlderIn(s) ==
    {<<Key(s[p[2]]), Key(s[p[1]])>> :
        p \in {p \in (DOMAIN s) \X (DOMAIN s) : p[1] < p[2]}}

RestrictedTo(s, S) == {p \in OlderIn(s) : p[1] \in S /\ p[2] \in S}

\* The list t has the elements of s at the indices K, in their order.
Thinned(s, t, K) ==
    /\ \A k \in K : \E j \in DOMAIN t : t[j] = s[k]
    /\ \A j \in DOMAIN t : \E k \in K : t[j] = s[k]
    /\ \A k, l \in K : k < l =>
          \E i, j \in DOMAIN t : i < j /\ t[i] = s[k] /\ t[j] = s[l]
    /\ \A i, j \in DOMAIN t : i < j =>
          \E k, l \in K : k < l /\ t[i] = s[k] /\ t[j] = s[l]

LEMMA OlderMember ==
    ASSUME NEW s, NEW a, NEW b
    PROVE  <<a, b>> \in OlderIn(s) <=>
               \E i, j \in DOMAIN s : i < j /\ a = Key(s[j]) /\ b = Key(s[i])
<1>1. ASSUME <<a, b>> \in OlderIn(s)
      PROVE  \E i, j \in DOMAIN s : i < j /\ a = Key(s[j]) /\ b = Key(s[i])
  <2>1. PICK p \in (DOMAIN s) \X (DOMAIN s) :
            p[1] < p[2] /\ <<a, b>> = <<Key(s[p[2]]), Key(s[p[1]])>>
    BY <1>1 DEF OlderIn
  <2> QED
    BY <2>1
<1>2. ASSUME NEW i \in DOMAIN s, NEW j \in DOMAIN s, i < j, a = Key(s[j]), b = Key(s[i])
      PROVE  <<a, b>> \in OlderIn(s)
  <2>1. <<i, j>> \in {p \in (DOMAIN s) \X (DOMAIN s) : p[1] < p[2]}
    BY <1>2
  <2>2. <<Key(s[<<i, j>>[2]]), Key(s[<<i, j>>[1]])>> \in OlderIn(s)
    BY <2>1 DEF OlderIn
  <2> QED
    BY <1>2, <2>2
<1> QED
  BY <1>1, <1>2

LEMMA OlderPairs ==
    ASSUME NEW s, NEW p \in OlderIn(s)
    PROVE  p = <<p[1], p[2]>>
BY DEF OlderIn

LEMMA PairSets ==
    ASSUME NEW A, NEW B, \A p \in A : p = <<p[1], p[2]>>, \A p \in B : p = <<p[1], p[2]>>,
           \A a, b : <<a, b>> \in A <=> <<a, b>> \in B
    PROVE  A = B
<1>1. ASSUME NEW p \in A PROVE p \in B
  <2>1. <<p[1], p[2]>> \in A /\ p = <<p[1], p[2]>>
    OBVIOUS
  <2>2. <<p[1], p[2]>> \in B
    BY <2>1
  <2> QED
    BY <2>1, <2>2
<1>2. ASSUME NEW p \in B PROVE p \in A
  <2>1. <<p[1], p[2]>> \in B /\ p = <<p[1], p[2]>>
    OBVIOUS
  <2>2. <<p[1], p[2]>> \in A
    BY <2>1
  <2> QED
    BY <2>1, <2>2
<1> QED
  BY <1>1, <1>2

LEMMA KeyNames ==
    ASSUME NEW s, Unique(s), NEW i \in DOMAIN s, NEW j \in DOMAIN s
    PROVE  Key(s[i]) = Key(s[j]) => i = j
BY DEF Unique, Key

\* A part of a list has its keys in the order they had.
LEMMA ThinnedOrder ==
    ASSUME NEW s, NEW t, NEW K \in SUBSET (DOMAIN s), Unique(s), Thinned(s, t, K)
    PROVE  /\ PresentIn(t) = {Key(s[k]) : k \in K}
           /\ OlderIn(t) = RestrictedTo(s, PresentIn(t))
<1>1. PresentIn(t) = {Key(s[k]) : k \in K}
  BY DEF PresentIn, Thinned
<1>2. ASSUME NEW a, NEW b
      PROVE  <<a, b>> \in OlderIn(t) <=> <<a, b>> \in RestrictedTo(s, PresentIn(t))
  <2>1. ASSUME <<a, b>> \in OlderIn(t)
        PROVE  <<a, b>> \in RestrictedTo(s, PresentIn(t))
    <3>1. PICK i, j \in DOMAIN t : i < j /\ a = Key(t[j]) /\ b = Key(t[i])
      BY <2>1, OlderMember
    <3>2. PICK k, l \in K : k < l /\ t[i] = s[k] /\ t[j] = s[l]
      BY <3>1 DEF Thinned
    <3>3. <<a, b>> \in OlderIn(s)
      BY <3>1, <3>2, OlderMember
    <3>4. a \in PresentIn(t) /\ b \in PresentIn(t)
      BY <3>1 DEF PresentIn
    <3> QED
      BY <3>3, <3>4 DEF RestrictedTo
  <2>2. ASSUME <<a, b>> \in RestrictedTo(s, PresentIn(t))
        PROVE  <<a, b>> \in OlderIn(t)
    <3>1. <<a, b>> \in OlderIn(s) /\ a \in PresentIn(t) /\ b \in PresentIn(t)
      BY <2>2 DEF RestrictedTo
    <3>2. PICK i, j \in DOMAIN s : i < j /\ a = Key(s[j]) /\ b = Key(s[i])
      BY <3>1, OlderMember
    <3>3. PICK k \in K : a = Key(s[k])
      BY <1>1, <3>1
    <3>4. PICK l \in K : b = Key(s[l])
      BY <1>1, <3>1
    <3>5. k = j /\ l = i
      BY <3>2, <3>3, <3>4, KeyNames
    <3>6. PICK x, y \in DOMAIN t : x < y /\ t[x] = s[l] /\ t[y] = s[k]
      BY <3>2, <3>5 DEF Thinned
    <3> QED
      BY <3>3, <3>4, <3>6, OlderMember
  <2> QED
    BY <2>1, <2>2
<1>3. \A p \in RestrictedTo(s, PresentIn(t)) : p = <<p[1], p[2]>>
  BY OlderPairs DEF RestrictedTo
<1>4. OlderIn(t) = RestrictedTo(s, PresentIn(t))
  BY <1>2, <1>3, OlderPairs, PairSets
<1> QED
  BY <1>1, <1>4

\* The keys of S stay, in the order they had in s, and k is the newest.
NewestIn(s, t, S, k) ==
    /\ PresentIn(t) = S \cup {k}
    /\ OlderIn(t) = RestrictedTo(s, S) \cup {<<o, k>> : o \in S}

LEMMA PushedOrder ==
    ASSUME NEW s, NEW t \in Seq(ctable_entry), NEW e \in ctable_entry,
           OlderIn(t) = RestrictedTo(s, PresentIn(t))
    PROVE  NewestIn(s, <<e>> \o t, PresentIn(t), Key(e))
<1> DEFINE u == <<e>> \o t
           S == PresentIn(t)
           k == Key(e)
           N == {<<o, k>> : o \in S}
<1>1. /\ Len(t) \in Nat /\ DOMAIN t = 1 .. Len(t) /\ DOMAIN u = 1 .. (Len(t) + 1)
      /\ u[1] = e
      /\ \A j \in DOMAIN t : j + 1 \in DOMAIN u /\ u[j + 1] = t[j]
      /\ \A j \in DOMAIN u : j # 1 => j - 1 \in DOMAIN t /\ u[j] = t[j - 1]
  OBVIOUS
<1> HIDE DEF u, k
<1>2. PresentIn(u) = S \cup {k}
  <2>1. ASSUME NEW j \in DOMAIN u PROVE Key(u[j]) \in S \cup {k}
    BY <1>1 DEF PresentIn, k
  <2>2. k \in PresentIn(u)
    BY <1>1 DEF PresentIn, k
  <2>3. ASSUME NEW j \in DOMAIN t PROVE Key(t[j]) \in PresentIn(u)
    BY <1>1 DEF PresentIn
  <2> QED
    BY <2>1, <2>2, <2>3 DEF PresentIn
<1>3. ASSUME NEW a, NEW b
      PROVE  <<a, b>> \in OlderIn(u) <=> <<a, b>> \in OlderIn(t) \cup N
  <2>1. ASSUME <<a, b>> \in OlderIn(u)
        PROVE  <<a, b>> \in OlderIn(t) \cup N
    <3>1. PICK i, j \in DOMAIN u : i < j /\ a = Key(u[j]) /\ b = Key(u[i])
      BY <2>1, OlderMember
    <3>2. j # 1 /\ j - 1 \in DOMAIN t /\ u[j] = t[j - 1]
      BY <1>1, <3>1
    <3>3. CASE i = 1
      <4>1. b = k /\ a \in S
        BY <1>1, <3>1, <3>2, <3>3 DEF PresentIn, k
      <4> QED
        BY <4>1
    <3>4. CASE i # 1
      <4>1. i - 1 \in DOMAIN t /\ u[i] = t[i - 1] /\ i - 1 < j - 1
        BY <1>1, <3>1, <3>4
      <4>2. <<a, b>> \in OlderIn(t)
        BY <3>1, <3>2, <4>1, OlderMember
      <4> QED
        BY <4>2
    <3> QED
      BY <3>3, <3>4
  <2>2. ASSUME <<a, b>> \in OlderIn(t)
        PROVE  <<a, b>> \in OlderIn(u)
    <3>1. PICK i, j \in DOMAIN t : i < j /\ a = Key(t[j]) /\ b = Key(t[i])
      BY <2>2, OlderMember
    <3>2. i + 1 \in DOMAIN u /\ j + 1 \in DOMAIN u /\ i + 1 < j + 1
      BY <1>1, <3>1
    <3> QED
      BY <1>1, <3>1, <3>2, OlderMember
  <2>3. ASSUME <<a, b>> \in N
        PROVE  <<a, b>> \in OlderIn(u)
    <3>1. b = k /\ a \in S
      BY <2>3
    <3>2. PICK j \in DOMAIN t : a = Key(t[j])
      BY <3>1 DEF PresentIn
    <3>3. 1 \in DOMAIN u /\ j + 1 \in DOMAIN u /\ 1 < j + 1
      BY <1>1
    <3>4. b = Key(u[1]) /\ a = Key(u[j + 1])
      BY <1>1, <3>1, <3>2 DEF k
    <3> QED
      BY <3>3, <3>4, OlderMember
  <2> QED
    BY <2>1, <2>2, <2>3
<1>4. \A p \in OlderIn(t) \cup N : p = <<p[1], p[2]>>
  BY OlderPairs
<1> HIDE DEF N
<1>5. OlderIn(u) = OlderIn(t) \cup N
  BY <1>3, <1>4, OlderPairs, PairSets
<1> QED
  BY <1>2, <1>5 DEF NewestIn, u, N, k, S

\* What node_remove leaves is a part of the list, and so is all but the tail.
LEMMA KeepThinned ==
    ASSUME NEW s \in Seq(ctable_entry), NEW K \in SUBSET (DOMAIN s)
    PROVE  Thinned(s, Keep(s, K), K)
<1> DEFINE t == Keep(s, K)
<1>1. Len(s) \in Nat /\ K \in SUBSET (1 .. Len(s))
  OBVIOUS
<1>2. \A k, l \in K : k < l => Rank(K, k) < Rank(K, l)
  BY <1>1, RankNumbers
<1>3. /\ \A k \in K : Rank(K, k) \in DOMAIN t /\ t[Rank(K, k)] = s[k]
      /\ \A j \in DOMAIN t : \E k \in K : t[j] = s[k]
  BY KeepProperties
<1>4. \A i, j \in DOMAIN t : i < j => \E k, l \in K : k < l /\ t[i] = s[k] /\ t[j] = s[l]
  BY KeepOrder
<1> HIDE DEF t
<1>5. \A k, l \in K : k < l =>
          \E i, j \in DOMAIN t : i < j /\ t[i] = s[k] /\ t[j] = s[l]
  BY <1>2, <1>3
<1>6. Thinned(s, t, K)
  BY <1>3, <1>4, <1>5 DEF Thinned
<1> QED
  BY <1>6 DEF t

LEMMA FrontThinned ==
    ASSUME NEW s \in Seq(ctable_entry), NEW n \in 0 .. Len(s)
    PROVE  Thinned(s, SubSeq(s, 1, n), 1 .. n)
<1> DEFINE t == SubSeq(s, 1, n)
<1>1. DOMAIN t = 1 .. n /\ \A i \in 1 .. n : t[i] = s[i]
  OBVIOUS
<1> HIDE DEF t
<1>2. Thinned(s, t, 1 .. n)
  BY <1>1 DEF Thinned
<1> QED
  BY <1>2 DEF t

\* There are as many keys as entries.
LEMMA KeysCount ==
    ASSUME NEW s \in Seq(ctable_entry), Unique(s)
    PROVE  IsFiniteSet(PresentIn(s)) /\ Cardinality(PresentIn(s)) = Len(s)
<1> DEFINE f == [i \in DOMAIN s |-> Key(s[i])]
<1>1. Len(s) \in Nat /\ DOMAIN s = 1 .. Len(s)
  OBVIOUS
<1>2. IsFiniteSet(DOMAIN s) /\ Cardinality(DOMAIN s) = Len(s)
  BY <1>1, IndicesCount
<1>3. f \in [DOMAIN s -> PresentIn(s)]
  BY DEF PresentIn
<1>4. \A i, j \in DOMAIN s : f[i] = f[j] => i = j
  BY KeyNames
<1>5. \A k \in PresentIn(s) : \E i \in DOMAIN s : f[i] = k
  BY DEF PresentIn
<1> HIDE DEF f
<1>6. f \in Bijection(DOMAIN s, PresentIn(s))
  BY <1>3, <1>4, <1>5 DEF Bijection, Injection, Surjection, IsInjective
<1>7. ExistsBijection(DOMAIN s, PresentIn(s))
  BY <1>6 DEF ExistsBijection
<1> QED
  BY <1>2, <1>7, FS_Bijection

\* The definitions above are those of the refinement mapping.
LEMMA MappingUnfolds ==
    /\ Lru!vars = <<PresentIn(ctable), OlderIn(ctable)>>
    /\ \A S, k : NewestIn(ctable, ctable', S, k) => Lru!Newest(S, k)
    /\ \A S : /\ PresentIn(ctable') = PresentIn(ctable) \ S
              /\ OlderIn(ctable') = RestrictedTo(ctable, PresentIn(ctable) \ S)
              => Lru!Drop(S)
<1>1. OlderIn(ctable) = {<<Key(ctable[p[2]]), Key(ctable[p[1]])>> : p \in InFrontOf}
  BY DEF OlderIn, InFrontOf
<1>2. PresentIn(ctable) = {Key(ctable[i]) : i \in DOMAIN ctable}
  BY DEF PresentIn
<1>3. /\ OlderIn(ctable') = {<<Key(ctable[p[2]]), Key(ctable[p[1]])>> : p \in InFrontOf}'
      /\ PresentIn(ctable') = {Key(ctable[i]) : i \in DOMAIN ctable}'
  BY DEF OlderIn, InFrontOf, PresentIn, Key
<1>4. Lru!vars = <<PresentIn(ctable), OlderIn(ctable)>>
  BY <1>1, <1>2 DEF Lru!vars
<1>5. \A S : Lru!Restricted(S) = RestrictedTo(ctable, S)
  BY <1>1 DEF Lru!Restricted, RestrictedTo
<1>6. ASSUME NEW S, NEW k, NewestIn(ctable, ctable', S, k)
      PROVE  Lru!Newest(S, k)
  BY <1>3, <1>5, <1>6 DEF Lru!Newest, NewestIn
<1>7. ASSUME NEW S, PresentIn(ctable') = PresentIn(ctable) \ S,
             OlderIn(ctable') = RestrictedTo(ctable, PresentIn(ctable) \ S)
      PROVE  Lru!Drop(S)
  BY <1>2, <1>3, <1>5, <1>7 DEF Lru!Drop
<1> QED
  BY <1>4, <1>6, <1>7

(***************************************************************************)
(* add_content refreshes a key that is there, inserts one for which there  *)
(* is room, or replaces the oldest key, which is that of the tail.         *)
(***************************************************************************)
LEMMA AddIsCacheStep ==
    ASSUME GoodList(ctable), NEW e \in ctable_entry, ctable' = AddContent(ctable, e)
    PROVE  Lru!Next
<1> DEFINE hit == FirstMatch(ctable, e.content, e.iface)
           n == Len(ctable)
           k == Key(e)
           P == PresentIn(ctable)
<1>1. /\ ctable \in Seq(ctable_entry) /\ Unique(ctable)
      /\ n \in Nat /\ DOMAIN ctable = 1 .. n /\ n <= MAX_CTABLE_DEPTH
  BY DEF GoodList
<1>2. /\ hit \subseteq DOMAIN ctable
      /\ \A i \in hit : Matches(ctable[i], e.content, e.iface)
      /\ hit = {} => \A i \in DOMAIN ctable : ~Matches(ctable[i], e.content, e.iface)
  BY <1>1, FirstMatchProperties
<1>3. k \in Contents \X Ifaces
  BY DEF ctable_entry, Key
<1>4. \A x : Key(x) = k <=> Matches(x, e.content, e.iface)
  BY DEF Key, Matches
<1>5. P = {Key(ctable[i]) : i \in DOMAIN ctable}
  BY DEF PresentIn
<1>6. Lru!Cardinality(P) = n
  <2>1. Cardinality(P) = n
    BY <1>1, KeysCount
  <2> HIDE DEF P, n
  <2>2. Lru!Cardinality(P) = Cardinality(P)
    BY DEF Lru!Cardinality, Cardinality
  <2> QED
    BY <2>1, <2>2
<1> HIDE DEF hit, k, P, n
<1>7. CASE hit # {}
  <2> DEFINE i == CHOOSE i \in hit : TRUE
             K == DOMAIN ctable \ {i}
             t == Keep(ctable, K)
  <2>1. i \in hit /\ i \in DOMAIN ctable
    BY <1>2, <1>7
  <2>2. ctable' = <<ctable[i]>> \o t
    BY <1>7 DEF AddContent, hit, node_update, node_remove
  <2>3. K \in SUBSET (DOMAIN ctable) /\ ctable[i] \in ctable_entry
    BY <1>1, <2>1
  <2> HIDE DEF i
  <2>4. Key(ctable[i]) = k /\ k \in P
    BY <1>2, <1>4, <1>5, <2>1
  <2>5. t \in Seq(ctable_entry) /\ Thinned(ctable, t, K)
    BY <1>1, <2>3, KeepProperties, KeepThinned
  <2>6. /\ PresentIn(t) = {Key(ctable[j]) : j \in K}
        /\ OlderIn(t) = RestrictedTo(ctable, PresentIn(t))
    BY <1>1, <2>3, <2>5, ThinnedOrder
  <2>7. PresentIn(t) = P \ {k}
    <3>1. \A j \in K : Key(ctable[j]) # k
      BY <1>1, <2>1, <2>4, KeyNames
    <3>2. \A j \in DOMAIN ctable : j \in K \/ Key(ctable[j]) = k
      BY <2>4
    <3> HIDE DEF K, t
    <3> QED
      BY <1>5, <2>3, <2>6, <3>1, <3>2
  <2> HIDE DEF K, t
  <2>8. NewestIn(ctable, ctable', P \ {k}, k)
    <3>1. NewestIn(ctable, <<ctable[i]>> \o t, PresentIn(t), Key(ctable[i]))
      BY <2>3, <2>5, <2>6, PushedOrder
    <3> QED
      BY <2>2, <2>4, <2>7, <3>1, Zenon
  <2>9. Lru!Refresh(k)
    BY <1>5, <2>4, <2>8, MappingUnfolds DEF Lru!Refresh
  <2> QED
    BY <1>3, <2>9 DEF Lru!Next
<1>8. CASE hit = {} /\ n < MAX_CTABLE_DEPTH
  <2>1. ctable' = <<e>> \o ctable
    BY <1>8 DEF AddContent, hit, n, node_push_front
  <2>2. k \notin P
    BY <1>2, <1>4, <1>5, <1>8
  <2>3. OlderIn(ctable) = RestrictedTo(ctable, P)
    <3>1. Thinned(ctable, ctable, DOMAIN ctable)
      BY DEF Thinned
    <3> QED
      BY <1>1, <3>1, ThinnedOrder DEF P
  <2>4. NewestIn(ctable, ctable', P, k)
    BY <1>1, <2>1, <2>3, PushedOrder DEF P, k
  <2>5. Lru!Insert(k)
    BY <1>5, <1>6, <1>8, <2>2, <2>4, MappingUnfolds DEF Lru!Insert
  <2> QED
    BY <1>3, <2>5 DEF Lru!Next
<1>9. CASE hit = {} /\ n = MAX_CTABLE_DEPTH
  <2> DEFINE t == SubSeq(ctable, 1, n - 1)
             K == 1 .. (n - 1)
             victim == Key(ctable[n])
  <2>1. n - 1 \in 0 .. n /\ n \in DOMAIN ctable /\ K = DOMAIN ctable \ {n}
    BY <1>1, <1>9, DepthAssumption
  <2>2. ctable' = <<e>> \o t
    BY <1>9, DepthAssumption DEF AddContent, hit, n, node_insert_front
  <2>3. t \in Seq(ctable_entry) /\ Thinned(ctable, t, K)
    <3>1. t \in Seq(ctable_entry)
      BY <1>1, <2>1 DEF n
    <3>2. Thinned(ctable, t, K)
      BY <1>1, <2>1, FrontThinned DEF n
    <3> QED
      BY <3>1, <3>2
  <2>4. K \in SUBSET (DOMAIN ctable)
    BY <2>1
  <2> HIDE DEF t, K
  <2>5. /\ PresentIn(t) = {Key(ctable[j]) : j \in K}
        /\ OlderIn(t) = RestrictedTo(ctable, PresentIn(t))
    BY <1>1, <2>3, <2>4, ThinnedOrder
  <2>6. \A j \in K : Key(ctable[j]) # victim
    BY <1>1, <2>1, KeyNames
  <2> HIDE DEF victim
  <2>7. PresentIn(t) = P \ {victim} /\ victim \in P
    BY <1>5, <2>1, <2>5, <2>6 DEF victim
  <2>8. NewestIn(ctable, ctable', P \ {victim}, k)
    <3>1. NewestIn(ctable, <<e>> \o t, PresentIn(t), Key(e))
      BY <2>3, <2>5, PushedOrder
    <3> QED
      BY <2>2, <2>7, <3>1, Zenon DEF k
  <2>9. ASSUME NEW o \in P \ {victim}
        PROVE  <<victim, o>> \in OlderIn(ctable)
    <3>1. PICK j \in K : o = Key(ctable[j])
      BY <2>5, <2>7
    <3>2. j \in DOMAIN ctable /\ j < n
      BY <1>1, <2>1
    <3> QED
      BY <2>1, <3>1, <3>2, OlderMember DEF victim
  <2>10. k \notin P
    BY <1>2, <1>4, <1>5, <1>9
  <2>11. Lru!Replace(k)
    <3>1. OlderIn(ctable) = {<<Key(ctable[p[2]]), Key(ctable[p[1]])>> : p \in InFrontOf}
      BY DEF OlderIn, InFrontOf
    <3>2. Lru!Newest(P \ {victim}, k)
      BY <2>8, MappingUnfolds
    <3> QED
      BY <1>5, <1>6, <1>9, <2>7, <2>9, <2>10, <3>1, <3>2 DEF Lru!Replace
  <2> QED
    BY <1>3, <2>11 DEF Lru!Next
<1> QED
  BY <1>1, <1>7, <1>8, <1>9, DepthAssumption

\* What is removed are keys that are dropped.
LEMMA RemoveIsCacheStep ==
    ASSUME GoodList(ctable), NEW gone, ctable' = node_remove(ctable, gone)
    PROVE  Lru!Next
<1> DEFINE K == DOMAIN ctable \ gone
           P == PresentIn(ctable)
           S == P \ PresentIn(ctable')
<1>1. ctable \in Seq(ctable_entry) /\ Unique(ctable) /\ K \in SUBSET (DOMAIN ctable)
  BY DEF GoodList
<1>2. ctable' = Keep(ctable, K)
  BY DEF node_remove
<1> HIDE DEF K
<1>3. Thinned(ctable, ctable', K)
  BY <1>1, <1>2, KeepThinned
<1>4. /\ PresentIn(ctable') = {Key(ctable[j]) : j \in K}
      /\ OlderIn(ctable') = RestrictedTo(ctable, PresentIn(ctable'))
  BY <1>1, <1>3, ThinnedOrder
<1>5. PresentIn(ctable') \subseteq P
  BY <1>1, <1>4 DEF PresentIn
<1>6. PresentIn(ctable') = P \ S
  BY <1>5
<1>7. Lru!Drop(S)
  BY <1>4, <1>6, MappingUnfolds
<1>8. S \in SUBSET {Key(ctable[i]) : i \in DOMAIN ctable}
  BY DEF PresentIn
<1> QED
  BY <1>7, <1>8 DEF Lru!Next

(***************************************************************************)
(* The refinement: every step of the content table is one of the cache, or *)
(* changes neither the keys in it nor their order.                         *)
(***************************************************************************)
THEOREM TableIsCache == Spec => LruSpec
<1>1. Init => Lru!Init
  <2>1. SUFFICES ASSUME Init PROVE Lru!Init
    OBVIOUS
  <2>2. DOMAIN ctable = {}
    BY <2>1 DEF Init
  <2> QED
    BY <2>2 DEF Lru!Init, InFrontOf
<1>2. IInv /\ [Next]_vars => [Lru!Next]_(Lru!vars)
  <2>1. SUFFICES ASSUME IInv, [Next]_vars PROVE [Lru!Next]_(Lru!vars)
    OBVIOUS
  <2>2. GoodList(ctable)
    BY <2>1 DEF IInv
  <2>3. ASSUME ctable' = ctable
        PROVE  UNCHANGED Lru!vars
    BY <2>3 DEF Lru!vars, InFrontOf, Key
  <2>4. ASSUME NEW e \in ctable_entry, LoadLine(e)
        PROVE  Lru!Next
    BY <2>2, <2>4, AddIsCacheStep DEF LoadLine, add_content
  <2>5. CASE StartInput
    BY <2>3, <2>5 DEF StartInput
  <2>6. ASSUME NEW name \in Contents, NEW vn \in Versions, NEW iface \in Ifaces,
               NEW fate \in Fates, Request(name, vn, iface, fate)
        PROVE  Lru!Next \/ ctable' = ctable
    <3> DEFINE stale == StaleEntries(ctable, name, vn, iface)
    <3>1. ctable' = node_remove(ctable, stale) \/ ctable' = ctable
      BY <2>6 DEF Request
    <3> QED
      BY <2>2, <3>1, RemoveIsCacheStep
  <2>7. ASSUME NEW name \in Contents, NEW vn \in Versions, NEW src \in Addrs,
               NEW iface \in Ifaces, NEW fate \in Fates,
               Reply(name, vn, src, iface, fate)
        PROVE  Lru!Next \/ ctable' = ctable
    <3> DEFINE e == [content |-> name, ver_num |-> vn, nexthop |-> src, iface |-> iface]
    <3>1. e \in ctable_entry
      BY DEF ctable_entry
    <3>2. ctable' = AddContent(ctable, e) \/ ctable' = ctable
      BY <2>7 DEF Reply, add_content
    <3> HIDE DEF e
    <3> QED
      BY <2>2, <3>1, <3>2, AddIsCacheStep
  <2>8. ASSUME NEW name \in Contents, NEW vn \in Versions, NEW iface \in Ifaces,
               NEW fate \in Fates, Reject(name, vn, iface, fate)
        PROVE  Lru!Next \/ ctable' = ctable
    <3> DEFINE gone == {i \in DOMAIN ctable : Matches(ctable[i], name, iface)}
    <3>1. ctable' = node_remove(ctable, gone) \/ ctable' = ctable
      BY <2>8 DEF Reject, del_content
    <3> QED
      BY <2>2, <3>1, RemoveIsCacheStep
  <2>9. ASSUME NEW name \in Contents, NEW vn \in Versions, NEW iface \in Ifaces,
               Unknown(name, vn, iface)
        PROVE  ctable' = ctable
    BY <2>9 DEF Unknown
  <2>10. CASE UNCHANGED vars
    BY <2>3, <2>10 DEF vars
  <2>11. ASSUME Next PROVE Lru!Next \/ UNCHANGED Lru!vars
    BY <2>3, <2>4, <2>5, <2>6, <2>7, <2>8, <2>9, <2>11 DEF Next
  <2> QED
    BY <2>1, <2>10, <2>11
<1>3. Spec => Lru!Init /\ [][Lru!Next]_(Lru!vars)
  BY <1>1, <1>2, Invariance, PTL DEF Spec
<1> QED
  BY <1>3 DEF LruSpec, Lru!Spec
=============================================================================
