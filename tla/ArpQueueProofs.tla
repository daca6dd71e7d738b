---------------------------- MODULE ArpQueueProofs ----------------------------
(***************************************************************************)
(* For any hops, packets and limits: the queue of packets that wait for an *)
(* address and the cache of addresses stay in step, whatever replies,      *)
(* time-outs, senders and commands interleave, and the hardware holds what *)
(* of the cache fits whenever the cache changes.                           *)
(*                                                                         *)
(* A packet waits once because a queue in which no two places hold the     *)
(* same packet stays one when a packet is added that is not in it, when    *)
(* the first packet of an entry leaves, and when it goes to the end.  That *)
(* the packet an ICMP error is made for has not had one is what has to be  *)
(* known of the time before.                                               *)
(***************************************************************************)
EXTENDS ArpQueue, ListProofs, TLAPS

-----------------------------------------------------------------------------
(* Queues.                                                                 *)

\* Of an ICMP error that cannot be delivered nobody is told.
ProperFrames == {f \in Frames : f.err => f.back = NoHop}

ProperEntries == [next_hop : Hops, requests : 1 .. MAX_REQUESTS, age : 0 .. 2,
                  frames : Seq(ProperFrames)]

\* A packet waits at some place of a queue.
Waits(q, h) ==
    \E i \in DOMAIN q : \E j \in DOMAIN q[i].frames : Handle(q[i].frames[j]) = h

\* No packet waits at two places, no two entries are for one hop, none is empty.
Unique(q) ==
    \A i, k \in DOMAIN q :
        \A j \in DOMAIN q[i].frames, l \in DOMAIN q[k].frames :
            Handle(q[i].frames[j]) = Handle(q[k].frames[l]) => i = k /\ j = l

HopsDiffer(q) == \A i, k \in DOMAIN q : q[i].next_hop = q[k].next_hop => i = k

Filled(q) == \A i \in DOMAIN q : Len(q[i].frames) > 0

GoodQueue(q) == q \in Seq(ProperEntries) /\ Unique(q) /\ HopsDiffer(q) /\ Filled(q)

\* No hop is waited for that was not, or none but the one named.
OldHops(q, r) == \A i \in DOMAIN r : \E k \in DOMAIN q : q[k].next_hop = r[i].next_hop

NoNewHop(q, r, hop) ==
    \A i \in DOMAIN r : r[i].next_hop = hop \/ \E k \in DOMAIN q : q[k].next_hop = r[i].next_hop

\* The queue r is q with the packet f, which waits for hop.
Joined(q, r, f, hop) ==
    /\ GoodQueue(r) /\ DOMAIN q \subseteq DOMAIN r
    /\ \A h : Waits(r, h) <=> Waits(q, h) \/ h = Handle(f)
    /\ \A k \in DOMAIN q : r[k].next_hop = q[k].next_hop /\ r[k].frames[1] = q[k].frames[1]
    /\ NoNewHop(q, r, hop)

\* The queue r is q without the packet f.
Departed(q, r, f) ==
    /\ GoodQueue(r)
    /\ \A h : Waits(r, h) <=> Waits(q, h) /\ h # Handle(f)
    /\ OldHops(q, r)

LEMMA EntryTyped ==
    ASSUME NEW e \in ProperEntries
    PROVE  /\ e.next_hop \in Hops /\ e.requests \in 1 .. MAX_REQUESTS /\ e.age \in 0 .. 2
           /\ e.frames \in Seq(ProperFrames)
           /\ Len(e.frames) \in Nat /\ DOMAIN e.frames = 1 .. Len(e.frames)
           /\ \A fs \in Seq(ProperFrames) : [e EXCEPT !.frames = fs] \in ProperEntries
BY DEF ProperEntries

LEMMA QueueTyped ==
    ASSUME NEW q \in Seq(ProperEntries)
    PROVE  /\ Len(q) \in Nat /\ DOMAIN q = 1 .. Len(q)
           /\ \A i \in DOMAIN q :
                 /\ q[i] \in ProperEntries /\ q[i].frames \in Seq(ProperFrames)
                 /\ q[i].next_hop \in Hops
                 /\ Len(q[i].frames) \in Nat
                 /\ DOMAIN q[i].frames = 1 .. Len(q[i].frames)
                 /\ \A j \in DOMAIN q[i].frames : q[i].frames[j] \in ProperFrames
BY EntryTyped

\* The entry for a hop is found if there is one.
LEMMA FirstForProperties ==
    ASSUME NEW q \in Seq(ProperEntries), NEW hop
    PROVE  /\ FirstFor(q, hop) \subseteq DOMAIN q
           /\ \A i \in FirstFor(q, hop) : q[i].next_hop = hop
           /\ FirstFor(q, hop) = {} <=> \A i \in DOMAIN q : q[i].next_hop # hop
<1> DEFINE I == {i \in DOMAIN q : q[i].next_hop = hop}
<1>1. Len(q) \in Nat /\ DOMAIN q = 1 .. Len(q)
  OBVIOUS
<1>2. /\ FirstFor(q, hop) \subseteq DOMAIN q
      /\ \A i \in FirstFor(q, hop) : q[i].next_hop = hop
  BY DEF FirstFor
<1>3. ASSUME NEW k \in DOMAIN q, q[k].next_hop = hop
      PROVE  FirstFor(q, hop) # {}
  <2>1. I \in SUBSET (1 .. Len(q)) /\ I # {}
    BY <1>1, <1>3
  <2>2. PICK i \in I : \A j \in I : i <= j
    BY <1>1, <2>1, LeastIndex
  <2>3. \A j \in 1 .. (i - 1) : j \in DOMAIN q /\ ~(i <= j)
    BY <1>1
  <2>4. \A j \in 1 .. (i - 1) : q[j].next_hop # hop
    BY <2>2, <2>3
  <2>5. i \in FirstFor(q, hop)
    BY <2>2, <2>4 DEF FirstFor
  <2> QED
    BY <2>5
<1> QED
  BY <1>2, <1>3

\* A queue that differs in counts only.
LEMMA SameFrames ==
    ASSUME NEW q, GoodQueue(q), NEW r \in Seq(ProperEntries), DOMAIN r = DOMAIN q,
           \A i \in DOMAIN q : r[i].next_hop = q[i].next_hop /\ r[i].frames = q[i].frames
    PROVE  GoodQueue(r) /\ (\A h : Waits(r, h) <=> Waits(q, h)) /\ OldHops(q, r)
<1>1. Unique(r) /\ HopsDiffer(r) /\ Filled(r)
  BY DEF GoodQueue, Unique, HopsDiffer, Filled
<1>2. (\A h : Waits(r, h) <=> Waits(q, h)) /\ OldHops(q, r)
  BY DEF Waits, OldHops
<1> QED
  BY <1>1, <1>2 DEF GoodQueue

\* A packet that does not wait comes behind those that wait for its hop.
LEMMA AddBehind ==
    ASSUME NEW q, GoodQueue(q), NEW f \in ProperFrames, ~Waits(q, Handle(f)),
           NEW i \in DOMAIN q
    PROVE  Joined(q, [q EXCEPT ![i].frames = Append(q[i].frames, f)], f, q[i].next_hop)
<1> DEFINE n == Len(q[i].frames)
           r == [q EXCEPT ![i].frames = Append(q[i].frames, f)]
<1>1. q \in Seq(ProperEntries) /\ Unique(q) /\ HopsDiffer(q) /\ Filled(q)
  BY DEF GoodQueue
<1>2. /\ q[i] \in ProperEntries /\ q[i].frames \in Seq(ProperFrames) /\ n \in Nat
      /\ DOMAIN q[i].frames = 1 .. n
  BY <1>1, QueueTyped
<1>3. Append(q[i].frames, f) \in Seq(ProperFrames)
  BY <1>2
<1>4. [q[i] EXCEPT !.frames = Append(q[i].frames, f)] \in ProperEntries
  BY <1>2, <1>3, EntryTyped
<1>5. r = [q EXCEPT ![i] = [q[i] EXCEPT !.frames = Append(q[i].frames, f)]]
  OBVIOUS
<1>6. r \in Seq(ProperEntries) /\ DOMAIN r = DOMAIN q
  BY <1>1, <1>4, <1>5
<1>7. /\ \A k \in DOMAIN q : k # i => r[k] = q[k]
      /\ r[i].frames = Append(q[i].frames, f) /\ r[i].next_hop = q[i].next_hop
  BY <1>1, <1>2, <1>5 DEF ProperEntries
<1> HIDE DEF r
<1>8. /\ DOMAIN r[i].frames = 1 .. n + 1 /\ Len(r[i].frames) = n + 1
      /\ \A j \in 1 .. n : r[i].frames[j] = q[i].frames[j]
      /\ r[i].frames[n + 1] = f
  BY <1>2, <1>7
<1> HIDE DEF n
<1>9. \A j \in 1 .. n + 1 : j = n + 1 \/ j \in 1 .. n
  BY <1>2
<1>10. \A j \in 1 .. n : j \in 1 .. n + 1
  BY <1>2
<1>11. n + 1 \in 1 .. n + 1 /\ n + 1 > 0
  BY <1>2
<1>12. \A k \in DOMAIN q : r[k].next_hop = q[k].next_hop
  BY <1>7
<1>13. \A h : Waits(r, h) <=> Waits(q, h) \/ h = Handle(f)
  <2>1. ASSUME NEW h, Waits(r, h) PROVE Waits(q, h) \/ h = Handle(f)
    <3>1. PICK k \in DOMAIN q : \E j \in DOMAIN r[k].frames : Handle(r[k].frames[j]) = h
      BY <1>6, <2>1 DEF Waits
    <3>2. PICK j \in DOMAIN r[k].frames : Handle(r[k].frames[j]) = h
      BY <3>1
    <3>3. \/ r[k].frames[j] = f
          \/ j \in DOMAIN q[k].frames /\ r[k].frames[j] = q[k].frames[j]
      BY <1>2, <1>7, <1>8, <1>9
    <3> QED
      BY <3>2, <3>3 DEF Waits
  <2>2. ASSUME NEW h, Waits(q, h) PROVE Waits(r, h)
    <3>1. PICK k \in DOMAIN q : \E j \in DOMAIN q[k].frames : Handle(q[k].frames[j]) = h
      BY <2>2 DEF Waits
    <3>2. PICK j \in DOMAIN q[k].frames : Handle(q[k].frames[j]) = h
      BY <3>1
    <3>3. j \in DOMAIN r[k].frames /\ r[k].frames[j] = q[k].frames[j]
      BY <1>2, <1>7, <1>8, <1>10
    <3> QED
      BY <1>6, <3>2, <3>3 DEF Waits
  <2>3. Waits(r, Handle(f))
    BY <1>6, <1>8, <1>11 DEF Waits
  <2> QED
    BY <2>1, <2>2, <2>3
<1>14. Unique(r)
  <2>1. \A k \in DOMAIN q : \A j \in DOMAIN q[k].frames : Handle(q[k].frames[j]) # Handle(f)
    BY DEF Waits
  <2>2. SUFFICES ASSUME NEW a \in DOMAIN r, NEW b \in DOMAIN r,
                        NEW j \in DOMAIN r[a].frames, NEW l \in DOMAIN r[b].frames,
                        Handle(r[a].frames[j]) = Handle(r[b].frames[l])
                 PROVE  a = b /\ j = l
    BY DEF Unique
  <2>3. \A k \in DOMAIN r : \A m \in DOMAIN r[k].frames :
            \/ k = i /\ m = n + 1 /\ r[k].frames[m] = f
            \/ m \in DOMAIN q[k].frames /\ r[k].frames[m] = q[k].frames[m]
    BY <1>2, <1>6, <1>7, <1>8, <1>9
  <2> HIDE DEF Handle
  <2> QED
    BY <1>1, <1>6, <2>1, <2>2, <2>3 DEF Unique
<1>15. HopsDiffer(r) /\ Filled(r)
  BY <1>1, <1>6, <1>7, <1>8, <1>11, <1>12 DEF HopsDiffer, Filled
<1>16. GoodQueue(r)
  BY <1>6, <1>14, <1>15 DEF GoodQueue
<1>17. NoNewHop(q, r, q[i].next_hop)
  BY <1>6, <1>12 DEF NoNewHop
<1>18. \A k \in DOMAIN q : r[k].frames[1] = q[k].frames[1]
  <2>1. n > 0
    BY <1>1 DEF Filled, n
  <2>2. r[i].frames[1] = q[i].frames[1]
    BY <1>2, <1>8, <2>1
  <2> QED
    BY <1>7, <2>2
<1>19. Joined(q, r, f, q[i].next_hop)
  BY <1>6, <1>12, <1>13, <1>16, <1>17, <1>18 DEF Joined
<1> QED
  BY <1>19 DEF r

\* The first packet for a hop starts an entry.
LEMMA AddNew ==
    ASSUME NEW q, GoodQueue(q), NEW f \in ProperFrames, ~Waits(q, Handle(f)),
           NEW hop \in Hops, \A i \in DOMAIN q : q[i].next_hop # hop
    PROVE  Joined(q, Append(q, NewEntry(f, hop)), f, hop)
<1> DEFINE n == Len(q)
           e == NewEntry(f, hop)
           r == Append(q, NewEntry(f, hop))
<1>1. q \in Seq(ProperEntries) /\ Unique(q) /\ HopsDiffer(q) /\ Filled(q)
  BY DEF GoodQueue
<1>2. /\ e \in ProperEntries /\ e.next_hop = hop /\ DOMAIN e.frames = {1} /\ e.frames[1] = f
      /\ Len(e.frames) = 1
  <2>1. <<f>> \in Seq(ProperFrames) /\ 1 \in 1 .. MAX_REQUESTS
    BY BoundsAssumption
  <2>2. e \in ProperEntries
    BY <2>1 DEF NewEntry, ProperEntries
  <2> QED
    BY <2>2 DEF NewEntry
<1>3. r = Append(q, e)
  OBVIOUS
<1> HIDE DEF e
<1>4. /\ r \in Seq(ProperEntries) /\ n \in Nat /\ DOMAIN r = 1 .. n + 1 /\ DOMAIN q = 1 .. n
      /\ \A k \in 1 .. n : r[k] = q[k]
      /\ r[n + 1] = e
  BY <1>1, <1>2, <1>3
<1> HIDE DEF n, r
<1>5. /\ \A k \in 1 .. n + 1 : k = n + 1 \/ k \in 1 .. n
      /\ \A k \in 1 .. n : k \in 1 .. n + 1 /\ k # n + 1
      /\ n + 1 \in 1 .. n + 1
  BY <1>4
<1>6. \A h : Waits(r, h) <=> Waits(q, h) \/ h = Handle(f)
  <2>1. ASSUME NEW h, Waits(r, h) PROVE Waits(q, h) \/ h = Handle(f)
    BY <1>2, <1>4, <1>5, <2>1 DEF Waits
  <2>2. ASSUME NEW h, Waits(q, h) PROVE Waits(r, h)
    BY <1>4, <1>5, <2>2 DEF Waits
  <2>3. Waits(r, Handle(f))
    BY <1>2, <1>4, <1>5 DEF Waits
  <2> QED
    BY <2>1, <2>2, <2>3
<1>7. Unique(r)
  <2>1. \A k \in DOMAIN q : \A j \in DOMAIN q[k].frames : Handle(q[k].frames[j]) # Handle(f)
    BY DEF Waits
  <2>2. SUFFICES ASSUME NEW a \in DOMAIN r, NEW b \in DOMAIN r,
                        NEW j \in DOMAIN r[a].frames, NEW l \in DOMAIN r[b].frames,
                        Handle(r[a].frames[j]) = Handle(r[b].frames[l])
                 PROVE  a = b /\ j = l
    BY DEF Unique
  <2>3. \A k \in DOMAIN r : \A m \in DOMAIN r[k].frames :
            \/ k = n + 1 /\ m = 1 /\ r[k].frames[m] = f
            \/ k \in DOMAIN q /\ m \in DOMAIN q[k].frames /\ r[k].frames[m] = q[k].frames[m]
    BY <1>2, <1>4, <1>5
  <2> HIDE DEF Handle
  <2>4. CASE a \in DOMAIN q /\ j \in DOMAIN q[a].frames /\ r[a].frames[j] = q[a].frames[j]
    <3>1. b \in DOMAIN q /\ l \in DOMAIN q[b].frames /\ r[b].frames[l] = q[b].frames[l]
      BY <2>1, <2>2, <2>3, <2>4
    <3> QED
      BY <1>1, <2>2, <2>4, <3>1 DEF Unique
  <2>5. CASE a = n + 1 /\ j = 1 /\ r[a].frames[j] = f
    <3>1. b = n + 1 /\ l = 1
      BY <2>1, <2>2, <2>3, <2>5
    <3> QED
      BY <2>5, <3>1
  <2> QED
    BY <2>2, <2>3, <2>4, <2>5
<1>8. HopsDiffer(r)
  BY <1>1, <1>2, <1>4, <1>5 DEF HopsDiffer
<1>9. Filled(r)
  <2>1. SUFFICES ASSUME NEW i \in DOMAIN r PROVE Len(r[i].frames) > 0
    BY DEF Filled
  <2>2. CASE i = n + 1
    <3>1. r[i].frames = e.frames
      BY <1>4, <2>2
    <3>2. Len(r[i].frames) = 1
      BY <1>2, <3>1, Zenon
    <3> QED
      BY <3>2
  <2>3. CASE i \in 1 .. n
    BY <1>1, <1>4, <2>3 DEF Filled
  <2> QED
    BY <1>4, <1>5, <2>2, <2>3
<1>10. GoodQueue(r)
  BY <1>4, <1>7, <1>8, <1>9 DEF GoodQueue
<1>11. DOMAIN q \subseteq DOMAIN r /\ \A k \in DOMAIN q : r[k] = q[k]
  BY <1>4, <1>5
<1>12. NoNewHop(q, r, hop)
  BY <1>2, <1>4, <1>5 DEF NoNewHop
<1>13. Joined(q, r, f, hop)
  BY <1>6, <1>10, <1>11, <1>12 DEF Joined
<1> QED
  BY <1>13 DEF r

\* A packet that does not wait is added.
LEMMA AddGood ==
    ASSUME NEW q, GoodQueue(q), NEW f \in ProperFrames, ~Waits(q, Handle(f)),
           NEW hop \in Hops
    PROVE  Joined(q, arp_queue_add(q, f, hop), f, hop)
<1>1. q \in Seq(ProperEntries)
  BY DEF GoodQueue
<1>2. CASE FirstFor(q, hop) = {}
  <2>1. arp_queue_add(q, f, hop) = Append(q, NewEntry(f, hop))
    BY <1>2 DEF arp_queue_add, node_push_back
  <2>2. \A i \in DOMAIN q : q[i].next_hop # hop
    BY <1>1, <1>2, FirstForProperties
  <2>3. Joined(q, Append(q, NewEntry(f, hop)), f, hop)
    BY <2>2, AddNew
  <2> QED
    BY <2>1, <2>3
<1>3. CASE FirstFor(q, hop) # {}
  <2> DEFINE i == CHOOSE i \in FirstFor(q, hop) : TRUE
  <2>1. i \in DOMAIN q /\ q[i].next_hop = hop
    BY <1>1, <1>3, FirstForProperties
  <2>2. arp_queue_add(q, f, hop) = [q EXCEPT ![i].frames = Append(q[i].frames, f)]
    BY <1>3 DEF arp_queue_add, node_push_back
  <2> HIDE DEF i
  <2>3. Joined(q, [q EXCEPT ![i].frames = Append(q[i].frames, f)], f, q[i].next_hop)
    BY <2>1, AddBehind
  <2> QED
    BY <2>1, <2>2, <2>3
<1> QED
  BY <1>2, <1>3

\* An entry with one packet leaves the queue; what became of it meanwhile does
\* not matter.
LEMMA RemoveEntry ==
    ASSUME NEW q, GoodQueue(q), NEW i \in DOMAIN q, Len(q[i].frames) = 1,
           NEW s \in Seq(ProperEntries), DOMAIN s = DOMAIN q,
           \A k \in DOMAIN q : k # i => s[k] = q[k]
    PROVE  Departed(q, node_remove(s, {i}), q[i].frames[1])
<1> DEFINE K == DOMAIN s \ {i}
           r == Keep(s, K)
<1>1. q \in Seq(ProperEntries) /\ Unique(q) /\ HopsDiffer(q) /\ Filled(q)
  BY DEF GoodQueue
<1>2. node_remove(s, {i}) = r /\ K \in SUBSET (DOMAIN s)
  BY DEF node_remove
<1>3. \A k \in K : k \in DOMAIN q /\ k # i /\ s[k] = q[k]
  OBVIOUS
<1>4. \A k \in DOMAIN q : k # i => k \in K
  OBVIOUS
<1> HIDE DEF K
<1>5. /\ r \in Seq(ProperEntries)
      /\ \A k \in K : Rank(K, k) \in DOMAIN r /\ r[Rank(K, k)] = s[k]
      /\ \A j \in DOMAIN r : \E k \in K : Rank(K, k) = j /\ r[j] = s[k]
  BY <1>2, KeepProperties
<1>6. \A j, l \in DOMAIN r : j # l => \E a, b \in K : a # b /\ r[j] = s[a] /\ r[l] = s[b]
  BY <1>2, KeepApart
<1> HIDE DEF r
<1>7. \A j, l \in DOMAIN r : j # l =>
          \E a, b \in DOMAIN q : a # b /\ r[j] = q[a] /\ r[l] = q[b]
  BY <1>3, <1>6
<1>8. \A j \in DOMAIN r : \E k \in DOMAIN q : k # i /\ r[j] = q[k]
  BY <1>3, <1>5
<1>9. Unique(r)
  <2>1. SUFFICES ASSUME NEW a \in DOMAIN r, NEW b \in DOMAIN r,
                        NEW j \in DOMAIN r[a].frames, NEW l \in DOMAIN r[b].frames,
                        Handle(r[a].frames[j]) = Handle(r[b].frames[l])
                 PROVE  a = b /\ j = l
    BY DEF Unique
  <2>2. a = b
    BY <1>1, <1>7, <2>1 DEF Unique
  <2>3. j = l
    BY <1>1, <1>8, <2>1, <2>2 DEF Unique
  <2> QED
    BY <2>2, <2>3
<1>10. HopsDiffer(r)
  BY <1>1, <1>7 DEF HopsDiffer
<1>11. Filled(r)
  BY <1>1, <1>8 DEF Filled
<1>12. \A h : Waits(r, h) <=> Waits(q, h) /\ h # Handle(q[i].frames[1])
  <2>1. DOMAIN q[i].frames = {1}
    BY <1>1, QueueTyped
  <2>2. ASSUME NEW h, Waits(r, h) PROVE Waits(q, h) /\ h # Handle(q[i].frames[1])
    <3>1. PICK k \in DOMAIN q : k # i
          /\ \E j \in DOMAIN q[k].frames : Handle(q[k].frames[j]) = h
      BY <1>8, <2>2 DEF Waits
    <3> QED
      BY <1>1, <2>1, <3>1 DEF Waits, Unique
  <2>3. ASSUME NEW h, Waits(q, h), h # Handle(q[i].frames[1]) PROVE Waits(r, h)
    <3>1. PICK k \in DOMAIN q : \E j \in DOMAIN q[k].frames : Handle(q[k].frames[j]) = h
      BY <2>3 DEF Waits
    <3>2. k # i
      BY <2>1, <2>3, <3>1
    <3>3. k \in K
      BY <1>4, <3>2
    <3>4. Rank(K, k) \in DOMAIN r /\ r[Rank(K, k)] = q[k]
      BY <1>3, <1>5, <3>3
    <3> QED
      BY <3>1, <3>4 DEF Waits
  <2> QED
    BY <2>2, <2>3
<1>13. OldHops(q, r)
  BY <1>8 DEF OldHops
<1>14. Departed(q, r, q[i].frames[1])
  BY <1>5, <1>9, <1>10, <1>11, <1>12, <1>13 DEF GoodQueue, Departed
<1> QED
  BY <1>2, <1>14

\* The first packet of an entry leaves, which has others.
LEMMA RemoveFrame ==
    ASSUME NEW q, GoodQueue(q), NEW i \in DOMAIN q, Len(q[i].frames) # 1
    PROVE  /\ Departed(q, [q EXCEPT ![i].frames = Tail(q[i].frames)], q[i].frames[1])
           /\ DOMAIN [q EXCEPT ![i].frames = Tail(q[i].frames)] = DOMAIN q
           /\ [q EXCEPT ![i].frames = Tail(q[i].frames)][i].frames = Tail(q[i].frames)
<1> DEFINE n == Len(q[i].frames)
           r == [q EXCEPT ![i].frames = Tail(q[i].frames)]
<1>1. q \in Seq(ProperEntries) /\ Unique(q) /\ HopsDiffer(q) /\ Filled(q)
  BY DEF GoodQueue
<1>2. /\ q[i] \in ProperEntries /\ q[i].frames \in Seq(ProperFrames) /\ n \in Nat /\ n > 0
      /\ DOMAIN q[i].frames = 1 .. n
  BY <1>1, QueueTyped DEF Filled
<1>3. Tail(q[i].frames) \in Seq(ProperFrames)
  BY <1>2
<1>4. [q[i] EXCEPT !.frames = Tail(q[i].frames)] \in ProperEntries
  BY <1>2, <1>3, EntryTyped
<1>5. r = [q EXCEPT ![i] = [q[i] EXCEPT !.frames = Tail(q[i].frames)]]
  OBVIOUS
<1>6. r \in Seq(ProperEntries) /\ DOMAIN r = DOMAIN q
  BY <1>1, <1>4, <1>5
<1>7. /\ \A k \in DOMAIN q : k # i => r[k] = q[k]
      /\ r[i].frames = Tail(q[i].frames) /\ r[i].next_hop = q[i].next_hop
  BY <1>1, <1>2, <1>5 DEF ProperEntries
<1> HIDE DEF r
<1>8. /\ DOMAIN r[i].frames = 1 .. n - 1 /\ Len(r[i].frames) = n - 1
      /\ \A j \in 1 .. n - 1 : r[i].frames[j] = q[i].frames[j + 1]
  BY <1>2, <1>7
<1>9. n - 1 > 0
  <2>1. n # 1
    OBVIOUS
  <2> HIDE DEF n
  <2> QED
    BY <1>2, <2>1
<1> HIDE DEF n
<1>10. /\ \A j \in 1 .. n - 1 : j + 1 \in 1 .. n /\ j + 1 # 1 /\ j \in Nat
       /\ \A j \in 1 .. n : j = 1 \/ (j - 1 \in 1 .. n - 1 /\ (j - 1) + 1 = j)
       /\ 1 \in 1 .. n
       /\ \A j, l \in 1 .. n - 1 : j + 1 = l + 1 => j = l
  BY <1>2
<1>11. \A k \in DOMAIN q : r[k].next_hop = q[k].next_hop
  BY <1>7
\* A packet of r was the same or the next one of q.
<1> DEFINE was(k, j) == IF k = i THEN j + 1 ELSE j
<1>12. \A k \in DOMAIN r : \A j \in DOMAIN r[k].frames :
           /\ was(k, j) \in DOMAIN q[k].frames
           /\ r[k].frames[j] = q[k].frames[was(k, j)]
           /\ k = i => was(k, j) # 1
           /\ \A l \in DOMAIN r[k].frames : was(k, j) = was(k, l) => j = l
  <2>1. ASSUME NEW j \in DOMAIN r[i].frames
        PROVE  /\ j + 1 \in DOMAIN q[i].frames
               /\ r[i].frames[j] = q[i].frames[j + 1]
               /\ j + 1 # 1
               /\ \A l \in DOMAIN r[i].frames : j + 1 = l + 1 => j = l
    BY <1>2, <1>8, <1>10
  <2>2. ASSUME NEW k \in DOMAIN r, k # i, NEW j \in DOMAIN r[k].frames
        PROVE  j \in DOMAIN q[k].frames /\ r[k].frames[j] = q[k].frames[j]
    BY <1>6, <1>7, <2>2
  <2> QED
    BY <2>1, <2>2
<1> HIDE DEF was
<1>13. Unique(r)
  <2>1. SUFFICES ASSUME NEW a \in DOMAIN r, NEW b \in DOMAIN r,
                        NEW j \in DOMAIN r[a].frames, NEW l \in DOMAIN r[b].frames,
                        Handle(r[a].frames[j]) = Handle(r[b].frames[l])
                 PROVE  a = b /\ j = l
    BY DEF Unique
  <2>2. Handle(q[a].frames[was(a, j)]) = Handle(q[b].frames[was(b, l)])
    BY <1>12, <2>1
  <2>3. a = b /\ was(a, j) = was(b, l)
    BY <1>1, <1>6, <1>12, <2>2 DEF Unique
  <2> QED
    BY <1>12, <2>3
<1>14. HopsDiffer(r) /\ Filled(r)
  BY <1>1, <1>6, <1>7, <1>8, <1>9, <1>11 DEF HopsDiffer, Filled
<1>15. \A h : Waits(r, h) <=> Waits(q, h) /\ h # Handle(q[i].frames[1])
  <2>1. ASSUME NEW h, Waits(r, h) PROVE Waits(q, h) /\ h # Handle(q[i].frames[1])
    <3>1. PICK k \in DOMAIN r : \E j \in DOMAIN r[k].frames : Handle(r[k].frames[j]) = h
      BY <2>1 DEF Waits
    <3>2. PICK j \in DOMAIN r[k].frames : Handle(r[k].frames[j]) = h
      BY <3>1
    <3>3. Handle(q[k].frames[was(k, j)]) = h /\ was(k, j) \in DOMAIN q[k].frames
      BY <1>12, <3>2
    <3>4. Waits(q, h)
      BY <1>6, <3>3 DEF Waits
    <3>5. h # Handle(q[i].frames[1])
      BY <1>1, <1>2, <1>6, <1>10, <1>12, <3>3 DEF Unique
    <3> QED
      BY <3>4, <3>5
  <2>2. ASSUME NEW h, Waits(q, h), h # Handle(q[i].frames[1]) PROVE Waits(r, h)
    <3>1. PICK k \in DOMAIN q : \E j \in DOMAIN q[k].frames : Handle(q[k].frames[j]) = h
      BY <2>2 DEF Waits
    <3>2. PICK j \in DOMAIN q[k].frames : Handle(q[k].frames[j]) = h
      BY <3>1
    <3>3. CASE k = i
      <4>1. j - 1 \in 1 .. n - 1 /\ (j - 1) + 1 = j
        BY <1>2, <1>10, <2>2, <3>2, <3>3
      <4>2. j - 1 \in DOMAIN r[i].frames /\ r[i].frames[j - 1] = q[i].frames[j]
        BY <1>8, <4>1
      <4> QED
        BY <1>6, <3>2, <3>3, <4>2 DEF Waits
    <3>4. CASE k # i
      BY <1>6, <1>7, <3>2, <3>4 DEF Waits
    <3> QED
      BY <3>3, <3>4
  <2> QED
    BY <2>1, <2>2
<1>16. OldHops(q, r)
  BY <1>6, <1>11 DEF OldHops
<1>17. Departed(q, r, q[i].frames[1])
  BY <1>6, <1>13, <1>14, <1>15, <1>16 DEF GoodQueue, Departed
<1> QED
  BY <1>6, <1>7, <1>17 DEF r

\* The first packet of an entry leaves.
LEMMA RemoveGood ==
    ASSUME NEW q, GoodQueue(q), NEW i \in DOMAIN q
    PROVE  Departed(q, RemoveFirst(q, i, Len(q[i].frames) = 1), q[i].frames[1])
<1>1. CASE Len(q[i].frames) = 1
  <2>1. q \in Seq(ProperEntries)
    BY DEF GoodQueue
  <2>2. Departed(q, node_remove(q, {i}), q[i].frames[1])
    BY <1>1, <2>1, RemoveEntry
  <2> QED
    BY <1>1, <2>2 DEF RemoveFirst
<1>2. CASE Len(q[i].frames) # 1
  BY <1>2, RemoveFrame DEF RemoveFirst
<1> QED
  BY <1>1, <1>2

(***************************************************************************)
(* The first packet of the entry for a hop is added once more, at the end  *)
(* of the same entry, and leaves its head: with others before it it stays, *)
(* and alone it is gone, with the entry.                                   *)
(***************************************************************************)
LEMMA AddAgain ==
    ASSUME NEW q, GoodQueue(q), NEW hop \in Hops, NEW i \in FirstFor(q, hop)
    PROVE  LET f == Head(q[i].frames)
               last == Len(q[i].frames) = 1
               r == RemoveFirst(arp_queue_add(q, f, hop), i, last)
           IN /\ GoodQueue(r) /\ OldHops(q, r)
              /\ \A h : Waits(r, h) <=> Waits(q, h) /\ (last => h # Handle(f))
<1> DEFINE f == Head(q[i].frames)
           last == Len(q[i].frames) = 1
           s == arp_queue_add(q, f, hop)
           fs == q[i].frames
<1>1. q \in Seq(ProperEntries) /\ Unique(q) /\ HopsDiffer(q) /\ Filled(q)
  BY DEF GoodQueue
<1>2. i \in DOMAIN q /\ q[i].next_hop = hop
  BY <1>1, FirstForProperties
<1>3. (CHOOSE k \in FirstFor(q, hop) : TRUE) = i
  BY <1>1, <1>2, FirstForProperties DEF HopsDiffer
<1>4. s = [q EXCEPT ![i].frames = Append(fs, f)]
  BY <1>3 DEF arp_queue_add, node_push_back
<1>5. q[i] \in ProperEntries /\ fs \in Seq(ProperFrames) /\ Len(fs) \in Nat /\ Len(fs) > 0
  BY <1>1, <1>2, QueueTyped DEF Filled
<1>6. f = fs[1] /\ f \in ProperFrames
  BY <1>5
<1> HIDE DEF f, fs
<1>7. s \in Seq(ProperEntries) /\ DOMAIN s = DOMAIN q
      /\ \A k \in DOMAIN q : k # i => s[k] = q[k]
  <2>1. Append(fs, f) \in Seq(ProperFrames)
    BY <1>5, <1>6
  <2>2. [q[i] EXCEPT !.frames = Append(fs, f)] \in ProperEntries
    BY <1>5, <2>1, EntryTyped
  <2>3. s = [q EXCEPT ![i] = [q[i] EXCEPT !.frames = Append(fs, f)]]
    BY <1>4
  <2> HIDE DEF s
  <2> QED
    BY <1>1, <1>2, <2>2, <2>3
<1>8. CASE last
  <2>1. Departed(q, node_remove(s, {i}), f)
    BY <1>2, <1>6, <1>7, <1>8, RemoveEntry DEF fs
  <2>2. RemoveFirst(s, i, last) = node_remove(s, {i})
    BY <1>8 DEF RemoveFirst
  <2> QED
    BY <1>8, <2>1, <2>2 DEF Departed, f
<1>9. CASE ~last
  <2> DEFINE p == [q EXCEPT ![i].frames = Tail(fs)]
             r == [p EXCEPT ![i].frames = Append(p[i].frames, f)]
  <2>1. Departed(q, p, f) /\ DOMAIN p = DOMAIN q /\ p[i].frames = Tail(fs)
    BY <1>2, <1>6, <1>9, RemoveFrame DEF fs
  <2>2. GoodQueue(p) /\ ~Waits(p, Handle(f))
    BY <2>1 DEF Departed
  <2>3. Joined(p, r, f, p[i].next_hop)
    BY <1>2, <1>6, <2>1, <2>2, AddBehind
  <2>4. RemoveFirst(s, i, last) = r
    <3>1. Tail(Append(fs, f)) = Append(Tail(fs), f)
      BY <1>5, <1>6
    <3>2. RemoveFirst(s, i, last) = [s EXCEPT ![i].frames = Tail(s[i].frames)]
      BY <1>9 DEF RemoveFirst
    <3>3. s[i].frames = Append(fs, f)
      BY <1>1, <1>2, <1>4, <1>5 DEF ProperEntries
    <3>4. [s EXCEPT ![i].frames = Tail(s[i].frames)] = [q EXCEPT ![i].frames = Append(Tail(fs), f)]
      BY <1>1, <1>2, <1>4, <1>5, <3>1, <3>3 DEF ProperEntries
    <3>5. r = [q EXCEPT ![i].frames = Append(Tail(fs), f)]
      BY <1>1, <1>2, <1>5, <2>1 DEF ProperEntries
    <3> QED
      BY <3>2, <3>4, <3>5
  <2>5. Waits(q, Handle(f))
    BY <1>1, <1>2, <1>5, <1>6 DEF Waits, fs
  <2>6. p[i].next_hop = q[i].next_hop
    BY <1>1, <1>2, <1>5 DEF ProperEntries
  <2> HIDE DEF r, p
  <2>7. OldHops(q, r)
    <3>1. NoNewHop(p, r, hop) /\ OldHops(q, p)
      BY <1>2, <2>1, <2>3, <2>6 DEF Departed, Joined
    <3> QED
      BY <1>2, <3>1 DEF NoNewHop, OldHops
  <2>8. \A h : Waits(r, h) <=> Waits(q, h)
    BY <2>1, <2>3, <2>5 DEF Departed, Joined
  <2>9. GoodQueue(r)
    BY <2>3 DEF Joined
  <2> QED
    BY <1>9, <2>4, <2>7, <2>8, <2>9, Zenon DEF f
<1> QED
  BY <1>8, <1>9 DEF f

-----------------------------------------------------------------------------
(* The cache and the rows of the hardware.                                 *)

\* An address has one entry in a cache.
GoodCache(c) ==
    /\ c \in Seq(CacheEntries)
    /\ \A i, j \in DOMAIN c : c[i].ip = c[j].ip => i = j

\* The cache d is c with what the entry e says of its address.
Took(c, d, e) ==
    /\ GoodCache(d)
    /\ \A k \in DOMAIN d :
          d[k] = e \/ (d[k].ip # e.ip /\ \E l \in DOMAIN c : c[l] = d[k])

LEMMA TakeKnown ==
    ASSUME NEW c, GoodCache(c), NEW e \in CacheEntries, NEW i \in DOMAIN c, c[i].ip = e.ip
    PROVE  Took(c, [c EXCEPT ![i] = e], e)
<1> DEFINE d == [c EXCEPT ![i] = e]
<1>1. c \in Seq(CacheEntries)
  BY DEF GoodCache
<1>2. /\ d \in Seq(CacheEntries) /\ DOMAIN d = DOMAIN c /\ d[i] = e
      /\ \A k \in DOMAIN c : k # i => d[k] = c[k]
  BY <1>1
<1> HIDE DEF d
<1>3. \A k \in DOMAIN d : d[k].ip = c[k].ip
  BY <1>2
<1>4. GoodCache(d)
  BY <1>2, <1>3 DEF GoodCache
<1>5. \A k \in DOMAIN d : k # i => d[k].ip # e.ip
  BY <1>2, <1>3 DEF GoodCache
<1>6. ASSUME NEW k \in DOMAIN d
      PROVE  d[k] = e \/ (d[k].ip # e.ip /\ \E l \in DOMAIN c : c[l] = d[k])
  <2>1. CASE k = i
    BY <1>2, <2>1
  <2>2. CASE k # i
    <3>1. k \in DOMAIN c /\ c[k] = d[k]
      BY <1>2, <2>2
    <3> QED
      BY <1>5, <2>2, <3>1
  <2> QED
    BY <2>1, <2>2
<1>7. Took(c, d, e)
  BY <1>4, <1>6, Zenon DEF Took
<1> QED
  BY <1>7 DEF d

LEMMA TakeNew ==
    ASSUME NEW c, GoodCache(c), NEW e \in CacheEntries, \A i \in DOMAIN c : c[i].ip # e.ip
    PROVE  Took(c, Append(c, e), e)
<1> DEFINE d == Append(c, e)
           n == Len(c)
<1>1. c \in Seq(CacheEntries)
  BY DEF GoodCache
<1>2. /\ d \in Seq(CacheEntries) /\ n \in Nat /\ DOMAIN d = 1 .. n + 1 /\ DOMAIN c = 1 .. n
      /\ \A k \in 1 .. n : d[k] = c[k]
      /\ d[n + 1] = e
  BY <1>1
<1> HIDE DEF d, n
<1>3. \A k \in 1 .. n + 1 : k = n + 1 \/ k \in 1 .. n
  BY <1>2
<1>4. GoodCache(d)
  BY <1>2, <1>3 DEF GoodCache
<1>5. ASSUME NEW k \in DOMAIN d
      PROVE  d[k] = e \/ (d[k].ip # e.ip /\ \E l \in DOMAIN c : c[l] = d[k])
  <2>1. CASE k = n + 1
    BY <1>2, <2>1
  <2>2. CASE k # n + 1
    <3>1. k \in DOMAIN c /\ c[k] = d[k]
      BY <1>2, <1>3, <2>2
    <3> QED
      BY <3>1
  <2> QED
    BY <2>1, <2>2
<1>6. Took(c, d, e)
  BY <1>4, <1>5, Zenon DEF Took
<1> QED
  BY <1>6 DEF d

\* Entries are deleted.
LEMMA CacheWithout ==
    ASSUME NEW c, GoodCache(c), NEW gone
    PROVE  /\ GoodCache(node_remove(c, gone))
           /\ \A k \in DOMAIN node_remove(c, gone) :
                 \E l \in DOMAIN c : c[l] = node_remove(c, gone)[k]
<1> DEFINE K == DOMAIN c \ gone
           d == Keep(c, K)
<1>1. c \in Seq(CacheEntries) /\ K \in SUBSET (DOMAIN c)
  BY DEF GoodCache
<1>2. \A k \in K : k \in DOMAIN c
  OBVIOUS
<1> HIDE DEF K
<1>3. /\ d \in Seq(CacheEntries)
      /\ \A k \in DOMAIN d : \E l \in K : d[k] = c[l]
  BY <1>1, KeepProperties
<1>4. \A j, k \in DOMAIN d : j # k => \E i, l \in K : i # l /\ d[j] = c[i] /\ d[k] = c[l]
  BY <1>1, KeepApart
<1> HIDE DEF d
<1>5. GoodCache(d)
  BY <1>2, <1>3, <1>4 DEF GoodCache
<1>6. node_remove(c, gone) = d
  BY DEF node_remove, d, K
<1> QED
  BY <1>2, <1>3, <1>5, <1>6

\* What write_arp_cache_to_hw makes of a cache.
RowsOf(c) ==
    [r \in 1 .. ARP_DEPTH |-> IF r <= Len(c)
                             THEN [ip |-> HwOrder(c)[r].ip, mac |-> HwOrder(c)[r].mac]
                             ELSE Blank]

\* HardwareCopiesCache, of any cache and rows.
Copies(c, hw) ==
    LET rows == {hw[r] : r \in 1 .. ARP_DEPTH} \ {Blank}
        copy(k) == [ip |-> c[k].ip, mac |-> c[k].mac]
        known == {copy(k) : k \in DOMAIN c}
        static == {copy(k) : k \in {j \in DOMAIN c : c[j].is_static}}
    IN /\ rows \subseteq known
       /\ static \subseteq rows \/ (rows \subseteq static /\ Cardinality(rows) = ARP_DEPTH)
       /\ known \subseteq rows \/ Cardinality(rows) = ARP_DEPTH

LEMMA RowsCopy ==
    ASSUME NEW c, GoodCache(c)
    PROVE  RowsOf(c) \in [1 .. ARP_DEPTH -> Row] /\ Copies(c, RowsOf(c))
<1> DEFINE n == Len(c)
           S == {i \in DOMAIN c : c[i].is_static}
           m == Cardinality(S)
           o == HwOrder(c)
           hw == RowsOf(c)
           copy(k) == [ip |-> c[k].ip, mac |-> c[k].mac]
           rows == {hw[r] : r \in 1 .. ARP_DEPTH} \ {Blank}
           known == {copy(k) : k \in DOMAIN c}
           static == {copy(k) : k \in S}
<1>1. c \in Seq(CacheEntries) /\ S \in SUBSET (DOMAIN c)
  BY DEF GoodCache
<1>2. o = Keep(c, S) \o Keep(c, DOMAIN c \ S)
  BY DEF HwOrder
<1>3. Reordered(c, S, o)
  BY <1>1, <1>2, KeepFirst
<1>4. n \in Nat /\ DOMAIN c = 1 .. n /\ ARP_DEPTH \in Nat
  BY <1>1, BoundsAssumption
<1>5. \A k \in DOMAIN c : c[k] \in CacheEntries
  BY <1>1
<1>6. \A k \in DOMAIN c : copy(k) \in Row /\ copy(k).ip = c[k].ip /\ copy(k) # Blank
  BY <1>5, HopsAssumption DEF CacheEntries, Row, Blank
<1>7. Blank \in Row /\ S \subseteq DOMAIN c
  BY DEF Row, Blank
<1>8. DOMAIN hw = 1 .. ARP_DEPTH /\ hw = [r \in 1 .. ARP_DEPTH |-> hw[r]]
  BY DEF RowsOf
<1>9. \A r \in 1 .. ARP_DEPTH :
          hw[r] = IF r <= n THEN [ip |-> o[r].ip, mac |-> o[r].mac] ELSE Blank
  BY DEF RowsOf
<1>10. /\ m \in 0 .. n
       /\ \A r \in 1 .. n : \E k \in DOMAIN c : o[r] = c[k] /\ (r <= m <=> k \in S)
       /\ \A k \in DOMAIN c : \E r \in 1 .. n : o[r] = c[k] /\ (r <= m <=> k \in S)
       /\ \A r, t \in 1 .. n : r # t =>
             \E k, l \in DOMAIN c : k # l /\ o[r] = c[k] /\ o[t] = c[l]
  BY <1>3 DEF Reordered
<1> HIDE DEF o, hw, m, S
<1>11. \A r \in 1 .. ARP_DEPTH : r <= n =>
          \E k \in DOMAIN c : hw[r] = copy(k) /\ (r <= m <=> k \in S)
  <2>1. \A r \in 1 .. ARP_DEPTH : r <= n => r \in 1 .. n
    BY <1>4
  <2> QED
    BY <1>9, <1>10, <2>1
<1>12. \A k \in DOMAIN c : \E r \in 1 .. n :
          (r <= m <=> k \in S) /\ (r \in 1 .. ARP_DEPTH => hw[r] = copy(k))
  <2>1. TAKE k \in DOMAIN c
  <2>2. PICK r \in 1 .. n : o[r] = c[k] /\ (r <= m <=> k \in S)
    BY <1>10
  <2>3. r <= n
    BY <1>4
  <2>4. r \in 1 .. ARP_DEPTH => hw[r] = copy(k)
    BY <1>9, <2>2, <2>3
  <2> QED
    BY <2>2, <2>4
<1>13. \A r, t \in 1 .. ARP_DEPTH : r <= n /\ t <= n /\ r # t => hw[r] # hw[t]
  <2>1. SUFFICES ASSUME NEW r \in 1 .. ARP_DEPTH, NEW t \in 1 .. ARP_DEPTH,
                        r <= n, t <= n, r # t
                 PROVE  hw[r] # hw[t]
    OBVIOUS
  <2>2. r \in 1 .. n /\ t \in 1 .. n
    BY <1>4, <2>1
  <2>3. PICK k \in DOMAIN c, l \in DOMAIN c : k # l /\ o[r] = c[k] /\ o[t] = c[l]
    BY <1>10, <2>1, <2>2
  <2>4. hw[r] = copy(k) /\ hw[t] = copy(l)
    BY <1>9, <2>1, <2>3
  <2>5. c[k].ip # c[l].ip
    BY <2>3 DEF GoodCache
  <2> QED
    BY <1>6, <2>4, <2>5
<1> HIDE DEF copy
<1>14. hw \in [1 .. ARP_DEPTH -> Row]
  <2>1. \A r \in 1 .. ARP_DEPTH : hw[r] \in Row
    BY <1>6, <1>7, <1>9, <1>11
  <2> QED
    BY <1>8, <2>1
<1>15. rows \subseteq known
  BY <1>9, <1>11
<1>16. ASSUME ARP_DEPTH <= n PROVE Cardinality(rows) = ARP_DEPTH
  <2>1. \A r \in 1 .. ARP_DEPTH : r <= n
    BY <1>4, <1>16
  <2>2. \A r \in 1 .. ARP_DEPTH : hw[r] \in rows
    BY <1>6, <1>11, <2>1
  <2>3. hw \in [1 .. ARP_DEPTH -> rows]
    <3> HIDE DEF rows
    <3> QED
      BY <1>8, <2>2
  <2>4. \A x \in rows : \E r \in 1 .. ARP_DEPTH : hw[r] = x
    OBVIOUS
  <2> HIDE DEF rows
  <2>5. hw \in Injection(1 .. ARP_DEPTH, rows)
    BY <1>13, <2>1, <2>3 DEF Injection, IsInjective
  <2>6. hw \in Surjection(1 .. ARP_DEPTH, rows)
    BY <2>3, <2>4 DEF Surjection
  <2>7. IsFiniteSet(1 .. ARP_DEPTH) /\ Cardinality(1 .. ARP_DEPTH) = ARP_DEPTH
    BY <1>4, IndicesCount
  <2> QED
    BY <2>5, <2>6, <2>7, FS_Surjection
<1>17. ASSUME n <= ARP_DEPTH PROVE known \subseteq rows
  <2>1. \A r \in 1 .. n : r \in 1 .. ARP_DEPTH
    BY <1>4, <1>17
  <2> QED
    BY <1>6, <1>12, <2>1
<1>18. ASSUME m <= ARP_DEPTH PROVE static \subseteq rows
  <2>1. \A r \in 1 .. n : r <= m => r \in 1 .. ARP_DEPTH
    BY <1>4, <1>10, <1>18
  <2> QED
    BY <1>6, <1>7, <1>12, <2>1
<1>19. ASSUME ARP_DEPTH < m PROVE rows \subseteq static
  <2>1. /\ ARP_DEPTH \in Nat /\ m \in Nat /\ n \in Nat
        /\ ARP_DEPTH < m /\ m <= n
    BY <1>4, <1>10, <1>19
  <2>2. \A r \in 1 .. ARP_DEPTH : r <= m /\ r <= n
    <3> HIDE DEF m, n
    <3> QED
      BY <2>1
  <2> QED
    BY <1>11, <2>2
<1>20. (m <= ARP_DEPTH \/ ARP_DEPTH < m) /\ (n <= ARP_DEPTH \/ ARP_DEPTH <= n)
       /\ (ARP_DEPTH < m => ARP_DEPTH <= n)
  BY <1>4, <1>10
<1>21. /\ static \subseteq rows \/ (rows \subseteq static /\ Cardinality(rows) = ARP_DEPTH)
       /\ known \subseteq rows \/ Cardinality(rows) = ARP_DEPTH
  BY <1>16, <1>17, <1>18, <1>19, <1>20
<1>22. Copies(c, hw)
  BY <1>15, <1>21 DEF Copies, copy, S
<1> QED
  BY <1>14, <1>22 DEF hw

-----------------------------------------------------------------------------
(* What becomes of the packets.                                            *)

Handles == Packets \X BOOLEAN

Fates == {"new", "waiting", "sent", "freed", "lost"}

\* Those packets are marked as waiting that wait.
FateInStep(q, ft) == \A h \in Handles : ft[h] = "waiting" <=> Waits(q, h)

\* The sender of a packet that is new or waits has not been told of it.
NotToldYet(ft) ==
    \A p \in Packets : ft[<<p, FALSE>>] \in {"new", "waiting"} => ft[<<p, TRUE>>] = "new"

LEMMA HandleTyped ==
    ASSUME NEW f \in ProperFrames
    PROVE  Handle(f) \in Handles
BY DEF ProperFrames, Frames, Handle, Handles

\* The first packet of an entry is one that waits.
LEMMA FirstFrame ==
    ASSUME NEW q, GoodQueue(q), NEW i \in DOMAIN q
    PROVE  /\ Head(q[i].frames) = q[i].frames[1]
           /\ q[i].frames[1] \in ProperFrames
           /\ Waits(q, Handle(q[i].frames[1]))
<1>1. q \in Seq(ProperEntries) /\ Len(q[i].frames) > 0
  BY DEF GoodQueue, Filled
<1>2. q[i].frames \in Seq(ProperFrames) /\ 1 \in DOMAIN q[i].frames
  BY <1>1, QueueTyped
<1> QED
  BY <1>2 DEF Waits

LEMMA FateAdded ==
    ASSUME NEW q, NEW ft \in [Handles -> Fates], FateInStep(q, ft),
           NEW f \in ProperFrames, NEW r, NEW hop, Joined(q, r, f, hop)
    PROVE  /\ FateInStep(r, [ft EXCEPT ![Handle(f)] = "waiting"])
           /\ [ft EXCEPT ![Handle(f)] = "waiting"] \in [Handles -> Fates]
BY HandleTyped DEF FateInStep, Joined, Fates

LEMMA FateSettled ==
    ASSUME NEW q, NEW ft \in [Handles -> Fates], FateInStep(q, ft),
           NEW h \in Handles, NEW x \in Fates, x # "waiting",
           NEW r, \A g \in Handles : Waits(r, g) <=> Waits(q, g) /\ g # h
    PROVE  /\ FateInStep(r, [ft EXCEPT ![h] = x])
           /\ [ft EXCEPT ![h] = x] \in [Handles -> Fates]
BY DEF FateInStep, Fates

\* A packet that waits is not new again.
LEMMA TellOnce ==
    ASSUME NEW ft \in [Handles -> Fates], NotToldYet(ft), NEW h \in Handles,
           ft[h] = "waiting",
           NEW x \in Fates, x # "new"
    PROVE  NotToldYet([ft EXCEPT ![h] = x])
<1> DEFINE gt == [ft EXCEPT ![h] = x]
<1>1. gt[h] = x /\ \A g \in Handles : g # h => gt[g] = ft[g]
  OBVIOUS
<1> HIDE DEF gt
<1>2. \A p \in Packets : <<p, FALSE>> \in Handles /\ <<p, TRUE>> \in Handles
  BY DEF Handles
<1>3. SUFFICES ASSUME NEW p \in Packets, gt[<<p, FALSE>>] \in {"new", "waiting"}
               PROVE  gt[<<p, TRUE>>] = "new"
  BY DEF NotToldYet, gt
<1>4. ft[<<p, FALSE>>] \in {"new", "waiting"}
  BY <1>1, <1>2, <1>3
<1>5. ft[<<p, TRUE>>] = "new"
  BY <1>4 DEF NotToldYet
<1> QED
  BY <1>1, <1>2, <1>5

-----------------------------------------------------------------------------
(* The inductive invariant, by the variables its parts are about.          *)

QueueInv ==
    /\ GoodQueue(arp_queue)
    /\ fate \in [Handles -> Fates]
    /\ FateInStep(arp_queue, fate)
    /\ NotToldYet(fate)

CacheInv ==
    /\ GoodCache(arp_cache)
    /\ hwRows \in [1 .. ARP_DEPTH -> Row]

PlaceInv ==
    /\ input \in [at : {"idle", "between locks", "send"}, hop : Hops \cup {NoHop}]
    /\ arp \in [at : {"awake", "walk", "asleep"}, i : Nat \ {0}]
    /\ ~(input.at = "send" /\ arp.at = "walk")

IInv ==
    /\ QueueInv
    /\ CacheInv
    /\ PlaceInv
    /\ WaitingIsUnresolved

\* Who is waited for now was waited for before, or is not known.
NewHopsUnknown ==
    \A i \in DOMAIN arp_queue' :
        \/ InCache(arp_queue'[i].next_hop) = {}
        \/ \E k \in DOMAIN arp_queue : arp_queue[k].next_hop = arp_queue'[i].next_hop

\* The invariant says what the properties say.
LEMMA ProperIsTyped ==
    ASSUME NEW q \in Seq(ProperEntries)
    PROVE  q \in Seq(QueueEntries)
<1>1. \A s \in Seq(ProperFrames) : s \in Seq(Frames)
  BY DEF ProperFrames
<1>2. \A e \in ProperEntries : e \in QueueEntries
  BY <1>1 DEF ProperEntries, QueueEntries
<1> QED
  BY <1>2

LEMMA InvariantTypes == IInv => TypeOK
<1> SUFFICES ASSUME IInv PROVE TypeOK
  OBVIOUS
<1>1. arp_queue \in Seq(QueueEntries)
  BY ProperIsTyped DEF IInv, QueueInv, GoodQueue
<1> QED
  BY <1>1 DEF IInv, QueueInv, CacheInv, GoodCache, PlaceInv, TypeOK, Handles, Fates

\* In a good queue a packet has one place or none.
LEMMA PlacesCounted ==
    ASSUME GoodQueue(arp_queue), NEW h
    PROVE  Cardinality(Places(h)) = IF Waits(arp_queue, h) THEN 1 ELSE 0
<1>1. \A x : x \in Places(h) <=>
          \E i \in DOMAIN arp_queue : \E j \in DOMAIN arp_queue[i].frames :
              x = <<i, j>> /\ Handle(arp_queue[i].frames[j]) = h
  BY DEF Places
<1>2. CASE Waits(arp_queue, h)
  <2>1. PICK i \in DOMAIN arp_queue :
            \E j \in DOMAIN arp_queue[i].frames : Handle(arp_queue[i].frames[j]) = h
    BY <1>2 DEF Waits
  <2>2. PICK j \in DOMAIN arp_queue[i].frames : Handle(arp_queue[i].frames[j]) = h
    BY <2>1
  <2>3. Unique(arp_queue)
    BY DEF GoodQueue
  <2>4. <<i, j>> \in Places(h)
    BY <1>1, <2>2
  <2>5. ASSUME NEW x \in Places(h) PROVE x = <<i, j>>
    <3>1. PICK k \in DOMAIN arp_queue : \E l \in DOMAIN arp_queue[k].frames :
              x = <<k, l>> /\ Handle(arp_queue[k].frames[l]) = h
      BY <1>1
    <3>2. PICK l \in DOMAIN arp_queue[k].frames :
              x = <<k, l>> /\ Handle(arp_queue[k].frames[l]) = h
      BY <3>1
    <3>3. k = i /\ l = j
      BY <2>2, <2>3, <3>2 DEF Unique
    <3> QED
      BY <3>2, <3>3
  <2>6. Places(h) = {<<i, j>>}
    BY <2>4, <2>5
  <2> QED
    BY <1>2, <2>6, FS_Singleton
<1>3. CASE ~Waits(arp_queue, h)
  <2>1. Places(h) = {}
    BY <1>1, <1>3 DEF Waits
  <2> QED
    BY <1>3, <2>1, FS_EmptySet
<1> QED
  BY <1>2, <1>3

LEMMA InvariantConsistent == IInv => QueueConsistent
<1> SUFFICES ASSUME IInv PROVE QueueConsistent
  OBVIOUS
<1>1. GoodQueue(arp_queue) /\ FateInStep(arp_queue, fate) /\ GoodCache(arp_cache)
  BY DEF IInv, QueueInv, CacheInv
<1>2. WaitsOnce
  BY <1>1, PlacesCounted DEF WaitsOnce, FateInStep, Handles
<1>3. \A i \in DOMAIN arp_queue : arp_queue[i].frames # <<>>
  BY <1>1 DEF GoodQueue, Filled
<1>4. OneEntryPerHop
  BY <1>1, <1>3 DEF OneEntryPerHop, GoodCache, GoodQueue, HopsDiffer
<1> QED
  BY <1>2, <1>4 DEF QueueConsistent, IInv

-----------------------------------------------------------------------------
(* Initially.                                                              *)

LEMMA InitInvariant == Init => IInv
<1> SUFFICES ASSUME Init PROVE IInv
  OBVIOUS
<1>1. GoodQueue(arp_queue) /\ \A h : ~Waits(arp_queue, h)
  BY DEF Init, GoodQueue, Unique, HopsDiffer, Filled, Waits
<1>2. fate \in [Handles -> Fates] /\ \A h \in Handles : fate[h] = "new"
  BY DEF Init, Handles, Fates
<1>3. FateInStep(arp_queue, fate)
  BY <1>1, <1>2 DEF FateInStep
<1>4. NotToldYet(fate)
  BY <1>2 DEF NotToldYet, Handles
<1>5. CacheInv
  BY DEF Init, CacheInv, GoodCache, Row, Blank
<1>6. PlaceInv
  BY DEF Init, PlaceInv
<1>7. WaitingIsUnresolved
  BY DEF Init, WaitingIsUnresolved
<1> QED
  BY <1>1, <1>2, <1>3, <1>4, <1>5, <1>6, <1>7 DEF IInv, QueueInv

-----------------------------------------------------------------------------
(* The steps that leave a part alone.                                      *)

LEMMA QueueKept == QueueInv /\ UNCHANGED <<arp_queue, fate>> => QueueInv'
<1> SUFFICES ASSUME QueueInv, arp_queue' = arp_queue, fate' = fate PROVE QueueInv'
  OBVIOUS
<1> QED
  BY DEF QueueInv

LEMMA CacheKept == CacheInv /\ UNCHANGED <<arp_cache, hwRows>> => CacheInv'
<1> SUFFICES ASSUME CacheInv, arp_cache' = arp_cache, hwRows' = hwRows PROVE CacheInv'
  OBVIOUS
<1> QED
  BY DEF CacheInv

LEMMA PlaceKept == PlaceInv /\ UNCHANGED <<input, arp>> => PlaceInv'
<1> SUFFICES ASSUME PlaceInv, input' = input, arp' = arp PROVE PlaceInv'
  OBVIOUS
<1> QED
  BY DEF PlaceInv

\* WaitingIsUnresolved, of any cache, queue and place of the input thread.
Unresolved(c, q, in) ==
    \A i \in DOMAIN q : \A k \in DOMAIN c :
        c[k].ip = q[i].next_hop =>
            c[k].is_static \/ (in.at # "idle" /\ in.hop = q[i].next_hop)

LEMMA UnresolvedSaid == WaitingIsUnresolved <=> Unresolved(arp_cache, arp_queue, input)
BY DEF WaitingIsUnresolved, Unresolved, InCache

LEMMA UnresolvedSaidNext == WaitingIsUnresolved' <=> Unresolved(arp_cache', arp_queue', input')
<1>1. (WaitingIsUnresolved <=> Unresolved(arp_cache, arp_queue, input))'
  BY UnresolvedSaid, PTL
<1> QED
  BY <1>1

\* The ARP thread moves on.
LEMMA PlaceMoved ==
    ASSUME PlaceInv, input' = input, NEW at \in {"awake", "walk",
                                                 "asleep"}, NEW i \in Nat \ {0},
           at = "walk" => input.at # "send", arp' = [at |-> at, i |-> i]
    PROVE  PlaceInv'
<1>1. [at |-> at, i |-> i] \in [at : {"awake", "walk", "asleep"}, i : Nat \ {0}]
  OBVIOUS
<1>2. [at |-> at, i |-> i].at = at
  OBVIOUS
<1> DEFINE a == [at |-> at, i |-> i]
<1> HIDE DEF a
<1>3. a \in [at : {"awake", "walk", "asleep"}, i : Nat \ {0}] /\ a.at = at /\ arp' = a
  BY <1>1, <1>2 DEF a
<1> QED
  BY <1>3 DEF PlaceInv

LEMMA PlaceAdvanced ==
    ASSUME PlaceInv, input' = input, arp.at = "walk", arp' = [arp EXCEPT !.i = arp.i + 1]
    PROVE  PlaceInv'
<1>1. arp.i \in Nat \ {0} /\ input.at # "send" /\ arp = [at |-> "walk", i |-> arp.i]
  BY DEF PlaceInv
<1>2. arp' = [at |-> "walk", i |-> arp.i + 1]
  BY <1>1
<1>3. arp.i + 1 \in Nat \ {0}
  BY <1>1
<1> QED
  BY <1>1, <1>2, <1>3, PlaceMoved

LEMMA UnresolvedKept ==
    WaitingIsUnresolved /\ UNCHANGED <<arp_cache,
                                       input>> /\ NewHopsUnknown => WaitingIsUnresolved'
<1> SUFFICES ASSUME WaitingIsUnresolved, arp_cache' = arp_cache, input' = input,
    NewHopsUnknown
             PROVE  Unresolved(arp_cache, arp_queue', input)
  BY UnresolvedSaidNext
<1>1. Unresolved(arp_cache, arp_queue, input)
  BY UnresolvedSaid
<1> QED
  BY <1>1 DEF NewHopsUnknown, Unresolved, InCache

LEMMA OldHopsSuffice == OldHops(arp_queue, arp_queue') => NewHopsUnknown
BY DEF OldHops, NewHopsUnknown

-----------------------------------------------------------------------------
(* The steps that change the queue.                                        *)

LEMMA SendKeepsQueue ==
    ASSUME QueueInv, NEW p \in Packets, NEW hop \in Hops, NEW back \in Hops \cup {NoHop},
           Send(p, back, hop)
    PROVE  QueueInv' /\ NewHopsUnknown
<1> DEFINE f == [id |-> p, err |-> FALSE, back |-> back]
           h == <<p, FALSE>>
<1>1. f \in ProperFrames /\ Handle(f) = h /\ h \in Handles
  BY DEF ProperFrames, Frames, Handle, Handles
<1>2. fate[h] = "new" /\ send_ip(f, hop)
  BY <1>1 DEF Send
<1> HIDE DEF f
<1>3. /\ GoodQueue(arp_queue) /\ fate \in [Handles -> Fates]
      /\ FateInStep(arp_queue, fate) /\ NotToldYet(fate)
  BY DEF QueueInv
<1>4. ~Waits(arp_queue, h)
  BY <1>1, <1>2, <1>3 DEF FateInStep
<1>5. ASSUME NEW x \in Fates, fate' = [fate EXCEPT ![h] = x]
      PROVE  NotToldYet(fate')
  <2>1. SUFFICES ASSUME NEW r \in Packets, fate'[<<r, FALSE>>] \in {"new", "waiting"}
                 PROVE  fate'[<<r, TRUE>>] = "new"
    BY DEF NotToldYet
  <2>2. <<r, FALSE>> \in Handles /\ <<r, TRUE>> \in Handles /\ <<r, TRUE>> # h
    BY DEF Handles
  <2>3. fate[<<r, FALSE>>] \in {"new", "waiting"}
    BY <1>2, <1>3, <1>5, <2>1, <2>2
  <2>4. fate[<<r, TRUE>>] = "new"
    BY <1>3, <2>3 DEF NotToldYet
  <2> QED
    BY <1>3, <1>5, <2>2, <2>4
<1>6. CASE Cached(hop)
  <2>1. fate' = [fate EXCEPT ![h] = "sent"] /\ arp_queue' = arp_queue
    BY <1>1, <1>2, <1>6 DEF send_ip
  <2>2. "sent" \in Fates
        /\ \A g \in Handles : Waits(arp_queue, g) <=> Waits(arp_queue, g) /\ g # h
    BY <1>4 DEF Fates
  <2>3. FateInStep(arp_queue, fate') /\ fate' \in [Handles -> Fates]
    BY <1>1, <1>3, <2>1, <2>2, FateSettled
  <2>4. NotToldYet(fate')
    BY <1>5, <2>1, <2>2
  <2> QED
    BY <1>3, <2>1, <2>3, <2>4 DEF QueueInv, NewHopsUnknown
<1>7. CASE ~Cached(hop)
  <2>1. /\ fate' = [fate EXCEPT ![h] = "waiting"]
        /\ arp_queue' = arp_queue_add(arp_queue, f, hop)
    BY <1>1, <1>2, <1>7 DEF send_ip
  <2>2. Joined(arp_queue, arp_queue', f, hop)
    BY <1>1, <1>3, <1>4, <2>1, AddGood
  <2>3. FateInStep(arp_queue', fate') /\ fate' \in [Handles -> Fates]
    BY <1>1, <1>3, <2>1, <2>2, FateAdded
  <2>4. NotToldYet(fate')
    BY <1>5, <2>1 DEF Fates
  <2>5. GoodQueue(arp_queue') /\ NoNewHop(arp_queue, arp_queue', hop)
    BY <2>2 DEF Joined
  <2>6. NewHopsUnknown
    BY <1>7, <2>5 DEF NewHopsUnknown, NoNewHop, Cached
  <2> QED
    BY <2>3, <2>4, <2>5, <2>6 DEF QueueInv
<1> QED
  BY <1>6, <1>7

\* The first packet of an entry leaves for good.
LEMMA Leaves ==
    ASSUME QueueInv, NEW i \in DOMAIN arp_queue, NEW x \in Fates \ {"new", "waiting"},
           NEW f, f = arp_queue[i].frames[1],
           NEW r, Departed(arp_queue, r, f)
    PROVE  /\ GoodQueue(r) /\ FateInStep(r, [fate EXCEPT ![Handle(f)] = x])
           /\ [fate EXCEPT ![Handle(f)] = x] \in [Handles -> Fates]
           /\ NotToldYet([fate EXCEPT ![Handle(f)] = x])
           /\ OldHops(arp_queue, r)
<1>1. /\ GoodQueue(arp_queue) /\ fate \in [Handles -> Fates]
      /\ FateInStep(arp_queue, fate) /\ NotToldYet(fate)
  BY DEF QueueInv
<1>2. GoodQueue(r) /\ OldHops(arp_queue, r)
      /\ \A h : Waits(r, h) <=> Waits(arp_queue, h) /\ h # Handle(f)
  BY DEF Departed
<1>3. f \in ProperFrames /\ Waits(arp_queue, Handle(f))
  BY <1>1, FirstFrame
<1>4. Handle(f) \in Handles /\ fate[Handle(f)] = "waiting"
  BY <1>1, <1>3, HandleTyped DEF FateInStep
<1>5. FateInStep(r, [fate EXCEPT ![Handle(f)] = x])
      /\ [fate EXCEPT ![Handle(f)] = x] \in [Handles -> Fates]
  BY <1>1, <1>2, <1>4, FateSettled
<1>6. NotToldYet([fate EXCEPT ![Handle(f)] = x])
  BY <1>1, <1>4, TellOnce
<1> QED
  BY <1>2, <1>5, <1>6

LEMMA SendQueuedKeepsQueue ==
    ASSUME IInv, SendQueued
    PROVE  QueueInv' /\ NewHopsUnknown
<1>1. /\ GoodQueue(arp_queue) /\ fate \in [Handles -> Fates]
      /\ FateInStep(arp_queue, fate) /\ NotToldYet(fate) /\ QueueInv
  BY DEF IInv, QueueInv
<1>2. PICK i \in FirstFor(arp_queue, input.hop) :
          LET f    == Head(arp_queue[i].frames)
              last == Len(arp_queue[i].frames) = 1
              back == IF Cached(input.hop) THEN arp_queue
                      ELSE arp_queue_add(arp_queue, f, input.hop)
          IN /\ arp_queue' = RemoveFirst(back, i, last)
             /\ fate' = [fate EXCEPT ![Handle(f)] =
                            IF Cached(input.hop) THEN "sent"
                            ELSE IF last THEN "lost" ELSE "waiting"]
  BY DEF SendQueued
<1> DEFINE f == Head(arp_queue[i].frames)
           last == Len(arp_queue[i].frames) = 1
<1>3. /\ arp_queue \in Seq(ProperEntries) /\ i \in DOMAIN arp_queue
      /\ arp_queue[i].next_hop = input.hop /\ input.hop \in Hops
  <2>1. arp_queue \in Seq(ProperEntries)
    BY <1>1 DEF GoodQueue
  <2>2. i \in DOMAIN arp_queue /\ arp_queue[i].next_hop = input.hop
    BY <2>1, FirstForProperties
  <2> QED
    BY <2>1, <2>2, QueueTyped
<1>4. f = arp_queue[i].frames[1] /\ f \in ProperFrames /\ Waits(arp_queue, Handle(f))
  BY <1>1, <1>3, FirstFrame
<1>5. Handle(f) \in Handles /\ fate[Handle(f)] = "waiting"
  BY <1>1, <1>4, HandleTyped DEF FateInStep
<1>6. CASE Cached(input.hop)
  <2>1. arp_queue' = RemoveFirst(arp_queue, i,
                                 last) /\ fate' = [fate EXCEPT ![Handle(f)] = "sent"]
    BY <1>2, <1>6
  <2> HIDE DEF f
  <2>2. Departed(arp_queue, arp_queue', f)
    BY <1>1, <1>3, <1>4, <2>1, RemoveGood
  <2>3. "sent" \in Fates \ {"new", "waiting"}
    BY DEF Fates
  <2>4. /\ GoodQueue(arp_queue') /\ FateInStep(arp_queue', fate')
        /\ fate' \in [Handles -> Fates] /\ NotToldYet(fate')
           /\ OldHops(arp_queue, arp_queue')
    BY <1>1, <1>3, <1>4, <2>1, <2>2, <2>3, Leaves
  <2> QED
    BY <2>4, OldHopsSuffice DEF QueueInv
<1>7. CASE ~Cached(input.hop)
  <2> DEFINE r == RemoveFirst(arp_queue_add(arp_queue, f, input.hop), i, last)
             x == IF last THEN "lost" ELSE "waiting"
  <2>1. arp_queue' = r /\ fate' = [fate EXCEPT ![Handle(f)] = x]
    BY <1>2, <1>7
  <2>2. /\ GoodQueue(r) /\ OldHops(arp_queue, r)
        /\ \A h : Waits(r, h) <=> Waits(arp_queue, h) /\ (last => h # Handle(f))
    BY <1>1, <1>3, AddAgain
  <2>3. x \in Fates /\ x # "new" /\ (x = "waiting" <=> ~last)
    BY DEF Fates
  <2> HIDE DEF f, last, r, x
  <2>4. FateInStep(r, fate') /\ fate' \in [Handles -> Fates]
    BY <1>1, <1>4, <1>5, <2>1, <2>2, <2>3 DEF FateInStep
  <2>5. NotToldYet(fate')
    BY <1>1, <1>5, <2>1, <2>3, TellOnce
  <2> QED
    BY <2>1, <2>2, <2>4, <2>5, OldHopsSuffice DEF QueueInv
<1> QED
  BY <1>6, <1>7

(***************************************************************************)
(* An ICMP error, once in the queue, is behind the packet it is about or   *)
(* in another entry: that packet still comes first in its own.             *)
(***************************************************************************)
LEMMA WalkGiveUpKeepsQueue ==
    ASSUME IInv, WalkGiveUp
    PROVE  QueueInv' /\ NewHopsUnknown
<1> DEFINE i       == arp.i
           f       == Head(arp_queue[i].frames)
           err     == ErrorFor(f)
           waits   == f.back # NoHop /\ ~Cached(f.back)
           added   == IF waits THEN arp_queue_add(arp_queue, err, f.back) ELSE arp_queue
           freed   == [fate EXCEPT ![Handle(f)] = "freed"]
           h       == Handle(f)
           g       == Handle(err)
<1>1. /\ arp_queue' = RemoveFirst(added, i, Len(added[i].frames) = 1)
      /\ fate' = IF f.back = NoHop THEN freed
                 ELSE [freed EXCEPT ![g] = IF waits THEN "waiting" ELSE "sent"]
  BY Zenon DEF WalkGiveUp, NoneFollows
<1>2. /\ GoodQueue(arp_queue) /\ fate \in [Handles -> Fates]
      /\ FateInStep(arp_queue, fate) /\ NotToldYet(fate) /\ QueueInv
  BY DEF IInv, QueueInv
<1>3. i \in DOMAIN arp_queue
  <2>1. arp_queue \in Seq(ProperEntries)
    BY <1>2 DEF GoodQueue
  <2>2. arp.i \in Nat \ {0}
    BY DEF IInv, PlaceInv
  <2>3. arp.i <= Len(arp_queue)
    BY DEF WalkGiveUp
  <2>4. Len(arp_queue) \in Nat /\ DOMAIN arp_queue = 1 .. Len(arp_queue)
    BY <2>1
  <2> QED
    BY <2>2, <2>3, <2>4
<1>4. f = arp_queue[i].frames[1] /\ f \in ProperFrames /\ Waits(arp_queue, h)
  BY <1>2, <1>3, FirstFrame
<1>5. h \in Handles /\ fate[h] = "waiting"
  BY <1>2, <1>4, HandleTyped DEF FateInStep
<1>6. err \in ProperFrames /\ g \in Handles /\ g = <<f.id, TRUE>> /\ f.id \in Packets
      /\ f.back \in Hops \cup {NoHop}
  BY <1>4 DEF ProperFrames, Frames, ErrorFor, Handle, Handles
<1>7. f.back # NoHop => h = <<f.id, FALSE>>
  BY <1>4 DEF ProperFrames, Frames, Handle
<1> HIDE DEF f, err, h, g
<1>8. ASSUME f.back # NoHop PROVE fate[g] = "new" /\ ~Waits(arp_queue, g) /\ g # h
  <2>1. fate[<<f.id, FALSE>>] = "waiting"
    BY <1>5, <1>7, <1>8
  <2>2. fate[g] = "new"
    BY <1>2, <1>6, <2>1 DEF NotToldYet
  <2> QED
    BY <1>2, <1>5, <1>6, <2>2 DEF FateInStep
<1>9. ASSUME NEW x \in Fates, f.back # NoHop,
             NEW ft, ft = [freed EXCEPT ![g] = x]
      PROVE  NotToldYet(ft)
  <2>1. NotToldYet(freed)
    BY <1>2, <1>5, TellOnce DEF Fates, h
  <2>2. freed[<<f.id, FALSE>>] = "freed"
    BY <1>2, <1>5, <1>7, <1>9 DEF h
  <2>3. freed \in [Handles -> Fates]
    BY <1>2, <1>5 DEF Fates, h
  <2> HIDE DEF freed
  <2>4. SUFFICES ASSUME NEW p \in Packets, ft[<<p, FALSE>>] \in {"new", "waiting"}
                 PROVE  ft[<<p, TRUE>>] = "new"
    BY DEF NotToldYet
  <2>5. <<p, FALSE>> \in Handles /\ <<p, TRUE>> \in Handles /\ <<p, FALSE>> # g
    BY <1>6 DEF Handles
  <2>6. freed[<<p, FALSE>>] \in {"new", "waiting"}
    BY <1>9, <2>3, <2>4, <2>5
  <2>7. p # f.id
    BY <2>2, <2>6
  <2>8. <<p, TRUE>> # g
    BY <1>6, <2>7
  <2>9. freed[<<p, TRUE>>] = "new"
    BY <2>1, <2>6 DEF NotToldYet
  <2> QED
    BY <1>9, <2>3, <2>5, <2>8, <2>9
<1>10. CASE f.back = NoHop
  <2>1. added = arp_queue /\ fate' = [fate EXCEPT ![Handle(f)] = "freed"]
    BY <1>1, <1>10
  <2>2. Departed(arp_queue, arp_queue', f)
    BY <1>1, <1>2, <1>3, <1>4, <2>1, RemoveGood
  <2>3. "freed" \in Fates \ {"new", "waiting"}
    BY DEF Fates
  <2>4. /\ GoodQueue(arp_queue') /\ FateInStep(arp_queue', fate')
        /\ fate' \in [Handles -> Fates] /\ NotToldYet(fate')
           /\ OldHops(arp_queue, arp_queue')
    BY <1>2, <1>3, <1>4, <2>1, <2>2, <2>3, Leaves
  <2> QED
    BY <2>4, OldHopsSuffice DEF QueueInv
<1>11. CASE f.back # NoHop /\ ~waits
  <2>1. added = arp_queue /\ fate' = [freed EXCEPT ![g] = "sent"]
    BY <1>1, <1>11
  <2>2. Departed(arp_queue, arp_queue', f)
    BY <1>1, <1>2, <1>3, <1>4, <2>1, RemoveGood
  <2>3. "freed" \in Fates \ {"new", "waiting"} /\ "sent" \in Fates
    BY DEF Fates
  <2>4. /\ GoodQueue(arp_queue') /\ FateInStep(arp_queue', freed)
        /\ freed \in [Handles -> Fates] /\ OldHops(arp_queue, arp_queue')
    BY <1>2, <1>3, <1>4, <2>2, <2>3, Leaves
  <2>5. ~Waits(arp_queue', g)
    BY <1>8, <1>11, <2>2 DEF Departed
  <2>6. FateInStep(arp_queue', fate') /\ fate' \in [Handles -> Fates]
    <3> HIDE DEF freed
    <3>1. \A k \in Handles : Waits(arp_queue', k) <=> Waits(arp_queue', k) /\ k # g
      BY <2>5
    <3>2. "sent" \in Fates /\ "sent" # "waiting"
      BY <2>3
    <3> QED
      BY <1>6, <2>1, <2>4, <3>1, <3>2, FateSettled
  <2>7. NotToldYet(fate')
    BY <1>9, <1>11, <2>1, <2>3
  <2> QED
    BY <2>4, <2>6, <2>7, OldHopsSuffice DEF QueueInv
<1>12. CASE f.back # NoHop /\ waits
  <2>1. /\ added = arp_queue_add(arp_queue, err, f.back)
        /\ fate' = [freed EXCEPT ![g] = "waiting"]
        /\ f.back \in Hops /\ ~Cached(f.back)
    BY <1>1, <1>6, <1>12
  <2> DEFINE asked == [fate EXCEPT ![g] = "waiting"]
  <2>2. Joined(arp_queue, added, err, f.back)
    BY <1>2, <1>6, <1>8, <1>12, <2>1, AddGood DEF g
  <2>3. FateInStep(added, asked) /\ asked \in [Handles -> Fates]
    BY <1>2, <1>6, <2>2, FateAdded DEF g
  <2>4. fate' = [asked EXCEPT ![h] = "freed"]
    BY <1>2, <1>5, <1>6, <1>8, <1>12, <2>1 DEF h
  <2>5. GoodQueue(added) /\ i \in DOMAIN added /\ added[i].frames[1] = f
    BY <1>3, <1>4, <2>2 DEF Joined
  <2> HIDE DEF added, asked
  <2>6. Departed(added, arp_queue', f)
    BY <1>1, <2>5, RemoveGood
  <2>7. GoodQueue(arp_queue') /\ OldHops(added, arp_queue')
        /\ NoNewHop(arp_queue, added, f.back)
    BY <2>2, <2>6 DEF Departed, Joined
  <2>8. "freed" \in Fates
        /\ \A k \in Handles : Waits(arp_queue', k) <=> Waits(added, k) /\ k # h
    BY <2>6 DEF Departed, Fates, h
  <2>9. FateInStep(arp_queue', fate') /\ fate' \in [Handles -> Fates]
    <3>1. "freed" \in Fates /\ "freed" # "waiting"
      BY DEF Fates
    <3>2. /\ FateInStep(arp_queue', [asked EXCEPT ![h] = "freed"])
          /\ [asked EXCEPT ![h] = "freed"] \in [Handles -> Fates]
      BY <1>5, <2>3, <2>8, <3>1, FateSettled, Zenon
    <3> QED
      BY <2>4, <3>2
  <2>10. NotToldYet(fate')
    BY <1>9, <1>12, <2>1 DEF Fates
  <2>11. NewHopsUnknown
    BY <2>1, <2>7 DEF OldHops, NoNewHop, NewHopsUnknown, Cached
  <2> QED
    BY <2>7, <2>9, <2>10, <2>11 DEF QueueInv
<1> QED
  BY <1>10, <1>11, <1>12

\* Time goes on, and a request is repeated.
LEMMA CountsKeepQueue ==
    ASSUME QueueInv, arp_queue' \in Seq(ProperEntries),
           DOMAIN arp_queue' = DOMAIN arp_queue,
           \A i \in DOMAIN arp_queue : /\ arp_queue'[i].next_hop = arp_queue[i].next_hop
                                      /\ arp_queue'[i].frames = arp_queue[i].frames,
           fate' = fate
    PROVE  QueueInv' /\ NewHopsUnknown
<1>1. /\ GoodQueue(arp_queue') /\ (\A h : Waits(arp_queue', h) <=> Waits(arp_queue, h))
      /\ OldHops(arp_queue, arp_queue')
  BY SameFrames DEF QueueInv
<1>2. FateInStep(arp_queue', fate')
  BY <1>1 DEF QueueInv, FateInStep
<1> QED
  BY <1>1, <1>2, OldHopsSuffice DEF QueueInv

LEMMA SecondKeepsQueue ==
    ASSUME QueueInv, Second
    PROVE  QueueInv' /\ NewHopsUnknown
<1> DEFINE e(i) == [arp_queue[i] EXCEPT !.age = IF @ < 2 THEN @ + 1 ELSE 2]
<1>1. arp_queue' = [i \in DOMAIN arp_queue |-> e(i)] /\ fate' = fate
  BY DEF Second
<1>2. arp_queue \in Seq(ProperEntries)
  BY DEF QueueInv, GoodQueue
<1>3. Len(arp_queue) \in Nat /\ DOMAIN arp_queue = 1 .. Len(arp_queue)
  BY <1>2
<1>4. ASSUME NEW i \in DOMAIN arp_queue
      PROVE  /\ e(i) \in ProperEntries /\ e(i).next_hop = arp_queue[i].next_hop
             /\ e(i).frames = arp_queue[i].frames
  <2>1. arp_queue[i] \in ProperEntries
    BY <1>2
  <2>2. (IF arp_queue[i].age < 2 THEN arp_queue[i].age + 1 ELSE 2) \in 0 .. 2
    BY <2>1, EntryTyped
  <2> QED
    BY <2>1, <2>2 DEF ProperEntries
<1> HIDE DEF e
<1>5. arp_queue' \in Seq(ProperEntries)
  BY <1>1, <1>3, <1>4
<1>6. /\ DOMAIN arp_queue' = DOMAIN arp_queue
      /\ \A i \in DOMAIN arp_queue : arp_queue'[i] = e(i)
  BY <1>1
<1> QED
  BY <1>1, <1>4, <1>5, <1>6, CountsKeepQueue

LEMMA WalkRequestKeepsQueue ==
    ASSUME IInv, WalkRequest
    PROVE  QueueInv' /\ NewHopsUnknown
<1> DEFINE i == arp.i
           n == arp_queue[i].requests
           e == [arp_queue[i] EXCEPT !.age = 0, !.requests = n + 1]
<1>1. /\ arp_queue' = [arp_queue EXCEPT ![i].age = 0, ![i].requests = n + 1]
      /\ fate' = fate /\ n < MAX_REQUESTS /\ i <= Len(arp_queue)
  BY DEF WalkRequest
<1>2. arp_queue \in Seq(ProperEntries) /\ i \in Nat \ {0} /\ QueueInv
  BY DEF IInv, QueueInv, GoodQueue, PlaceInv
<1>3. i \in DOMAIN arp_queue
  BY <1>1, <1>2
<1>4. arp_queue[i] \in ProperEntries /\ n \in 1 .. MAX_REQUESTS
  BY <1>2, <1>3, EntryTyped
<1>5. n + 1 \in 1 .. MAX_REQUESTS /\ 0 \in 0 .. 2
  BY <1>1, <1>4, BoundsAssumption
<1> HIDE DEF n
<1>6. e \in ProperEntries /\ e.next_hop = arp_queue[i].next_hop
      /\ e.frames = arp_queue[i].frames
  BY <1>4, <1>5 DEF ProperEntries
<1>7. arp_queue' = [arp_queue EXCEPT ![i] = e]
  BY <1>1, <1>2, <1>3, <1>4 DEF ProperEntries
<1> HIDE DEF e
<1>8. /\ arp_queue' \in Seq(ProperEntries) /\ DOMAIN arp_queue' = DOMAIN arp_queue
      /\ arp_queue'[i] = e
      /\ \A k \in DOMAIN arp_queue : k # i => arp_queue'[k] = arp_queue[k]
  BY <1>2, <1>3, <1>6, <1>7
<1> HIDE DEF i
<1>9. \A k \in DOMAIN arp_queue : /\ arp_queue'[k].next_hop = arp_queue[k].next_hop
                                 /\ arp_queue'[k].frames = arp_queue[k].frames
  BY <1>6, <1>8
<1>10. fate' = fate
  BY <1>1
<1> QED
  BY <1>2, <1>8, <1>9, <1>10, CountsKeepQueue

-----------------------------------------------------------------------------
(* The steps that change the cache.                                        *)

LEMMA UpdateTakes ==
    ASSUME GoodCache(arp_cache), NEW ip \in Hops, NEW mac \in Macs,
           NEW is_static \in BOOLEAN,
           update_arp_cache(ip, mac, is_static)
    PROVE  /\ Took(arp_cache, arp_cache',
                   [ip |-> ip, mac |-> mac, is_static |-> is_static])
           /\ write_arp_cache_to_hw(arp_cache')
<1> DEFINE e == [ip |-> ip, mac |-> mac, is_static |-> is_static]
<1>1. e \in CacheEntries /\ e.ip = ip
  BY DEF CacheEntries
<1>2. /\ arp_cache' = IF Cached(ip)
                      THEN [arp_cache EXCEPT ![CHOOSE i \in InCache(ip) : TRUE] = e]
                      ELSE Append(arp_cache, e)
      /\ write_arp_cache_to_hw(arp_cache')
  BY DEF update_arp_cache, node_push_back
<1> HIDE DEF e
<1>3. CASE Cached(ip)
  <2> DEFINE i == CHOOSE i \in InCache(ip) : TRUE
  <2>1. i \in DOMAIN arp_cache /\ arp_cache[i].ip = e.ip
    BY <1>1, <1>3 DEF Cached, InCache
  <2>2. arp_cache' = [arp_cache EXCEPT ![i] = e]
    BY <1>2, <1>3
  <2> HIDE DEF i
  <2>3. Took(arp_cache, [arp_cache EXCEPT ![i] = e], e)
    BY <1>1, <2>1, TakeKnown
  <2> QED
    BY <1>2, <2>2, <2>3 DEF e
<1>4. CASE ~Cached(ip)
  <2>1. \A i \in DOMAIN arp_cache : arp_cache[i].ip # e.ip
    BY <1>1, <1>4 DEF Cached, InCache
  <2>2. arp_cache' = Append(arp_cache, e)
    BY <1>2, <1>4
  <2>3. Took(arp_cache, Append(arp_cache, e), e)
    BY <1>1, <2>1, TakeNew
  <2> QED
    BY <1>2, <2>2, <2>3 DEF e
<1> QED
  BY <1>3, <1>4

LEMMA WritingCopies ==
    ASSUME GoodCache(arp_cache'), write_arp_cache_to_hw(arp_cache')
    PROVE  CacheInv' /\ HardwareCopiesCache
<1>1. hwRows' = RowsOf(arp_cache')
  BY DEF write_arp_cache_to_hw, RowsOf
<1>2. RowsOf(arp_cache') \in [1 .. ARP_DEPTH -> Row]
      /\ Copies(arp_cache', RowsOf(arp_cache'))
  BY RowsCopy
<1>3. hwRows' \in [1 .. ARP_DEPTH -> Row] /\ Copies(arp_cache', hwRows')
  BY <1>1, <1>2
<1>4. HardwareCopiesCache
  BY <1>3, Zenon DEF Copies, HardwareCopiesCache
<1> QED
  BY <1>3, <1>4 DEF CacheInv

\* A reply is taken: who waits for it may do so until the thread has sent it.
LEMMA ReplyArrivesStep ==
    ASSUME IInv, NEW hop \in Hops, NEW mac \in Macs, ReplyArrives(hop, mac)
    PROVE  IInv' /\ HardwareCopiesCache
<1> DEFINE e == [ip |-> hop, mac |-> mac, is_static |-> FALSE]
<1>1. GoodCache(arp_cache) /\ Unresolved(arp_cache, arp_queue,
                                         input) /\ PlaceInv /\ QueueInv
  BY UnresolvedSaid DEF IInv, CacheInv
<1>2. /\ input.at = "idle" /\ update_arp_cache(hop, mac, FALSE)
      /\ input' = [at |-> "between locks", hop |-> hop]
      /\ arp_queue' = arp_queue /\ fate' = fate /\ arp' = arp
  BY DEF ReplyArrives
<1>3. Took(arp_cache, arp_cache', e) /\ write_arp_cache_to_hw(arp_cache')
  BY <1>1, <1>2, UpdateTakes
<1>4. CacheInv' /\ HardwareCopiesCache
  BY <1>3, WritingCopies DEF Took
<1>5. QueueInv'
  BY <1>1, <1>2, QueueKept
<1>6. PlaceInv'
  BY <1>1, <1>2 DEF PlaceInv
<1>7. Unresolved(arp_cache', arp_queue', input')
  <2>1. e.ip = hop /\ input'.at # "idle" /\ input'.hop = hop
    BY <1>2
  <2> HIDE DEF e
  <2>2. \A k \in DOMAIN arp_cache' :
            arp_cache'[k].ip = hop \/ \E l \in DOMAIN arp_cache : arp_cache[l] = arp_cache'[k]
    BY <1>3, <2>1 DEF Took
  <2>3. SUFFICES ASSUME NEW i \in DOMAIN arp_queue', NEW k \in DOMAIN arp_cache',
                        arp_cache'[k].ip = arp_queue'[i].next_hop
                 PROVE  arp_cache'[k].is_static \/ arp_queue'[i].next_hop = hop
    BY <2>1 DEF Unresolved
  <2>4. CASE arp_cache'[k].ip = hop
    BY <2>3, <2>4
  <2>5. CASE \E l \in DOMAIN arp_cache : arp_cache[l] = arp_cache'[k]
    <3>1. PICK l \in DOMAIN arp_cache : arp_cache[l] = arp_cache'[k]
      BY <2>5
    <3>2. i \in DOMAIN arp_queue /\ arp_cache[l].ip = arp_queue[i].next_hop
      BY <1>2, <2>3, <3>1
    <3>3. arp_cache[l].is_static
      BY <1>1, <1>2, <3>2 DEF Unresolved
    <3> QED
      BY <3>1, <3>3
  <2> QED
    BY <2>2, <2>4, <2>5
<1>8. WaitingIsUnresolved'
  BY <1>7, UnresolvedSaidNext
<1> QED
  BY <1>4, <1>5, <1>6, <1>8 DEF IInv

LEMMA AddStep ==
    ASSUME IInv, NEW ip \in Hops, NEW mac \in Macs, cli_ip_arp_add(ip, mac)
    PROVE  IInv' /\ HardwareCopiesCache
<1> DEFINE e == [ip |-> ip, mac |-> mac, is_static |-> TRUE]
<1>1. GoodCache(arp_cache) /\ Unresolved(arp_cache, arp_queue,
                                         input) /\ PlaceInv /\ QueueInv
  BY UnresolvedSaid DEF IInv, CacheInv
<1>2. /\ update_arp_cache(ip, mac, TRUE)
      /\ arp_queue' = arp_queue /\ fate' = fate /\ arp' = arp /\ input' = input
  BY DEF cli_ip_arp_add
<1>3. Took(arp_cache, arp_cache', e) /\ write_arp_cache_to_hw(arp_cache')
  BY <1>1, <1>2, UpdateTakes
<1>4. CacheInv' /\ HardwareCopiesCache
  BY <1>3, WritingCopies DEF Took
<1>5. QueueInv' /\ PlaceInv'
  BY <1>1, <1>2, QueueKept, PlaceKept
<1>6. Unresolved(arp_cache', arp_queue', input')
  <2>1. e.is_static
    OBVIOUS
  <2> HIDE DEF e
  <2>2. \A k \in DOMAIN arp_cache' :
            arp_cache'[k].is_static \/ \E l \in DOMAIN arp_cache : arp_cache[l] = arp_cache'[k]
    BY <1>3, <2>1 DEF Took
  <2> QED
    BY <1>1, <1>2, <2>2 DEF Unresolved
<1>7. WaitingIsUnresolved'
  BY <1>6, UnresolvedSaidNext
<1> QED
  BY <1>4, <1>5, <1>7 DEF IInv

\* Entries of the cache are deleted, one or all.
LEMMA ForgetStep ==
    ASSUME IInv, GoodCache(arp_cache'), write_arp_cache_to_hw(arp_cache'),
           \A k \in DOMAIN arp_cache' : \E l \in DOMAIN arp_cache : arp_cache[l] = arp_cache'[k],
           UNCHANGED <<arp_queue, fate, input, arp>>
    PROVE  IInv' /\ HardwareCopiesCache
<1>1. Unresolved(arp_cache, arp_queue, input) /\ PlaceInv /\ QueueInv
  BY UnresolvedSaid DEF IInv
<1>2. arp_queue' = arp_queue /\ fate' = fate /\ arp' = arp /\ input' = input
  OBVIOUS
<1>3. CacheInv' /\ HardwareCopiesCache
  BY WritingCopies
<1>4. QueueInv' /\ PlaceInv'
  BY <1>1, <1>2, QueueKept, PlaceKept
<1>5. Unresolved(arp_cache', arp_queue', input')
  BY <1>1, <1>2 DEF Unresolved
<1>6. WaitingIsUnresolved'
  BY <1>5, UnresolvedSaidNext
<1> QED
  BY <1>3, <1>4, <1>6 DEF IInv

LEMMA DelStep ==
    ASSUME IInv, NEW ip \in Hops, cli_ip_arp_del(ip)
    PROVE  IInv' /\ HardwareCopiesCache
<1>1. GoodCache(arp_cache)
  BY DEF IInv, CacheInv
<1>2. /\ arp_cache' = node_remove(arp_cache, InCache(ip))
      /\ write_arp_cache_to_hw(arp_cache')
      /\ UNCHANGED <<arp_queue, fate, input, arp>>
  BY DEF cli_ip_arp_del
<1>3. /\ GoodCache(arp_cache')
      /\ \A k \in DOMAIN arp_cache' : \E l \in DOMAIN arp_cache : arp_cache[l] = arp_cache'[k]
  BY <1>1, <1>2, CacheWithout
<1> QED
  BY <1>2, <1>3, ForgetStep

LEMMA NukeStep ==
    ASSUME IInv, cli_nuke_arp_cache
    PROVE  IInv' /\ HardwareCopiesCache
<1>1. /\ arp_cache' = <<>> /\ write_arp_cache_to_hw(arp_cache')
      /\ UNCHANGED <<arp_queue, fate, input, arp>>
  BY DEF cli_nuke_arp_cache
<1>2. /\ GoodCache(arp_cache')
      /\ \A k \in DOMAIN arp_cache' : \E l \in DOMAIN arp_cache : arp_cache[l] = arp_cache'[k]
  BY <1>1 DEF GoodCache
<1> QED
  BY <1>1, <1>2, ForgetStep

-----------------------------------------------------------------------------
(* Every step.                                                             *)

\* A step that changes the queue and no cache, with the input thread in place.
LEMMA QueueStep ==
    ASSUME IInv, QueueInv', NewHopsUnknown, PlaceInv',
           UNCHANGED <<arp_cache, hwRows, input>>
    PROVE  IInv'
BY CacheKept, UnresolvedKept DEF IInv

LEMMA StepInvariant ==
    IInv /\ [Next]_vars => IInv' /\ (arp_cache' # arp_cache => HardwareCopiesCache)
<1> SUFFICES ASSUME IInv, [Next]_vars
             PROVE  IInv' /\ (arp_cache' # arp_cache => HardwareCopiesCache)
  OBVIOUS
<1>0. /\ QueueInv /\ CacheInv /\ PlaceInv /\ WaitingIsUnresolved
      /\ Unresolved(arp_cache, arp_queue, input)
  BY UnresolvedSaid DEF IInv
<1>1. ASSUME NEW p \in Packets, NEW hop \in Hops, NEW back \in Hops \cup {NoHop},
             Send(p, back, hop)
      PROVE  IInv' /\ arp_cache' = arp_cache
  <2>1. UNCHANGED <<arp_cache, hwRows, input, arp>>
    BY <1>1 DEF Send
  <2> QED
    BY <1>0, <1>1, <2>1, SendKeepsQueue, PlaceKept, QueueStep
<1>2. CASE ReplyLocks
  <2>1. /\ UNCHANGED <<arp_cache, hwRows, arp_queue, fate, arp>>
        /\ input' = [input EXCEPT !.at = "send"] /\ input.at = "between locks"
           /\ arp.at # "walk"
    BY <1>2 DEF ReplyLocks
  <2>2. QueueInv' /\ CacheInv'
    BY <1>0, <2>1, QueueKept, CacheKept
  <2>3. PlaceInv' /\ input'.at = "send" /\ input'.hop = input.hop
    BY <1>0, <2>1 DEF PlaceInv
  <2>4. Unresolved(arp_cache', arp_queue', input')
    BY <1>0, <2>1, <2>3 DEF Unresolved
  <2> QED
    BY <2>1, <2>2, <2>3, <2>4, UnresolvedSaidNext DEF IInv
<1>3. CASE SendQueued
  <2>1. UNCHANGED <<arp_cache, hwRows, input, arp>>
    BY <1>3 DEF SendQueued
  <2> QED
    BY <1>0, <1>3, <2>1, SendQueuedKeepsQueue, PlaceKept, QueueStep
<1>4. CASE ReplyDone
  <2>1. /\ UNCHANGED <<arp_cache, hwRows, arp_queue, fate, arp>>
        /\ input' = [at |-> "idle", hop |-> NoHop] /\ FirstFor(arp_queue, input.hop) = {}
    BY <1>4 DEF ReplyDone
  <2>2. QueueInv' /\ CacheInv'
    BY <1>0, <2>1, QueueKept, CacheKept
  <2>3. PlaceInv'
    BY <1>0, <2>1 DEF PlaceInv
  <2>4. \A i \in DOMAIN arp_queue : arp_queue[i].next_hop # input.hop
    BY <1>0, <2>1, FirstForProperties DEF QueueInv, GoodQueue
  <2>5. Unresolved(arp_cache', arp_queue', input')
    BY <1>0, <2>1, <2>4 DEF Unresolved
  <2> QED
    BY <2>1, <2>2, <2>3, <2>5, UnresolvedSaidNext DEF IInv
<1>5. CASE Second
  <2>1. /\ UNCHANGED <<arp_cache, hwRows, fate, input>>
        /\ arp' = IF arp.at = "asleep" THEN [arp EXCEPT !.at = "awake"] ELSE arp
    BY <1>5 DEF Second
  <2>2. PlaceInv'
    BY <1>0, <2>1 DEF PlaceInv
  <2> QED
    BY <1>0, <1>5, <2>1, <2>2, SecondKeepsQueue, QueueStep
<1>6. ASSUME UNCHANGED <<arp_cache, hwRows, arp_queue, fate, input>>, PlaceInv'
      PROVE  IInv' /\ arp_cache' = arp_cache
  <2>1. QueueInv' /\ NewHopsUnknown
    BY <1>0, <1>6, QueueKept DEF NewHopsUnknown
  <2> QED
    BY <1>6, <2>1, QueueStep
<1>7. CASE WalkStart
  <2>1. /\ UNCHANGED <<arp_cache, hwRows, arp_queue, fate, input>>
        /\ arp' = [at |-> "walk", i |-> 1] /\ input.at # "send"
    BY <1>7 DEF WalkStart
  <2>2. PlaceInv'
    BY <1>0, <2>1, PlaceMoved
  <2> QED
    BY <1>6, <2>1, <2>2
<1>8. CASE WalkSkip
  <2>1. /\ UNCHANGED <<arp_cache, hwRows, arp_queue, fate, input>>
        /\ arp' = [arp EXCEPT !.i = arp.i + 1] /\ arp.at = "walk"
    BY <1>8 DEF WalkSkip, Advance
  <2>2. PlaceInv'
    BY <1>0, <2>1, PlaceAdvanced
  <2> QED
    BY <1>6, <2>1, <2>2
<1>9. CASE WalkRequest
  <2>1. /\ UNCHANGED <<arp_cache, hwRows, fate, input>>
        /\ arp' = [arp EXCEPT !.i = arp.i + 1] /\ arp.at = "walk"
    BY <1>9 DEF WalkRequest, Advance
  <2>2. PlaceInv'
    BY <1>0, <2>1, PlaceAdvanced
  <2> QED
    BY <1>9, <2>1, <2>2, WalkRequestKeepsQueue, QueueStep
<1>10. CASE WalkGiveUp
  <2>1. UNCHANGED <<arp_cache, hwRows, input, arp>>
    BY <1>10 DEF WalkGiveUp
  <2> QED
    BY <1>0, <1>10, <2>1, WalkGiveUpKeepsQueue, PlaceKept, QueueStep
<1>11. CASE WalkEnd
  <2>1. /\ UNCHANGED <<arp_cache, hwRows, arp_queue, fate, input>>
        /\ arp' = [at |-> "asleep", i |-> 1]
    BY <1>11 DEF WalkEnd
  <2>2. PlaceInv'
    BY <1>0, <2>1, PlaceMoved
  <2> QED
    BY <1>6, <2>1, <2>2
<1>12. ASSUME NEW row \in 1 .. ARP_DEPTH, cli_nuke_hw_arp_cache_entry(row)
       PROVE  IInv' /\ arp_cache' = arp_cache
  <2>1. /\ hwRows' = [hwRows EXCEPT ![row] = Blank]
        /\ UNCHANGED <<arp_cache, arp_queue, fate, input, arp>>
    BY <1>12 DEF cli_nuke_hw_arp_cache_entry
  <2>2. CacheInv'
    BY <1>0, <2>1 DEF CacheInv, Row, Blank
  <2>3. QueueInv' /\ PlaceInv' /\ NewHopsUnknown
    BY <1>0, <2>1, QueueKept, PlaceKept DEF NewHopsUnknown
  <2>4. WaitingIsUnresolved'
    BY <1>0, <2>1, <2>3, UnresolvedKept
  <2> QED
    BY <2>1, <2>2, <2>3, <2>4 DEF IInv
<1>13. CASE UNCHANGED vars
  BY <1>0, <1>6, <1>13, PlaceKept DEF vars
<1> QED
  BY <1>1, <1>2, <1>3, <1>4, <1>5, <1>7, <1>8, <1>9, <1>10, <1>11, <1>12, <1>13,
     ReplyArrivesStep, AddStep, DelStep, NukeStep DEF Next, ArpWalk

-----------------------------------------------------------------------------
(* The properties.                                                         *)

THEOREM Invariance == Spec => []IInv
<1>1. Init => IInv
  BY InitInvariant
<1>2. IInv /\ [Next]_vars => IInv'
  BY StepInvariant
<1> QED
  BY <1>1, <1>2, PTL DEF Spec

(***************************************************************************)
(* The variables keep their types, no entry of the queue asks more often   *)
(* than the limit, and no two threads walk the queue at once.              *)
(***************************************************************************)
THEOREM TypeCorrect == Spec => []TypeOK
<1>1. IInv => TypeOK
  BY InvariantTypes
<1> QED
  BY <1>1, Invariance, PTL

(***************************************************************************)
(* With any number of hops, packets and hardware rows, whatever replies,   *)
(* time-outs, senders and commands interleave at the two locks: a packet   *)
(* waits in one place, all that wait for a hop wait together, and they do  *)
(* not wait for a hop that is known.                                       *)
(***************************************************************************)
THEOREM QueueAlwaysConsistent == Spec => []QueueConsistent
<1>1. IInv => QueueConsistent
  BY InvariantConsistent
<1> QED
  BY <1>1, Invariance, PTL

(***************************************************************************)
(* Whenever the cache changes the hardware holds what of it fits, the      *)
(* static entries before the others, for a table of any depth.             *)
(***************************************************************************)
THEOREM HardwareAlwaysFollows == Spec => HardwareFollowsCache
<1>1. IInv /\ [Next]_vars => [arp_cache' # arp_cache => HardwareCopiesCache]_vars
  BY StepInvariant
<1> QED
  BY <1>1, Invariance, PTL DEF Spec, HardwareFollowsCache
=============================================================================
