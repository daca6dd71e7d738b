------------------------------ MODULE ArpQueue ------------------------------
(***************************************************************************)
(* Address resolution: the ARP cache, its copy in the hardware, and the    *)
(* queue of packets that wait for an answer (or_arp.c, send_ip of          *)
(* or_main.c).                                                             *)
(*                                                                         *)
(* Four kinds of thread meet here.  The input thread handles ARP replies:  *)
(* it updates the cache under the cache lock, lets go of it, and then      *)
(* sends what waited under the locks of cache and queue.  The ARP thread   *)
(* walks the queue once a second, repeats requests and gives up on hops    *)
(* that do not answer.  Any thread sends packets, under the same two locks.*)
(* The command line changes the cache.  (Its ping sends without a lock,    *)
(* which RouterThreads has.)                                               *)
(*                                                                         *)
(* Whoever walks or changes the queue holds arp_queue_lock for writing and *)
(* arp_cache_lock for reading; whoever changes the cache holds the latter  *)
(* for writing.  A walk goes one packet at a time, so that what other      *)
(* threads may do meanwhile, and what a walk does to itself, shows.        *)
(***************************************************************************)
EXTENDS Naturals, Sequences, FiniteSets, Lists

CONSTANTS
    Hops,         \* addresses of next hops
    NoHop,        \* no hop
    Macs,         \* hardware addresses
    Packets,      \* identities of packets, each handed to send_ip once
    MAX_REQUESTS, \* ARP requests sent before giving up (5 in the code)
    ARP_DEPTH,    \* rows of the hardware table (32 in the code)
    CliOps        \* commands in use, of "add", "del", "nuke" and "nuke hw"

ASSUME HopsAssumption == NoHop \notin Hops
ASSUME BoundsAssumption == MAX_REQUESTS \in Nat \ {0} /\ ARP_DEPTH \in Nat
ASSUME CliAssumption == CliOps \subseteq {"add", "del", "nuke", "nuke hw"}

VARIABLES
    arp_cache, \* rs->arp_cache, from its head to its tail
    hwRows,    \* the rows of the hardware table
    arp_queue, \* rs->arp_queue, from its head to its tail
    fate,      \* what has become of each packet
    input,     \* where the input thread is in process_arp_reply
    arp        \* where the ARP thread is in arp_thread

vars == <<arp_cache, hwRows, arp_queue, fate, input, arp>>

(***************************************************************************)
(* A packet is a packet proper or the ICMP error that reports it undone.   *)
(* back is the hop to which such an error would go; there is none if there *)
(* is no route to the sender, if the sender is the router itself, or if    *)
(* the packet is an ICMP error already.                                    *)
(***************************************************************************)
Frames == [id : Packets, err : BOOLEAN, back : Hops \cup {NoHop}]

ErrorFor(f) == [id |-> f.id, err |-> TRUE, back |-> NoHop]

Handle(f) == <<f.id, f.err>>

CacheEntries == [ip : Hops, mac : Macs, is_static : BOOLEAN]

\* age counts the seconds since the last request, up to the two that matter.
QueueEntries == [next_hop : Hops, requests : 1..MAX_REQUESTS, age : 0..2,
                 frames : Seq(Frames)]

Row == [ip : Hops \cup {NoHop}, mac : Macs \cup {"zero"}]

-----------------------------------------------------------------------------
(* The cache and its copy in the hardware.                                 *)

InCache(ip) == {i \in DOMAIN arp_cache : arp_cache[i].ip = ip}

Cached(ip) == InCache(ip) # {}

Blank == [ip |-> NoHop, mac |-> "zero"]

\* Mutant: rows are filled in the order of the list.
MutListOrder(cache) == cache

\* Static entries come first, so that they are the last to be left out.
HwOrder(cache) ==
    LET static == {i \in DOMAIN cache : cache[i].is_static}
    IN Keep(cache, static) \o Keep(cache, DOMAIN cache \ static)

write_arp_cache_to_hw(cache) ==
    hwRows' = [r \in 1..ARP_DEPTH |->
                  IF r <= Len(cache)
                  THEN [ip |-> HwOrder(cache)[r].ip, mac |-> HwOrder(cache)[r].mac]
                  ELSE Blank]

\* Mutant: a cache as deep as the hardware, in which a new entry replaces
\* the oldest.
MutEvictOldest(ip, mac, is_static) ==
    LET entry == [ip |-> ip, mac |-> mac, is_static |-> is_static] IN
    /\ arp_cache' =
          IF Cached(ip)
          THEN [arp_cache EXCEPT ![CHOOSE i \in InCache(ip) : TRUE] = entry]
          ELSE node_push_back(IF Len(arp_cache) < ARP_DEPTH THEN arp_cache
                                                            ELSE Tail(arp_cache), entry)
    /\ write_arp_cache_to_hw(arp_cache')

\* A known address gets the new hardware address, a new one a new entry.
update_arp_cache(ip, mac, is_static) ==
    LET entry == [ip |-> ip, mac |-> mac, is_static |-> is_static] IN
    /\ arp_cache' = IF Cached(ip)
                    THEN [arp_cache EXCEPT ![CHOOSE i \in InCache(ip) : TRUE] = entry]
                    ELSE node_push_back(arp_cache, entry)
    /\ write_arp_cache_to_hw(arp_cache')

-----------------------------------------------------------------------------
(* The queue.                                                              *)

\* The index of the first entry for a hop, as a set of at most one.
FirstFor(queue, hop) ==
    {i \in DOMAIN queue : /\ queue[i].next_hop = hop
                          /\ \A j \in 1..(i - 1) : queue[j].next_hop # hop}

NewEntry(f, hop) ==
    [next_hop |-> hop, requests |-> 1, age |-> 0, frames |-> <<f>>]

\* Mutant: every packet starts an entry of its own.
MutAlwaysNewEntry(queue, f, hop) == node_push_back(queue, NewEntry(f, hop))

(***************************************************************************)
(* The packet joins the entry for its hop; the first packet for a hop      *)
(* makes the entry and sends the first request.                            *)
(***************************************************************************)
arp_queue_add(queue, f, hop) ==
    IF FirstFor(queue, hop) = {}
    THEN node_push_back(queue, NewEntry(f, hop))
    ELSE [queue EXCEPT ![CHOOSE i \in FirstFor(queue, hop) : TRUE].frames =
             node_push_back(@, f)]

\* The first packet of the entry at i leaves, and with the last one the entry.
RemoveFirst(queue, i, last) ==
    IF last THEN node_remove(queue, {i})
            ELSE [queue EXCEPT ![i].frames = Tail(@)]

\* No walk of the queue is under way: arp_queue_lock is free.
QueueUnlocked == input.at # "send" /\ arp.at # "walk"

(***************************************************************************)
(* send_ip, for a packet that comes from anywhere but the queue.           *)
(***************************************************************************)
send_ip(f, hop) ==
    IF Cached(hop)
    THEN /\ fate' = [fate EXCEPT ![Handle(f)] = "sent"]
         /\ UNCHANGED arp_queue
    ELSE /\ fate' = [fate EXCEPT ![Handle(f)] = "waiting"]
         /\ arp_queue' = arp_queue_add(arp_queue, f, hop)

Send(p, back, hop) ==
    LET f == [id |-> p, err |-> FALSE, back |-> back] IN
    /\ QueueUnlocked
    /\ fate[Handle(f)] = "new"
    /\ send_ip(f, hop)
    /\ UNCHANGED <<arp_cache, hwRows, input, arp>>

-----------------------------------------------------------------------------
(* The input thread: process_arp_reply.                                    *)

\* Mutant: only an address that was not known makes the queue worth a look.
MutSkipKnown(hop, mac) ==
    /\ input.at = "idle"
    /\ arp.at # "walk"
    /\ update_arp_cache(hop, mac, FALSE)
    /\ input' = IF Cached(hop) THEN input ELSE [at |-> "between locks", hop |-> hop]
    /\ UNCHANGED <<arp_queue, fate, arp>>

\* Under arp_cache_lock alone.
ReplyArrives(hop, mac) ==
    /\ input.at = "idle"
    /\ arp.at # "walk"
    /\ update_arp_cache(hop, mac, FALSE)
    /\ input' = [at |-> "between locks", hop |-> hop]
    /\ UNCHANGED <<arp_queue, fate, arp>>

\* arp_cache_lock was free for a moment; now both locks are taken.
ReplyLocks ==
    /\ input.at = "between locks"
    /\ arp.at # "walk"
    /\ input' = [input EXCEPT !.at = "send"]
    /\ UNCHANGED <<arp_cache, hwRows, arp_queue, fate, arp>>

(***************************************************************************)
(* send_queued_packets, one packet.  The packet goes through send_ip once  *)
(* more, which puts it back into the queue when the cache has no entry any *)
(* more: at the end of the very entry that is being walked.  Whether the   *)
(* packet is the last was looked up before.                                *)
(***************************************************************************)
SendQueued ==
    /\ input.at = "send"
    /\ \E i \in FirstFor(arp_queue, input.hop) :
          LET f    == Head(arp_queue[i].frames)
              last == Len(arp_queue[i].frames) = 1
              back == IF Cached(input.hop) THEN arp_queue
                      ELSE arp_queue_add(arp_queue, f, input.hop)
          IN /\ arp_queue' = RemoveFirst(back, i, last)
             /\ fate' = [fate EXCEPT ![Handle(f)] =
                            IF Cached(input.hop) THEN "sent"
                            ELSE IF last THEN "lost" ELSE "waiting"]
    /\ UNCHANGED <<arp_cache, hwRows, input, arp>>

ReplyDone ==
    /\ input.at = "send"
    /\ FirstFor(arp_queue, input.hop) = {}
    /\ input' = [at |-> "idle", hop |-> NoHop]
    /\ UNCHANGED <<arp_cache, hwRows, arp_queue, fate, arp>>

-----------------------------------------------------------------------------
(* The ARP thread: process_arp_queue.  (expire_arp_cache, which it calls   *)
(* first, looks at the cache and changes nothing.)                         *)

Second ==
    /\ arp_queue' = [i \in DOMAIN arp_queue |->
                        [arp_queue[i] EXCEPT !.age = IF @ < 2 THEN @ + 1 ELSE 2]]
    /\ arp' = IF arp.at = "asleep" THEN [arp EXCEPT !.at = "awake"] ELSE arp
    /\ UNCHANGED <<arp_cache, hwRows, fate, input>>

WalkStart ==
    /\ arp.at = "awake"
    /\ input.at # "send"
    /\ arp' = [at |-> "walk", i |-> 1]
    /\ UNCHANGED <<arp_cache, hwRows, arp_queue, fate, input>>

Due(e) == e.age > 1

Advance(i) == arp' = [arp EXCEPT !.i = i]

WalkSkip ==
    /\ arp.at = "walk"
    /\ arp.i <= Len(arp_queue)
    /\ ~Due(arp_queue[arp.i])
    /\ Advance(arp.i + 1)
    /\ UNCHANGED <<arp_cache, hwRows, arp_queue, fate, input>>

\* Mutant: one request more than the limit.
MutOneRequestMore ==
    /\ arp.at = "walk"
    /\ arp.i <= Len(arp_queue)
    /\ Due(arp_queue[arp.i])
    /\ arp_queue[arp.i].requests <= MAX_REQUESTS
    /\ arp_queue' = [arp_queue EXCEPT ![arp.i].age = 0, ![arp.i].requests = @ + 1]
    /\ Advance(arp.i + 1)
    /\ UNCHANGED <<arp_cache, hwRows, fate, input>>

\* Mutant: requests are repeated and not counted.
MutRequestsUncounted ==
    /\ arp.at = "walk"
    /\ arp.i <= Len(arp_queue)
    /\ Due(arp_queue[arp.i])
    /\ arp_queue[arp.i].requests < MAX_REQUESTS
    /\ arp_queue' = [arp_queue EXCEPT ![arp.i].age = 0]
    /\ Advance(arp.i + 1)
    /\ UNCHANGED <<arp_cache, hwRows, fate, input>>

WalkRequest ==
    /\ arp.at = "walk"
    /\ arp.i <= Len(arp_queue)
    /\ Due(arp_queue[arp.i])
    /\ arp_queue[arp.i].requests < MAX_REQUESTS
    /\ arp_queue' = [arp_queue EXCEPT ![arp.i].age = 0, ![arp.i].requests = @ + 1]
    /\ Advance(arp.i + 1)
    /\ UNCHANGED <<arp_cache, hwRows, fate, input>>

\* Mutant: whether a packet is the last is looked up before its sender is told.
MutLooksAheadFirst(before, after, i) == Len(before[i].frames) = 1

\* Of the queue before and after the sender of a packet was told.
NoneFollows(before, after, i) == Len(after[i].frames) = 1

(***************************************************************************)
(* One packet of a hop that did not answer: its sender is told, through    *)
(* send_ip, and the packet is freed.  The ICMP error may itself have to    *)
(* wait, and may join the very entry that is being given up.               *)
(***************************************************************************)
WalkGiveUp ==
    /\ arp.at = "walk"
    /\ arp.i <= Len(arp_queue)
    /\ Due(arp_queue[arp.i])
    /\ arp_queue[arp.i].requests >= MAX_REQUESTS
    /\ LET f       == Head(arp_queue[arp.i].frames)
           err     == ErrorFor(f)
           waits   == f.back # NoHop /\ ~Cached(f.back)
           added   == IF waits THEN arp_queue_add(arp_queue, err, f.back)
                               ELSE arp_queue
           last    == NoneFollows(arp_queue, added, arp.i)
           freed   == [fate EXCEPT ![Handle(f)] = "freed"]
       IN /\ arp_queue' = RemoveFirst(added, arp.i, last)
          /\ fate' = IF f.back = NoHop THEN freed
                     ELSE [freed EXCEPT ![Handle(err)] =
                              IF waits THEN "waiting" ELSE "sent"]
    /\ UNCHANGED <<arp_cache, hwRows, input, arp>>

WalkEnd ==
    /\ arp.at = "walk"
    /\ arp.i > Len(arp_queue)
    /\ arp' = [at |-> "asleep", i |-> 1]
    /\ UNCHANGED <<arp_cache, hwRows, arp_queue, fate, input>>

-----------------------------------------------------------------------------
(* The command line.                                                       *)

cli_ip_arp_add(ip, mac) ==
    /\ "add" \in CliOps
    /\ QueueUnlocked
    /\ update_arp_cache(ip, mac, TRUE)
    /\ UNCHANGED <<arp_queue, fate, input, arp>>

cli_ip_arp_del(ip) ==
    /\ "del" \in CliOps
    /\ QueueUnlocked
    /\ Cached(ip)
    /\ arp_cache' = node_remove(arp_cache, InCache(ip))
    /\ write_arp_cache_to_hw(arp_cache')
    /\ UNCHANGED <<arp_queue, fate, input, arp>>

cli_nuke_arp_cache ==
    /\ "nuke" \in CliOps
    /\ QueueUnlocked
    /\ arp_cache' = <<>>
    /\ write_arp_cache_to_hw(arp_cache')
    /\ UNCHANGED <<arp_queue, fate, input, arp>>

\* A row of the hardware, without a lock.
cli_nuke_hw_arp_cache_entry(row) ==
    /\ "nuke hw" \in CliOps
    /\ hwRows' = [hwRows EXCEPT ![row] = Blank]
    /\ UNCHANGED <<arp_cache, arp_queue, fate, input, arp>>

-----------------------------------------------------------------------------
Init ==
    /\ arp_cache = <<>>
    /\ hwRows = [r \in 1..ARP_DEPTH |-> Blank]
    /\ arp_queue = <<>>
    /\ fate = [h \in Packets \X BOOLEAN |-> "new"]
    /\ input = [at |-> "idle", hop |-> NoHop]
    /\ arp = [at |-> "awake", i |-> 1]

ArpWalk == WalkSkip \/ WalkRequest \/ WalkGiveUp \/ WalkEnd

Next ==
    \/ \E p \in Packets, hop \in Hops, back \in Hops \cup {NoHop} : Send(p, back, hop)
    \/ \E hop \in Hops, mac \in Macs :
          ReplyArrives(hop, mac) \/ cli_ip_arp_add(hop, mac)
    \/ ReplyLocks \/ SendQueued \/ ReplyDone
    \/ Second \/ WalkStart \/ ArpWalk
    \/ \E hop \in Hops : cli_ip_arp_del(hop)
    \/ cli_nuke_arp_cache
    \/ \E row \in 1..ARP_DEPTH : cli_nuke_hw_arp_cache_entry(row)

(***************************************************************************)
(* Time goes on, threads that can take a step take it, and a thread that   *)
(* waits for the locks gets them at some time when they keep coming free.  *)
(***************************************************************************)
Fairness ==
    /\ WF_vars(Second)
    /\ WF_vars(ArpWalk)
    /\ SF_vars(WalkStart)
    /\ SF_vars(ReplyLocks)
    /\ WF_vars(SendQueued \/ ReplyDone)

Spec == Init /\ [][Next]_vars /\ Fairness

-----------------------------------------------------------------------------
(* Properties.                                                             *)

\* The places of the queue where a packet waits.
Places(h) ==
    UNION {{<<i, j>> : j \in {k \in DOMAIN arp_queue[i].frames :
                                 Handle(arp_queue[i].frames[k]) = h}}
              : i \in DOMAIN arp_queue}

(***************************************************************************)
(* The variables have their types, the requests of an entry never exceed   *)
(* the limit, and two threads never walk the queue at once.                *)
(***************************************************************************)
TypeOK ==
    /\ arp_cache \in Seq(CacheEntries)
    /\ hwRows \in [1..ARP_DEPTH -> Row]
    /\ arp_queue \in Seq(QueueEntries)
    /\ fate \in [Packets \X BOOLEAN ->
                    {"new", "waiting", "sent", "freed", "lost"}]
    /\ input \in [at : {"idle", "between locks", "send"}, hop : Hops \cup {NoHop}]
    /\ arp \in [at : {"awake", "walk", "asleep"}, i : Nat \ {0}]
    /\ ~(input.at = "send" /\ arp.at = "walk")

(***************************************************************************)
(* A packet waits in exactly one place of the queue, or in none when it is *)
(* not waiting: what is sent, reported or freed is never sent, reported or *)
(* freed again, and nothing that waits is forgotten.                       *)
(***************************************************************************)
WaitsOnce ==
    \A h \in Packets \X BOOLEAN :
        Cardinality(Places(h)) = IF fate[h] = "waiting" THEN 1 ELSE 0

\* An address has one entry in the cache, and a hop one in the queue, so that
\* one answer serves all that wait for it; no entry is kept without a packet.
OneEntryPerHop ==
    /\ \A i, j \in DOMAIN arp_cache : arp_cache[i].ip = arp_cache[j].ip => i = j
    /\ \A i, j \in DOMAIN arp_queue :
          arp_queue[i].next_hop = arp_queue[j].next_hop => i = j
    /\ \A i \in DOMAIN arp_queue : arp_queue[i].frames # <<>>

(***************************************************************************)
(* Packets do not wait for a hop whose address is known.  The exceptions   *)
(* are the moment between the two halves of process_arp_reply, and a       *)
(* static entry that was typed in while they waited: cli_ip_arp_add does   *)
(* not send them.                                                          *)
(***************************************************************************)
WaitingIsUnresolved ==
    \A i \in DOMAIN arp_queue : \A k \in InCache(arp_queue[i].next_hop) :
        \/ arp_cache[k].is_static
        \/ input.at # "idle" /\ input.hop = arp_queue[i].next_hop

(***************************************************************************)
(* Whatever replies, time-outs, senders and commands interleave at the two *)
(* locks, the queue and the cache are in step: a packet waits once, all    *)
(* that wait for a hop do so together, and for nothing that is known.      *)
(***************************************************************************)
QueueConsistent ==
    /\ WaitsOnce
    /\ OneEntryPerHop
    /\ WaitingIsUnresolved

(***************************************************************************)
(* Whenever the cache changes the hardware gets a copy: every static entry *)
(* that fits, the others behind them as far as they fit, and blank rows.   *)
(***************************************************************************)
HardwareCopiesCache ==
    LET rows == {hwRows'[r] : r \in 1..ARP_DEPTH} \ {Blank}
        copy(k) == [ip |-> arp_cache'[k].ip, mac |-> arp_cache'[k].mac]
        known == {copy(k) : k \in DOMAIN arp_cache'}
        static == {copy(k) : k \in {j \in DOMAIN arp_cache' : arp_cache'[j].is_static}}
    IN /\ rows \subseteq known
       /\ static \subseteq rows \/ (rows \subseteq static /\ Cardinality(rows) = ARP_DEPTH)
       /\ known \subseteq rows \/ Cardinality(rows) = ARP_DEPTH

HardwareFollowsCache == [][arp_cache' # arp_cache => HardwareCopiesCache]_vars

(***************************************************************************)
(* "This function takes responsibility for finding the target MAC address, *)
(* and freeing packet" (or_main.c:897), "arp queue add adds the packet to  *)
(* the queue, will free later" (or_main.c:917): no packet is dropped       *)
(* without a trace.                                                        *)
(***************************************************************************)
NoPacketLost == \A h \in Packets \X BOOLEAN : fate[h] # "lost"

(***************************************************************************)
(* Every packet that waits is sent, or reported and freed, in the end,     *)
(* however the hops, the timeouts and the threads behave; none is lost.    *)
(***************************************************************************)
EveryPacketLeaves ==
    \A h \in Packets \X BOOLEAN :
        fate[h] = "waiting" ~> fate[h] \in {"sent", "freed"}
=============================================================================
