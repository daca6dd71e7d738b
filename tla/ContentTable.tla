---------------------------- MODULE ContentTable ----------------------------
(***************************************************************************)
(* The content table of a CCDN router (or_ctable.c) and the handler of     *)
(* CCCP packets that reads and writes it (or_cccp.c).                      *)
(*                                                                         *)
(* The table says, for a content name, through which port which version of *)
(* that content was last seen.  It is a list, most recently learned entry  *)
(* first, with room for MAX_CTABLE_DEPTH entries.  It is loaded from a     *)
(* file at boot, and from then on written only by the input thread, which  *)
(* handles one packet at a time: a handler is one step.  Each handler that *)
(* writes the table copies it to the rows of the NetFPGA afterwards.       *)
(*                                                                         *)
(* The routing table belongs to other threads and may hold anything when a *)
(* packet arrives, so the result of the route lookup of a packet is an     *)
(* input of its handler.                                                   *)
(***************************************************************************)
EXTENDS Naturals, Sequences, FiniteSets, Lists

CONSTANTS
    Contents,         \* content names; a name is a 32-bit number
    Versions,         \* version numbers of contents
    Addrs,            \* addresses of caching servers
    Ifaces,           \* the ports in use, of eth0 to eth3
    MAX_CTABLE_DEPTH, \* capacity of the software table (32 in the code)
    HW_DEPTH          \* rows of the hardware table (32 in the code)

ASSUME ContentsAssumption == Contents \subseteq Nat
ASSUME VersionsAssumption == Versions \subseteq Nat
ASSUME IfacesAssumption == Ifaces \subseteq {"eth0", "eth1", "eth2", "eth3"}
ASSUME DepthAssumption ==
    /\ MAX_CTABLE_DEPTH \in Nat
    /\ MAX_CTABLE_DEPTH >= 2
    /\ HW_DEPTH \in Nat
    /\ HW_DEPTH >= MAX_CTABLE_DEPTH

(***************************************************************************)
(* The ports.  A port is downward when its one-hot number is below         *)
(* DIVIDE_LINE; the uplink eth3 is the only other one.                     *)
(***************************************************************************)
getOneHotPortNumber(iface) ==
    CASE iface = "eth0" -> 1
      [] iface = "eth1" -> 4
      [] iface = "eth2" -> 16
      [] iface = "eth3" -> 64

NUM_UPPORT  == 1
NUM_DNPORT  == 3
DIVIDE_LINE == 20

IsDown(iface) == getOneHotPortNumber(iface) < DIVIDE_LINE

NoRoute == "no_route"
Expired == "expired"
NoAddr  == "no_addr"
NoPort  == "no_port"

VARIABLES
    booted,  \* the table file has been read, the input thread runs
    ctable,  \* rs->ctable, from its head to its tail
    hwTable, \* the rows of the hardware table
    vnReg,   \* the version register rows are written through
    last     \* the packet handled last and what became of it

vars == <<booted, ctable, hwTable, vnReg, last>>

ctable_entry == [content : Contents, ver_num : Versions,
                 nexthop : Addrs, iface : Ifaces]

-----------------------------------------------------------------------------
(* The hardware rows.                                                      *)

(***************************************************************************)
(* write_ctable_to_hw goes through all rows.  A row past the end of the    *)
(* list gets name, next hop and port 0, but the version register is not    *)
(* written for it: it gets the version written last.                       *)
(***************************************************************************)
Written(ct) == IF Len(ct) < HW_DEPTH THEN Len(ct) ELSE HW_DEPTH

VnRegAfter(ct) == IF Written(ct) = 0 THEN vnReg ELSE ct[Written(ct)].ver_num

HwRow(e) == [name |-> e.content, vn |-> e.ver_num, nexthop |-> e.nexthop,
             port |-> getOneHotPortNumber(e.iface)]

BlankRow(vn) == [name |-> 0, vn |-> vn, nexthop |-> NoAddr, port |-> 0]

\* Mutant: the tail of the list is never copied.
MutSkipTail(ct) ==
    /\ hwTable' = [r \in 1..HW_DEPTH |->
                      IF r < Len(ct) THEN HwRow(ct[r])
                                     ELSE BlankRow(VnRegAfter(ct))]
    /\ vnReg' = VnRegAfter(ct)

write_ctable_to_hw(ct) ==
    /\ hwTable' = [r \in 1..HW_DEPTH |->
                      IF r <= Len(ct) THEN HwRow(ct[r])
                                      ELSE BlankRow(VnRegAfter(ct))]
    /\ vnReg' = VnRegAfter(ct)

-----------------------------------------------------------------------------
(* The operations on the table: or_ctable.c.                               *)

Matches(e, name, iface) == e.content = name /\ e.iface = iface

\* Mutant: the walk stops before the tail.
MutWalkMissesTail(ct, name, iface) ==
    {i \in 1..(Len(ct) - 1) :
        /\ Matches(ct[i], name, iface)
        /\ \A j \in 1..(i - 1) : ~Matches(ct[j], name, iface)}

(***************************************************************************)
(* The indices add_content stops at: the first entry with this name and    *)
(* this port, if any.                                                      *)
(***************************************************************************)
FirstMatch(ct, name, iface) ==
    {i \in DOMAIN ct :
        /\ Matches(ct[i], name, iface)
        /\ \A j \in 1..(i - 1) : ~Matches(ct[j], name, iface)}

\* Mutant: a full table takes one more entry.
MutOverfill(ct, e) ==
    LET hit == FirstMatch(ct, e.content, e.iface) IN
    IF hit # {} THEN node_update(ct, CHOOSE i \in hit : TRUE)
    ELSE IF Len(ct) <= MAX_CTABLE_DEPTH THEN node_push_front(ct, e)
    ELSE ct

(***************************************************************************)
(* add_content.  A known (name, port) moves to the head of the list; its   *)
(* version and next hop stay what they were.  A new one goes to the head,  *)
(* in place of the tail when the table is full.                            *)
(***************************************************************************)
AddContent(ct, e) ==
    LET hit == FirstMatch(ct, e.content, e.iface) IN
    IF hit # {}
    THEN node_update(ct, CHOOSE i \in hit : TRUE)
    ELSE IF Len(ct) < MAX_CTABLE_DEPTH
    THEN node_push_front(ct, e)
    ELSE IF Len(ct) = MAX_CTABLE_DEPTH
    THEN node_insert_front(ct, e)
    ELSE ct

add_content(e) ==
    /\ ctable' = AddContent(ctable, e)
    /\ \/ /\ FirstMatch(ctable, e.content, e.iface) = {}
          /\ Len(ctable) > MAX_CTABLE_DEPTH
          /\ UNCHANGED <<hwTable, vnReg>>
       \/ /\ \/ FirstMatch(ctable, e.content, e.iface) # {}
             \/ Len(ctable) <= MAX_CTABLE_DEPTH
          /\ write_ctable_to_hw(ctable')

\* del_content: all entries with this name and port, whatever their version.
del_content(name, iface) ==
    /\ ctable' = node_remove(ctable,
                     {i \in DOMAIN ctable : Matches(ctable[i], name, iface)})
    /\ write_ctable_to_hw(ctable')

\* Mutant: the port of the request is not compared.
MutAnyPortHits(e, name, vn, iface) == e.content = name /\ e.ver_num = vn

(***************************************************************************)
(* get_nexthop_by_content walks the list and sorts the entries for the     *)
(* name of the request into                                                *)
(*   - stale ones, removed: an older version than the one asked for, or    *)
(*     that very version behind the port the request came from;            *)
(*   - hits: that version behind another port, downward or upward;         *)
(*   - the others, with a newer version, left alone.                       *)
(* The walk ends early, with a "fatal error" message, once it has more     *)
(* hits than there are ports.                                              *)
(***************************************************************************)
IsHit(e, name, vn, iface) ==
    e.content = name /\ e.ver_num = vn /\ e.iface # iface

\* Mutant: an entry is given up because its version was asked for.
MutSameVersionStale(e, name, vn, iface) == e.content = name /\ e.ver_num <= vn

IsStale(e, name, vn, iface) ==
    e.content = name /\ (e.ver_num < vn \/ (e.ver_num = vn /\ e.iface = iface))

DownHits(ct, name, vn, iface) ==
    {i \in DOMAIN ct : IsHit(ct[i], name, vn, iface) /\ IsDown(ct[i].iface)}

UpHits(ct, name, vn, iface) ==
    {i \in DOMAIN ct : IsHit(ct[i], name, vn, iface) /\ ~IsDown(ct[i].iface)}

UpTo(K, i) == {k \in K : k <= i}

TooMany(down, up) ==
    Cardinality(down) > NUM_DNPORT \/ Cardinality(up) > NUM_UPPORT

\* Mutant: the walk ends at the first downward hit.
MutStopsAtHit(ct, name, vn, iface) ==
    {i \in DOMAIN ct : UpTo(DownHits(ct, name, vn, iface), i - 1) = {}}

\* The indices the walk has visited when it ends.
Visited(ct, name, vn, iface) ==
    {i \in DOMAIN ct :
        \A j \in 1..(i - 1) : ~TooMany(UpTo(DownHits(ct, name, vn, iface), j),
                                       UpTo(UpHits(ct, name, vn, iface), j))}

StaleEntries(ct, name, vn, iface) ==
    {i \in Visited(ct, name, vn, iface) : IsStale(ct[i], name, vn, iface)}

\* Element number n of the hits, in list order, numbered from 0.
HitNumber(hits, n) == CHOOSE i \in hits : Rank(hits, i) = n + 1

(***************************************************************************)
(* The index the request is sent to, as a set of at most one: the name     *)
(* modulo their number picks one of the downward hits; the upward ones     *)
(* come second.                                                            *)
(***************************************************************************)
Chosen(ct, name, vn, iface) ==
    LET seen == Visited(ct, name, vn, iface)
        down == DownHits(ct, name, vn, iface) \cap seen
        up   == UpHits(ct, name, vn, iface) \cap seen
        nd   == Cardinality(down)
        nu   == Cardinality(up)
    IN IF 0 < nd /\ nd <= NUM_DNPORT THEN {HitNumber(down, name % nd)}
       ELSE IF 0 < nu /\ nu <= NUM_UPPORT THEN {HitNumber(up, name % nu)}
       ELSE {}

-----------------------------------------------------------------------------
(* The handler of CCCP packets: or_cccp.c.                                 *)

NoPacket == [type |-> "none", content |-> 0, vn |-> 0, iface |-> NoPort,
             nexthop |-> NoAddr, port |-> NoPort, out |-> NoPort]

(***************************************************************************)
(* fate is what the route lookup for a packet gives: a port, NoRoute, or   *)
(* Expired when there is a port but the time to live is over.  The packet  *)
(* leaves through its port; without one its sender gets an ICMP error.     *)
(***************************************************************************)
Fates == Ifaces \cup {NoRoute, Expired}

OutPort(fate) == IF fate \in Ifaces THEN fate ELSE "icmp"

\* The record of a packet that was not redirected: it went where it was sent.
Handled(type, name, vn, iface) ==
    last' = [type |-> type, content |-> name, vn |-> vn, iface |-> iface,
             nexthop |-> NoAddr, port |-> NoPort, out |-> NoPort]

\* The record of a request redirected to what entry e says.
Redirected(name, vn, iface, e, fate) ==
    last' = [type |-> "REQUEST", content |-> name, vn |-> vn, iface |-> iface,
             nexthop |-> e.nexthop, port |-> e.iface, out |-> OutPort(fate)]

(***************************************************************************)
(* A REQUEST is redirected to the cache it is matched with, if any, and    *)
(* then routed like any packet.                                            *)
(***************************************************************************)
Request(name, vn, iface, fate) ==
    LET chosen == Chosen(ctable, name, vn, iface)
        stale  == StaleEntries(ctable, name, vn, iface)
    IN /\ booted
       /\ IF stale # {}
          THEN /\ ctable' = node_remove(ctable, stale)
               /\ write_ctable_to_hw(ctable')
          ELSE UNCHANGED <<ctable, hwTable, vnReg>>
       /\ IF chosen = {}
          THEN Handled("REQUEST", name, vn, iface)
          ELSE \E i \in chosen : Redirected(name, vn, iface, ctable[i], fate)
       /\ UNCHANGED booted

(***************************************************************************)
(* A routable REPLY or FINISH that does not come from the uplink teaches   *)
(* the table that its sender holds the content behind that port.           *)
(***************************************************************************)
Reply(name, vn, src, iface, fate) ==
    /\ booted
    /\ IF fate # NoRoute /\ iface # "eth3"
       THEN add_content([content |-> name, ver_num |-> vn,
                         nexthop |-> src, iface |-> iface])
       ELSE UNCHANGED <<ctable, hwTable, vnReg>>
    /\ Handled("REPLY", name, vn, iface)
    /\ UNCHANGED booted

\* A routable REJECT takes back what was learned from its port.
Reject(name, vn, iface, fate) ==
    /\ booted
    /\ IF fate # NoRoute
       THEN del_content(name, iface)
       ELSE UNCHANGED <<ctable, hwTable, vnReg>>
    /\ Handled("REJECT", name, vn, iface)
    /\ UNCHANGED booted

\* A CCCP packet of an unknown type is only routed.
Unknown(name, vn, iface) ==
    /\ booted
    /\ Handled("UNKNOWN", name, vn, iface)
    /\ UNCHANGED <<booted, ctable, hwTable, vnReg>>

-----------------------------------------------------------------------------
(* Boot: init_hardware blanks the rows, init_ctable reads the table file,  *)
(* one add_content per line and a last copy to the hardware, and then the  *)
(* input thread starts.                                                    *)

LoadLine(e) ==
    /\ ~booted
    /\ add_content(e)
    /\ UNCHANGED <<booted, last>>

StartInput ==
    /\ ~booted
    /\ booted' = TRUE
    /\ write_ctable_to_hw(ctable)
    /\ UNCHANGED <<ctable, last>>

Init ==
    /\ booted = FALSE
    /\ ctable = <<>>
    /\ hwTable = [r \in 1..HW_DEPTH |-> BlankRow(0)]
    /\ vnReg = 0
    /\ last = NoPacket

Next ==
    \/ \E e \in ctable_entry : LoadLine(e)
    \/ StartInput
    \/ \E name \in Contents, vn \in Versions, iface \in Ifaces :
          \/ \E fate \in Fates :
                \/ Request(name, vn, iface, fate)
                \/ \E src \in Addrs : Reply(name, vn, src, iface, fate)
                \/ Reject(name, vn, iface, fate)
          \/ Unknown(name, vn, iface)

Spec == Init /\ [][Next]_vars

-----------------------------------------------------------------------------
(* Properties.                                                             *)

Packet == [type : {"none", "REQUEST", "REPLY", "REJECT", "UNKNOWN"},
           content : Contents \cup {0}, vn : Versions \cup {0},
           iface : Ifaces \cup {NoPort}, nexthop : Addrs \cup {NoAddr},
           port : Ifaces \cup {NoPort},
           out : Ifaces \cup {"icmp", NoPort}]

Ports == {0} \cup {getOneHotPortNumber(i) : i \in Ifaces}

Row == [name : Contents \cup {0}, vn : Versions \cup {0},
        nexthop : Addrs \cup {NoAddr}, port : Ports]

(***************************************************************************)
(* The variables have their types, and the list never outgrows its         *)
(* capacity.                                                               *)
(***************************************************************************)
TypeOK ==
    /\ booted \in BOOLEAN
    /\ ctable \in Seq(ctable_entry)
    /\ Len(ctable) <= MAX_CTABLE_DEPTH
    /\ hwTable \in [1..HW_DEPTH -> Row]
    /\ vnReg \in Versions \cup {0}
    /\ last \in Packet

(***************************************************************************)
(* No two entries are for the same content behind the same port: what is   *)
(* relearned replaces its old place in the list (add_content's walk) and   *)
(* never shows up twice.                                                   *)
(***************************************************************************)
UniqueEntries ==
    \A i, j \in DOMAIN ctable :
        /\ ctable[i].content = ctable[j].content
        /\ ctable[i].iface = ctable[j].iface
        => i = j

(***************************************************************************)
(* No request, whatever it asks for, wherever it comes from, can find more *)
(* matches than there are ports: the "too many matches" branch of          *)
(* get_nexthop_by_content, which abandons the walk and its clean-up        *)
(* half-way, is dead.                                                      *)
(***************************************************************************)
NeverTooManyMatches ==
    \A name \in Contents, vn \in Versions, iface \in Ifaces :
        ~TooMany(DownHits(ctable, name, vn, iface),
                 UpHits(ctable, name, vn, iface))

(***************************************************************************)
(* Between packets the hardware holds exactly the software table: the      *)
(* entries in the same order, and behind them only rows without a name and *)
(* a port.  Every path of every handler that changes the list must have    *)
(* copied it.                                                              *)
(***************************************************************************)
HardwareMirrorsTable ==
    \A r \in 1..HW_DEPTH :
        IF r <= Len(ctable)
        THEN hwTable[r] = HwRow(ctable[r])
        ELSE hwTable[r].name = 0 /\ hwTable[r].port = 0

(***************************************************************************)
(* A request that was redirected went to a cache that is still in the      *)
(* table after the clean-up of the same walk, with the version asked for,  *)
(* behind a port other than the request's own, and not up when one of the  *)
(* downward ports had that version too.                                    *)
(***************************************************************************)
RedirectedToLiveEntry ==
    last.type = "REQUEST" /\ last.port # NoPort =>
        \E i \in DOMAIN ctable :
            /\ ctable[i] = [content |-> last.content, ver_num |-> last.vn,
                            nexthop |-> last.nexthop, iface |-> last.port]
            /\ ctable[i].iface # last.iface
            /\ ~IsDown(ctable[i].iface) =>
                  DownHits(ctable, last.content, last.vn, last.iface) = {}

Entries(ct) == {ct[i] : i \in DOMAIN ct}

\* The packet just handled is a reason for e to have left the table.
CauseFor(e) ==
    \/ /\ last'.type = "REQUEST"
       /\ last'.content = e.content
       /\ e.ver_num < last'.vn \/ (e.ver_num = last'.vn /\ e.iface = last'.iface)
    \/ last'.type = "REJECT" /\ Matches(e, last'.content, last'.iface)
    \/ /\ last'.type = "REPLY"
       /\ Len(ctable) = MAX_CTABLE_DEPTH
       /\ e = ctable[MAX_CTABLE_DEPTH]
       /\ ~Matches(e, last'.content, last'.iface)

(***************************************************************************)
(* Once the router runs, an entry leaves the table for one of four reasons *)
(* only: a request asked for a newer version; a request for its version    *)
(* came from its own port; its port rejected the content; or it was the    *)
(* tail of a full table and another key was learned.                       *)
(***************************************************************************)
LeavesForCause ==
    booted => \A e \in Entries(ctable) \ Entries(ctable') : CauseFor(e)

EntriesLeaveForCause == [][LeavesForCause]_vars

(***************************************************************************)
(* A request leaves no stale entry behind: no entry of its content with an *)
(* older version, none for its own version at the port it came from, so a  *)
(* later request cannot be redirected to them.                             *)
(***************************************************************************)
RequestPurgesStale ==
    last.type = "REQUEST" =>
        \A i \in DOMAIN ctable :
            ~IsStale(ctable[i], last.content, last.vn, last.iface)

(***************************************************************************)
(* The list is a cache with least-recently-learned eviction: module        *)
(* LruCache, where a key is a content with a port, and a key is older than *)
(* those in front of it.                                                   *)
(***************************************************************************)
Key(e) == <<e.content, e.iface>>

\* Pairs of indices, the first nearer to the head.
InFrontOf == {p \in (DOMAIN ctable) \X (DOMAIN ctable) : p[1] < p[2]}

Lru == INSTANCE LruCache WITH
    Keys     <- Contents \X Ifaces,
    Capacity <- MAX_CTABLE_DEPTH,
    present  <- {Key(ctable[i]) : i \in DOMAIN ctable},
    older    <- {<<Key(ctable[p[2]]), Key(ctable[p[1]])>> : p \in InFrontOf}

LruSpec == Lru!Spec
=============================================================================
