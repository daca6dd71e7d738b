------------------------------ MODULE RouteTable ------------------------------
(***************************************************************************)
(* The routing table of the router: the list that software searches        *)
(* (or_rtable.c), its rows in the hardware, which forwards most packets    *)
(* without asking, and who changes them: the table file, the command line, *)
(* an interface that goes up or down, and the thread that computes routes  *)
(* from what other routers advertise.                                      *)
(*                                                                         *)
(* Every operation here holds rtable_lock for writing, so each is a step.  *)
(*                                                                         *)
(* An address is the set of its bits that are one, numbered from the least *)
(* significant: a bitwise "and" is an intersection.                        *)
(***************************************************************************)
EXTENDS Naturals, Sequences, FiniteSets, Lists

CONSTANTS
    Bits,         \* bits of an address (0..31 in the code)
    Masks,        \* netmasks in use
    Ifaces,       \* interfaces, each with a port of the hardware
    NoPort,       \* the output port of a row that holds no route
    Gateways,     \* addresses of gateways
    NoGateway,    \* 0.0.0.0, for a network at the interface itself
    StaticRoutes, \* routes in the table file or on the command line
    LearnedRoutes,\* routes the route computation may come up with
    ROUTE_DEPTH,  \* rows of the hardware table (32 in the code)
    MAX_ROUTES    \* bound of the model: routes in the list

Addrs == SUBSET Bits

Destinations == [ip : Addrs, mask : Masks, gw : Gateways \cup {NoGateway},
                 iface : Ifaces]

ASSUME BitsAssumption == Bits \subseteq Nat /\ IsFiniteSet(Bits)
ASSUME NamesAssumption == NoPort \notin Ifaces /\ NoGateway \notin Gateways
ASSUME DepthAssumption == ROUTE_DEPTH \in Nat /\ MAX_ROUTES \in Nat

(***************************************************************************)
(* Masks are prefixes, so that of two one contains the other.  Nothing in  *)
(* the code checks it of the file or the command line.                     *)
(***************************************************************************)
ASSUME MasksAssumption ==
    /\ Masks \subseteq Addrs
    /\ \A m, n \in Masks : m \subseteq n \/ n \subseteq m
    /\ \A m \in Masks : \A b \in m, c \in Bits \ m : c < b

\* The addresses of learned routes have been masked, those of others have not.
ASSUME RoutesAssumption ==
    /\ StaticRoutes \subseteq Destinations
    /\ LearnedRoutes \subseteq {d \in Destinations : d.ip \subseteq d.mask}

VARIABLES
    booted,  \* the list has been sorted since boot
    rtable,  \* rs->rtable, from its head to its tail
    hwTable, \* the rows of the hardware table
    ifUp     \* the interfaces that are up

vars == <<booted, rtable, hwTable, ifUp>>

\* struct rtable_entry
Entries == [to : Destinations, is_static : BOOLEAN, is_active : BOOLEAN]

Rows == [ip : Addrs, mask : Addrs, gw : Gateways \cup {NoGateway},
         port : Ifaces \cup {NoPort}]

-----------------------------------------------------------------------------
(* Sorting.                                                                *)

\* x is more than y, read as numbers.
Above(x, y) == \E b \in x \ y : \A c \in y \ x : c < b

\* Mutant: the comparison of static with learned routes is left out.
MutStaticsUnsorted(a, b) ==
    \/ Above(a.to.mask, b.to.mask)
    \/ a.to.mask = b.to.mask /\ Above(a.to.ip, b.to.ip)

\* Mutant: sorted by address alone.
MutSortByAddress(a, b) == Above(a.to.ip, b.to.ip)

(***************************************************************************)
(* The sort swaps neighbours as long as the second of them goes before the *)
(* first: by mask, then by address, then static routes first.              *)
(***************************************************************************)
Before(a, b) ==
    \/ Above(a.to.mask, b.to.mask)
    \/ a.to.mask = b.to.mask /\ Above(a.to.ip, b.to.ip)
    \/ /\ a.to.mask = b.to.mask
       /\ a.to.ip = b.to.ip
       /\ a.is_static /\ ~b.is_static

\* The place of s[i] in s sorted: entries that tie keep their order.
Place(s, i) ==
    Cardinality({j \in DOMAIN s : \/ Before(s[j], s[i])
                                  \/ ~Before(s[i], s[j]) /\ j <= i})

Sorted(s) == [k \in DOMAIN s |-> s[CHOOSE i \in DOMAIN s : Place(s, i) = k]]

-----------------------------------------------------------------------------
(* The hardware.                                                           *)

Active(s) == {i \in DOMAIN s : s[i].is_active}

RowOf(e) == [ip |-> e.to.ip, mask |-> e.to.mask, gw |-> e.to.gw, port |-> e.to.iface]

BlankRow == [ip |-> {}, mask |-> {}, gw |-> NoGateway, port |-> NoPort]

\* The active routes in the order of the list, as far as they fit.
write_rtable_to_hw(s) ==
    LET active == Keep(s, Active(s))
    IN hwTable' = [r \in 1..ROUTE_DEPTH |->
                      IF r <= Len(active) THEN RowOf(active[r]) ELSE BlankRow]

trigger_rtable_modified(s) ==
    /\ rtable' = Sorted(s)
    /\ write_rtable_to_hw(rtable')
    /\ booted' = TRUE

-----------------------------------------------------------------------------
(* Lookups.  The next hop is the gateway, or the destination itself.       *)

Miss == [hop |-> NoGateway, port |-> NoPort]

NextHop(gw, dst) == IF gw = NoGateway THEN dst ELSE gw

SameNetwork(x, y, mask) == x \cap mask = y \cap mask

Matches(dst) ==
    {i \in Active(rtable) : SameNetwork(rtable[i].to.ip, dst, rtable[i].to.mask)}

\* The matching entry with the most bits in its mask, the first of several;
\* as a set of at most one.
LongestMatch(dst) ==
    {i \in Matches(dst) :
        \A j \in Matches(dst) :
            LET bits(k) == Cardinality(rtable[k].to.mask)
            IN bits(j) < bits(i) \/ (bits(j) = bits(i) /\ i <= j)}

get_next_hop(dst) ==
    IF LongestMatch(dst) = {} THEN Miss
    ELSE LET e == rtable[CHOOSE i \in LongestMatch(dst) : TRUE]
         IN [hop |-> NextHop(e.to.gw, dst), port |-> e.to.iface]

(***************************************************************************)
(* The hardware compares all rows at once and takes the first that         *)
(* matches.  The bits outside of the mask of a row are not compared.       *)
(***************************************************************************)
RowMatches(r, dst) == SameNetwork(hwTable[r].ip, dst, hwTable[r].mask)

lpm_hit(dst) == \E r \in DOMAIN hwTable : RowMatches(r, dst)

lpm_lookup(dst) ==
    IF ~lpm_hit(dst) THEN Miss
    ELSE LET r == CHOOSE r \in DOMAIN hwTable :
                     RowMatches(r, dst) /\ \A q \in 1..(r - 1) : ~RowMatches(q, dst)
         IN [hop |-> NextHop(hwTable[r].gw, dst), port |-> hwTable[r].port]

-----------------------------------------------------------------------------
(* Operations.                                                             *)

Static(d) == [to |-> d, is_static |-> TRUE, is_active |-> TRUE]

Learned(d) == [to |-> d, is_static |-> FALSE, is_active |-> TRUE]

cli_ip_route_add(d) ==
    /\ Len(rtable) < MAX_ROUTES
    /\ trigger_rtable_modified(node_push_back(rtable, Static(d)))
    /\ UNCHANGED ifUp

cli_ip_route_del(ip, mask) ==
    /\ trigger_rtable_modified(
          node_remove(rtable, {i \in DOMAIN rtable : /\ rtable[i].to.ip = ip
                                                     /\ rtable[i].to.mask = mask}))
    /\ UNCHANGED ifUp

Through(iface) == {i \in DOMAIN rtable : rtable[i].to.iface = iface}

Statics(s) == {i \in DOMAIN s : s[i].is_static}

\* The list with the flag of all entries through an interface set.
SetActive(iface, flag) ==
    [i \in DOMAIN rtable |->
        IF i \in Through(iface) THEN [rtable[i] EXCEPT !.is_active = flag]
                                ELSE rtable[i]]

iface_up(iface) ==
    /\ iface \notin ifUp
    /\ ifUp' = ifUp \cup {iface}
    /\ trigger_rtable_modified(SetActive(iface, TRUE))

\* Mutant: static routes are removed like the others.
MutRemoveAll(iface) == node_remove(rtable, Through(iface))

\* Mutant: learned routes are kept like the others.
MutDeactivateAll(iface) == SetActive(iface, FALSE)

\* Static routes are kept for the time when the interface is up again.
deactivate_routes(iface) ==
    node_remove(SetActive(iface, FALSE), Through(iface) \ Statics(rtable))

iface_down(iface) ==
    /\ iface \in ifUp
    /\ ifUp' = ifUp \ {iface}
    /\ trigger_rtable_modified(deactivate_routes(iface))

(***************************************************************************)
(* The thread that computes routes replaces all that it had computed       *)
(* before by new ones, at most one for a network.                          *)
(***************************************************************************)
dijkstra_thread(routes) ==
    /\ \A i, j \in DOMAIN routes :
          routes[i].ip = routes[j].ip /\ routes[i].mask = routes[j].mask => i = j
    /\ trigger_rtable_modified(
          Keep(rtable, Statics(rtable)) \o [i \in DOMAIN routes |-> Learned(routes[i])])
    /\ UNCHANGED ifUp

-----------------------------------------------------------------------------
SeqsUpTo(S, n) == UNION {[1..k -> S] : k \in 0..n}

\* init_rtable reads the file and init_hardware writes the list as it is.
Init ==
    /\ booted = FALSE
    /\ \E file \in SeqsUpTo(StaticRoutes, MAX_ROUTES) :
          rtable = [i \in DOMAIN file |-> Static(file[i])]
    /\ hwTable = [r \in 1..ROUTE_DEPTH |->
                     IF r <= Len(rtable) THEN RowOf(rtable[r]) ELSE BlankRow]
    /\ ifUp = Ifaces

Next ==
    \/ \E d \in StaticRoutes : \/ cli_ip_route_add(d)
                               \/ cli_ip_route_del(d.ip, d.mask)
    \/ \E iface \in Ifaces : iface_up(iface) \/ iface_down(iface)
    \/ \E n \in 0..MAX_ROUTES :
          /\ Cardinality(Statics(rtable)) + n <= MAX_ROUTES
          /\ \E routes \in [1..n -> LearnedRoutes] : dijkstra_thread(routes)

Spec == Init /\ [][Next]_vars

-----------------------------------------------------------------------------
(* Properties.                                                             *)

\* The variables have their types, and only static routes are ever inactive.
TypeOK ==
    /\ booted \in BOOLEAN
    /\ rtable \in Seq(Entries)
    /\ \A i \in DOMAIN rtable : rtable[i].is_static \/ rtable[i].is_active
    /\ hwTable \in [1..ROUTE_DEPTH -> Rows]
    /\ ifUp \subseteq Ifaces

(***************************************************************************)
(* Once the table has been sorted, whatever the hardware forwards by       *)
(* itself it forwards as get_next_hop would have: to the same next hop and *)
(* out of the same port, for every destination.  What does not fit into    *)
(* the rows it leaves to software instead of using a shorter prefix.       *)
(***************************************************************************)
HardwareAgrees ==
    booted =>
        \A dst \in Addrs :
            LET hw == lpm_lookup(dst)
                sw == get_next_hop(dst)
            IN /\ hw.port # NoPort => hw = sw
               /\ Cardinality(Active(rtable)) <= ROUTE_DEPTH => hw.port = sw.port

(***************************************************************************)
(* A learned route is never used for a destination for which there is an   *)
(* active static route with the same mask, whichever came first and        *)
(* whatever happened to the interfaces.                                    *)
(***************************************************************************)
StaticBeatsLearned ==
    \A dst \in Addrs : \A i \in LongestMatch(dst) : \A j \in Matches(dst) :
        rtable[j].is_static /\ rtable[j].to.mask = rtable[i].to.mask
            => rtable[i].is_static

\* How often a static route to d is in the list s.
Copies(s, d) == Cardinality({i \in Statics(s) : s[i].to = d})

(***************************************************************************)
(* What was configured stays configured: only "ip route del" for its very  *)
(* network takes a static route out of the list, and never an interface    *)
(* that goes down or a new computation of the learned routes.              *)
(***************************************************************************)
StaticsStay ==
    [][\A d \in StaticRoutes :
          \/ Copies(rtable', d) >= Copies(rtable, d)
          \/ cli_ip_route_del(d.ip, d.mask)]_vars
=============================================================================
