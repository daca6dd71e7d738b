------------------------------- MODULE LinkState -------------------------------
(***************************************************************************)
(* One router's view of the network (or_pwospf.c, or_dijkstra.c and the    *)
(* interface commands of or_iface.c): its neighbours on each interface,    *)
(* known by their HELLO packets, the list of routers, known by their       *)
(* link-state updates (LSUs), and the routes computed from both.           *)
(*                                                                         *)
(* Every handler changes the list and propagates the change under locks    *)
(* that keep the others out, so each is a step; the routes follow in a     *)
(* thread of their own.  Whether the interface of a packet is up is asked  *)
(* before, under a lock that is given back: commands may come between that *)
(* step and the handler of a HELLO.  One thread reads all packets.  Other  *)
(* routers advertise what they like and number their updates.  Masks are   *)
(* folded into the subnets.                                                *)
(***************************************************************************)
EXTENDS Naturals, Sequences, FiniteSets, Lists, Dijkstra

CONSTANTS
    OurRid,     \* our id
    Others,     \* ids of the other routers
    IfList,     \* our interfaces, in the order of if_list
    SubnetOf,   \* the subnet of each of them
    Attached,   \* pairs of an interface and a router that sends HELLOs there
    Advertised, \* what each of the others may advertise: sequences of links
    Direct,     \* no gateway: the subnet is at the interface itself
    SEQ_MOD,    \* sequence numbers (2^16 in the code)
    Commands    \* interface commands in use, of "up" and "down"

Ifaces == {IfList[n] : n \in DOMAIN IfList}
Rids == Others \cup {OurRid}

Subnets == {SubnetOf[iface] : iface \in Ifaces}
              \cup UNION {{adv[k].subnet : k \in DOMAIN adv} :
                          adv \in UNION {Advertised[rid] : rid \in Others}}

LinkRecords == [subnet : Subnets, rid : Rids \cup {NoRouter}]

ASSUME RidsAssumption ==
    /\ OurRid \notin Others
    /\ {NoRouter, Null, Freed, Direct} \cap Rids = {}
ASSUME IfacesAssumption ==
    /\ IfList \in Seq(Ifaces)
    /\ \A m, n \in DOMAIN IfList : IfList[m] = IfList[n] => m = n
    /\ \A i, j \in Ifaces : SubnetOf[i] = SubnetOf[j] => i = j
    /\ Attached \subseteq Ifaces \X Others
ASSUME AdvertisedAssumption ==
    \A rid \in Others : Advertised[rid] \subseteq Seq(LinkRecords)
ASSUME LimitsAssumption ==
    SEQ_MOD \in Nat \ {0} /\ Commands \subseteq {"up", "down"}
\* No way along the routers is as long as Infinity.
ASSUME DistancesAssumption ==
    IsFiniteSet(Rids) /\ Cardinality(Rids) < Infinity

VARIABLES
    router_list, \* rs->pwospf_router_list, ourselves first
    nbr_routers, \* the neighbours known on each interface
    checked,     \* the HELLO whose interface was found up and that is not handled
                 \* yet, as a set of at most one <<interface, router>>
    ifUp,        \* the interfaces that are up
    learned,     \* the routes of rs->rtable that were computed
    dijkstra_dirty,
    sent,        \* the number of the latest LSU of each other router
    fault        \* what stopped the program, or "none"

vars == <<router_list, nbr_routers, checked, ifUp, learned, dijkstra_dirty, sent, fault>>

Ours == router_list[Us].interface_list

\* The list with our links replaced.
WithOurs(links) == [router_list EXCEPT ![Us].interface_list = links]

\* The program is alive, and the handler calls propagate_pwospf_changes, which
\* brings the active links up to date and has the routes computed again.
Propagates == fault = "none" /\ dijkstra_dirty' = TRUE

-----------------------------------------------------------------------------
(* HELLO packets.                                                          *)

OnSubnet(iface) == {k \in DOMAIN Ours : Ours[k].subnet = SubnetOf[iface]}

First(K) == {k \in K : \A j \in K : k <= j}

\* A new neighbour fills in the link that has none, or gets a link of its own.
LinkAdded(iface, rid) ==
    LET blank == {k \in OnSubnet(iface) : Ours[k].rid = NoRouter}
    IN IF blank = {}
       THEN node_push_back(Ours, [subnet |-> SubnetOf[iface], rid |-> rid])
       ELSE [Ours EXCEPT ![CHOOSE k \in First(blank) : TRUE].rid = rid]

\* The input thread lets a HELLO in when its interface is up.
process_packet(iface, rid) ==
    /\ fault = "none"
    /\ checked = {}
    /\ iface \in ifUp
    /\ checked' = {<<iface, rid>>}
    /\ UNCHANGED <<router_list, nbr_routers, ifUp, learned, dijkstra_dirty, sent, fault>>

(***************************************************************************)
(* The handler does not ask again whether the interface is up.  From a     *)
(* neighbour known there it only sets the time of the last HELLO.  A new   *)
(* one needs a link, and the program stops when we have no list of links,  *)
(* because every interface is down by now.                                 *)
(***************************************************************************)
process_pwospf_hello_packet(iface, rid) ==
    /\ <<iface, rid>> \in checked
    /\ checked' = {}
    /\ IF rid \in nbr_routers[iface]
       THEN /\ fault = "none"
            /\ UNCHANGED <<router_list, nbr_routers, dijkstra_dirty, fault>>
       ELSE IF Ours = <<>>
            THEN /\ fault = "none" /\ fault' = "assertion"
                 /\ UNCHANGED <<router_list, nbr_routers, dijkstra_dirty>>
            ELSE /\ Propagates
                 /\ nbr_routers' = [nbr_routers EXCEPT ![iface] = @ \cup {rid}]
                 /\ router_list' = WithOurs(LinkAdded(iface, rid))
                 /\ UNCHANGED fault
    /\ UNCHANGED <<ifUp, learned, sent>>

\* Mutant: the link of the neighbour that is gone is always removed.
MutLinkRemoved(iface, rid) ==
    node_remove(Ours, First({k \in OnSubnet(iface) : Ours[k].rid = rid}))

\* The last link on a subnet stays, without a neighbour.
LinkDropped(iface, rid) ==
    IF Cardinality(OnSubnet(iface)) = 1
    THEN [Ours EXCEPT ![CHOOSE k \in OnSubnet(iface) : TRUE].rid = NoRouter]
    ELSE node_remove(Ours, First({k \in OnSubnet(iface) : Ours[k].rid = rid}))

\* Mutant: the routes are not computed again.
MutTimeoutUnpropagated(iface, rid) ==
    /\ fault = "none"
    /\ iface \in ifUp
    /\ rid \in nbr_routers[iface]
    /\ nbr_routers' = [nbr_routers EXCEPT ![iface] = @ \ {rid}]
    /\ router_list' = WithOurs(LinkDropped(iface, rid))
    /\ UNCHANGED <<checked, ifUp, learned, dijkstra_dirty, sent, fault>>

\* No HELLO for three intervals.
determine_timedout_interface(iface, rid) ==
    /\ Propagates
    /\ iface \in ifUp
    /\ rid \in nbr_routers[iface]
    /\ nbr_routers' = [nbr_routers EXCEPT ![iface] = @ \ {rid}]
    /\ router_list' = WithOurs(LinkDropped(iface, rid))
    /\ UNCHANGED <<checked, ifUp, learned, sent, fault>>

-----------------------------------------------------------------------------
(* LSUs.                                                                   *)

\* Mutant: the walk along the list stops before its tail.
MutTailNotReached(rid) ==
    {i \in 1..(Len(router_list) - 1) : router_list[i].rid = rid}

Known(rid) == {i \in DOMAIN router_list : router_list[i].rid = rid}

\* populate_pwospf_router_interface_list: links that are new go behind the
\* old ones, and those not advertised any more are taken out.
Populated(old, adv) ==
    LET both == {k \in DOMAIN old : \E l \in DOMAIN adv : adv[l] = old[k]}
        new  == {l \in DOMAIN adv : /\ \A k \in DOMAIN old : old[k] # adv[l]
                                    /\ \A k \in 1..(l - 1) : adv[k] # adv[l]}
    IN IF old = <<>> THEN adv ELSE Keep(old, both) \o Keep(adv, new)

Newer(seq, stored) == seq # stored /\ seq > stored

process_pwospf_lsu_packet(rid, seq, adv) ==
    /\ checked = {}
    /\ IF Known(rid) = {}
       THEN /\ router_list' = node_push_back(router_list,
                   [rid |-> rid, seq |-> seq, interface_list |-> adv, prev_router |-> Null])
            /\ Propagates
       ELSE LET i == CHOOSE i \in Known(rid) : TRUE
                links == Populated(router_list[i].interface_list, adv)
            IN /\ fault = "none"
               /\ Newer(seq, router_list[i].seq)
               /\ router_list' = [router_list EXCEPT ![i].seq = seq,
                                                     ![i].interface_list = links]
               /\ dijkstra_dirty' =
                     (dijkstra_dirty \/ links # router_list[i].interface_list \/ links = <<>>)
    /\ UNCHANGED <<nbr_routers, checked, ifUp, learned, fault>>

(***************************************************************************)
(* The next update of another router, or an older one that took longer.    *)
(***************************************************************************)
NewLsu(rid, adv) ==
    LET seq == (sent[rid] + 1) % SEQ_MOD
    IN /\ sent' = [sent EXCEPT ![rid] = seq]
       /\ IF Known(rid) = {} \/ \E i \in Known(rid) : Newer(seq, router_list[i].seq)
          THEN process_pwospf_lsu_packet(rid, seq, adv)
          ELSE /\ fault = "none" /\ checked = {}
               /\ UNCHANGED <<router_list, nbr_routers, checked, ifUp, learned,
                              dijkstra_dirty, fault>>

LateLsu(rid, seq, adv) ==
    /\ seq <= sent[rid]
    /\ process_pwospf_lsu_packet(rid, seq, adv)
    /\ UNCHANGED sent

\* No LSU for three intervals: the entry is freed.  Pointers to it stay.
pwospf_lsu_timeout_thread(rid) ==
    /\ Propagates
    /\ Known(rid) # {}
    /\ LET rest == node_remove(router_list, Known(rid))
       IN router_list' = [i \in DOMAIN rest |->
              IF rest[i].prev_router = rid THEN [rest[i] EXCEPT !.prev_router = Freed]
                                           ELSE rest[i]]
    /\ UNCHANGED <<nbr_routers, checked, ifUp, learned, sent, fault>>

-----------------------------------------------------------------------------
(* Interface commands.                                                     *)

(***************************************************************************)
(* The neighbours of the interface are removed by a loop that does not     *)
(* move on from the first of them, and frees it twice.                     *)
(***************************************************************************)
iface_down(iface) ==
    /\ "down" \in Commands
    /\ iface \in ifUp
    /\ IF nbr_routers[iface] # {}
       THEN /\ fault = "none" /\ fault' = "freed twice"
            /\ UNCHANGED <<router_list, ifUp, learned, dijkstra_dirty>>
       ELSE /\ Propagates
            /\ ifUp' = ifUp \ {iface}
            /\ router_list' = WithOurs(node_remove(Ours, OnSubnet(iface)))
            /\ learned' = {q \in learned : q.iface # iface}
            /\ UNCHANGED fault
    /\ UNCHANGED <<nbr_routers, checked, sent>>

\* The same loop, for a neighbour whose HELLO was handled after iface_down.
iface_up(iface) ==
    /\ "up" \in Commands
    /\ iface \notin ifUp
    /\ IF nbr_routers[iface] # {}
       THEN /\ fault = "none" /\ fault' = "freed twice"
            /\ UNCHANGED <<router_list, ifUp, dijkstra_dirty>>
       ELSE LET link == [subnet |-> SubnetOf[iface], rid |-> NoRouter]
            IN /\ Propagates
               /\ ifUp' = ifUp \cup {iface}
               /\ router_list' = IF \E k \in DOMAIN Ours : Ours[k] = link THEN router_list
                                 ELSE WithOurs(node_push_back(Ours, link))
               /\ UNCHANGED fault
    /\ UNCHANGED <<nbr_routers, checked, learned, sent>>

-----------------------------------------------------------------------------
(* Routes.                                                                 *)

FirstIface(S) ==
    {IfList[n] : n \in {n \in DOMAIN IfList :
        IfList[n] \in S /\ \A m \in 1..(n - 1) : IfList[m] \notin S}}

\* The interface of a route, as a set of at most one: the first that has the
\* next router as a neighbour, or the first on the subnet.
IfaceFor(rid, subnet) ==
    LET byRid    == {iface \in Ifaces : rid \in nbr_routers[iface]}
        bySubnet == {iface \in Ifaces : SubnetOf[iface] = subnet}
    IN FirstIface(IF byRid # {} THEN byRid ELSE bySubnet)

Prevs == [i \in DOMAIN router_list |-> router_list[i].prev_router]

(***************************************************************************)
(* compute_rtable, called by dijkstra_thread.  It reads freed memory when  *)
(* a route is built along a pointer to an entry that was removed, and it   *)
(* fails its assertion when the interface found by its subnet does not     *)
(* have the next router as a neighbour.                                    *)
(***************************************************************************)
dijkstra_thread ==
    LET st == Found(router_list, Prevs)
        next(c) == NextOf(router_list, st, c)
        ifaces(c) == IfaceFor(next(c), Subnet(router_list, c))
        routed == {c \in Wrappers(router_list, st) : ifaces(c) # {}}
        lost == {c \in routed : c[1] # Us /\
                                \A iface \in ifaces(c) : next(c) \notin nbr_routers[iface]}
        route(c) == [subnet |-> Subnet(router_list, c),
                     iface  |-> CHOOSE iface \in ifaces(c) : TRUE,
                     gw     |-> IF c[1] = Us THEN Direct ELSE next(c)]
    IN /\ fault = "none"
       /\ dijkstra_dirty
       /\ dijkstra_dirty' = FALSE
       /\ fault' = IF \E c \in Wrapped(router_list, st) : next(c) = Freed
                   THEN "freed router" ELSE IF lost # {} THEN "assertion" ELSE "none"
       /\ router_list' = [i \in DOMAIN router_list |->
                             [router_list[i] EXCEPT !.prev_router = st.prev[i]]]
       /\ learned' = IF fault' = "none" THEN {route(c) : c \in routed} ELSE {}
       /\ UNCHANGED <<nbr_routers, checked, ifUp, sent>>

-----------------------------------------------------------------------------
\* init_router_list: we advertise all our subnets, without neighbours.
Init ==
    /\ router_list = <<[rid |-> OurRid, seq |-> 0, prev_router |-> Null,
                        interface_list |->
                            [n \in DOMAIN IfList |->
                                [subnet |-> SubnetOf[IfList[n]], rid |-> NoRouter]]]>>
    /\ nbr_routers = [iface \in Ifaces |-> {}]
    /\ checked = {}
    /\ ifUp = Ifaces
    /\ learned = {}
    /\ dijkstra_dirty = TRUE
    /\ sent = [rid \in Others |-> 0]
    /\ fault = "none"

Next ==
    \/ \E iface \in Ifaces : \E rid \in {r \in Others : <<iface, r>> \in Attached} :
          \/ process_packet(iface, rid)
          \/ process_pwospf_hello_packet(iface, rid)
          \/ determine_timedout_interface(iface, rid)
    \/ \E rid \in Others :
          \/ \E adv \in Advertised[rid] :
                \/ NewLsu(rid, adv)
                \/ \E seq \in 0..(SEQ_MOD - 1) : LateLsu(rid, seq, adv)
          \/ pwospf_lsu_timeout_thread(rid)
    \/ \E iface \in Ifaces : iface_up(iface) \/ iface_down(iface)
    \/ dijkstra_thread

Spec == Init /\ [][Next]_vars

-----------------------------------------------------------------------------
(* Properties.                                                             *)

\* The variables have their types, and no router is in the list twice.
TypeOK ==
    /\ router_list \in Seq([rid : Rids, seq : 0..(SEQ_MOD - 1),
                            interface_list : Seq(LinkRecords),
                            prev_router : Rids \cup {Null, Freed}])
    /\ router_list # <<>> /\ router_list[Us].rid = OurRid
    /\ \A i, j \in DOMAIN router_list : router_list[i].rid = router_list[j].rid => i = j
    /\ nbr_routers \in [Ifaces -> SUBSET Others]
    /\ checked \subseteq Attached /\ \A p, q \in checked : p = q
    /\ ifUp \subseteq Ifaces
    /\ learned \subseteq [subnet : Subnets, iface : Ifaces, gw : Others \cup {Direct}]
    /\ dijkstra_dirty \in BOOLEAN
    /\ sent \in [Others -> 0..(SEQ_MOD - 1)]
    /\ fault \in {"none", "freed router", "assertion", "freed twice"}

(***************************************************************************)
(* What we advertise is what we see: on the subnet of an interface one     *)
(* link for each neighbour known there; when there is none, a single link  *)
(* without a neighbour if the interface is up, and nothing if it is down.  *)
(* An interface that is down has at most the one neighbour whose HELLO was *)
(* let in before.  Neighbours, timeouts and commands change the two lists  *)
(* by different code.                                                      *)
(***************************************************************************)
NeighborsAdvertised ==
    \A iface \in Ifaces :
        LET seen == [k \in OnSubnet(iface) |-> Ours[k].rid]
        IN /\ \A j, k \in OnSubnet(iface) : seen[j] = seen[k] => j = k
           /\ {seen[k] : k \in OnSubnet(iface)} =
                 IF nbr_routers[iface] # {} THEN nbr_routers[iface]
                 ELSE IF iface \in ifUp THEN {NoRouter} ELSE {}
           /\ iface \notin ifUp => \A r, s \in nbr_routers[iface] : r = s

(***************************************************************************)
(* Once computed, every learned route to a gateway leaves to a router that *)
(* is still known as a neighbour on the interface of the route, and a      *)
(* route to a subnet of ours by an interface that is up, or by one that    *)
(* has a neighbour all the same: process_pwospf_hello_packet handled its   *)
(* HELLO after iface_down.                                                 *)
(***************************************************************************)
RoutesUseNeighbors ==
    ~dijkstra_dirty => \A q \in learned :
        /\ q.gw = Direct \/ q.gw \in nbr_routers[q.iface]
        /\ q.iface \in ifUp \/ nbr_routers[q.iface] # {}

\* The routers of the list within n links of router i.
Within(list, i) ==
    LET ball[n \in 0..Len(list)] ==
            IF n = 0 THEN {i}
            ELSE LET nearer == ball[n - 1]
                 IN nearer \cup {v \in DOMAIN list : \E w \in nearer : Linked(list, w, v)}
    IN ball

Advertises(list, i, subnet) ==
    \E k \in DOMAIN list[i].interface_list : list[i].interface_list[k].subnet = subnet

\* The routers in reach that advertise a subnet, and the fewest links to one.
Advertisers(list, subnet) ==
    {i \in Within(list, Us)[Len(list)] : Advertises(list, i, subnet)}

Fewest(ball, goals) ==
    CHOOSE n \in DOMAIN ball :
        /\ ball[n] \cap goals # {}
        /\ \A m \in 0..(n - 1) : ball[m] \cap goals = {}

Computed == dijkstra_dirty /\ ~dijkstra_dirty' /\ fault' = "none"

\* The route to a subnet, if it is in reach: there is one, to the interface on
\* the subnet if it is ours, and otherwise to a neighbour one link nearer to it.
ShortestTo(subnet) ==
    LET goals  == Advertisers(router_list, subnet)
        ball   == Within(router_list, Us)
        d      == Fewest(ball, goals)
        routes == {q \in learned' : q.subnet = subnet}
    IN goals # {} =>
          \E q \in routes :
             /\ routes = {q}
             /\ IF d = 0
                THEN q.gw = Direct /\ SubnetOf[q.iface] = subnet
                ELSE \E i \in DOMAIN router_list :
                        /\ router_list[i].rid = q.gw
                        /\ Linked(router_list, Us, i)
                        /\ q.gw \in nbr_routers[q.iface]
                        /\ goals \cap ball[d] \cap Within(router_list, i)[d - 1] # {}

(***************************************************************************)
(* The computation gives every subnet that is in reach one route: to the   *)
(* interface on it if it is ours, and otherwise to a neighbour from which  *)
(* it takes one link less to get to a router that advertises it than it    *)
(* takes from us, whatever earlier computations left in the entries.       *)
(***************************************************************************)
ShortestRoutes == [][Computed => \A subnet \in Subnets : ShortestTo(subnet)]_vars
=============================================================================
