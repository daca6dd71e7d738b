------------------------------- MODULE Dijkstra -------------------------------
(***************************************************************************)
(* The computation of routes from the list of routers (or_dijkstra.c, and  *)
(* determine_active_interfaces of or_pwospf.c), as operators.              *)
(*                                                                         *)
(* A router of the list is a record of its id, rid, and the sequence of    *)
(* the links it advertises, interface_list; a link is a record of a subnet *)
(* and the neighbour seen on it.  We are the first of the list.            *)
(*                                                                         *)
(* The pointers prev_router live in the entries and are not reset between  *)
(* two computations.  They are a function from ids to ids, with Null, and  *)
(* with Freed for a pointer to an entry that has been removed since.       *)
(***************************************************************************)
EXTENDS Naturals, Sequences, FiniteSets

CONSTANTS
    NoRouter, \* no neighbour: the id 0
    Null,     \* a null pointer
    Freed,    \* a pointer to an entry that was removed
    Infinity  \* more than any distance (0xFFFFFFFF in the code)

ASSUME InfinityAssumption == Infinity \in Nat

Us == 1

-----------------------------------------------------------------------------
(* Links.                                                                  *)

\* Both links are on one subnet and both see a neighbour there.
Facing(a, b) == a.subnet = b.subnet /\ a.rid # NoRouter /\ b.rid # NoRouter

(***************************************************************************)
(* determine_active_interfaces, for every router from the head to the      *)
(* tail.  A link becomes active when the router it names has a link facing *)
(* it, and also when a router that comes later in the list names its owner *)
(* on that subnet.                                                         *)
(***************************************************************************)
IsActive(list, i, k) ==
    LET link == list[i].interface_list[k] IN
    \/ \E j \in DOMAIN list : \E l \in DOMAIN list[j].interface_list :
          /\ list[j].rid = link.rid
          /\ Facing(link, list[j].interface_list[l])
    \/ \E j \in (i + 1)..Len(list) : \E l \in DOMAIN list[j].interface_list :
          /\ list[j].interface_list[l].rid = list[i].rid
          /\ Facing(link, list[j].interface_list[l])

\* Router i has an active link to router j.
Linked(list, i, j) ==
    \E k \in DOMAIN list[i].interface_list :
        list[i].interface_list[k].rid = list[j].rid /\ IsActive(list, i, k)

-----------------------------------------------------------------------------
(* Distances.                                                              *)

\* The first of the nearest routers that have not been found, as a set.
get_shortest(list, st) ==
    {i \in DOMAIN list \ st.found :
        /\ st.distance[i] < Infinity
        /\ \A j \in DOMAIN list \ st.found :
              \/ st.distance[i] < st.distance[j]
              \/ st.distance[i] = st.distance[j] /\ i <= j}

\* Mutant: a neighbour comes nearer even when it was no farther away.
MutAlwaysNearer(list, st, w) ==
    LET found  == st.found \cup {w}
        nearer == {v \in DOMAIN list \ found : Linked(list, w, v)}
    IN [found    |-> found,
        distance |-> [v \in DOMAIN list |->
                         IF v \in nearer THEN st.distance[w] + 1 ELSE st.distance[v]],
        prev     |-> [v \in DOMAIN list |->
                         IF v \in nearer THEN list[w].rid ELSE st.prev[v]]]

\* Router w is found, and the routers it has active links to come nearer.
update_neighbor_distance(list, st, w) ==
    LET found  == st.found \cup {w}
        nearer == {v \in DOMAIN list \ found :
                      /\ Linked(list, w, v)
                      /\ st.distance[w] + 1 < st.distance[v]}
    IN [found    |-> found,
        distance |-> [v \in DOMAIN list |->
                         IF v \in nearer THEN st.distance[w] + 1 ELSE st.distance[v]],
        prev     |-> [v \in DOMAIN list |->
                         IF v \in nearer THEN list[w].rid ELSE st.prev[v]]]

(***************************************************************************)
(* The loop of compute_rtable: its state after n routers have been found.  *)
(* prev is what prev_router of every entry was before.                     *)
(***************************************************************************)
Found(list, prev) ==
    LET st[n \in 0..Len(list)] ==
            IF n = 0
            THEN [found    |-> {},
                  distance |-> [i \in DOMAIN list |-> IF i = Us THEN 0 ELSE Infinity],
                  prev     |-> prev]
            ELSE LET before == st[n - 1]
                     next == IF n = 1 THEN {Us} ELSE get_shortest(list, before)
                 IN IF next = {} THEN before
                    ELSE update_neighbor_distance(list, before, CHOOSE w \in next : TRUE)
    IN st[Len(list)]

-----------------------------------------------------------------------------
(* Routes.                                                                 *)

IndexOf(list, rid) == CHOOSE i \in DOMAIN list : list[i].rid = rid

(***************************************************************************)
(* "Walk down until the next router is the source": from an entry along    *)
(* prev_router to the neighbour of ours that comes first on the way to it, *)
(* or to Freed, when an entry on the way has been removed.  An entry that  *)
(* never had a distance names the neighbour of the link instead.           *)
(***************************************************************************)
NextRid(list, st, i, link) ==
    LET hop[n \in 0..Len(list)] ==
            IF n = 0 THEN i
            ELSE LET r == hop[n - 1]
                     p == st.prev[r]
                 IN IF p \in {list[Us].rid, Freed} THEN r ELSE IndexOf(list, p)
        last == hop[Len(list)]
    IN IF st.prev[i] = Null THEN link.rid
       ELSE IF st.prev[last] = Freed THEN Freed ELSE list[last].rid

Links(list) ==
    UNION {{<<i, k>> : k \in DOMAIN list[i].interface_list} : i \in DOMAIN list}

Subnet(list, c) == list[c[1]].interface_list[c[2]].subnet

ComesBefore(b, c) == b[1] < c[1] \/ (b[1] = c[1] /\ b[2] < c[2])

(***************************************************************************)
(* add_route_wrappers: the links that make the route to their subnet, or   *)
(* replace it, since all before them were farther away.  A route from a    *)
(* router out of reach, whose distance is cut to 16 bits, gives way to one *)
(* from any router in reach.                                               *)
(***************************************************************************)
Wrapped(list, st) ==
    {c \in Links(list) :
        \A b \in Links(list) :
            ComesBefore(b, c) /\ Subnet(list, b) = Subnet(list, c)
                => st.distance[c[1]] < st.distance[b[1]]}

\* The last of them for each subnet, which is the route in the end.
Wrappers(list, st) ==
    LET all == Wrapped(list, st)
    IN {c \in all :
           \A b \in all : ComesBefore(c, b) => Subnet(list, b) # Subnet(list, c)}

NextOf(list, st, c) ==
    NextRid(list, st, c[1], list[c[1]].interface_list[c[2]])
=============================================================================
