---------------------------- MODULE MCRouteTable ----------------------------
(***************************************************************************)
(* Small instances of RouteTable for TLC: addresses of two bits, so that   *)
(* there are a default route, two networks of two hosts and hosts.         *)
(***************************************************************************)
EXTENDS RouteTable, TLC

CONSTANTS e0, e1, g

route(ip, mask, gw, iface) == [ip |-> ip, mask |-> mask, gw |-> gw, iface |-> iface]

MCBits == {0, 1}
MCMasks == {{}, {1}, {0, 1}}

\* A default route, a network, the same network with a host bit set, a host.
MCStatic == {route({}, {}, g, e0), route({1}, {1}, g, e1),
             route({0, 1}, {1}, NoGateway, e0), route({1}, {0, 1}, g, e1)}

\* The network again, another way, the other network, and the host.
MCLearned == {route({1}, {1}, NoGateway, e0), route({}, {1}, g, e1),
              route({1}, {0, 1}, NoGateway, e0)}

-----------------------------------------------------------------------------
(***************************************************************************)
(* The sort as the code performs it, a pass at a time: each swaps          *)
(* neighbours from the head to the tail, until a pass swaps nothing.       *)
(***************************************************************************)
Swap(s, i) == [s EXCEPT ![i] = s[i + 1], ![i + 1] = s[i]]

RECURSIVE Pass(_, _)
Pass(s, i) ==
    IF i >= Len(s) THEN s
    ELSE Pass(IF Before(s[i + 1], s[i]) THEN Swap(s, i) ELSE s, i + 1)

RECURSIVE BubbleSort(_)
BubbleSort(s) == LET t == Pass(s, 1) IN IF t = s THEN s ELSE BubbleSort(t)

\* Sorted is what the passes of trigger_rtable_modified end with.
SortIsBubbleSort ==
    LET all == {Static(d) : d \in StaticRoutes} \cup {Learned(d) : d \in LearnedRoutes}
    IN \A s \in SeqsUpTo(all, 4) : BubbleSort(s) = Sorted(s)

ASSUME SortIsBubbleSort
=============================================================================
