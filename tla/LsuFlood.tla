------------------------------- MODULE LsuFlood -------------------------------
(***************************************************************************)
(* Routers that flood link-state updates (or_pwospf.c): what each of them  *)
(* knows of the others while routers and links fail and come back, updates *)
(* are lost and sequence numbers wrap around.  LinkState models one router *)
(* in more detail; here several of them run the same code.                 *)
(*                                                                         *)
(* A clock ticks twice in an LSU interval.  The code looks at its times    *)
(* every second and notices a lost neighbour after three HELLO intervals   *)
(* of 5 seconds, so whatever is due, and the floods that follow from it,   *)
(* happens before the next tick, in any order.                             *)
(***************************************************************************)
EXTENDS Naturals, Sequences, FiniteSets, Functions

CONSTANTS
    Routers,
    Links,     \* sets of two routers
    LSUINT,    \* the LSU interval in ticks
    SEQ_MOD,   \* sequence numbers (2^16 in the code)
    TTL,       \* that of a new update (64 in the code)
    StartSeq,  \* next number of each router in a network that has settled
    MayFail,   \* the routers and links that may fail
    MaxFaults, \* bound on their failures
    Lossy,     \* the channels that may lose an update
    MaxLost    \* bound on the losses

Channels == {<<r, q>> \in Routers \X Routers : {r, q} \in Links}

ASSUME NetworkAssumption ==
    /\ \A l \in Links : l \subseteq Routers /\ Cardinality(l) = 2
    /\ MayFail \subseteq Routers \cup Links
    /\ Lossy \subseteq Channels
ASSUME NumbersAssumption ==
    /\ {LSUINT, SEQ_MOD, TTL} \subseteq Nat \ {0}
    /\ StartSeq \in [Routers -> 1..(SEQ_MOD - 1)]
    /\ {MaxFaults, MaxLost} \subseteq Nat

VARIABLES
    router_list, \* rs->pwospf_router_list of each router, empty if it is down
    net,         \* the updates on their way over each channel
    cut,         \* the links that are down
    faults, lost,
    quiet        \* ticks since something failed, came back or wrapped around

vars == <<router_list, net, cut, faults, lost, quiet>>

Running == {r \in Routers : r \in DOMAIN router_list[r]}

Joined(r, q) == {r, q} \in Links \ cut

\* The neighbours a router knows; it advertises a link to each of them.
Nbrs(r) == router_list[r][r].nbrs

\* The neighbours it has.
Around(r) == {q \in Running : Joined(r, q)}

-----------------------------------------------------------------------------
(* Sending.                                                                *)

\* The channels n after router r sent an update to the routers of tos.
broadcast_pwospf_lsu_packet(n, lsu, r, tos) ==
    [c \in Channels |-> IF c[1] = r /\ c[2] \in tos \cap Around(r)
                        THEN Append(n[c], lsu) ELSE n[c]]

OwnLsu(list, r) ==
    [rid |-> r, seq |-> list[r].seq, nbrs |-> list[r].nbrs, ttl |-> TTL]

\* Mutant: numbers do not wrap around.
MutNoWrap(list, r) == [list EXCEPT ![r].seq = @ + 1, ![r].age = 0]

Sent(list, r) == [list EXCEPT ![r].seq = (@ + 1) % SEQ_MOD, ![r].age = 0]

\* Router r has the list, and sends its own update to its neighbours.
start_lsu_bcast_flood(r, list, n) ==
    /\ router_list' = [router_list EXCEPT ![r] = Sent(list, r)]
    /\ net' = broadcast_pwospf_lsu_packet(n, OwnLsu(list, r), r, list[r].nbrs)
    /\ quiet' = IF list[r].seq = SEQ_MOD - 1 THEN 0 ELSE quiet

\* No update for an LSU interval.
pwospf_lsu_thread(r) ==
    /\ r \in Running
    /\ router_list[r][r].age > LSUINT
    /\ start_lsu_bcast_flood(r, router_list[r], net)
    /\ UNCHANGED <<cut, faults, lost>>

-----------------------------------------------------------------------------
(* Neighbours.                                                             *)

\* The first HELLO of a neighbour.
process_pwospf_hello_packet(r, q) ==
    /\ r \in Running
    /\ q \in Around(r) \ Nbrs(r)
    /\ start_lsu_bcast_flood(r, [router_list[r] EXCEPT ![r].nbrs = @ \cup {q}], net)
    /\ UNCHANGED <<cut, faults, lost>>

\* No HELLO for three HELLO intervals.
determine_timedout_interface(r, q) ==
    /\ r \in Running
    /\ q \in Nbrs(r) \ Around(r)
    /\ start_lsu_bcast_flood(r, [router_list[r] EXCEPT ![r].nbrs = @ \ {q}], net)
    /\ UNCHANGED <<cut, faults, lost>>

-----------------------------------------------------------------------------
(* Receiving.                                                              *)

IsNews(list, lsu) ==
    lsu.rid \in DOMAIN list => lsu.seq > list[lsu.rid].seq

\* Our view of the network changes.
Changes(list, lsu) ==
    lsu.rid \in DOMAIN list => lsu.nbrs # list[lsu.rid].nbrs

\* add_new_router_neighbor, or the entry updated.
Stored(list, lsu) ==
    [q \in DOMAIN list \cup {lsu.rid} |->
        IF q = lsu.rid THEN [seq |-> lsu.seq, nbrs |-> lsu.nbrs, age |-> 0] ELSE list[q]]

\* Mutant: the update goes no further.
MutNotForwarded(n, lsu, r, from) == n

\* On to all neighbours but the one it came from.
Forwarded(n, lsu, r, from) ==
    IF lsu.ttl - 1 > 0
    THEN broadcast_pwospf_lsu_packet(n, [lsu EXCEPT !.ttl = @ - 1], r, Nbrs(r) \ {from})
    ELSE n

\* Router r drops the update, or stores it and forwards it, and sends its own
\* if its view changes.
Received(r, lsu, from, n) ==
    LET list == Stored(router_list[r], lsu)
        on   == Forwarded(n, lsu, r, from)
    IN \/ /\ lsu.rid = r \/ ~IsNews(router_list[r], lsu)
          /\ net' = n
          /\ UNCHANGED <<router_list, quiet>>
       \/ /\ lsu.rid # r /\ IsNews(router_list[r], lsu)
          /\ ~Changes(router_list[r], lsu)
          /\ router_list' = [router_list EXCEPT ![r] = list]
          /\ net' = on
          /\ UNCHANGED quiet
       \/ /\ lsu.rid # r /\ IsNews(router_list[r], lsu)
          /\ Changes(router_list[r], lsu)
          /\ start_lsu_bcast_flood(r, list, on)

process_pwospf_lsu_packet(c) ==
    /\ net[c] # <<>>
    /\ Received(c[2], Head(net[c]), c[1], [net EXCEPT ![c] = Tail(@)])
    /\ UNCHANGED <<cut, faults, lost>>

\* Mutant: a router that is gone stays in the list.
MutNeverTimedOut(r) == {}

TimedOut(r) ==
    {q \in DOMAIN router_list[r] \ {r} : router_list[r][q].age > 3 * LSUINT}

\* No news of some routers for three LSU intervals.
pwospf_lsu_timeout_thread(r) ==
    /\ TimedOut(r) # {}
    /\ start_lsu_bcast_flood(r,
           Restrict(router_list[r], DOMAIN router_list[r] \ TimedOut(r)), net)
    /\ UNCHANGED <<cut, faults, lost>>

-----------------------------------------------------------------------------
(* What happens to the network.                                            *)

Fails(part) ==
    /\ part \in MayFail
    /\ faults < MaxFaults
    /\ faults' = faults + 1
    /\ quiet' = 0

\* The updates on the channels of C are gone.
Cleared(C) == [c \in Channels |-> IF c \in C THEN <<>> ELSE net[c]]

\* The router keeps nothing, and what it had queued is not sent.
Crash(r) ==
    /\ r \in Running
    /\ Fails(r)
    /\ router_list' = [router_list EXCEPT ![r] = <<>>]
    /\ net' = Cleared({c \in Channels : r \in {c[1], c[2]}})
    /\ UNCHANGED <<cut, lost>>

Booted(r) == [q \in {r} |-> [seq |-> 0, nbrs |-> {}, age |-> 0]]

\* The router starts again.
init_router_list(r) ==
    /\ r \notin Running
    /\ router_list' = [router_list EXCEPT ![r] = Booted(r)]
    /\ quiet' = 0
    /\ UNCHANGED <<net, cut, faults, lost>>

LinkFails(l) ==
    /\ l \notin cut
    /\ Fails(l)
    /\ cut' = cut \cup {l}
    /\ net' = Cleared({c \in Channels : {c[1], c[2]} = l})
    /\ UNCHANGED <<router_list, lost>>

LinkRepaired(l) ==
    /\ l \in cut
    /\ cut' = cut \ {l}
    /\ quiet' = 0
    /\ UNCHANGED <<router_list, net, faults, lost>>

\* An update is lost, for one because it waited for an ARP reply too long.
UpdateLost(c) ==
    /\ c \in Lossy
    /\ lost < MaxLost
    /\ net[c] # <<>>
    /\ lost' = lost + 1
    /\ net' = [net EXCEPT ![c] = Tail(@)]
    /\ UNCHANGED <<router_list, cut, faults, quiet>>

-----------------------------------------------------------------------------
(* Time.                                                                   *)

\* Nothing is due, and nothing is on its way.
AtRest ==
    /\ net = Cleared(Channels)
    /\ \A r \in Running :
          /\ Nbrs(r) = Around(r)
          /\ router_list[r][r].age <= LSUINT
          /\ TimedOut(r) = {}

(***************************************************************************)
(* How long the network is followed after the last fault: until the oldest *)
(* entry has timed out, and then for an update from everyone, and one more *)
(* for each that is lost.                                                  *)
(***************************************************************************)
Settle == (3 * LSUINT + 1) + (MaxLost + 1) * (LSUINT + 1)

Tick ==
    /\ AtRest
    /\ quiet < Settle
    /\ quiet' = quiet + 1
    /\ router_list' = [r \in Routers |->
           [q \in DOMAIN router_list[r] |-> [router_list[r][q] EXCEPT !.age = @ + 1]]]
    /\ UNCHANGED <<net, cut, faults, lost>>

Settled == AtRest /\ quiet = Settle /\ UNCHANGED vars

\* All routers have just been started, and nothing fails.
InitBoot ==
    /\ router_list = [r \in Routers |-> Booted(r)]
    /\ faults = MaxFaults
    /\ quiet = 0

\* All routers know all of the network, and are about to send updates.
InitSettled ==
    /\ router_list = [r \in Routers |-> [q \in Routers |->
           [seq  |-> IF q = r THEN StartSeq[q] ELSE StartSeq[q] - 1,
            nbrs |-> {p \in Routers : {p, q} \in Links},
            age  |-> LSUINT]]]
    /\ faults = 0
    /\ quiet = Settle

Init ==
    /\ InitBoot \/ InitSettled
    /\ net = [c \in Channels |-> <<>>]
    /\ cut = {}
    /\ lost = 0

\* What the routers do, and the clock.
Proceeds ==
    \/ \E c \in Channels : process_pwospf_lsu_packet(c)
    \/ Tick
    \/ \E r \in Routers :
          \/ pwospf_lsu_thread(r)
          \/ pwospf_lsu_timeout_thread(r)
          \/ \E q \in Routers : \/ process_pwospf_hello_packet(r, q)
                                \/ determine_timedout_interface(r, q)

\* What happens to them.
Happens ==
    \/ \E r \in Routers : Crash(r) \/ init_router_list(r)
    \/ \E l \in Links : LinkFails(l) \/ LinkRepaired(l)
    \/ \E c \in Channels : UpdateLost(c)

Next == Proceeds \/ Happens \/ Settled

(***************************************************************************)
(* The threads of the routers run, packets arrive or are lost, and time    *)
(* passes: while something is due, something that is due is done.  Nothing *)
(* need fail, and what failed need not come back.                          *)
(***************************************************************************)
Spec == Init /\ [][Next]_vars /\ WF_vars(Proceeds)

-----------------------------------------------------------------------------
(* Properties.                                                             *)

\* The variables have their types: a router that is up has an entry of its
\* own, and an update travels only between routers that are up.
Numbers == 0..(SEQ_MOD - 1)
Lsus == [rid : Routers, seq : Numbers, nbrs : SUBSET Routers, ttl : 1..TTL]
TypeOK ==
    /\ \A r \in Routers :
          /\ DOMAIN router_list[r] \subseteq Routers
          /\ \A q \in DOMAIN router_list[r] :
                router_list[r][q] \in [seq : Numbers, nbrs : SUBSET Routers,
                                       age : 0..(3 * LSUINT + 1)]
          /\ r \notin Running => router_list[r] = <<>>
    /\ \A c \in Channels :
          /\ net[c] \in Seq(Lsus)
          /\ net[c] # <<>> => c[2] \in Around(c[1]) /\ c[1] \in Running
    /\ cut \subseteq Links
    /\ faults \in 0..MaxFaults /\ lost \in 0..MaxLost /\ quiet \in 0..Settle

\* The routers in reach of r.
Reach(r) ==
    LET ball[n \in 0..Cardinality(Routers)] ==
            IF n = 0 THEN {r}
            ELSE ball[n - 1] \cup UNION {Around(q) : q \in ball[n - 1]}
    IN ball[Cardinality(Routers)]

\* Every router knows the routers in its reach, no others, and what neighbours
\* each of them has.
Agreement ==
    \A r \in Running :
        /\ DOMAIN router_list[r] = Reach(r)
        /\ \A q \in Reach(r) : router_list[r][q].nbrs = Around(q)

(***************************************************************************)
(* Whatever routers and links failed and came back, whatever number a      *)
(* restarted router starts with and others still have stored for it, and   *)
(* although an update is lost: the floods that the routers set off in each *)
(* other come to an end, the clock reaches the end of its horizon, and by  *)
(* then all routers know the network as it is, and go on to.               *)
(***************************************************************************)
Converges == <>[](quiet = Settle /\ Agreement)
=============================================================================
