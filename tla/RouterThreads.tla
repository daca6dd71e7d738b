---------------------------- MODULE RouterThreads ----------------------------
(***************************************************************************)
(* The threads of the router and the locks they share: which structures an *)
(* operation uses, under which locks, in which order it takes them, how    *)
(* link-state updates reach the thread that sends them, and how a change   *)
(* of the links reaches the thread that computes routes.                   *)
(*                                                                         *)
(* An operation is a list of steps.  Acquiring a lock, using structures,   *)
(* and releasing locks are steps of their own, between which every other   *)
(* thread may run.  What an operation does to the structures is modelled   *)
(* elsewhere (ArpQueue, RouteTable, LinkState); here a use is what it      *)
(* reads and writes.                                                       *)
(***************************************************************************)
EXTENDS Naturals, Sequences, FiniteSets

CONSTANTS Operations,   \* the operations that occur, a subset of AllOperations
          MAX_ACTIVE    \* bound: operations under way at one time

\* Read-write locks, and the two mutexes that are held together with others.
Locks == {"cache", "queue", "iflist", "rtable", "routers", "lsuq"}

\* "ifaces" are addresses, masks and activity of the interfaces, "nbrs" their
\* neighbours, "links" the routers with their links, "updated" the date of our
\* last update.
Structures == {"cache", "queue", "ifaces", "nbrs", "links", "updated", "rtable", "lsuq"}

-----------------------------------------------------------------------------
(* Steps of an operation.                                                  *)

Rd(l)          == [act |-> "lock", lock |-> l, mode |-> "rd", reads |-> {}, writes |-> {}]
Wr(l)          == [act |-> "lock", lock |-> l, mode |-> "wr", reads |-> {}, writes |-> {}]
Un(S)          == [act |-> "unlock", locks |-> S, reads |-> {}, writes |-> {}]
Do(what, r, w) == [act |-> what, reads |-> r, writes |-> w]
Use(r, w)      == Do("use", r, w)
Signal         == Do("signal", {}, {})

\* The four locks under which a packet is sent, in their order.
PathLocks  == <<Rd("cache"), Wr("queue"), Rd("iflist"), Rd("rtable")>>
PathUnlock == <<Un({"cache", "queue", "iflist", "rtable"})>>

\* A packet is sent by the cache or waits in the queue.
send_ip == <<Use({"ifaces", "rtable", "cache"}, {"queue"})>>

\* An update is copied for every neighbour, and queued.
broadcast_pwospf_lsu_packet ==
    <<Use({"ifaces", "nbrs"}, {}), Wr("lsuq"), Do("enqueue", {}, {"lsuq"}), Un({"lsuq"})>>

\* Ours is built from our links, numbered and dated, and dated again when it was
\* queued.
start_lsu_bcast_flood ==
    <<Do("date", {"links"}, {"links", "updated"})>>
    \o broadcast_pwospf_lsu_packet \o <<Do("date", {"links"}, {"updated"})>>

\* dijkstra_trigger and the flood.
propagate_pwospf_changes == <<Do("trigger", {}, {})>> \o start_lsu_bcast_flood

-----------------------------------------------------------------------------
(* The operations.                                                         *)

\* The input thread: a packet that is forwarded or answered.
process_ip_packet == PathLocks \o send_ip \o PathUnlock

\* A HELLO is handled within the path of a packet, which it leaves and enters
\* again to write the neighbours of the interface.
HelloSection(steps) ==
    PathLocks \o <<Un({"rtable", "iflist"}), Wr("iflist"), Rd("rtable"), Wr("routers")>>
              \o steps \o PathUnlock

\* Mutant: a HELLO keeps its read lock while it writes neighbours.
MutHelloReadLocked ==
    PathLocks \o <<Do("change", {"ifaces"}, {"nbrs", "links"}), Wr("routers")>>
              \o propagate_pwospf_changes \o <<Un({"routers"}), Signal>> \o PathUnlock

process_pwospf_hello_packet ==
    HelloSection(<<Do("change", {"ifaces"}, {"nbrs", "links"})>>
                 \o propagate_pwospf_changes \o <<Un({"routers"}), Signal>>)

\* With another mask than ours: the mutex of the router list is kept.
HelloMask == HelloSection(<<>>)

\* Mutant: the mutex of the router list is kept.
MutKeepsMutex == HelloSection(<<Use({"ifaces"}, {"nbrs"})>>)

\* From a neighbour already known: only the time of its last HELLO is written.
HelloKnown == HelloSection(<<Use({"ifaces"}, {"nbrs"}), Un({"routers"})>>)

\* An update with news is forwarded, and followed by one of ours.
process_pwospf_lsu_packet ==
    PathLocks \o <<Un({"rtable"}), Wr("rtable"), Wr("routers"), Do("change", {}, {"links"})>>
              \o broadcast_pwospf_lsu_packet
              \o propagate_pwospf_changes \o <<Un({"routers"}), Signal>> \o PathUnlock

\* Also the check that the interface of a packet is up, which comes first.
process_arp_request == <<Rd("iflist"), Use({"ifaces"}, {}), Un({"iflist"})>>

process_arp_reply ==
    <<Wr("cache"), Use({}, {"cache"}), Un({"cache"}),
      Rd("cache"), Wr("queue"), Use({"cache"}, {"queue"}), Un({"queue", "cache"})>>

\* The thread of the ARP queue, once a second.
arp_thread ==
    <<Wr("cache"), Use({}, {"cache"}), Un({"cache"})>>
    \o PathLocks \o send_ip \o PathUnlock

\* The thread that says HELLO, when a neighbour has timed out and otherwise.
broadcast_pwospf_hello_packet ==
    <<Wr("iflist"), Wr("routers"), Do("change", {"ifaces"}, {"nbrs", "links"}),
      Un({"routers"}), Wr("routers")>>
    \o propagate_pwospf_changes \o <<Un({"routers"}), Signal, Un({"iflist"})>>

HelloQuiet ==
    <<Wr("iflist"), Wr("routers"), Use({"ifaces", "nbrs"}, {}), Un({"routers", "iflist"})>>

\* Whether our last update is an interval old.
Due == Do("due", {"updated"}, {})

\* Mutant: the sending thread is not signalled.
MutRefreshSilent ==
    <<Wr("routers"), Use({"links"}, {}), Un({"routers"}), Due, Wr("routers")>>
    \o start_lsu_bcast_flood \o <<Un({"routers"})>>

\* The thread that sends our update once an interval, and looks every second.
\* Our entry is found under the mutex, its date read when that is given back.
pwospf_lsu_thread ==
    <<Wr("routers"), Use({"links"}, {}), Un({"routers"}), Due, Wr("routers")>>
    \o start_lsu_bcast_flood \o <<Un({"routers"}), Signal>>

\* The thread that forgets routers.
pwospf_lsu_timeout_thread ==
    <<Wr("routers"), Do("change", {}, {"links"})>>
    \o propagate_pwospf_changes \o <<Un({"routers"}), Signal>>

\* The thread that sends the queued updates, once it was woken.
pwospf_lsu_bcast_thread ==
    <<Wr("lsuq"), Do("swap", {}, {"lsuq"}), Un({"lsuq"})>>
    \o PathLocks \o send_ip \o PathUnlock

\* Mutant: the flag is cleared after the computation.
MutClearsLast ==
    <<Rd("iflist"), Wr("rtable"), Wr("routers"),
      Do("compute", {"ifaces", "links"}, {"links", "rtable"}),
      Un({"routers", "rtable", "iflist"}), Do("clear", {}, {})>>

\* Mutant: the routes are locked before the interfaces.
MutRoutesFirst ==
    <<Do("clear", {}, {}), Wr("rtable"), Rd("iflist"), Wr("routers"),
      Do("compute", {"ifaces", "links"}, {"links", "rtable"}),
      Un({"routers", "rtable", "iflist"})>>

\* The thread that computes routes, once it was woken or a second is over.
dijkstra_thread ==
    <<Do("clear", {}, {}), Rd("iflist"), Wr("rtable"), Wr("routers"),
      Do("compute", {"ifaces", "links"}, {"links", "rtable"}),
      Un({"routers", "rtable", "iflist"})>>

\* Commands.
ArpCommand    == <<Wr("cache"), Use({}, {"cache"}), Un({"cache"})>>
RouteCommand  == <<Wr("rtable"), Use({}, {"rtable"}), Un({"rtable"})>>
cli_show_pwospf_info ==
    <<Wr("routers"), Use({"links", "updated"}, {}), Un({"routers"}),
      Rd("iflist"), Use({"ifaces", "nbrs"}, {}), Un({"iflist"})>>
cli_pwospf_send_lsu ==
    <<Wr("routers")>> \o start_lsu_bcast_flood \o <<Un({"routers"}), Signal>>

\* Interface commands: neighbours and links are changed before the mutex is taken.
InterfaceCommand ==
    <<Wr("iflist"), Wr("rtable"), Use({}, {"ifaces", "rtable"}),
      Do("change", {}, {"nbrs", "links"}), Wr("routers")>>
    \o propagate_pwospf_changes \o <<Un({"routers"}), Signal, Un({"rtable", "iflist"})>>

\* The ping takes no lock at all.
cli_sping == send_ip

\* The thread of the TCP/IP stack, which carries the command line and web pages.
send_ip_packet == PathLocks \o send_ip \o PathUnlock
\* To a destination without a route: all four locks are kept.
SendUnrouted == PathLocks \o <<Use({"rtable"}, {})>>

find_srcip ==
    <<Rd("iflist"), Rd("rtable"), Use({"ifaces", "rtable"}, {}), Un({"rtable", "iflist"})>>

Program ==
    [forward       |-> process_ip_packet,
     hello_new     |-> process_pwospf_hello_packet,
     hello_known   |-> HelloKnown,
     lsu_new       |-> process_pwospf_lsu_packet,
     arp_request   |-> process_arp_request,
     arp_reply     |-> process_arp_reply,
     arp_second    |-> arp_thread,
     hello_timeout |-> broadcast_pwospf_hello_packet,
     hello_quiet   |-> HelloQuiet,
     lsu_refresh   |-> pwospf_lsu_thread,
     lsu_timeout   |-> pwospf_lsu_timeout_thread,
     bcast         |-> pwospf_lsu_bcast_thread,
     dijkstra      |-> dijkstra_thread,
     cli_arp       |-> ArpCommand,
     cli_route     |-> RouteCommand,
     cli_show      |-> cli_show_pwospf_info,
     cli_lsu       |-> cli_pwospf_send_lsu,
     cli_iface     |-> InterfaceCommand,
     tcp_send      |-> send_ip_packet,
     tcp_route     |-> find_srcip,
     hello_mask    |-> HelloMask,
     cli_ping      |-> cli_sping,
     tcp_unrouted  |-> SendUnrouted]

AllOperations == DOMAIN Program

\* Those that change neighbours or links before they take the mutex, that take
\* no lock, and that return while they hold some.
UndisciplinedOperations == {"cli_iface", "cli_ping", "hello_mask", "tcp_unrouted"}

\* The thread that runs an operation.
ThreadOf(o) ==
    CASE o \in {"forward", "hello_new", "hello_known", "hello_mask", "lsu_new",
                "arp_request", "arp_reply"} -> "input"
      [] o \in {"hello_timeout", "hello_quiet"} -> "hello"
      [] o \in {"cli_arp", "cli_route", "cli_show", "cli_lsu", "cli_iface", "cli_ping"} -> "cli"
      [] o \in {"tcp_send", "tcp_route", "tcp_unrouted"} -> "tcp"
      [] OTHER -> o

Threads == {ThreadOf(o) : o \in Operations}

ASSUME RouterThreadsAssumption ==
    /\ Operations \subseteq AllOperations
    /\ {"lsu_refresh", "bcast", "dijkstra"} \subseteq Operations
    /\ MAX_ACTIVE \in Nat \ {0}

VARIABLES
    op,       \* per thread, the operation under way, or "idle"
    at,       \* per thread, the step that comes next
    held,     \* per thread, the locks it holds, with their modes
    lsuq,     \* pwospf_lsu_queue is not empty
    woken,    \* the sending thread was signalled while it waited
    dirty,    \* dijkstra_dirty
    stale,    \* the links have changed since routes were computed from them
    recent    \* our last update is younger than the interval of updates

vars == <<op, at, held, lsuq, woken, dirty, stale, recent>>
threadVars == <<op, at, held>>
dataVars == <<lsuq, woken, dirty, stale, recent>>

Active == {t \in Threads : op[t] # "idle"}

\* The step thread t is about to take.
Step(t) == Program[op[t]][at[t]]

About(t, act) == t \in Active /\ Step(t).act = act

\* The variables have their types, and who holds a lock for writing holds it alone.
TypeOK ==
    /\ op \in [Threads -> Operations \union {"idle"}]
    /\ \A t \in Active : ThreadOf(op[t]) = t /\ at[t] \in DOMAIN Program[op[t]]
    /\ held \in [Threads -> SUBSET (Locks \X {"rd", "wr"})]
    /\ \A t, u \in Threads, l \in Locks :
          t # u /\ <<l, "wr">> \in held[t] => held[u] \cap {<<l, "rd">>, <<l, "wr">>} = {}
    /\ {lsuq, woken, dirty, stale, recent} \subseteq BOOLEAN

Init ==
    /\ op = [t \in Threads |-> "idle"]
    /\ at = [t \in Threads |-> 1]
    /\ held = [t \in Threads |-> {}]
    /\ lsuq = FALSE /\ woken = FALSE
    /\ dirty = FALSE /\ stale = FALSE /\ recent = FALSE

-----------------------------------------------------------------------------
(* Locks.                                                                  *)

\* Mutant: a writer does not wait for readers.
MutReadersPassed(t, l, mode) ==
    \A u \in Threads \ {t} : <<l, "wr">> \notin held[u]

\* A writer excludes everybody, a reader only writers.
Grantable(t, l, mode) ==
    \A u \in Threads \ {t} : \A m \in {"rd", "wr"} :
        <<l, m>> \in held[u] => m = "rd" /\ mode = "rd"

Return(t) == op' = [op EXCEPT ![t] = "idle"] /\ at' = [at EXCEPT ![t] = 1]

\* Thread t goes to its next step, or is done.
GoOn(t) ==
    IF at[t] < Len(Program[op[t]])
    THEN at' = [at EXCEPT ![t] = @ + 1] /\ UNCHANGED op
    ELSE Return(t)

\* The thread takes a lock it may have.
Acquire(t) ==
    /\ About(t, "lock")
    /\ Grantable(t, Step(t).lock, Step(t).mode)
    /\ held' = [held EXCEPT ![t] = @ \union {<<Step(t).lock, Step(t).mode>>}]
    /\ GoOn(t)
    /\ UNCHANGED dataVars

\* The thread gives locks back.
Release(t) ==
    /\ About(t, "unlock")
    /\ held' = [held EXCEPT ![t] = {h \in @ : h[1] \notin Step(t).locks}]
    /\ GoOn(t)
    /\ UNCHANGED dataVars

\* The thread is done with the structures it used.
Used(t) ==
    /\ About(t, "use")
    /\ GoOn(t)
    /\ UNCHANGED <<held, dataVars>>

-----------------------------------------------------------------------------
(* Updates and routes.                                                     *)

\* An update of ours is made, which puts the next refresh off.
DateUpdate(t) ==
    /\ About(t, "date")
    /\ recent' = TRUE
    /\ GoOn(t) /\ UNCHANGED <<held, lsuq, woken, dirty, stale>>

\* The refresh reads the date without a lock, and has nothing to do yet when
\* the update is recent.
CheckDue(t) ==
    /\ About(t, "due")
    /\ IF recent THEN Return(t) ELSE GoOn(t)
    /\ UNCHANGED <<held, dataVars>>

Enqueue(t) ==
    /\ About(t, "enqueue")
    /\ lsuq' = TRUE
    /\ GoOn(t) /\ UNCHANGED <<held, woken, dirty, stale, recent>>

\* pthread_cond_signal on pwospf_lsu_bcast_cond: lost when nobody waits.
SignalBcast(t) ==
    /\ About(t, "signal")
    /\ woken' = (woken \/ op["bcast"] = "idle")
    /\ GoOn(t) /\ UNCHANGED <<held, lsuq, dirty, stale, recent>>

\* The sending thread takes the whole queue.
Swap(t) ==
    /\ About(t, "swap")
    /\ lsuq' = FALSE
    /\ GoOn(t) /\ UNCHANGED <<held, woken, dirty, stale, recent>>

\* Links were changed, and the route computation is told.
Change(t) ==
    /\ About(t, "change")
    /\ stale' = TRUE
    /\ GoOn(t) /\ UNCHANGED <<held, lsuq, woken, dirty, recent>>

dijkstra_trigger(t) ==
    /\ About(t, "trigger")
    /\ dirty' = TRUE
    /\ GoOn(t) /\ UNCHANGED <<held, lsuq, woken, stale, recent>>

ClearDirty(t) ==
    /\ About(t, "clear")
    /\ dirty' = FALSE
    /\ GoOn(t) /\ UNCHANGED <<held, lsuq, woken, stale, recent>>

compute_rtable(t) ==
    /\ About(t, "compute")
    /\ stale' = FALSE
    /\ GoOn(t) /\ UNCHANGED <<held, lsuq, woken, dirty, recent>>

-----------------------------------------------------------------------------
(* Threads begin an operation when a packet, a command or a second comes.   *)
(* Waiting on a condition may end without a signal, so that the sending    *)
(* thread and the computation may begin at any time.                       *)

Begin(o) ==
    LET t == ThreadOf(o) IN
    /\ op[t] = "idle"
    /\ Cardinality(Active) < MAX_ACTIVE
    /\ op' = [op EXCEPT ![t] = o]
    /\ woken' = (woken /\ o # "bcast")
    /\ UNCHANGED <<at, held, lsuq, dirty, stale, recent>>

\* The interval of updates has passed without one of ours.
IntervalPasses ==
    /\ recent
    /\ recent' = FALSE
    /\ UNCHANGED <<threadVars, lsuq, woken, dirty, stale>>

Advance(t) ==
    \/ Acquire(t) \/ Release(t) \/ Used(t)
    \/ DateUpdate(t) \/ CheckDue(t) \/ Enqueue(t) \/ SignalBcast(t) \/ Swap(t)
    \/ Change(t) \/ dijkstra_trigger(t) \/ ClearDirty(t) \/ compute_rtable(t)

Next ==
    \/ \E o \in Operations : Begin(o)
    \/ \E t \in Threads : Advance(t)
    \/ IntervalPasses

\* Threads go on; those that refresh and send updates get the locks that keep
\* coming free.  The sending thread runs when it was woken, the refresh looks
\* every second, and intervals pass.
Fairness ==
    /\ WF_vars(\E t \in Threads \ {"lsu_refresh", "bcast"} : Advance(t))
    /\ SF_vars(Advance("lsu_refresh"))
    /\ SF_vars(Advance("bcast"))
    /\ SF_vars(woken /\ Begin("bcast"))
    /\ SF_vars(Begin("lsu_refresh"))
    /\ WF_vars(IntervalPasses)

Spec == Init /\ [][Next]_vars
FairSpec == Spec /\ Fairness

-----------------------------------------------------------------------------
(* Properties.                                                             *)

(***************************************************************************)
(* No two threads use one structure at once, one of them writing: the      *)
(* locks taken around each use, on all paths, are enough.  Neighbours have *)
(* no lock of their own; who writes them holds two locks, who reads them   *)
(* one of these.  There is one exception: pwospf_lsu_thread reads the date *)
(* of our last update when it has given the mutex back, and this read      *)
(* meets those who write the date, but no other write.                     *)
(***************************************************************************)
NoRace ==
    \A t, u \in Active : t # u =>
        Step(t).writes \intersect (Step(u).reads \union Step(u).writes)
            \subseteq (IF About(u, "due") THEN {"updated"} ELSE {})

\* Every thread takes its locks in one order; a HELLO goes back in it before it
\* goes on.
LockOrder == <<"cache", "queue", "iflist", "rtable", "routers", "lsuq">>

LocksInOrder ==
    \A t \in Active : About(t, "lock") =>
        \A h \in held[t] : \E i, j \in DOMAIN LockOrder :
            LockOrder[i] = h[1] /\ LockOrder[j] = Step(t).lock /\ i < j

\* No path keeps a lock it took.
NoLockKept == \A t \in Threads \ Active : held[t] = {}

\* No number of threads can ever wait for each other in a circle, nor for one
\* that is gone: whatever path an operation takes, it follows the order of the
\* locks and gives all of them back.
NoDeadlock == LocksInOrder /\ NoLockKept

\* Every queued update is taken to be sent in the end, though a signal that
\* comes while the sending thread is busy is lost.
UpdatesAreSent == lsuq ~> ~lsuq

\* No change of the links is missed by the computation of routes, though the
\* flag that asks for it is set and cleared without a lock: it is set, or about
\* to be, or the computation has still to look at the links.
ChangesAreNoticed ==
    stale => \/ dirty
             \/ \E t \in Active : \E i \in DOMAIN Program[op[t]] :
                   i >= at[t] /\ Program[op[t]][i].act \in {"trigger", "compute"}

=============================================================================
