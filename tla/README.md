# CCDN router: a TLA+ model and its proofs

The repository is a NetFPGA router for a content-centric CDN. Its own logic is
the control program *scone* (`src/projects/scone/sw`), which runs in user space,
the lookup pipeline of the FPGA
(`src/lib/verilog/core/output_port_lookup/cam_router/src`), and between them the
kernel driver of the card (`src/lib/C/kernel`). This directory holds
TLA+ modules that model the program, configurations that check them with TLC,
and proofs about them for TLAPS. Paths below are relative to
`src/projects/scone/sw` unless they start with `src/`.

## 1. The system

### Components, their state and operations

| component | code | state | operations |
|---|---|---|---|
| content table | `or_ctable.c` | `ctable` (list of content, version, next hop, port), its rows in the hardware | `add_content`, `del_content`, `get_nexthop_by_content`, `write_ctable_to_hw`, `init_ctable` |
| CCCP handler | `or_cccp.c` | none of its own | REQUEST, REPLY, FINISH, REJECT and unknown packets |
| ARP cache | `or_arp.c` | `arp_cache`, its rows in the hardware | replies, commands add, del and nuke, copy to hardware |
| ARP queue | `or_arp.c`, `send_ip` of `or_main.c` | `arp_queue`: per next hop the packets that wait | add, send what waited, repeat requests, give up with ICMP errors |
| routing table | `or_rtable.c` | `rtable`, its rows in the hardware | add, delete, activate and deactivate by interface, sort, copy, longest match |
| PWOSPF | `or_pwospf.c` | neighbours of each interface, list of routers and their links, queue of LSUs | HELLO, LSU, their timeouts, propagation, flooding |
| route computation | `or_dijkstra.c` | `distance`, `prev_router` in the entries, `dijkstra_dirty` | `compute_rtable`, once a second when dirty |
| interfaces | `or_iface.c` | `if_list` | up, down |
| IP path | `or_ip.c`, `or_icmp.c`, `or_main.c` | none, but it takes most locks | forward, ICMP replies |
| NAT (cannot be switched on, see below) | `or_nat.c` | `nat_table`: external and internal pairs of address and port | rewrite what arrives and leaves, draw a port, commands |
| ping | `or_sping.c` | `sping_queue` | send, wait for the reply, clean up |
| threads | `or_main.c` and all of the above | seven read-write locks and mutexes, two conditions | take, release, wait, signal |
| output port lookup | `cam_router/src/*.v` | input fifo, six fifos of results, state machine, counters, rows of four tables | parse, look up, decide, rewrite, drop |
| kernel driver | `nf2_control.c` | ring of transmit buffers, counts per interface, transfers under way | send, receive, interrupts, reset after errors |

### How they interact

One input thread handles all packets. It drops those of an interface that is
down, which it asks under a lock that it gives back before the packet is
handled. A CCCP packet goes through the handler, which asks or changes the content table, and is then routed like any other. The
IP path reads interfaces and routes, and hands packets to `send_ip`, which asks
the ARP cache and otherwise queues them. An ARP thread looks at the queue once a
second. PWOSPF has a thread for HELLOs, one for LSU refreshes, one for LSU
timeouts, one for sending LSUs and one for route computation. The command line
adds a thread for each connection. They share the tables under read-write
locks: `arp_cache_lock`, `arp_queue_lock`, `if_list_lock`, `rtable_lock`, then
the mutexes of the router list and of the LSU queue. The content table has a
lock nobody takes: only the input thread and start-up, which come one after the
other, touch it. Every table is copied to hardware rows after a change, and the
hardware forwards most packets by its rows alone.

NAT cannot be switched on at this commit. The IP path and the CCCP handler
call it for WAN interfaces only (`or_ip.c:44`, `:115`; `or_cccp.c:65`, `:146`,
`:208`, `:268`); `is_wan` is 0 from `or_main.c:340` on, and nothing sets it but
the command "nat set" (`or_nat.c:563`), whose registration is commented out with
those of all "nat" commands (`or_main.c:822-832`). What is said of NAT below is
about its functions, as they would run if the commands were registered.

In the hardware a packet passes the output port lookup word by word: into a
fifo, and past six parsers that put one result each into fifos of their own. A
state machine waits for all six, decides, and sends or drops the packet. What it
sends to the CPU comes up through the driver, which shares one DMA engine each
way among the interfaces: the kernel calls it to send, the card interrupts it.

### What is hard

* Lists with limits, replacement and clean-up in the middle of a lookup
  (content table), where a wrong state needs a long sequence of legal packets.
* Two copies of each table, searched in different ways (rows against list).
* Lock sections that end and start again within one operation
  (`process_arp_reply`), and callers without locks (the ping).
* Walks along a list that a callee of the walk changes (`send_queued_packets`,
  `process_arp_queue`, the removal loops of `or_iface.c`).
* State that outlives what it was computed from (`prev_router`, learned routes).
* Delayed and reordered LSUs, sequence numbers that wrap around.
* Routers that set off floods in each other and come back with old numbers.
* A check under one lock and the action it is for under another (the interface
  of a packet, the date of our last update).
* Condition variables waited on without looking at what they stand for.
* Twelve threads, operations that give locks back in the middle and take others.
* Results that nothing but their order ties to their packets, in fifos nobody
  asks for room (hardware).
* An interrupt handler beside the sender, with a counter for a lock (driver).

### What makes each component correct

* Content table: one entry per (content, port); no more than its depth; what is
  dropped is stale, taken back, or the oldest of a full table; a request goes to
  a live entry behind another port; the rows are the list.
* ARP: a packet that waits is sent or reported in the end, and once; one answer
  serves all that wait; static entries reach the hardware.
* Routes: hardware and software agree on the next hop; static routes win over
  learned ones and stay.
* PWOSPF: we advertise what we see; routes are shortest, over links both ends
  confirm, and leave to neighbours that exist; whatever fails, all routers come
  to know the network as it is.
* NAT: checksums stay right (those of TCP and ICMP echoes do, those of UDP and IP
  do not); what was typed in takes effect; connections keep their pairs.
* Threads: no structure is written beside another use of it (the date of our
  last update is); nobody waits in a circle; no change of the links and no update is forgotten.
* Output port lookup: each packet is decided by its own results; the right words
  are rewritten; no fifo runs over; every packet leaves.
* Driver: every buffer is accounted for; one transfer at a time; what waits is
  sent, what arrives is fetched.

## 2. Modules

| module | models | builds on |
|---|---|---|
| `Lists` | the `node_*` list operations of `or_utils.c` on sequences | |
| `ContentTable` | content table, its rows, the CCCP handler, boot | `Lists`, `LruCache` |
| `LruCache` | the abstract cache that the content table implements | |
| `ArpQueue` | cache, rows, queue, input thread, ARP thread, commands | `Lists` |
| `RouteTable` | routing table, rows, both lookups, all who change it | `Lists` |
| `Dijkstra` | active links, shortest paths, route wrappers, as operators | |
| `LinkState` | HELLOs, LSUs, timeouts, interface commands, computation | `Lists`, `Dijkstra` |
| `LsuFlood` | several routers and the links between them: floods, refreshes, time-outs, restarts, losses | |
| `RouterThreads` | every thread as a program of lock, use, signal and unlock steps | |
| `Nat` | table, rewriting, checksums, commands | `Lists` |
| `OutputPortLookup` | the hardware stage, clock by clock | |
| `Nf2Driver` | transmit ring, `nf2c_tx`, `nf2c_send`, `nf2c_intr` | |
| `ListProofs` | lemmas about `Lists` and finite orders | `Lists` |
| `ContentTableProofs`, `ArpQueueProofs`, `RouteTableProofs`, `LinkStateProofs`, `RouterThreadsProofs`, `NatProofs`, `Nf2DriverProofs` | theorems about the module each is named for | that module, `ListProofs` |
| `MC...` | the small instances for TLC | |

Variables and actions carry the names of the code where TLA+ allows it. Lists
are sequences with the head first. Each module says which of its steps are
atomic and which locks make them so. An operator whose name starts with `Mut`
is a plausible mistake in the definition that follows it; no specification uses
it, and putting it in the place of that definition breaks the property named in
`PROJECT.json`.

**ContentTable.** A content is the number its name hashes to, a version a
number. One action per packet type, each the whole handler with the copy to
hardware. `fate` is what the routing table says of the packet, which the handler
asks before it learns anything. `LoadLine` and `StartInput` are start-up.
`last` records the packet handled last and is read by properties only. `LruSpec`
is the refinement: with `(content, port)` as keys, the list is a cache that
gives up the key learned least recently.

**ArpQueue.** A packet has an identity and the hop an ICMP error about it would
go to. `process_arp_reply` is `ReplyArrives`, `ReplyLocks`, one `SendQueued` per
packet, and `ReplyDone`; `process_arp_queue` is `WalkStart`, then one step per
entry or packet, and `WalkEnd`. A walk that reaches the tail may visit an entry
that it has appended itself, which the code would not see until the next second;
such an entry has just been made and is skipped. Ages count seconds up to the
two that matter.

**RouteTable.** An address is the set of its one-bits, so that masking is an
intersection and the order of numbers an order of sets. The rows are searched
from the first to the last, the list by the most bits in the mask. Masks are
assumed to be prefixes. `Sorted` gives the result of the bubble sort of
`trigger_rtable_modified`; `MCRouteTable` has the sort itself, pass by pass, and
compares the two on all short lists as an assumption that TLC evaluates.

**Dijkstra** and **LinkState.** The list of routers with their links, ourselves
first. A link is active if `determine_active_interfaces`, run over the list,
leaves it so. `prev_router` survives between computations, as in the code, and
becomes `Freed` when the entry it points at is removed. A read through it, the
failed assertion of `compute_rtable`, and the second free of a neighbour in
`iface_down` stop the model with a `fault`: what a build does after any of them
is not defined. Masks are folded into subnets, and the packet checks that only
drop packets are left out, but for the check that the interface is up:
`process_packet` makes it in a step of its own and leaves the HELLO in
`checked`, and commands may come before `process_pwospf_hello_packet`, which
does not make it again. So a neighbour may come back on an interface that is
down. Such an interface then stays as it is: nobody times the neighbour out, and
`iface_up` ends in the second free. An update adds nothing that depends on the
interface it came by, so its check is not modelled. The removal of neighbours and its propagation are two
critical sections of the router list in `broadcast_pwospf_hello_packet`, but
within one of `if_list_lock`, which keeps the computation and the handlers out.

**LsuFlood.** Where `LinkState` has one router and lets any update arrive, here
each of several routers runs the same code on its own `router_list`, and updates
travel over channels in order. A router that crashes loses its list and what was
under way to and from it; it starts again with number 0, as `init_router_list`
does. An entry has its age in ticks, of which two make an LSU interval. The code
looks at its times every second, and three HELLO intervals (15 s) are about
a tick, so that a tick comes only when nothing is due and nothing
under way; until then everything happens in any order. A link of a router is the
neighbour on it: one per subnet, parameters that agree. `quiet` counts the
ticks since anything failed, came back or wrapped around, up to the horizon
`Settle`.

**RouterThreads.** The other modules take the sections of their component as
atomic; this one says which they are and whether they exclude each other. An
operation is a sequence of steps, read off the code with the calls in it: take a
lock, use structures (with what is read and written), queue, signal, release.
Locks are granted as `pthread` does, without a preference for writers. What an
operation does to a structure is left out, except for the four facts the
threads look at: the queue of updates is empty or not, a signal was seen,
the route computation was asked for, the links changed since it last looked;
and a fifth, whether our last update is recent. `pwospf_lsu_thread` finds our
entry under the mutex, gives it back, and reads the date then (`Due`,
`CheckDue`); it ends there when the date is recent. `pwospf_lsu_broadcast` is taken to be on. The leaf locks (register access, NAT,
ping) are never held while another is taken, and left out.

**Nat.** The functions as they would run (section 1). Addresses and ports are one
word each, of `WORD` numbers; ports and identifiers may be 0. A checksum is
right if the words it covers add up to all ones, or if it is 0 and of UDP.
`NewSum` corrects that of TCP, UDP and an ICMP echo, and that of the IP header;
after the rewriting of an ICMP error the code computes the checksum anew.
`htons` is chosen once, from
`ByteOrders`: the identity, or the halves of a word swapped. A port that is
drawn until it is unique is one that is unique, and a thread that never finds
one draws for ever, with the lock. A packet that is neither TCP, UDP nor ICMP
ends the input thread (`OtherProtocol`: its hits are counted through a null
pointer, `or_nat.c:122`).

**OutputPortLookup.** One step is one rising edge of the clock. A result is the
number of the packet it is about, and what it says is chosen when it is used, so
that every decision is tried with every packet. Each parser is the word after
which its result is ready and the clocks from there, counted through the
modules; the search of `eth_parser`, which depends on the data, is a state
machine of its own. The stages before and behind pause at any clock.

**Nf2Driver.** `nf2c_send` is five steps, each for either caller; `nf2c_intr` is
a section per kind of interrupt, cut where it takes `txbuff_lock` and where it
calls `nf2c_send`. On a machine with one processor the handler runs to its end
and only when `nf2c_tx` is not under way (`KernelRuns`, `IntrEnters`). The card
is external: one transfer each way, a report when a queue fills or drains, an
error where `Machines` allows it, and after a reset a new report of the queues
(without that the driver would not send again either). The three kinds of error
are handled alike and are one here.

## 3. What TLC checks

All runs finish with deadlock checked, but those of `LinkState` and `Nat`, where
a fault stops the program, and of `Nf2Driver`, where the kernel need not send
nor packets arrive and everything may rest.

| run | instance | shows |
|---|---|---|
| `content_table` | 1 name, 2 versions, all 4 ports, 3 places, 4 rows | types and capacity, `UniqueEntries`, `HardwareMirrorsTable`, `NeverTooManyMatches`, `RedirectedToLiveEntry`, `RequestPurgesStale`, `EntriesLeaveForCause`, `LruSpec` |
| `arp_queue_safety` | 2 hops, 2 packets, 2 addresses, 2 requests, 1 row, all commands | types, `QueueConsistent` (a packet waits once, a hop has one entry, what waits is unresolved), `HardwareFollowsCache` |
| `arp_queue_progress` | 2 hops, 2 packets, no deletion | `EveryPacketLeaves`, which a lost packet never does |
| `route_table_routes` | 2-bit addresses, 4 static and 3 learned routes, lists up to 5, 3 rows | types, `HardwareAgrees`, `StaticBeatsLearned`, `StaticsStay` |
| `link_state` | two routers on the subnet of one of our interfaces, two versions of the links of each, numbers modulo 2, HELLOs that a command overtakes | types, `NeighborsAdvertised`, `RoutesUseNeighbors`, `ShortestRoutes` |
| `lsu_flood` | 3 routers in a line, numbers modulo 16, one fault of two routers or a link, one lost update | types, `Converges` |
| `router_threads` | 19 operations of 11 threads, two under way at a time | types, `NoRace`, `NoDeadlock`, `ChangesAreNoticed`, `UpdatesAreSent` |
| `nat_table` | 2 hosts, words of 16 numbers, 3 entries, both byte orders | types, `ChecksumsCarryOver`, `TypedInTakesEffect`, `ConnectionsKeepTheirPairs` |
| `output_port_lookup` | frames of 14 words, fifos of the real size | `NothingOverwritten`, `OwnResultsRightWords`, `PacketsLeave` |
| `nf2_driver` | 2 interfaces, 2 buffers, three machines | types, `BuffersAccounted`, `OneTransfer`, `PacketsLeave`, `ReceptionGoesOn` |

Two runs show what the code does against a comment or a check of its own:

| run | what happens |
|---|---|
| `arp_queue_delete` | `process_arp_reply` lets go of the cache lock; a deletion in between makes it free an entry with the packet it has just put back: neither sent nor reported |
| `output_port_lookup_small` | with frames of 60 bytes the input fifo, enlarged from 2^5 to 2^6 words, takes a packet more than the fifos of results hold, and one of these is written when full |

### Bounds, and why they are enough

* `MAX_CTABLE_DEPTH` (32 in the code) is 3. Eviction needs one key more than
  there are places, and one name behind four ports gives four; a wrong place in
  the list needs three entries. The theorems of section 5 drop the bound.
* `HW_DEPTH`, `ARP_DEPTH` and `ROUTE_DEPTH` (32 in the code) leave one blank row
  behind a full content table, and too few rows for all addresses and routes.
* `MAX_REQUESTS` (5 in the code) is 2: a first request, a repeated one, the
  give-up. Two packets on two hops let an error wait in the entry given up and
  in the other one.
* `MAX_ROUTES` caps the list, as `add_route` does not. Addresses of two bits
  have a default route, networks of two hosts, and hosts.
* `SEQ_MOD` (2^16 in the code) is 2: the next number is new, the one after it
  has wrapped around. A router is forgotten and comes back in between.
* Two other routers on one subnet, with a subnet behind one of them, give an
  interface two neighbours, routes of zero, one and two links, and two ways to
  one router, which is reached through the other when it does not see us or its
  HELLOs stop. The other may advertise the subnet of our second interface, so
  that a subnet has two routers. Neighbours on both interfaces make four times
  as many states; the theorems of section 5 are about any network.
* `LSUINT` is 2 ticks: entries may be older or younger than a refresh when
  something fails. Three routers in a line have an update forwarded, a router
  that learns of a fault only through another, and a network in two parts; the
  end and the middle of the line fail, and one link. `SEQ_MOD` is 16, more than
  the updates a router sends within the life of an entry; `StartSeq` lets one
  router wrap around before the other events or after them, and has restarted
  ones (number 0) unheard by all the others. `Settle` is tight: after a fault
  the oldest entry lives for `3 * LSUINT` and a tick, everyone sends again
  within `LSUINT` and a tick, and each lost update costs one more refresh, which
  entries survive. With one tick less `Converges` fails. Two starting points,
  all started at once and all settled, keep the run short: faults strike the
  settled network only. Out of TLC's reach (more than 15 million states) are a
  triangle, and faults that strike while the routers start.
* `MAX_ACTIVE` is 2: a race needs two threads. A circle of three threads needs
  no run: the order of `NoDeadlock` excludes circles of any length.
* `router_threads` leaves out four operations that break the discipline of the
  locks, each of which alone makes a property fail (section 4): `hello_mask` and
  `tcp_unrouted` (`NoDeadlock`), `cli_ping` and `cli_iface` (`NoRace`). The fifth
  breach, the read of `pwospf_lsu_thread` without the mutex, stays in the run,
  and `NoRace` says that it is the only one.
* `WORD` (2^16 in the code) is 16: sums of two words carry once and carries fold
  again, differences borrow. All sums are tried, with all values of the other words
  but 0. Ports are 0 and 6, or drawn. Three entries let a typed-in one stand between two
  drawn ones.
* `PKT_WORDS` is 14, frames of 97 to 104 bytes, the shortest for which nothing
  runs over; all longer ones give the parsers more time. 9 words are the
  shortest frame there is. Packets are told apart modulo 3, more than the
  results of one fifo can be out of step by without showing.
* Two interfaces with one buffer each (four with four in the code): the ring
  wraps around, each interface is stopped at its quota while the other goes on,
  and both callers of `nf2c_send` meet a packet of the other. Failing receptions
  run on one processor only; section 4 says what several do.

### Fairness

* `ArpQueue`: time goes on (`WF` on `Second`); a walk under way goes on (`WF` on
  `ArpWalk`, on `SendQueued \/ ReplyDone`), since a running thread is scheduled.
  A thread that waits for the two locks gets them in the end (`SF` on `WalkStart`
  and `ReplyLocks`): sections are short, the ARP thread comes back every second,
  and the locks keep coming free.
* `RouterThreads`: some thread that can go on does (`WF` on all of them
  together, which is weaker than each by itself); the threads that refresh and
  send updates get the locks that keep coming free (`SF`); intervals pass.
* `LsuFlood`: while something is due, something that is due happens (`WF` on all
  of it together): threads run, packets arrive or are lost, the clock ticks. No
  choice among the things due is assumed fair, none is needed.
* `OutputPortLookup`: the stage behind is ready again and again (`WF` on
  `Edge(TRUE)`; the clock never stops): the output queues drop a packet that has
  no room.
* `Nf2Driver`: running code goes on (`WF`), an interrupt or a lock that keeps
  coming is taken (`SF`), the card ends its transfers and its queues drain.

Packets, replies, commands and calls of the kernel have none: nothing need
arrive.

## 4. Differences seen

Besides the two runs above, these follow from the model in a step or two, need
an instance the runs leave out, or contradict nothing but good sense. Those of
the first list were checked with TLC: add the operation or the machine named, or
drop the condition named, and the property fails.

* `pwospf_lsu_thread` reads the date of our last update at `or_pwospf.c:1156`,
  after it has given back the mutex (`:1153`) under which others write it
  (`:810`, `:855`): the exception in `NoRace`. A refresh may be put off by an
  update that has just gone out, or sent beside it, and `UpdatesAreSent` holds.
* The handler of a HELLO whose mask is not ours means to drop it
  (`or_pwospf.c:68`) and returns with the mutex of the router list (`:71`).
  `process_ip_packet`, which unlocks what the handler took (`:155`), gives back
  four other locks: whoever wants the mutex next waits for ever. `hello_mask` in
  `Operations`, `NoDeadlock`. `send_ip_packet` returns with four locks when there
  is no route (`or_ip.c:288`): `tcp_unrouted`, the same.
* The ping sends its packet without a lock (`or_sping.c:47`), into an ARP queue
  of which `or_arp.c:457` says "NOT THREAD SAFE" and "Lock the ARP Queue before
  using it": `cli_ping` in `Operations`, `NoRace`. Interface commands change
  neighbours and links before they take the mutex (`or_iface.c:345`):
  `cli_iface`, the same.
* `process_packet` drops the packet of an interface that is down
  (`or_main.c:868`), but `iface_is_active` gives its lock back
  (`or_iface.c:248-254`), and `iface_down` may run before the handler of a HELLO
  takes it again and does not ask. The neighbour then comes back on an interface
  that is down, and the next computation makes routes out of it, which
  `iface_down` is to remove (`or_iface.c:351`): `q.iface \in ifUp` without its
  alternative in `RoutesUseNeighbors`. When all interfaces are down by then, the
  handler meets the assertion that we have links (`or_pwospf.c:131`): a `fault`
  of `LinkState`.
* NAT, if it could be switched on, corrects a UDP checksum of 0, which says that
  there is none, as if it were one (`or_nat.c:57-65`, `:131-138`): `sum # 0` in
  `ChecksumsCarryOver`. It corrects the checksum of the IP header by the address
  of one side and the address and port of the other (`:90`, `:162`), which is
  wrong unless the port is 0 or all ones: `"ip"` among the kinds there. A packet
  that is forwarded gets a new IP checksum (`or_ip.c:137-139`).
* Nothing calls `nf2c_send` again on several processors, where
  `nf2_control.c:306` relies on it: `nf2c_tx`, counted first, finds no room for
  the packet; the handler is told of room and leaves, since it is counted
  second; then `nf2c_tx` leaves. The packet waits for the next one. `~machine.smp`
  in `PacketsLeave`.
* Room in a queue of the card reported while a packet is being received is
  noted, and sending not tried again (`nf2_control.c:769`): `missed` in
  `PacketsLeave`.
* On several processors a failed reception makes the handler free the packet
  that `nf2c_tx` is about to have transferred (`nf2_control.c:447`): `"rx"` in
  the errors of a machine with `smp`, `OneTransfer`. An error leaves
  `INT_PKT_AVAIL` masked: `machine.errors = {}` in `ReceptionGoesOn`.
* The computation follows `prev_router` into a router that was timed out
  (`or_dijkstra.c:259`), and the assertion that the next router is a neighbour
  (`or_dijkstra.c:115`) fails when another router advertises the subnet of an
  interface of ours that is down. Both are a `fault` of `LinkState`.

* The rows behind the last route are written with mask 0 (`or_rtable.c:267`),
  which matches every address (`ip_lpm.v:129`), so that a destination without a
  route hits, where `op_lut_process_sm.v:247` sends to the CPU what it does not
  find in the lookup. The hit has no output port (0).
  `hw.port # NoPort` in `HardwareAgrees`.

The others:

* Ports given out by NAT are compared as drawn (`or_nat.c:179`, `:404`) and
  stored by `htons` (`:196`). On a CPU with another byte order than the network,
  as that of a PC, a port that is drawn twice is given out twice; the hosts
  inside then share it, and the first of them gets all the answers. No property
  is about this, and NAT cannot be switched on.
* `or_ctable.c:152` says that `add_content` returns 1 "if update", but a known
  content only moves to the head and keeps its version and next hop
  (`AddContent`).
* `or_ctable.c:129` logs that the request is forwarded to the port matched; it
  leaves by the port the routing table gives (`last.port`, `last.out`).
* `or_rtable.c:82` says that `add_route` returns 1 if the route exists; it
  appends it again and returns 0.
* `or_pwospf.c:346` says that an update is taken unless its number matches; it
  is also dropped when the number is smaller, as after a restart or at 2^16.
* `iface_down` removes the first neighbour of the interface again and again
  (`or_iface.c:357`).
* With two links to one neighbour, the route to the second subnet leaves by the
  first interface (`or_dijkstra.c:94`).
* Routers out of reach make routes, too (`or_dijkstra.c:212`).
* Masks are sorted as numbers (`or_rtable.c:212`) and matched by counting bits:
  the same only for prefixes, and the command line accepts any mask.
* `init_hardware` writes the routes unsorted and without a lock
  (`or_main.c:716`), with the threads already running (`or_main.c:300`).
* A static ARP entry typed in while packets wait does not send them
  (`or_arp.c:814`). ARP entries never expire: the removal is commented out
  (`or_arp.c:532`), and so is the thread that would expire NAT entries
  (`or_main.c:307`), so that ports run out and the input thread draws for ever.
* `wait_for_reply` looks at the queue only after it was woken
  (`or_sping.c:88`): a reply that comes before wakes nobody. Two pings within a
  second draw one identifier (`or_sping.c:40`).
* `nf2c_release` frees the packets that wait and does not give the interfaces
  their buffers back (`nf2_control.c:206`). `nf2c_tx_timeout` runs beside the
  handler, as its own FIXME says (`nf2_control.c:662`).

## 5. What is proved

Each `...Proofs` module proves its theorems for every value of the constants
that the assumptions of its component allow (named `...Assumption` there, and
evaluated by TLC in the runs): tables of any depth, any sets of names, hosts,
routes, interfaces. Three have a further hypothesis, given below. Every theorem
follows from `Invariance`, `Spec => []IInv` for the inductive invariant `IInv`
of the module, `RoutesAlwaysShortest` from a stronger one, `RInv`. What these
invariants add to the properties was checked by TLC on the instance of section 3
before it was proved.

| module | theorem | property |
|---|---|---|
| `ContentTableProofs` | `TypeCorrect` | types, and the list never outgrows its capacity |
| | `EntriesUnique` | no content twice behind one port |
| | `FewMatchesAlways` | the "fatal error" of too many matches cannot happen |
| | `MirrorAlways` | the rows are the list |
| | `RedirectionsLive` | a request goes to an entry that stays, behind another port |
| | `StalePurged` | a request leaves no stale entry behind |
| | `LeavesOnlyForCause` | why an entry leaves the running table (action property) |
| | `TableIsCache` | the list implements `LruCache` (refinement) |
| `ArpQueueProofs` | `TypeCorrect` | types |
| | `QueueAlwaysConsistent` | a packet waits once, a hop has one entry, what waits is unresolved |
| | `HardwareAlwaysFollows` | a change of the cache reaches the hardware (action property) |
| `RouteTableProofs` | `TypeCorrect` | types; no learned route is inactive |
| | `HardwareAlwaysAgrees` | the hardware forwards as `get_next_hop` would, or not at all |
| | `StaticAlwaysBeatsLearned` | a static route goes before a learned one |
| | `StaticsAlwaysStay` | only "ip route del" removes a static route (action property) |
| `LinkStateProofs` | `TypeCorrect` | types; no router is listed twice |
| | `NeighborsAlwaysAdvertised` | we advertise what we see, on an interface that is down at most a late neighbour |
| | `RoutesAlwaysUseNeighbors` | routes leave to known neighbours, by interfaces that are up or have a late neighbour |
| | `RoutesAlwaysShortest` | a computation gives a subnet in reach one route, a shortest one (action property) |
| `RouterThreadsProofs` | `TypeCorrect` | types |
| | `NoRaceAlways` | no two threads race for a structure, but for the one read without the mutex |
| | `NoDeadlockAlways` | locks are taken in order and given back |
| | `ChangesAlwaysNoticed` | no change of the links is missed |
| `NatProofs` | `TypeCorrect` | types |
| | `TypedInAlwaysTakesEffect` | a typed-in entry is the one that is found |
| | `ChecksumsAlwaysCarryOver` | a right checksum of TCP, an echo, or UDP unless it is 0, is right after the rewriting |
| | `ConnectionsAlwaysKept` | new connections leave the old alone (action property) |
| `Nf2DriverProofs` | `TypeCorrect` | types |
| | `BuffersAccountedAlways` | the ring, the counts and the stopped interfaces agree |
| | `OneTransferAlways` | one transfer at a time, of a packet that is not freed |

**Content table.** `IInv` says that the list is good (within its capacity, and
one entry per content and port), that the rows and the version register mirror
it, and what is true of the packet handled last. Uniqueness is what the rest
hangs on. With one entry per content and port, a content has at most as many
hits as there are other ports on each side (`FewMatches`), so the walk of a
lookup never ends early (`WalkVisitsAll`), so it removes every stale entry and
the entry chosen is among those that stay (`ChosenIsHit`, `RequestStep`).
Neither `NeverTooManyMatches` nor `RequestPurgesStale` is inductive without it.
`EntriesLeaveForCause` follows from `IInv` and what `AddContent` and
`node_remove` take away (`AddContentLoses`, `RemoveLoses`). For the refinement,
`PresentIn` and `OlderIn` read the cache off any list; what is left of a list has
its keys in the order they had (`ThinnedOrder`), and an entry put in front makes
its key the newest (`PushedOrder`). So `add_content` is one of `Refresh`,
`Insert` and `Replace` (`AddIsCacheStep`), a removal is `Drop`
(`RemoveIsCacheStep`), and all else a stutter. Uniqueness is needed here too:
with it there are as many keys as entries (`KeysCount`), so that the table is
full exactly when the cache is.

**ARP.** `QueueConsistent` is not inductive: when an entry is given up, an ICMP
error is made for each of its packets and may be queued while others still wait.
That it is not queued already is known only from the past. `IInv` therefore says
that the packets marked as waiting are those that wait (`FateInStep`), that the
error about a packet that is new or waits is new (`NotToldYet`), that nobody is
told of an ICMP error, that no entry is empty, that an address has one entry in
the cache (`GoodCache`), and where the walk and the input thread are. A step
changes the queue by letting a packet join it (`Joined`) or the first packet of
an entry depart (`Departed`), both of which keep a good queue good, or by
touching an entry only; a hop that is new in the queue is not in the cache
(`NewHopsUnknown`).

**Routing table.** `IInv` says that from the first change on the list is in
order and the rows are those of the list, that before it all routes are static,
and that what is learned is active with a masked address (`Good`). Addresses,
as sets of bits, compare like numbers (`AboveTransitive`, `AboveTotal`), so that
`Before` is a weak order, and the sort gives each entry a place of its own
(`PlaceNumbers`, `SortedProperties`) with none before it that should come after.
Of two prefixes that match one destination one contains the other and is the
greater number, so that the first active match is the longest (`FirstIsLongest`)
and the row that the hardware takes is its row (`RowsAgree`). A static route
goes first because an address is no less than the masked address of its
network. Static routes are counted through an injection from the places of the
old list into those of the new (`CopiesFollow`).

**Link state.** `IInv` adds to the properties that a neighbour known at an
interface that is down is the only one there and no HELLO waits that could add
another (`DownSettled`), and that our own entry is the first and has no pointer.
The first holds because one thread handles all packets: at most one HELLO is let
in when the interface goes down, and none after it. `Shows` says of a sequence of links which neighbours it shows on
a subnet; adding, renaming and removing a link keep it (`ShowsAdded`,
`ShowsRenamed`, `ShowsKept`), for the subnet the handler is about and for all
others, so that what we advertise follows what we see. A computed route leaves
by an interface that is up because it is chosen among those that know the next
router, or by the subnet of one of our links, which is advertised; to a known
neighbour because the code asserts it, and a failed assertion stops the program.
The loop of `compute_rtable` is a recursive function: `RunExists` shows that a
loop of any length has a run, `RunStays` that what each round keeps stays, both
by a least counterexample, and hence that the loop leaves our own pointer alone
(`FoundPointers`).

`RoutesAlwaysShortest` is about any list of routers, any links they advertise
and any pointers an earlier computation left. Each round keeps (`GoodRound`)
that a distance that was given is the length of a way along the pointers, that
the links of the routers found were followed, and that those are no farther than
any other. After as many rounds as there are routers each distance is therefore
the least number of links within which the router is reached (`FoundDistances`,
`WithinDistance`). This needs `DistancesAssumption`: there are fewer routers than
`0xFFFFFFFF`. The walk back along the pointers loses one link with every hop
(`HopNearer`) and so ends at a neighbour on a shortest way (`WalkNearest`),
whatever is left in the pointers of routers out of reach. One route is made for
each subnet, to the nearest router that has it (`WrapperChosen`). The hypothesis
`OneLinkEach`, that no neighbour is attached to two of our interfaces, is used
for our own subnets only (`OwnIface`): with two links to one neighbour, the
route to the second leaves by the first interface (section 4). For them `RInv`
adds to `IInv` that our links are on subnets of our interfaces, to routers that
are attached there (`OwnLinks`).

**Threads.** `OnlyDisciplined` is assumed: the operations are any of those that
follow the discipline of the locks, which leaves out the four of section 4,
each of which alone breaks a property; any number may be under way. The refresh
is among them, with its read outside the mutex: it is the one step the
annotation allows without a lock, and `NoRace` excepts. The first
half is about one operation: an annotation says which locks are held before each
of its steps, put together from the pieces the operations share (`Fits`,
`Good`). The second is about all: `IInv` says that the locks exclude each other
(`Exclusive`) and that each thread holds what the annotation of its operation
says at the step it is at (`Placed`). The refresh may return in the middle,
when nothing is due; it does so without a lock, and has not changed a link
(`Quits`). A step that uses a structure is annotated
with a lock that guards it, hence no race; a lock is annotated with only lesser
ones, hence no circle.

**NAT.** Entries are found by a scan from the head, so `IInv` is about order: a
typed-in entry is the first with its external pair (`StaticFirst`).
`ChecksumsCarryOver` is arithmetic modulo `WORD - 1` and needs of the invariant
only that pairs are words. Words that add up to a multiple of it are all ones
unless all are 0, which the other words of a packet exclude. The IP header and
UDP packets without a checksum are not in it (section 4).

**Driver.** `ReceivesFailOnOneProcessor` is assumed: no machine has both several
processors and a card that fails receptions. Without it both properties are
false (section 4: `nf2c_clear_dma_flags` does not ask which transfer failed).
`IInv` adds who owns the transfer: of the transfers and the callers of
`nf2c_send` that found they were the first there is at most one, and the
transfer is in one place, the card, the status or the handler (`TransferOwned`);
that there is a packet for it (`PacketWaits`), which the card has from the head
of the ring (`SendsFirst`); the same of a reception (`ReceptionOwned`); and
where the handler may be (`HandlerPlace`).

`ListProofs` has what these rest on: the elements of a finite total order can be
numbered (`OrderNumbers`), hence the nodes that `node_remove` keeps
(`RankNumbers`); the result has them all (`KeepProperties`), in order
(`KeepOrder`); nodes kept and the others behind them are all there are
(`KeepFirst`).

Only model-checked are:

* liveness, which rests on fairness and is out of the prover's reach:
  `EveryPacketLeaves`, `Converges`, `UpdatesAreSent`, `PacketsLeave` (twice),
  `ReceptionGoesOn`;
* that `Sorted` is what the passes of the bubble sort end with, which is
  recursive;
* the types of `LsuFlood`, whose only other property is liveness;
* `OutputPortLookup`, whose properties depend on how many clocks each parser
  takes for packets of a given length: they are facts about numbers, not for
  every value of the constants (with shorter packets one is false).

The encoding of `Len` that version 1.4.5 of tlapm gives the SMT solver holds of
sequences only, but is stated of every function: `DOMAIN f = 1..Len(f)`. From a
function with another domain, a goal in which `Len` occurs could be proved though
it does not follow. All proofs were therefore also checked with that axiom
weakened to its sound half (`DOMAIN f = 1..n => Len(f) = n`).

## 6. Not modelled, and why

* Most of the repository by lines is not its own: lwIP (twice), the Verilog of
  the NetFPGA package, its Perl and Java libraries, the graphical interface;
  `sw-origin` is the program before content routing, nearly line by line the
  same as `sw` elsewhere, and a second model of the same code would say nothing
  more. The modules are about the rest.
* Parsing and printing of commands, web pages and logs (`or_cli.c`, `or_www.c`,
  `or_output.c`): what commands change is in the modules of the tables.
* Checks that only drop a packet, and the layout of packets.
* The ping's wait for a reply: the two differences above are all there is to it.
* Of flooding: the commands that send an update at once, set its interval or
  switch it off, HELLOs with other parameters, subnets with several routers
  (`LinkState` has these), and channels that reorder (`LinkState` lets an old
  update arrive late).
* The rows of the hardware tables while they are written, a row at a time, from
  registers that two threads share: the lookups of `OutputPortLookup` answer
  anything. Output queues and input arbiter are the reference pipeline's.
* Of the driver: opening, closing, the watchdog, ioctl, probing and removal. The
  order of the card's registers beyond what the driver does with them is not
  known from this repository, which has no source of the CPCI chip.

## 7. Plan

In order of weight; what is done is marked.

1. done: `ContentTable` with its refinement and theorems.
2. done: `ArpQueue`; `RouteTable`; `Dijkstra` with `LinkState`.
3. done: `RouterThreads`, `Nat`, `OutputPortLookup`, `Nf2Driver`, `LsuFlood`.
4. done: theorems about `Nf2Driver`, `RouterThreads`, `Nat`, `ArpQueue`,
   `RouteTable` and `LinkState`, with its shortest routes; the refinement
   `LruSpec`.
5. Proofs still to do: types of `LsuFlood`; of the parsers of
   `OutputPortLookup`, what holds for packets that are long enough.
6. The rows of the hardware while they are rewritten; the driver's watchdog.
