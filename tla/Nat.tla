--------------------------------- MODULE Nat ---------------------------------
(***************************************************************************)
(* Network address translation (or_nat.c), as the path of a packet calls   *)
(* it (or_ip.c, or_cccp.c): a packet that arrives on a WAN interface has   *)
(* its destination rewritten, one that leaves through a WAN interface its  *)
(* source.  The thread that would expire entries is not started.           *)
(*                                                                         *)
(* The router cannot switch translation on as it stands: the commands are  *)
(* not registered (or_main.c:822-832), and only they would make an         *)
(* interface a WAN interface.  The module is about the functions, as they  *)
(* would run if the commands were registered.                              *)
(*                                                                         *)
(* Addresses and ports are numbers of one word here, in the order of the   *)
(* network; WORD is 2^16 in the code, and an address has two words there.  *)
(* The counters of hits are left out; they are only printed.               *)
(***************************************************************************)
EXTENDS Naturals, Sequences, FiniteSets, Lists

CONSTANTS
    Hosts,         \* addresses inside
    Wan,           \* the address of the interface that may be a WAN interface
    InsidePorts,   \* ports and identifiers of the hosts inside; 0 is one of them
    OutsidePorts,  \* those of the hosts outside
    DrawnPorts,    \* what rand() may give that is above 1024, as the CPU has it
    ByteOrders,    \* what htons may do: reorder the halves of a word, or nothing
    StaticPorts,   \* external ports typed in
    WORD,          \* bound: numbers of a word
    MAX_ENTRIES    \* bound: entries of the table; the code has none

ASSUME NatAssumption ==
    /\ WORD \in Nat \ {0, 1}
    /\ Hosts \union {Wan} \subseteq 1 .. WORD - 1
    /\ InsidePorts \union OutsidePorts \union StaticPorts \subseteq 0 .. WORD - 1
    /\ \A order \in ByteOrders, p \in DrawnPorts : order[p] \in 0 .. WORD - 1
    /\ MAX_ENTRIES \in Nat

VARIABLES
    nat_table,    \* list of entries: external and internal pair, typed in or not
    is_wan,       \* the interface is a WAN interface
    input_thread, \* "runs", "faulted", or "draws" ports for ever, with the lock
    htons         \* that of the CPU, which stays the same

vars == <<nat_table, is_wan, input_thread, htons>>

Words == 0 .. WORD - 1
Pair(i, p) == [ip |-> i, port |-> p]
Pairs == [ip : Words, port : Words]
NatEntries == [nat_ext : Pairs, nat_int : Pairs, is_static : BOOLEAN]

TypeOK ==
    /\ nat_table \in Seq(NatEntries)
    /\ is_wan \in BOOLEAN
    /\ input_thread \in {"runs", "faulted", "draws"}
    /\ htons \in ByteOrders

Init ==
    /\ nat_table = <<>>
    /\ is_wan = FALSE
    /\ input_thread = "runs"
    /\ htons \in ByteOrders

-----------------------------------------------------------------------------
(* Checksums.                                                              *)

\* The complement of a word, and the sum of two words with its carry added.
Complement(x) == WORD - 1 - x
Folded(x) == LET once == (x \div WORD) + (x % WORD) IN (once + (once \div WORD)) % WORD

\* What an entry caches of a pair: the complements of its sum, the address, the port.
compute_nat_checksums(pair) ==
    [checksum      |-> Complement(Folded(pair.ip + pair.port)),
     checksum_ip   |-> Complement(pair.ip),
     checksum_port |-> Complement(pair.port)]

\* Mutant: a borrow is not carried around.
MutNoBorrow(old, pos, neg) ==
    (((old + pos) \div WORD) + ((old + pos) % WORD) + WORD - neg) % WORD

\* The checksum old with pos added and neg taken away, on unsigned double words.
nat_checksum(old, pos, neg) ==
    LET carried == ((old + pos) \div WORD) + ((old + pos) % WORD)
        word    == (carried + WORD * WORD - neg) % (WORD * WORD)
    IN  (IF word > WORD - 1 THEN word - 1 ELSE word) % WORD

\* A packet whose pair "from" is replaced by "to" has the checksum of its IP
\* header corrected and that of its protocol, a UDP checksum even if it is 0.
\* For the header the address is added and the whole pair taken away.
NewSum(kind, sum, from, to) ==
    LET f == compute_nat_checksums(from)
        t == compute_nat_checksums(to)
    IN  CASE kind \in {"tcp", "udp"} -> nat_checksum(sum, t.checksum, f.checksum)
          [] kind = "echo" -> nat_checksum(sum, t.checksum_port, f.checksum_port)
          [] kind = "ip"   -> nat_checksum(sum, t.checksum_ip, f.checksum)

\* What a checksum covers of the pair.
Covered(kind, pair) ==
    CASE kind \in {"tcp", "udp"} -> pair.ip + pair.port
      [] kind = "echo" -> pair.port
      [] kind = "ip"   -> pair.ip

\* A receiver takes a packet if the words that are covered (those of the pair,
\* the others) and the checksum add up to all ones; or if there is no UDP
\* checksum, which is written 0.
Accepted(kind, pair, others, sum) ==
    LET total == Covered(kind, pair) + others + sum
    IN  \/ total # 0 /\ total % (WORD - 1) = 0
        \/ kind = "udp" /\ sum = 0

-----------------------------------------------------------------------------
(* The table.                                                              *)

\* The indices of the entries with this pair on the given side, and the first.
Matches(table, side, pair) == {i \in DOMAIN table : table[i][side] = pair}
FirstOf(I) == CHOOSE i \in I : \A j \in I : i <= j

\* get_nat_table_entry: the protocol is not looked at.
HasEntry(side, pair) == Matches(nat_table, side, pair) # {}
get_nat_table_entry(side, pair) == nat_table[FirstOf(Matches(nat_table, side, pair))]

\* No entry has this external port: ports stored in the order of the network
\* are compared with one as the CPU has it.
is_unique_nat_ext_port(port) ==
    \A i \in DOMAIN nat_table : nat_table[i].nat_ext.port # port

\* Mutant: the new entry becomes the head of the list.
MutNewestFirst(ext, int) ==
    nat_table' = <<[nat_ext |-> ext, nat_int |-> int, is_static |-> FALSE]>> \o nat_table

\* Mutant: what rand() gives is not cut to a port.
MutWidePort(ext, int) ==
    nat_table' = node_push_back(nat_table,
                     [nat_ext |-> [ext EXCEPT !.port = @ + WORD], nat_int |-> int,
                      is_static |-> FALSE])

AddDynamic(ext, int) ==
    nat_table' = node_push_back(nat_table,
                     [nat_ext |-> ext, nat_int |-> int, is_static |-> FALSE])

\* A port is drawn until one is unique; if none is, the thread draws for ever.
create_nat_table_entry(int) ==
    \/ /\ Len(nat_table) < MAX_ENTRIES
       /\ \E port \in {p \in DrawnPorts : is_unique_nat_ext_port(p)} :
             AddDynamic(Pair(Wan, htons[port]), int)
       /\ UNCHANGED input_thread
    \/ /\ \A p \in DrawnPorts : ~is_unique_nat_ext_port(p)
       /\ input_thread' = "draws"
       /\ UNCHANGED nat_table

-----------------------------------------------------------------------------
(* Packets leave through the WAN interface.  Those that arrive on it are   *)
(* rewritten by the entry of their destination, and change nothing here.   *)

\* From a host inside: TCP, UDP, or an ICMP echo with its identifier as port.
process_nat_int_packet(int) ==
    /\ is_wan /\ input_thread = "runs"
    /\ ~HasEntry("nat_int", int)
    /\ create_nat_table_entry(int)
    /\ UNCHANGED <<is_wan, htons>>

\* An ICMP error about a packet from outside is looked up by the port the
\* packet was for (the identifier of an echo, 0 of another protocol), and gets
\* an entry with the first word of that packet's data: the port it came from.
IcmpError(host, inside, outside) ==
    /\ is_wan /\ input_thread = "runs"
    /\ ~HasEntry("nat_int", Pair(host, inside))
    /\ create_nat_table_entry(Pair(host, outside))
    /\ UNCHANGED <<is_wan, htons>>

\* A packet of another protocol has no entry, whose hits are counted.
OtherProtocol ==
    /\ is_wan /\ input_thread = "runs"
    /\ input_thread' = "faulted"
    /\ UNCHANGED <<nat_table, is_wan, htons>>

\* The new source of a packet that leaves, the new destination of one that comes.
Outward(int)  == get_nat_table_entry("nat_int", int).nat_ext
process_nat_ext_packet(ext) == get_nat_table_entry("nat_ext", ext).nat_int

-----------------------------------------------------------------------------
(* Commands, none of which is registered.                                  *)

cli_nat_set(on) ==
    /\ input_thread # "faulted"
    /\ is_wan' = on
    /\ UNCHANGED <<nat_table, input_thread, htons>>

\* The other commands take the lock of the table.
Locked == input_thread = "runs"

cli_nat_reset ==
    /\ Locked
    /\ nat_table' = <<>>
    /\ UNCHANGED <<is_wan, input_thread, htons>>

\* Mutant: an entry with the same external pair is not looked for.
MutAlwaysAppends(ext, int) ==
    /\ Locked
    /\ Len(nat_table) < MAX_ENTRIES
    /\ nat_table' = Append(nat_table, [nat_ext |-> ext, nat_int |-> int, is_static |-> TRUE])
    /\ UNCHANGED <<is_wan, input_thread, htons>>

\* The first entry with the external pair is replaced where it stands.
cli_nat_add(ext, int) ==
    LET I == Matches(nat_table, "nat_ext", ext)
        e == [nat_ext |-> ext, nat_int |-> int, is_static |-> TRUE]
    IN  /\ Locked
        /\ IF I # {} THEN nat_table' = [nat_table EXCEPT ![FirstOf(I)] = e]
                     ELSE /\ Len(nat_table) < MAX_ENTRIES
                          /\ nat_table' = node_push_back(nat_table, e)
        /\ UNCHANGED <<is_wan, input_thread, htons>>

cli_nat_del(ext) ==
    LET I == Matches(nat_table, "nat_ext", ext) IN
    /\ Locked
    /\ I # {}
    /\ nat_table' = node_remove(nat_table, {FirstOf(I)})
    /\ UNCHANGED <<is_wan, input_thread, htons>>

Inside == [ip : Hosts, port : InsidePorts]
TypedExternals == [ip : {Wan}, port : StaticPorts]

PacketLeaves ==
    \/ \E int \in Inside : process_nat_int_packet(int)
    \/ \E h \in Hosts, i \in InsidePorts, o \in OutsidePorts : IcmpError(h, i, o)
    \/ OtherProtocol

Command ==
    \/ \E on \in BOOLEAN : cli_nat_set(on)
    \/ cli_nat_reset
    \/ \E ext \in TypedExternals : cli_nat_del(ext) \/ \E int \in Inside : cli_nat_add(ext, int)

Next == PacketLeaves \/ Command

Spec == Init /\ [][Next]_vars

-----------------------------------------------------------------------------
(* Properties.                                                             *)

\* What a checksum of the kind is after rewriting in either direction is taken
\* where what it was before is taken.
CarriesOver(i, kind, others, sum) ==
    LET ext == nat_table[i].nat_ext
        int == nat_table[i].nat_int
    IN  /\ Accepted(kind, int, others, sum) =>
               Accepted(kind, ext, others, NewSum(kind, sum, int, ext))
        /\ Accepted(kind, ext, others, sum) =>
               Accepted(kind, int, others, NewSum(kind, sum, ext, int))

\* Translation keeps the checksums of TCP and of ICMP echoes, and those of UDP
\* that are there: a packet whose other words are not all 0 that a receiver
\* would take is taken after either rewriting, though the checksum is corrected
\* by differences, with carries and borrows (nat_checksum), never summed up.
\* It says nothing of the IP header, whose checksum the correction spoils, nor
\* of a UDP packet without a checksum, which gets a wrong one.
ChecksumsCarryOver ==
    \A i \in DOMAIN nat_table, kind \in {"tcp", "udp", "echo"}, sum \in Words,
       others \in Words \ {0} :
        (kind = "udp" => sum # 0) => CarriesOver(i, kind, others, sum)

\* What was typed in takes effect: a packet from outside for the external pair
\* of a typed-in entry goes where that entry says, whatever was drawn before
\* or after it and in whatever order entries were typed in and deleted.
TypedInTakesEffect ==
    \A i \in DOMAIN nat_table : nat_table[i].is_static =>
        process_nat_ext_packet(nat_table[i].nat_ext) = nat_table[i].nat_int

\* Packets of new connections leave the old ones alone: the pair a connection
\* has outside stays its pair, and what comes for a pair goes where it went.
ConnectionsKeepTheirPairs ==
    [][PacketLeaves =>
          /\ \A int \in {nat_table[i].nat_int : i \in DOMAIN nat_table} :
                Outward(int)' = Outward(int)
          /\ \A ext \in {nat_table[i].nat_ext : i \in DOMAIN nat_table} :
                process_nat_ext_packet(ext)' = process_nat_ext_packet(ext)]_vars
=============================================================================
