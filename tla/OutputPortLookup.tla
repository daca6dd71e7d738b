-------------------------- MODULE OutputPortLookup --------------------------
(***************************************************************************)
(* The output port lookup stage of the hardware (output_port_lookup.v and  *)
(* the modules it instantiates), clock by clock.  A packet comes in word   *)
(* by word, into the input fifo and past the parsers, each of which puts   *)
(* one result about the packet into a small fifo of its own some clocks    *)
(* later.  op_lut_process_sm waits until every one of them has a result,   *)
(* decides, and sends the packet on or drops it.                           *)
(*                                                                         *)
(* Nothing but their order ties the results to the packet: no result       *)
(* carries a number, and no parser looks whether its fifo has room.        *)
(*                                                                         *)
(* One step of Next is one rising edge of the clock.  Of a packet's data   *)
(* only the position of a word counts: word 0 is the module header, words  *)
(* 1 to 6 are those the parsers read, word PKT_WORDS - 1 ends the packet.  *)
(* What the tables and the headers say is chosen when it is used.  The     *)
(* model starts when the tables are cleared: a lookup before that gets no  *)
(* answer.                                                                 *)
(***************************************************************************)
EXTENDS Naturals, Sequences, FiniteSets, SequencesExt

CONSTANTS
    PKT_WORDS,  \* words of every packet, module header included
    IN_DEPTH,   \* 2^MAX_DEPTH_BITS of the input fifo
    INFO_DEPTH, \* 2^MAX_DEPTH_BITS of a parser's fifo
    NUMBERS     \* packets are told apart modulo this number only

ASSUME LookupAssumption ==
    /\ PKT_WORDS \in Nat /\ PKT_WORDS >= 9   \* the 60 bytes of the shortest frame
    /\ {IN_DEPTH, INFO_DEPTH, NUMBERS} \subseteq Nat \ {0, 1}

NUM_QUEUES == 8

Infos == {"hdr_parser", "eth_parser", "checksum", "dest_ip_filter", "lpm_arp", "cccp_arp"}

\* Clocks from a request to a table until the table acknowledges it.
CAM_LUT      == 4
CCCP_CAM_LUT == 5

\* The parsers other than eth_parser: the word after which the result is ready,
\* and the clocks from that word to the write into the fifo.  The address of the
\* next hop is looked up one clock after the route or the content was found.
HdrParser    == [word |-> 0, clocks |-> 0]
IpChecksum   == [word |-> 5, clocks |-> 3]
DestIpFilter == [word |-> 5, clocks |-> 1 + CAM_LUT]
LpmArp       == [word |-> 5, clocks |-> 1 + CAM_LUT + 1 + CAM_LUT]
CccpArp      == [word |-> 6, clocks |-> 1 + CCCP_CAM_LUT + 1 + CAM_LUT]

Ready == [hdr_parser |-> HdrParser, checksum |-> IpChecksum, dest_ip_filter |-> DestIpFilter,
          lpm_arp |-> LpmArp, cccp_arp |-> CccpArp]

States == {"WAIT_PREPROCESS_RDY", "LPM_MOVE_MODULE_HDRS", "CCCP_MOVE_MODULE_HDRS",
           "LPM_SEND_SRC_MAC_LO", "LPM_SEND_IP_TTL", "LPM_SEND_IP_CHECKSUM",
           "MOVE_PKT", "DROP_PKT"}

NONE == NUMBERS

VARIABLES
    in_word,     \* the next word to come in: its packet and its position
    out_word,    \* the next word op_lut_process_sm will read
    in_rdy,      \* what the previous stage saw of in_rdy at the last clock
    in_fifo,     \* how many words the input fifo holds, and in its output register?
    eth_parser,  \* the search for the port with the destination address
    on_the_way,  \* results of the other parsers not yet written
    info,        \* the parsers' fifos
    sm,          \* state and to_from_cpu of op_lut_process_sm
    pulses,      \* the counters it pulsed at the last clock
    fifo_error   \* a fifo was written when full or read when empty

vars == <<in_word, out_word, in_rdy, in_fifo, eth_parser, on_the_way, info, sm, pulses,
          fifo_error>>

NextWord(w) ==
    IF w.word < PKT_WORDS - 1 THEN [w EXCEPT !.word = @ + 1]
    ELSE [pkt |-> (w.pkt + 1) % NUMBERS, word |-> 0]

-----------------------------------------------------------------------------
(***************************************************************************)
(* fallthrough_small_fifo: a fifo of depth words behind an output          *)
(* register, which takes the next word as soon as it is free.              *)
(***************************************************************************)
Fetches(fifo, rd_en) == fifo.queue # <<>> /\ (fifo.dout = NONE \/ rd_en)

Clocked(fifo, written, rd_en) ==
    [queue |-> (IF Fetches(fifo, rd_en) THEN Tail(fifo.queue) ELSE fifo.queue) \o written,
     dout  |-> CASE Fetches(fifo, rd_en) -> Head(fifo.queue)
                 [] rd_en                -> NONE
                 [] OTHER                -> fifo.dout]

\* A write to a full fifo is an error even if a word leaves it in the same clock.
FifoError(fifo, depth, written, rd_en) ==
    \/ written # <<>> /\ Len(fifo.queue) = depth
    \/ rd_en /\ fifo.dout = NONE

\* The same fifo for words that need no contents: they leave in the order they came.
WordsFetched(rd_en) == in_fifo.depth > 0 /\ (~in_fifo.dout \/ rd_en)

WordsClocked(in_wr, rd_en) ==
    [depth |-> in_fifo.depth + (IF in_wr THEN 1 ELSE 0)
                             - (IF WordsFetched(rd_en) THEN 1 ELSE 0),
     dout  |-> WordsFetched(rd_en) \/ (in_fifo.dout /\ ~rd_en)]

InFifoError(in_wr, rd_en) ==
    \/ in_wr /\ in_fifo.depth = IN_DEPTH
    \/ rd_en /\ ~in_fifo.dout

\* Mutant: the last place is not kept for the word on its way.
MutFullOnly == in_fifo.depth >= IN_DEPTH

nearly_full == in_fifo.depth >= IN_DEPTH - 1

-----------------------------------------------------------------------------
(***************************************************************************)
(* eth_parser compares the destination address with one port's address in  *)
(* each clock, starting with the broadcast address, and writes its result  *)
(* when one is equal or when none is left.                                 *)
(***************************************************************************)
\* Mutant: an address of none of the ports is searched for on and on.
MutNeverGivesUp(found) == eth_parser.state = "DO_SEARCH" /\ found

SearchEnds(found) == eth_parser.state = "DO_SEARCH" /\ (found \/ eth_parser.mac_count = 0)

EthParser(in_wr, found) ==
    [search_req |-> in_wr /\ in_word.word = 2,
     pkt        |-> IF in_wr /\ in_word.word = 2 THEN in_word.pkt ELSE eth_parser.pkt,
     state      |-> CASE eth_parser.state = "IDLE" /\ eth_parser.search_req -> "DO_SEARCH"
                      [] SearchEnds(found) -> "IDLE"
                      [] OTHER             -> eth_parser.state,
     mac_count  |-> CASE eth_parser.state = "IDLE" /\ eth_parser.search_req -> NUM_QUEUES \div 2
                      [] eth_parser.state = "DO_SEARCH" /\ ~SearchEnds(found) ->
                             (eth_parser.mac_count + 7) % 8   \* three bits
                      [] OTHER -> 0]

\* The results of the packet a word belongs to that the word starts.
Started(in_wr) ==
    {[info |-> q, pkt |-> in_word.pkt, clocks |-> Ready[q].clocks] :
        q \in {r \in DOMAIN Ready : in_wr /\ Ready[r].word = in_word.word}}

\* The results written to the fifo of q in this clock: one or none.
Written(q, in_wr, found) ==
    IF q = "eth_parser"
    THEN IF SearchEnds(found) THEN <<eth_parser.pkt>> ELSE <<>>
    ELSE SetToSeq({r.pkt : r \in {s \in on_the_way \cup Started(in_wr) :
                                      s.info = q /\ s.clocks = 0}})

OnTheWay(in_wr) ==
    {[r EXCEPT !.clocks = @ - 1] : r \in {s \in on_the_way \cup Started(in_wr) : s.clocks > 0}}

-----------------------------------------------------------------------------
(***************************************************************************)
(* op_lut_process_sm.  A choice names the next state and to_from_cpu,      *)
(* whether the input fifo and the parsers' fifos are read, and the         *)
(* counters that are pulsed.                                               *)
(***************************************************************************)
Choice(state, to_from_cpu, rd_in, rd_info, counters) ==
    [state |-> state, to_from_cpu |-> to_from_cpu, rd_in |-> rd_in, rd_info |-> rd_info,
     pulses |-> counters]

ToCpu(counters) == Choice("LPM_MOVE_MODULE_HDRS", TRUE, FALSE, TRUE, counters)
\* Mutant: the results of a dropped packet stay.
MutDropKeepsResults(counters) == Choice("DROP_PKT", FALSE, TRUE, FALSE, counters)

\* (A packet to drop leaves to_from_cpu as it is; it is written before it is read.)
Drop(counters)  == Choice("DROP_PKT", FALSE, TRUE, TRUE, counters)

\* The parsers' results about a packet; is_for_us says, too, that it came in by
\* the port whose address it has, or is broadcast.
Results ==
    [is_from_cpu : BOOLEAN, is_for_us : BOOLEAN, is_broadcast : BOOLEAN,
     is_cccp_pkt : BOOLEAN, is_ip_pkt : BOOLEAN, ip_checksum_is_good : BOOLEAN,
     dest_ip_hit : BOOLEAN, ip_hdr_has_options : BOOLEAN, ip_ttl_is_good : BOOLEAN,
     lpm_lookup_hit : BOOLEAN, lpm_arp_lookup_hit : BOOLEAN]

\* The counters of an IP packet that goes to the CPU, sorted by priority.
CpuCounters(r) ==
    LET pulsed ==
        [pkt_sent_to_cpu_dest_ip_hit |-> r.dest_ip_hit,
         pkt_sent_to_cpu_bad_ttl     |-> ~r.ip_ttl_is_good /\ ~r.dest_ip_hit,
         pkt_sent_to_cpu_options_ver |->
             r.ip_hdr_has_options /\ r.ip_ttl_is_good /\ ~r.dest_ip_hit,
         pkt_sent_to_cpu_lpm_miss    |->
             ~r.lpm_lookup_hit /\ ~r.ip_hdr_has_options /\ r.ip_ttl_is_good /\ ~r.dest_ip_hit,
         pkt_sent_to_cpu_arp_miss    |->
             /\ ~r.lpm_arp_lookup_hit /\ r.lpm_lookup_hit
             /\ ~r.ip_hdr_has_options /\ r.ip_ttl_is_good /\ ~r.dest_ip_hit]
    IN {c \in DOMAIN pulsed : pulsed[c]}

Decide(r) ==
    CASE r.is_from_cpu -> ToCpu({"pkt_sent_from_cpu"})
      [] ~r.is_from_cpu /\ ~r.is_for_us -> Drop({"pkt_dropped_wrong_dst_mac"})
      [] ~r.is_from_cpu /\ r.is_for_us /\ (r.is_cccp_pkt \/ r.is_ip_pkt)
            /\ ~r.ip_checksum_is_good -> Drop({"pkt_dropped_checksum"})
      [] ~r.is_from_cpu /\ r.is_for_us /\ r.is_cccp_pkt /\ r.ip_checksum_is_good ->
            Choice("CCCP_MOVE_MODULE_HDRS", TRUE, FALSE, TRUE, {})
      [] ~r.is_from_cpu /\ r.is_for_us /\ ~r.is_cccp_pkt /\ ~r.is_ip_pkt ->
            ToCpu({"pkt_sent_to_cpu_non_ip"})
      [] OTHER ->
            IF \/ r.dest_ip_hit \/ r.ip_hdr_has_options \/ ~r.ip_ttl_is_good
               \/ ~r.lpm_arp_lookup_hit \/ ~r.lpm_lookup_hit
            THEN ToCpu(CpuCounters(r))
            ELSE IF r.is_broadcast THEN Drop({"pkt_dropped_wrong_dst_mac"})
            ELSE Choice("LPM_MOVE_MODULE_HDRS", FALSE, FALSE, FALSE, {"pkt_forwarded"})

Decisions == {Decide(r) : r \in Results}

preprocess_vld == \A q \in Infos : info[q].dout # NONE

\* Nothing to do, or nothing to do it with.
Stay == Choice(sm.state, sm.to_from_cpu, FALSE, FALSE, {})

\* A word is read and sent, and the next state is this one.
Send(state) == [Stay EXCEPT !.state = state, !.rd_in = TRUE]

\* Mutant: the end of the packet is not noticed.
MutIgnoresEop(state) == Send(state)

AtEop(state) ==
    Send(IF out_word.word = PKT_WORDS - 1 THEN "WAIT_PREPROCESS_RDY" ELSE state)

\* Mutant: the first word of a packet to forward is taken for the second.
MutSkipsAddress ==
    IF out_word.word = 0
    THEN Send(IF sm.to_from_cpu THEN "MOVE_PKT" ELSE "LPM_SEND_SRC_MAC_LO")
    ELSE Send("LPM_SEND_SRC_MAC_LO")

\* The module header, changed, and then for a packet to forward the first word.
MoveModuleHdrs ==
    IF out_word.word = 0
    THEN Send(IF sm.to_from_cpu THEN "MOVE_PKT" ELSE sm.state)
    ELSE Send("LPM_SEND_SRC_MAC_LO")

\* The word with the new checksum is the last that needs the results.
SendIpChecksum == [Send("MOVE_PKT") EXCEPT !.rd_info = TRUE]

ProcessSm(out_rdy) ==
    CASE sm.state = "WAIT_PREPROCESS_RDY" -> IF preprocess_vld THEN Decisions ELSE {Stay}
      [] sm.state = "DROP_PKT" -> {IF in_fifo.dout THEN AtEop("DROP_PKT") ELSE Stay}
      [] OTHER ->
            IF ~(out_rdy /\ in_fifo.dout) THEN {Stay}
            ELSE {CASE sm.state \in {"LPM_MOVE_MODULE_HDRS", "CCCP_MOVE_MODULE_HDRS"} ->
                           MoveModuleHdrs
                    [] sm.state = "LPM_SEND_SRC_MAC_LO"  -> Send("LPM_SEND_IP_TTL")
                    [] sm.state = "LPM_SEND_IP_TTL"      -> Send("LPM_SEND_IP_CHECKSUM")
                    [] sm.state = "LPM_SEND_IP_CHECKSUM" -> SendIpChecksum
                    [] sm.state = "MOVE_PKT"             -> AtEop("MOVE_PKT")}

-----------------------------------------------------------------------------
Init ==
    /\ in_word = [pkt |-> 0, word |-> 0]
    /\ out_word = [pkt |-> 0, word |-> 0]
    /\ in_rdy = TRUE
    /\ in_fifo = [depth |-> 0, dout |-> FALSE]
    /\ eth_parser = [search_req |-> FALSE, pkt |-> 0, state |-> "IDLE", mac_count |-> 0]
    /\ on_the_way = {}
    /\ info = [q \in Infos |-> [queue |-> <<>>, dout |-> NONE]]
    /\ sm = [state |-> "WAIT_PREPROCESS_RDY", to_from_cpu |-> FALSE]
    /\ pulses = {}
    /\ fifo_error = FALSE

\* One clock: in_wr and out_rdy come from the stages before and behind, found
\* from the addresses, choice from what the parsers found.
Clock(in_wr, out_rdy, found, choice) ==
    /\ in_wr => in_rdy
    /\ found => eth_parser.state = "DO_SEARCH"
    /\ choice \in ProcessSm(out_rdy)
    /\ in_word' = IF in_wr THEN NextWord(in_word) ELSE in_word
    /\ out_word' = IF choice.rd_in THEN NextWord(out_word) ELSE out_word
    /\ in_rdy' = ~nearly_full
    /\ in_fifo' = WordsClocked(in_wr, choice.rd_in)
    /\ eth_parser' = EthParser(in_wr, found)
    /\ on_the_way' = OnTheWay(in_wr)
    /\ info' = [q \in Infos |-> Clocked(info[q], Written(q, in_wr, found), choice.rd_info)]
    /\ sm' = [state |-> choice.state, to_from_cpu |-> choice.to_from_cpu]
    /\ pulses' = choice.pulses
    /\ fifo_error' = \/ fifo_error
                     \/ InFifoError(in_wr, choice.rd_in)
                     \/ \E q \in Infos : FifoError(info[q], INFO_DEPTH, Written(q, in_wr, found),
                                                   choice.rd_info)

Edge(out_rdy) ==
    \E in_wr, found \in BOOLEAN : \E choice \in ProcessSm(out_rdy) :
        ~fifo_error /\ Clock(in_wr, out_rdy, found, choice)

Next == \E out_rdy \in BOOLEAN : Edge(out_rdy)

Spec == Init /\ [][Next]_vars

\* The output queues are ready again and again: they drop a packet that has no room.
FairSpec == Spec /\ WF_vars(Edge(TRUE))

-----------------------------------------------------------------------------
(* Properties.                                                             *)

\* No fifo is written when it is full, or read when it is empty
\* (fallthrough_small_fifo_v2.v: "ERROR: Attempt to write to full FIFO").
NoFifoError == ~fifo_error

\* The next packet's address does not come while the last one is searched for
\* (eth_parser.v: "Latched new address before the last search was done!").
SearchIsDone == eth_parser.state = "DO_SEARCH" /\ in_rdy => in_word.word # 1

\* None of the errors happens that the simulation would report: whatever comes in
\* and however the stages around it pause, everything that is written has room.
NothingOverwritten == NoFifoError /\ SearchIsDone

\* The packet to forward needs its results until its checksum is sent.
UsesResults ==
    \/ sm.state = "WAIT_PREPROCESS_RDY" /\ preprocess_vld
    \/ sm.state = "LPM_MOVE_MODULE_HDRS" /\ ~sm.to_from_cpu
    \/ sm.state \in {"LPM_SEND_SRC_MAC_LO", "LPM_SEND_IP_TTL", "LPM_SEND_IP_CHECKSUM"}

\* Whenever the state machine decides about a packet or rewrites a word of it, the
\* results at the front of all six fifos are about that very packet.
ResultsInStep == UsesResults => \A q \in Infos : info[q].dout = out_word.pkt

\* The state machine counts states, not words: in the state that writes the new
\* source address, TTL or checksum the word at hand is the one that holds it, and
\* it waits for results only between two packets.
RewritesRightWords ==
    /\ sm.state = "WAIT_PREPROCESS_RDY" => out_word.word = 0
    /\ sm.state \in {"LPM_MOVE_MODULE_HDRS", "CCCP_MOVE_MODULE_HDRS"} => out_word.word \in 0 .. 1
    /\ sm.state \in {"MOVE_PKT", "DROP_PKT"} => out_word.word >= 1
    /\ sm.state = "LPM_SEND_SRC_MAC_LO" => out_word.word = 2
    /\ sm.state = "LPM_SEND_IP_TTL" => out_word.word = 3
    /\ sm.state = "LPM_SEND_IP_CHECKSUM" => out_word.word = 4

\* Every packet is decided by its own results and rewritten in the right places,
\* though results carry no number and states count no words.
OwnResultsRightWords == ResultsInStep /\ RewritesRightWords

\* A packet that came in completely leaves the stage or is dropped: the stage is
\* again and again without a complete packet or at the last word of one, and it
\* never stays at a last word.
PacketsLeave ==
    /\ []<>(out_word.pkt = in_word.pkt \/ out_word.word = PKT_WORDS - 1)
    /\ []<>(out_word.word # PKT_WORDS - 1)
=============================================================================
