------------------------------ MODULE Nf2Driver ------------------------------
(***************************************************************************)
(* The kernel driver of the card (src/lib/C/kernel/nf2_control.c): how the *)
(* packets of four interfaces share one ring of transmit buffers and one   *)
(* DMA transfer, and how packets come in.                                  *)
(*                                                                         *)
(* The kernel calls nf2c_tx, which fills a buffer under txbuff_lock and    *)
(* tries to start the transfer; the interrupt handler nf2c_intr empties    *)
(* the buffer when the transfer is done and tries to start the next.  Both *)
(* call nf2c_send, which no lock protects, and which counts its callers in *)
(* dma_tx_in_progress: whoever is not the first leaves.  With several      *)
(* processors the handler runs beside nf2c_tx and waits for txbuff_lock    *)
(* only; with one it runs when nf2c_tx does not, and to its end.           *)
(*                                                                         *)
(* The card is external: what it does is taken from how the driver uses    *)
(* it.  It does one transfer each way at a time, tells which queues have   *)
(* room, and can fail a transfer.                                          *)
(***************************************************************************)
EXTENDS Naturals, FiniteSets

CONSTANTS
    MAX_IFACE,    \* interfaces (4 in the code)
    tx_pool_size, \* transmit buffers (16 in the code)
    Machines      \* the machines considered

(***************************************************************************)
(* smp: there are several processors; errors: the directions in which the  *)
(* card may fail a transfer; receives: packets arrive.                     *)
(***************************************************************************)
ASSUME PoolAssumption ==
    MAX_IFACE \in Nat \ {0} /\ tx_pool_size \in Nat /\ tx_pool_size >= MAX_IFACE
ASSUME MachinesAssumption ==
    Machines \subseteq [smp : BOOLEAN, errors : SUBSET {"tx", "rx"},
                            receives : BOOLEAN]

VARIABLES
    machine,            \* the one that runs, which stays the same
    txbuff,             \* the ring of buffers
    wr_txbuff,          \* the next buffer to fill
    rd_txbuff,          \* the next buffer to send
    free_txbuffs,       \* how many are free
    free_txbuffs_port,  \* how many each interface may still fill
    dma_tx_in_progress, \* callers of nf2c_send, and the transfer
    dma_rx_in_progress,
    dma_can_wr_pkt,     \* queues of the card that had room when last asked
    stopped,            \* interfaces for which the kernel must not call
    send,               \* where each caller is in nf2c_send
    intr,               \* where the handler is, and the status it has read
    pktMasked,          \* INT_PKT_AVAIL is masked
    missed,             \* history: room was reported and no send tried
    card                \* the card

txVars == <<txbuff, wr_txbuff, rd_txbuff, free_txbuffs, free_txbuffs_port, stopped>>
rxVars == <<dma_rx_in_progress, pktMasked>>
vars == <<machine, txVars, dma_tx_in_progress, rxVars, dma_can_wr_pkt, send,
          intr, missed, card>>

Ifaces == 0 .. MAX_IFACE - 1
NoPacket == [skb |-> "none", iface |-> 0]
Slots == 0 .. tx_pool_size - 1
After(slot) == (slot + 1) % tx_pool_size

Callers == {"nf2c_tx", "nf2c_intr"}

\* nf2c_tx returns when nf2c_send does.
Unlocked == send["nf2c_tx"] = "no"

\* The other does not run, or runs on another processor.
KernelRuns == machine.smp \/ intr.at = "idle"

-----------------------------------------------------------------------------
(* nf2c_send.                                                              *)

At(caller, place) ==
    /\ send[caller] = place
    /\ caller = "nf2c_tx" => KernelRuns

GoTo(caller, place) == send' = [send EXCEPT ![caller] = place]

\* Mutant: a transfer is started beside the one in progress.
MutAddOnly(caller) ==
    /\ At(caller, "add")
    /\ dma_tx_in_progress' = dma_tx_in_progress + 1
    /\ GoTo(caller, "free")
    /\ UNCHANGED <<machine, txVars, rxVars, dma_can_wr_pkt, intr, missed, card>>

SendAdds(caller) ==
    /\ At(caller, "add")
    /\ dma_tx_in_progress' = dma_tx_in_progress + 1
    /\ GoTo(caller, IF dma_tx_in_progress = 0 THEN "free" ELSE "give up")
    /\ UNCHANGED <<machine, txVars, rxVars, dma_can_wr_pkt, intr, missed, card>>

SendFindsPacket(caller) ==
    /\ At(caller, "free")
    /\ GoTo(caller, IF free_txbuffs = tx_pool_size THEN "give up" ELSE "room")
    /\ UNCHANGED <<machine, txVars, dma_tx_in_progress, rxVars, dma_can_wr_pkt,
                   intr, missed, card>>

SendFindsRoom(caller) ==
    /\ At(caller, "room")
    /\ GoTo(caller, IF txbuff[rd_txbuff].iface \in dma_can_wr_pkt
                    THEN "start" ELSE "give up")
    /\ UNCHANGED <<machine, txVars, dma_tx_in_progress, rxVars, dma_can_wr_pkt,
                   intr, missed, card>>

SendStarts(caller) ==
    /\ At(caller, "start")
    /\ card' = [card EXCEPT !.sending = @ \cup {rd_txbuff}]
    /\ missed' = FALSE
    /\ GoTo(caller, "no")
    /\ UNCHANGED <<machine, txVars, dma_tx_in_progress, rxVars, dma_can_wr_pkt, intr>>

\* Mutant: the caller that leaves stays counted.
MutStaysCounted(caller) ==
    /\ At(caller, "give up")
    /\ GoTo(caller, "no")
    /\ UNCHANGED <<machine, txVars, dma_tx_in_progress, rxVars, dma_can_wr_pkt,
                   intr, missed, card>>

SendGivesUp(caller) ==
    /\ At(caller, "give up")
    /\ dma_tx_in_progress' = dma_tx_in_progress - 1
    /\ GoTo(caller, "no")
    /\ UNCHANGED <<machine, txVars, rxVars, dma_can_wr_pkt, intr, missed, card>>

nf2c_send(caller) ==
    \/ SendAdds(caller) \/ SendFindsPacket(caller) \/ SendFindsRoom(caller)
    \/ SendStarts(caller) \/ SendGivesUp(caller)

-----------------------------------------------------------------------------
(* nf2c_tx: the kernel hands over a packet for an interface that is not    *)
(* stopped.  (Without a free buffer the packet would be handed back.)      *)

\* Mutant: interfaces are stopped when no buffer is left at all.
MutStopsLate(iface) == free_txbuffs = 1

QuotaUsed(iface) == free_txbuffs_port[iface] = 1

nf2c_tx(iface) ==
    /\ Unlocked
    /\ KernelRuns
    /\ iface \notin stopped
    /\ free_txbuffs > 0
    /\ txbuff' = [txbuff EXCEPT ![wr_txbuff] = [skb |-> "queued", iface |-> iface]]
    /\ wr_txbuff' = After(wr_txbuff)
    /\ free_txbuffs' = free_txbuffs - 1
    /\ free_txbuffs_port' = [free_txbuffs_port EXCEPT ![iface] = @ - 1]
    /\ stopped' = IF QuotaUsed(iface) THEN stopped \cup {iface} ELSE stopped
    /\ GoTo("nf2c_tx", "add")
    /\ UNCHANGED <<machine, rd_txbuff, dma_tx_in_progress, rxVars, dma_can_wr_pkt,
                   intr, missed, card>>

-----------------------------------------------------------------------------
(* nf2c_intr, a section at a time.                                         *)

Section(place) == intr.at = place /\ send["nf2c_intr"] = "no"

NextSection(place) == intr' = [intr EXCEPT !.at = place]

\* "Call the send function if there are other packets to send".
SendIfPackets ==
    IF free_txbuffs # tx_pool_size THEN GoTo("nf2c_intr", "add") ELSE UNCHANGED send

\* There is a packet, and no transfer that would have to make room for it.
Available == card.avail /\ card.rx # "filling"

(***************************************************************************)
(* The status is taken with everything masked.  INT_PKT_AVAIL counts even  *)
(* if it was masked, but does not interrupt then.                          *)
(***************************************************************************)
IntrEnters ==
    /\ Section("idle")
    /\ card.pending # {} \/ (Available /\ ~pktMasked)
    /\ machine.smp \/ Unlocked
    /\ intr' = [at |-> "queue",
                status |-> card.pending \cup IF Available THEN {"PKT_AVAIL"} ELSE {}]
    /\ card' = [card EXCEPT !.pending = {}]
    /\ UNCHANGED <<machine, txVars, dma_tx_in_progress, rxVars, dma_can_wr_pkt,
                   send, missed>>

(***************************************************************************)
(* Nothing is sent while a packet is being received: dma_rx_in_progress is *)
(* asked.  (The handler counts itself there, too, until it has returned    *)
(* from nf2c_send, which nobody else sees.)                                *)
(***************************************************************************)
IntrQueueStatus ==
    /\ Section("queue")
    /\ NextSection("rx")
    /\ IF "QUEUE_STATUS" \in intr.status
       THEN /\ dma_can_wr_pkt' = card.room
            /\ IF dma_rx_in_progress = 0
               THEN SendIfPackets /\ UNCHANGED missed
               ELSE /\ missed' = (missed \/ free_txbuffs # tx_pool_size)
                    /\ UNCHANGED send
       ELSE UNCHANGED <<dma_can_wr_pkt, send, missed>>
    /\ UNCHANGED <<machine, txVars, dma_tx_in_progress, rxVars, card>>

\* Mutant: INT_PKT_AVAIL stays masked.
MutRxStaysMasked ==
    /\ Section("rx")
    /\ NextSection("tx")
    /\ IF "RX_COMPLETE" \in intr.status
       THEN /\ dma_rx_in_progress' = dma_rx_in_progress - 1
            /\ card' = [card EXCEPT !.rx = "empty"]
       ELSE UNCHANGED <<dma_rx_in_progress, card>>
    /\ UNCHANGED <<machine, txVars, dma_tx_in_progress, pktMasked, dma_can_wr_pkt,
                   send, missed>>

IntrRxComplete ==
    /\ Section("rx")
    /\ NextSection("tx")
    /\ IF "RX_COMPLETE" \in intr.status
       THEN /\ dma_rx_in_progress' = dma_rx_in_progress - 1
            /\ card' = [card EXCEPT !.rx = "empty"]
            /\ pktMasked' = FALSE
       ELSE UNCHANGED <<rxVars, card>>
    /\ UNCHANGED <<machine, txVars, dma_tx_in_progress, dma_can_wr_pkt, send, missed>>

\* The packet is freed before the lock is taken.
IntrTxComplete ==
    /\ Section("tx")
    /\ IF "TX_COMPLETE" \in intr.status /\ dma_tx_in_progress # 0
       THEN /\ txbuff' = [txbuff EXCEPT ![rd_txbuff].skb = "freed"]
            /\ NextSection("tx lock")
       ELSE UNCHANGED txbuff /\ NextSection("avail")
    /\ UNCHANGED <<machine, wr_txbuff, rd_txbuff, free_txbuffs, free_txbuffs_port,
                   stopped, dma_tx_in_progress, rxVars, dma_can_wr_pkt, send,
                   missed, card>>

\* Mutant: the interface does not get its buffer back.
MutNotGivenBack ==
    LET iface == txbuff[rd_txbuff].iface IN
    /\ txbuff' = [txbuff EXCEPT ![rd_txbuff] = NoPacket]
    /\ rd_txbuff' = After(rd_txbuff)
    /\ free_txbuffs' = free_txbuffs + 1
    /\ dma_tx_in_progress' = dma_tx_in_progress - 1
    /\ stopped' = IF free_txbuffs_port[iface] = 0 THEN stopped \ {iface} ELSE stopped
    /\ UNCHANGED <<wr_txbuff, free_txbuffs_port>>

\* The next buffer, under txbuff_lock.  (What is left in the old one is never
\* read, and blank here.)
BufferDone ==
    LET iface == txbuff[rd_txbuff].iface IN
    /\ txbuff' = [txbuff EXCEPT ![rd_txbuff] = NoPacket]
    /\ rd_txbuff' = After(rd_txbuff)
    /\ free_txbuffs' = free_txbuffs + 1
    /\ free_txbuffs_port' = [free_txbuffs_port EXCEPT ![iface] = @ + 1]
    /\ dma_tx_in_progress' = dma_tx_in_progress - 1
    /\ stopped' = IF free_txbuffs_port[iface] = 0 THEN stopped \ {iface} ELSE stopped
    /\ UNCHANGED wr_txbuff

IntrTxLocked ==
    /\ Section("tx lock")
    /\ Unlocked
    /\ BufferDone
    /\ NextSection("tx send")
    /\ UNCHANGED <<machine, rxVars, dma_can_wr_pkt, send, missed, card>>

\* Mutant: the next packet waits for the next interrupt.
MutTxSendsNothing ==
    /\ Section("tx send")
    /\ NextSection("avail")
    /\ UNCHANGED <<machine, txVars, dma_tx_in_progress, rxVars, dma_can_wr_pkt,
                   send, missed, card>>

IntrTxSends ==
    /\ Section("tx send")
    /\ SendIfPackets
    /\ NextSection("avail")
    /\ UNCHANGED <<machine, txVars, dma_tx_in_progress, rxVars, dma_can_wr_pkt,
                   missed, card>>

IntrPktAvail ==
    /\ Section("avail")
    /\ NextSection("error")
    /\ IF "PKT_AVAIL" \in intr.status
       THEN /\ pktMasked' = TRUE
            /\ IF dma_rx_in_progress = 0
               THEN /\ dma_rx_in_progress' = 1
                    /\ card' = [card EXCEPT !.rx = "filling", !.avail = FALSE]
               ELSE UNCHANGED <<dma_rx_in_progress, card>>
       ELSE UNCHANGED <<rxVars, card>>
    /\ UNCHANGED <<machine, txVars, dma_tx_in_progress, dma_can_wr_pkt, send, missed>>

(***************************************************************************)
(* nf2_reset_cpci after an error of either direction, whichever of the     *)
(* three kinds it is: both transfers are gone, and so is what the card had *)
(* to tell; it tells of its queues anew.                                   *)
(***************************************************************************)
IntrResets ==
    /\ Section("error")
    /\ IF "DMA_ERROR" \in intr.status
       THEN /\ card' = [card EXCEPT !.sending = {}, !.rx = "empty",
                                    !.pending = {"QUEUE_STATUS"}]
            /\ NextSection("clear")
       ELSE UNCHANGED card /\ NextSection("exit")
    /\ UNCHANGED <<machine, txVars, dma_tx_in_progress, rxVars, dma_can_wr_pkt,
                   send, missed>>

\* nf2c_clear_dma_flags up to the lock.
IntrClears ==
    /\ Section("clear")
    /\ dma_rx_in_progress' = 0
    /\ NextSection(IF dma_tx_in_progress # 0 THEN "clear lock" ELSE "error send")
    /\ UNCHANGED <<machine, txVars, dma_tx_in_progress, pktMasked, dma_can_wr_pkt,
                   send, missed, card>>

IntrClearsLocked ==
    /\ Section("clear lock")
    /\ Unlocked
    /\ BufferDone
    /\ NextSection("error send")
    /\ UNCHANGED <<machine, rxVars, dma_can_wr_pkt, send, missed, card>>

IntrErrorSends ==
    /\ Section("error send")
    /\ SendIfPackets
    /\ NextSection("exit")
    /\ UNCHANGED <<machine, txVars, dma_tx_in_progress, rxVars, dma_can_wr_pkt,
                   missed, card>>

IntrExits ==
    /\ Section("exit")
    /\ intr' = [at |-> "idle", status |-> {}]
    /\ UNCHANGED <<machine, txVars, dma_tx_in_progress, rxVars, dma_can_wr_pkt,
                   send, missed, card>>

IntrGoesOn ==
    \/ IntrQueueStatus \/ IntrRxComplete \/ IntrTxComplete \/ IntrTxSends
    \/ IntrPktAvail \/ IntrResets \/ IntrClears \/ IntrErrorSends \/ IntrExits

IntrLocked == IntrTxLocked \/ IntrClearsLocked

-----------------------------------------------------------------------------
(* The card.                                                               *)

CardDoes(c) ==
    /\ card' = c
    /\ UNCHANGED <<machine, txVars, dma_tx_in_progress, rxVars, dma_can_wr_pkt,
                   send, intr, missed>>

\* The packet may fill the queue of its interface.
CardTxEnds(slot) ==
    /\ slot \in card.sending
    /\ \/ CardDoes([card EXCEPT !.sending = @ \ {slot},
                                !.pending = @ \cup {"TX_COMPLETE"}])
       \/ /\ txbuff[slot].iface \in card.room
          /\ CardDoes([card EXCEPT !.sending = @ \ {slot},
                                   !.room = @ \ {txbuff[slot].iface},
                                   !.pending = @ \cup {"TX_COMPLETE", "QUEUE_STATUS"}])
       \/ /\ "tx" \in machine.errors
          /\ CardDoes([card EXCEPT !.sending = @ \ {slot},
                                   !.pending = @ \cup {"DMA_ERROR"}])

CardQueueDrains(iface) ==
    /\ iface \notin card.room
    /\ CardDoes([card EXCEPT !.room = @ \cup {iface},
                             !.pending = @ \cup {"QUEUE_STATUS"}])

CardReceives ==
    /\ machine.receives
    /\ ~card.avail
    /\ CardDoes([card EXCEPT !.avail = TRUE])

CardRxEnds ==
    /\ card.rx = "filling"
    /\ \/ CardDoes([card EXCEPT !.rx = "full", !.pending = @ \cup {"RX_COMPLETE"}])
       \/ /\ "rx" \in machine.errors
          /\ CardDoes([card EXCEPT !.rx = "empty", !.pending = @ \cup {"DMA_ERROR"}])

-----------------------------------------------------------------------------
\* nf2c_probe, and nf2c_open of every interface; the card tells of its queues.
Init ==
    /\ machine \in Machines
    /\ txbuff = [s \in Slots |-> NoPacket]
    /\ wr_txbuff = 0
    /\ rd_txbuff = 0
    /\ free_txbuffs = tx_pool_size
    /\ free_txbuffs_port = [i \in Ifaces |-> tx_pool_size \div MAX_IFACE]
    /\ dma_tx_in_progress = 0
    /\ dma_rx_in_progress = 0
    /\ dma_can_wr_pkt = {}
    /\ stopped = {}
    /\ send = [c \in Callers |-> "no"]
    /\ intr = [at |-> "idle", status |-> {}]
    /\ pktMasked = FALSE
    /\ missed = FALSE
    /\ card = [sending |-> {}, rx |-> "empty", avail |-> FALSE, room |-> Ifaces,
               pending |-> {"QUEUE_STATUS"}]

Next ==
    \/ \E iface \in Ifaces : nf2c_tx(iface) \/ CardQueueDrains(iface)
    \/ \E caller \in Callers : nf2c_send(caller)
    \/ IntrEnters \/ IntrGoesOn \/ IntrLocked
    \/ \E slot \in Slots : CardTxEnds(slot)
    \/ CardReceives \/ CardRxEnds

(***************************************************************************)
(* Code that runs goes on, the card ends its transfers and its queues      *)
(* drain, and whoever waits for a lock or an interrupt gets it when it     *)
(* keeps coming free.  The kernel need not send, nor packets arrive.       *)
(***************************************************************************)
Fairness ==
    /\ \A caller \in Callers : WF_vars(nf2c_send(caller))
    /\ SF_vars(IntrEnters)
    /\ WF_vars(IntrGoesOn)
    /\ SF_vars(IntrLocked)
    /\ WF_vars(\E slot \in Slots : CardTxEnds(slot))
    /\ WF_vars(CardRxEnds)
    /\ \A iface \in Ifaces : WF_vars(CardQueueDrains(iface))

Spec == Init /\ [][Next]_vars /\ Fairness

-----------------------------------------------------------------------------
(* Properties.                                                             *)

Places == {"no", "add", "free", "room", "start", "give up"}

Sections == {"idle", "queue", "rx", "tx", "tx lock", "tx send", "avail", "error",
             "clear", "clear lock", "error send", "exit"}

Reports == {"QUEUE_STATUS", "TX_COMPLETE", "RX_COMPLETE", "DMA_ERROR"}

\* The variables have their types; no more than the transfer and the two
\* callers of nf2c_send are ever counted.
TypeOK ==
    /\ machine \in Machines
    /\ txbuff \in [Slots -> [skb : {"none", "queued", "freed"}, iface : Ifaces]]
    /\ wr_txbuff \in Slots /\ rd_txbuff \in Slots
    /\ free_txbuffs \in 0 .. tx_pool_size
    /\ free_txbuffs_port \in [Ifaces -> 0 .. tx_pool_size]
    /\ dma_tx_in_progress \in 0 .. 3
    /\ dma_rx_in_progress \in 0 .. 1
    /\ dma_can_wr_pkt \subseteq Ifaces /\ stopped \subseteq Ifaces
    /\ send \in [Callers -> Places]
    /\ intr \in [at : Sections, status : SUBSET (Reports \cup {"PKT_AVAIL"})]
    /\ pktMasked \in BOOLEAN /\ missed \in BOOLEAN
    /\ card \in [sending : SUBSET Slots, rx : {"empty", "filling", "full"},
                 avail : BOOLEAN, room : SUBSET Ifaces, pending : SUBSET Reports]

\* The buffers from the one to send next to the one to fill next.
InUse == {(rd_txbuff + k) % tx_pool_size : k \in 0 .. tx_pool_size - free_txbuffs - 1}

(***************************************************************************)
(* Every packet accepted and not freed is in the part of the ring still to *)
(* be sent, and nothing else is, so that none is leaked and none freed     *)
(* twice; the counts of the ring and of each interface agree with it.  The *)
(* handler frees the first packet a moment before it moves on.  And an     *)
(* interface is stopped exactly as long as it has used up its buffers, so  *)
(* that the kernel never calls nf2c_tx in vain, and one busy interface     *)
(* leaves buffers to the others.                                           *)
(***************************************************************************)
BuffersAccounted ==
    /\ wr_txbuff = (rd_txbuff + (tx_pool_size - free_txbuffs)) % tx_pool_size
    /\ \A s \in Slots :
          txbuff[s].skb = "queued" <=>
              s \in InUse /\ ~(s = rd_txbuff /\ intr.at = "tx lock")
    /\ \A i \in Ifaces :
          free_txbuffs_port[i] + Cardinality({s \in InUse : txbuff[s].iface = i})
          = tx_pool_size \div MAX_IFACE
    /\ stopped = {i \in Ifaces : free_txbuffs_port[i] = 0}

(***************************************************************************)
(* "The hardware can only transfer one at once" (nf2_control.c:304): no    *)
(* transfer is started while another goes on, and the packet that is being *)
(* transferred is the first of the ring and has not been freed.            *)
(***************************************************************************)
OneTransfer ==
    /\ card.sending \subseteq {rd_txbuff}
    /\ \A s \in card.sending : txbuff[s].skb = "queued" /\ dma_tx_in_progress # 0

(***************************************************************************)
(* With one processor every packet is sent, or freed after an error, in    *)
(* the end, unless room in a queue of the card was reported while a packet *)
(* was being received: the driver does not send then, and nothing tells it *)
(* to afterwards.                                                          *)
(***************************************************************************)
PacketsLeave ==
    \A s \in Slots :
        ~machine.smp /\ txbuff[s].skb = "queued" ~> missed \/ txbuff[s].skb # "queued"

(***************************************************************************)
(* Without errors every packet that arrives is fetched in the end: masking *)
(* INT_PKT_AVAIL during a transfer never outlasts it.  (An error does      *)
(* leave it masked.)                                                       *)
(***************************************************************************)
ReceptionGoesOn == machine.errors = {} /\ card.avail ~> ~card.avail
=============================================================================
