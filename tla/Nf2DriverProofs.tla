--------------------------- MODULE Nf2DriverProofs ---------------------------
(***************************************************************************)
(* Proofs about Nf2Driver, for any number of interfaces, any size of the   *)
(* ring and any machines, except one kind: with several processors, a card *)
(* that fails receptions makes the handler free a packet that is still     *)
(* being sent (nf2c_clear_dma_flags does not ask which transfer failed).   *)
(***************************************************************************)
EXTENDS Nf2Driver, FiniteSetTheorems, TLAPS

ReceivesFailOnOneProcessor == \A m \in Machines : m.smp => "rx" \notin m.errors

-----------------------------------------------------------------------------
(* The inductive invariant.                                                *)

\* nf2c_send counts the caller; the caller found that it is the first.
Counts(caller) == send[caller] \in {"free", "room", "start", "give up"}
IsFirst(caller) == send[caller] \in {"free", "room", "start"}

Num(condition) == IF condition THEN 1 ELSE 0

\* What dma_tx_in_progress counts beside the callers: the transfer, from its
\* start until its buffer is given back.
Owned == dma_tx_in_progress - Num(Counts("nf2c_tx")) - Num(Counts("nf2c_intr"))

(***************************************************************************)
(* Where the transfer can be: in the card, in what the card reports, in    *)
(* what the handler has read and not yet acted on.  With one processor an  *)
(* error says nothing of the transfer, for it may be that of a reception.  *)
(***************************************************************************)
Sending == card.sending # {}
TxEnded == "TX_COMPLETE" \in card.pending
TxRead == "TX_COMPLETE" \in intr.status /\ intr.at \in {"queue", "rx", "tx"}
Freed == intr.at = "tx lock"
TxFailed == machine.smp /\ "DMA_ERROR" \in card.pending
ErrorRead ==
    /\ machine.smp
    /\ "DMA_ERROR" \in intr.status
    /\ intr.at \notin {"idle", "clear lock", "error send", "exit"}
Clearing == intr.at = "clear lock"

TxTraces == Num(Sending) + Num(TxEnded) + Num(TxRead) + Num(Freed)
            + Num(TxFailed) + Num(ErrorRead) + Num(Clearing)

(***************************************************************************)
(* There is one transfer or one caller about to start it, and the transfer *)
(* is in one place.                                                        *)
(***************************************************************************)
TransferOwned ==
    /\ Owned \in 0 .. 1
    /\ TxTraces <= Owned
    /\ Owned + Num(IsFirst("nf2c_tx")) + Num(IsFirst("nf2c_intr")) <= 1

\* There is a packet for the transfer, and for the caller that has seen one.
Prepared(caller) == send[caller] \in {"room", "start"}

PacketWaits ==
    Owned = 1 \/ Prepared("nf2c_tx") \/ Prepared("nf2c_intr")
        => free_txbuffs < tx_pool_size

(***************************************************************************)
(* The handler calls nf2c_send from three sections; with one processor it  *)
(* runs alone; and nothing is left in the card that has been reset.        *)
(***************************************************************************)
HandlerPlace ==
    /\ send["nf2c_intr"] # "no" => intr.at \in {"rx", "avail", "exit"}
    /\ ~machine.smp /\ intr.at # "idle" => Unlocked
    /\ intr.at = "clear" => /\ "DMA_ERROR" \in intr.status
                            /\ card.sending = {}
                            /\ card.rx = "empty"
                            /\ card.pending \subseteq {"QUEUE_STATUS"}

\* The card has the first packet of the ring, if it has one.
SendsFirst == card.sending \subseteq {rd_txbuff}

\* The same of a reception, of which there is at most one.
Filling == card.rx = "filling"
RxEnded == "RX_COMPLETE" \in card.pending
RxRead == "RX_COMPLETE" \in intr.status /\ intr.at \in {"queue", "rx"}

ReceptionOwned == Num(Filling) + Num(RxEnded) + Num(RxRead) <= dma_rx_in_progress

IInv ==
    /\ TypeOK
    /\ BuffersAccounted
    /\ SendsFirst
    /\ TransferOwned
    /\ PacketWaits
    /\ HandlerPlace
    /\ ReceptionOwned

-----------------------------------------------------------------------------
(* The ring.                                                               *)

\* The quota of an interface is a number of buffers, and not zero.
LEMMA QuotaType == tx_pool_size \div MAX_IFACE \in 1 .. tx_pool_size
BY PoolAssumption, SMT

LEMMA RingTypes ==
    ASSUME TypeOK
    PROVE  /\ tx_pool_size \in Nat \ {0}
           /\ rd_txbuff \in 0 .. tx_pool_size - 1
           /\ wr_txbuff \in 0 .. tx_pool_size - 1
           /\ free_txbuffs \in 0 .. tx_pool_size
BY PoolAssumption DEF TypeOK, Slots

LEMMA AfterType ==
    ASSUME TypeOK
    PROVE  After(wr_txbuff) \in Slots /\ After(rd_txbuff) \in Slots
BY RingTypes DEF After, Slots

\* Which position is how far from where reading goes on.
LEMMA RingPosition ==
    ASSUME NEW n \in Nat \ {0}, NEW p \in 0 .. n - 1, NEW k \in 0 .. n
    PROVE  (p + k) % n = IF p + k < n THEN p + k ELSE p + k - n
BY SMT

Distance(s) == IF s >= rd_txbuff THEN s - rd_txbuff ELSE s - rd_txbuff + tx_pool_size

\* A buffer is in use when it is nearer to rd_txbuff than buffers are in use.
UseIsNear ==
    /\ InUse \subseteq Slots
    /\ \A s \in Slots : s \in InUse <=> Distance(s) < tx_pool_size - free_txbuffs

LEMMA InUseDistance == TypeOK => UseIsNear
<1> SUFFICES ASSUME TypeOK
             PROVE  UseIsNear
  OBVIOUS
<1> DEFINE n == tx_pool_size
           used == n - free_txbuffs
<1>1. /\ n \in Nat \ {0}
      /\ rd_txbuff \in 0 .. n - 1
      /\ used \in 0 .. n
  BY PoolAssumption DEF TypeOK, Slots
<1>2. \A k \in 0 .. used - 1 :
         (rd_txbuff + k) % n = IF rd_txbuff + k < n THEN rd_txbuff + k ELSE rd_txbuff + k - n
  BY <1>1, RingPosition
<1>3. InUse = {(rd_txbuff + k) % n : k \in 0 .. used - 1}
  BY DEF InUse
<1> HIDE DEF n, used
<1>4. \A k \in 0 .. used - 1 :
         /\ (rd_txbuff + k) % n \in 0 .. n - 1
         /\ ((rd_txbuff + k) % n) = IF rd_txbuff + k < n THEN rd_txbuff + k ELSE rd_txbuff + k - n
  BY <1>1, <1>2
<1>5. ASSUME NEW s \in 0 .. n - 1
      PROVE  s \in InUse <=> Distance(s) < used
  <2>1. ASSUME s \in InUse
        PROVE  Distance(s) < used
    <3>1. PICK k \in 0 .. used - 1 : s = (rd_txbuff + k) % n
      BY <1>3, <2>1
    <3> QED
      BY <1>1, <1>4, <3>1 DEF Distance, n
  <2>2. ASSUME Distance(s) < used
        PROVE  s \in InUse
    <3>1. Distance(s) \in 0 .. used - 1
      BY <1>1, <2>2 DEF Distance, n
    <3>2. s = (rd_txbuff + Distance(s)) % n
      BY <1>1, <1>4, <3>1 DEF Distance, n
    <3> QED
      BY <1>3, <3>1, <3>2
  <2> QED
    BY <2>1, <2>2
<1> QED
  BY <1>3, <1>4, <1>5 DEF UseIsNear, Slots, n, used

LEMMA InUseDistanceNext == TypeOK' => UseIsNear'
BY InUseDistance, PTL

\* A buffer is filled: the ring is longer by the first free buffer.
LEMMA FillInUse ==
    ASSUME TypeOK, TypeOK', BuffersAccounted, free_txbuffs > 0,
           free_txbuffs' = free_txbuffs - 1, rd_txbuff' = rd_txbuff
    PROVE  wr_txbuff \in Slots \ InUse /\ InUse' = InUse \cup {wr_txbuff}
<1>1. /\ tx_pool_size \in Nat \ {0}
      /\ rd_txbuff \in 0 .. tx_pool_size - 1
      /\ free_txbuffs \in 0 .. tx_pool_size
      /\ wr_txbuff \in 0 .. tx_pool_size - 1
  BY PoolAssumption DEF TypeOK, Slots
<1>2. wr_txbuff = IF rd_txbuff + (tx_pool_size - free_txbuffs) < tx_pool_size
                  THEN rd_txbuff + (tx_pool_size - free_txbuffs)
                  ELSE rd_txbuff + (tx_pool_size - free_txbuffs) - tx_pool_size
  <2> DEFINE used == tx_pool_size - free_txbuffs
  <2>1. used \in 0 .. tx_pool_size /\ wr_txbuff = (rd_txbuff + used) % tx_pool_size
    <3>1. wr_txbuff = (rd_txbuff + used) % tx_pool_size
      BY Zenon DEF BuffersAccounted
    <3> QED
      BY <1>1, <3>1
  <2> HIDE DEF used
  <2>2. (rd_txbuff + used) % tx_pool_size
        = IF rd_txbuff + used < tx_pool_size THEN rd_txbuff + used
          ELSE rd_txbuff + used - tx_pool_size
    BY <1>1, <2>1, RingPosition
  <2> QED
    BY <2>1, <2>2 DEF used
<1>3. Distance(wr_txbuff) = tx_pool_size - free_txbuffs
  BY <1>1, <1>2 DEF Distance
<1>4. \A s \in Slots : Distance(s) = tx_pool_size - free_txbuffs => s = wr_txbuff
  BY <1>1, <1>3 DEF Distance, Slots
<1>5. \A s \in Slots : Distance(s)' = Distance(s) /\ Distance(s) \in Int
  BY <1>1 DEF Distance, Slots
<1>6. /\ InUse \subseteq Slots /\ InUse' \subseteq Slots
      /\ \A s \in Slots : s \in InUse <=> Distance(s) < tx_pool_size - free_txbuffs
      /\ \A s \in Slots : s \in InUse' <=> Distance(s) < tx_pool_size - (free_txbuffs - 1)
  BY InUseDistance, InUseDistanceNext, <1>5 DEF UseIsNear
<1>7. wr_txbuff \in Slots \ InUse
  BY <1>1, <1>3, <1>6 DEF Slots
<1>8. \A s \in Slots : s \in InUse' <=> s \in InUse \/ s = wr_txbuff
  BY <1>1, <1>3, <1>4, <1>5, <1>6
<1> QED
  BY <1>6, <1>7, <1>8

\* The first buffer is done with: the ring is shorter by it.
LEMMA DoneInUse ==
    ASSUME TypeOK, TypeOK', free_txbuffs < tx_pool_size,
           free_txbuffs' = free_txbuffs + 1, rd_txbuff' = After(rd_txbuff)
    PROVE  rd_txbuff \in InUse /\ InUse' = InUse \ {rd_txbuff}
<1>1. /\ tx_pool_size \in Nat \ {0}
      /\ rd_txbuff \in 0 .. tx_pool_size - 1
      /\ free_txbuffs \in 0 .. tx_pool_size
      /\ rd_txbuff' = IF rd_txbuff + 1 < tx_pool_size THEN rd_txbuff + 1
                      ELSE rd_txbuff + 1 - tx_pool_size
  <2>1. /\ tx_pool_size \in Nat \ {0} /\ rd_txbuff \in 0 .. tx_pool_size - 1
        /\ free_txbuffs \in 0 .. tx_pool_size
    BY PoolAssumption DEF TypeOK, Slots
  <2>2. rd_txbuff' = (rd_txbuff + 1) % tx_pool_size
    BY DEF After
  <2>3. 1 \in 0 .. tx_pool_size
    BY <2>1
  <2> QED
    BY <2>1, <2>2, <2>3, RingPosition
<1>2. \A s \in Slots : Distance(s) \in 0 .. tx_pool_size - 1 /\ (Distance(s) = 0 <=> s = rd_txbuff)
  BY <1>1 DEF Distance, Slots
<1>3. \A s \in Slots : Distance(s)' = IF s = rd_txbuff THEN tx_pool_size - 1 ELSE Distance(s) - 1
  BY <1>1 DEF Distance, Slots
<1>4. /\ InUse' \subseteq Slots
      /\ \A s \in Slots : s \in InUse' <=> Distance(s)' < tx_pool_size - free_txbuffs'
  BY InUseDistanceNext DEF UseIsNear
<1>5. /\ InUse \subseteq Slots
      /\ \A s \in Slots : s \in InUse <=> Distance(s) < tx_pool_size - free_txbuffs
  BY InUseDistance DEF UseIsNear
<1>6. rd_txbuff \in InUse
  BY <1>1, <1>2, <1>5 DEF Slots
<1>7. \A s \in Slots : s \in InUse' <=> s \in InUse /\ s # rd_txbuff
  BY <1>1, <1>2, <1>3, <1>4, <1>5
<1> QED
  BY <1>4, <1>5, <1>6, <1>7

\* The buffers in use of one interface.
Of(i) == {s \in InUse : txbuff[s].iface = i}

LEMMA OfFinite ==
    ASSUME TypeOK, NEW i
    PROVE  IsFiniteSet(Of(i)) /\ Cardinality(Of(i)) \in Nat
<1>1. IsFiniteSet(Slots)
  BY PoolAssumption, FS_Interval DEF Slots
<1>2. Of(i) \subseteq Slots
  BY InUseDistance DEF Of, UseIsNear
<1> QED
  BY <1>1, <1>2, FS_Subset, FS_CardinalityType

\* The counts agree with the ring after a step that does not touch it.
LEMMA RingKept ==
    ASSUME BuffersAccounted, UNCHANGED txVars,
           intr'.at = "tx lock" <=> intr.at = "tx lock"
    PROVE  BuffersAccounted'
<1>1. InUse' = InUse
  BY DEF InUse, txVars
<1> QED
  BY <1>1 DEF BuffersAccounted, txVars

\* nf2c_tx takes one buffer from the interface and from the ring.
LEMMA RingFilled ==
    ASSUME TypeOK, TypeOK', BuffersAccounted, NEW iface \in Ifaces, nf2c_tx(iface),
           Freed => free_txbuffs < tx_pool_size
    PROVE  BuffersAccounted'
<1> DEFINE quota == tx_pool_size \div MAX_IFACE
<1>1. wr_txbuff \in Slots \ InUse /\ InUse' = InUse \cup {wr_txbuff} /\ InUse \subseteq Slots
  BY FillInUse, InUseDistance DEF nf2c_tx, UseIsNear
<1>2. /\ txbuff' = [txbuff EXCEPT ![wr_txbuff] = [skb |-> "queued", iface |-> iface]]
      /\ free_txbuffs_port' = [free_txbuffs_port EXCEPT ![iface] = @ - 1]
      /\ rd_txbuff' = rd_txbuff /\ Freed' = Freed
      /\ txbuff \in [Slots -> [skb : {"none", "queued", "freed"}, iface : Ifaces]]
      /\ free_txbuffs_port \in [Ifaces -> 0 .. tx_pool_size]
  BY DEF nf2c_tx, TypeOK, Freed
<1>3. wr_txbuff' = (rd_txbuff' + (tx_pool_size - free_txbuffs')) % tx_pool_size
  <2> DEFINE n == tx_pool_size
             used == n - free_txbuffs
  <2>1. /\ n \in Nat \ {0} /\ rd_txbuff \in 0 .. n - 1
        /\ used \in 0 .. n - 1 /\ n - (free_txbuffs - 1) = used + 1
    <3>1. free_txbuffs > 0
      BY DEF nf2c_tx
    <3> QED
      BY <3>1, RingTypes
  <2>2. /\ wr_txbuff = (rd_txbuff + used) % n
        /\ wr_txbuff' = (wr_txbuff + 1) % n
        /\ free_txbuffs' = free_txbuffs - 1
    BY Zenon DEF BuffersAccounted, nf2c_tx, After
  <2>3. wr_txbuff \in 0 .. n - 1
    BY <1>1 DEF Slots
  <2> HIDE DEF n, used
  <2>4. /\ (rd_txbuff + used) % n = IF rd_txbuff + used < n THEN rd_txbuff + used
                                    ELSE rd_txbuff + used - n
        /\ (rd_txbuff + (used + 1)) % n = IF rd_txbuff + (used + 1) < n THEN rd_txbuff + (used + 1)
                                          ELSE rd_txbuff + (used + 1) - n
        /\ (wr_txbuff + 1) % n = IF wr_txbuff + 1 < n THEN wr_txbuff + 1
                                 ELSE wr_txbuff + 1 - n
    <3>1. used + 1 \in 0 .. n /\ 1 \in 0 .. n /\ used \in 0 .. n
      BY <2>1
    <3> QED
      BY <2>1, <2>3, <3>1, RingPosition
  <2>5. wr_txbuff' = (rd_txbuff + (used + 1)) % n
    BY <2>1, <2>2, <2>3, <2>4
  <2> QED
    BY <1>2, <2>1, <2>2, <2>5 DEF n
<1>4. ASSUME NEW s \in Slots
      PROVE  txbuff'[s].skb = "queued" <=>
                 s \in InUse' /\ ~(s = rd_txbuff' /\ Freed')
  <2>1. txbuff[s].skb = "queued" <=> s \in InUse /\ ~(s = rd_txbuff /\ Freed)
    BY DEF BuffersAccounted, Freed
  <2>2. Freed => rd_txbuff \in InUse
    <3>1. rd_txbuff \in Slots /\ Distance(rd_txbuff) = 0 /\ tx_pool_size \in Nat
      BY RingTypes DEF Slots, Distance
    <3> QED
      BY <3>1, InUseDistance, RingTypes DEF UseIsNear
  <2> QED
    BY <1>1, <1>2, <2>1, <2>2
<1>5. ASSUME NEW i \in Ifaces
      PROVE  free_txbuffs_port'[i] + Cardinality({s \in InUse' : txbuff'[s].iface = i}) = quota
  <2>1. free_txbuffs_port[i] + Cardinality(Of(i)) = quota
    BY DEF BuffersAccounted, Of
  <2>2. {s \in InUse' : txbuff'[s].iface = i}
        = IF i = iface THEN Of(i) \cup {wr_txbuff} ELSE Of(i)
    BY <1>1, <1>2 DEF Of
  <2>3. CASE i = iface
    <3>1. Cardinality(Of(i) \cup {wr_txbuff}) = Cardinality(Of(i)) + 1
      <4>1. wr_txbuff \notin Of(i)
        BY <1>1 DEF Of
      <4> QED
        BY <4>1, OfFinite, FS_AddElement
    <3>2. /\ free_txbuffs_port[i] \in Nat
          /\ free_txbuffs_port'[i] = free_txbuffs_port[i] - 1
          /\ Cardinality(Of(i)) \in Nat
      BY <1>2, <2>3, OfFinite
    <3> DEFINE of == {s \in InUse' : txbuff'[s].iface = i}
    <3>3. Cardinality(of) = Cardinality(Of(i)) + 1
      BY <2>2, <2>3, <3>1
    <3> HIDE DEF of
    <3>4. free_txbuffs_port'[i] + Cardinality(of) = quota
      BY <2>1, <3>2, <3>3
    <3> QED
      BY <3>4 DEF of
  <2>4. CASE i # iface
    BY <1>2, <2>1, <2>2, <2>4
  <2> QED
    BY <2>3, <2>4
<1>6. stopped' = {i \in Ifaces : free_txbuffs_port'[i] = 0}
  <2>1. stopped = {i \in Ifaces : free_txbuffs_port[i] = 0}
    BY DEF BuffersAccounted
  <2>2. stopped' = IF free_txbuffs_port[iface] = 1 THEN stopped \cup {iface} ELSE stopped
    BY DEF nf2c_tx, QuotaUsed
  <2>3. iface \notin stopped
    BY DEF nf2c_tx
  <2>4. /\ \A i \in Ifaces : free_txbuffs_port[i] \in Nat
        /\ \A i \in Ifaces \ {iface} : free_txbuffs_port'[i] = free_txbuffs_port[i]
        /\ free_txbuffs_port'[iface] = free_txbuffs_port[iface] - 1
    BY <1>2
  <2> QED
    BY <2>1, <2>2, <2>3, <2>4
<1> QED
  BY <1>3, <1>4, <1>5, <1>6 DEF BuffersAccounted, Freed

\* The handler gives the first buffer back to its interface and to the ring.
LEMMA RingDone ==
    ASSUME TypeOK, TypeOK', BuffersAccounted, BufferDone,
           free_txbuffs < tx_pool_size, ~Freed'
    PROVE  BuffersAccounted'
<1> DEFINE quota == tx_pool_size \div MAX_IFACE
           iface == txbuff[rd_txbuff].iface
<1>1. rd_txbuff \in InUse /\ InUse' = InUse \ {rd_txbuff} /\ InUse \subseteq Slots
  BY DoneInUse, InUseDistance DEF BufferDone, UseIsNear
<1>2. /\ txbuff' = [txbuff EXCEPT ![rd_txbuff] = NoPacket]
      /\ free_txbuffs_port' = [free_txbuffs_port EXCEPT ![iface] = @ + 1]
      /\ txbuff \in [Slots -> [skb : {"none", "queued", "freed"}, iface : Ifaces]]
      /\ free_txbuffs_port \in [Ifaces -> 0 .. tx_pool_size]
      /\ rd_txbuff \in Slots /\ iface \in Ifaces
  BY DEF BufferDone, TypeOK
<1>3. wr_txbuff' = (rd_txbuff' + (tx_pool_size - free_txbuffs')) % tx_pool_size
  <2> DEFINE n == tx_pool_size
             used == n - free_txbuffs
  <2>1. /\ n \in Nat \ {0} /\ rd_txbuff \in 0 .. n - 1
        /\ used \in 1 .. n /\ n - (free_txbuffs + 1) = used - 1
    BY RingTypes
  <2>2. /\ wr_txbuff' = (rd_txbuff + used) % n
        /\ rd_txbuff' = (rd_txbuff + 1) % n
        /\ free_txbuffs' = free_txbuffs + 1
    BY Zenon DEF BuffersAccounted, BufferDone, After
  <2>3. rd_txbuff' \in 0 .. n - 1
    BY DEF TypeOK, Slots
  <2> HIDE DEF n, used
  <2>4. /\ (rd_txbuff + used) % n = IF rd_txbuff + used < n THEN rd_txbuff + used
                                    ELSE rd_txbuff + used - n
        /\ (rd_txbuff + 1) % n = IF rd_txbuff + 1 < n THEN rd_txbuff + 1
                                 ELSE rd_txbuff + 1 - n
        /\ (rd_txbuff' + (used - 1)) % n = IF rd_txbuff' + (used - 1) < n THEN rd_txbuff' + (used - 1)
                                          ELSE rd_txbuff' + (used - 1) - n
    <3>1. used - 1 \in 0 .. n /\ 1 \in 0 .. n /\ used \in 0 .. n
      BY <2>1
    <3> QED
      BY <2>1, <2>3, <3>1, RingPosition
  <2>5. wr_txbuff' = (rd_txbuff' + (used - 1)) % n
    <3>1. rd_txbuff' = IF rd_txbuff + 1 < n THEN rd_txbuff + 1 ELSE 0
      BY <2>1, <2>2, <2>4
    <3>2. CASE rd_txbuff + 1 < n
      BY <2>1, <2>2, <2>4, <3>1, <3>2
    <3>3. CASE ~(rd_txbuff + 1 < n)
      BY <2>1, <2>2, <2>4, <3>1, <3>3
    <3> QED
      BY <3>2, <3>3
  <2> QED
    BY <1>2, <2>1, <2>2, <2>5 DEF n
<1>4. ASSUME NEW s \in Slots
      PROVE  txbuff'[s].skb = "queued" <=>
                 s \in InUse' /\ ~(s = rd_txbuff' /\ Freed')
  <2>1. txbuff[s].skb = "queued" <=> s \in InUse /\ ~(s = rd_txbuff /\ Freed)
    BY DEF BuffersAccounted, Freed
  <2> QED
    BY <1>1, <1>2, <2>1 DEF NoPacket
<1>5. ASSUME NEW i \in Ifaces
      PROVE  free_txbuffs_port'[i] + Cardinality({s \in InUse' : txbuff'[s].iface = i}) = quota
  <2>1. free_txbuffs_port[i] + Cardinality(Of(i)) = quota
    BY DEF BuffersAccounted, Of
  <2>2. {s \in InUse' : txbuff'[s].iface = i} = Of(i) \ {rd_txbuff}
    BY <1>1, <1>2 DEF Of
  <2>3. CASE i = iface
    <3>1. Cardinality(Of(i) \ {rd_txbuff}) = Cardinality(Of(i)) - 1
      <4>1. rd_txbuff \in Of(i)
        BY <1>1, <2>3 DEF Of
      <4> QED
        BY <4>1, OfFinite, FS_RemoveElement
    <3>2. /\ free_txbuffs_port[i] \in Nat
          /\ free_txbuffs_port'[i] = free_txbuffs_port[i] + 1
          /\ Cardinality(Of(i)) \in Nat
      BY <1>2, <2>3, OfFinite
    <3> DEFINE of == {s \in InUse' : txbuff'[s].iface = i}
    <3>3. Cardinality(of) = Cardinality(Of(i)) - 1
      BY <2>2, <2>3, <3>1
    <3> HIDE DEF of
    <3>4. free_txbuffs_port'[i] + Cardinality(of) = quota
      BY <2>1, <3>2, <3>3
    <3> QED
      BY <3>4 DEF of
  <2>4. CASE i # iface
    <3>1. Of(i) \ {rd_txbuff} = Of(i)
      BY <2>4 DEF Of
    <3> QED
      BY <1>2, <2>1, <2>2, <2>4, <3>1
  <2> QED
    BY <2>3, <2>4
<1>6. stopped' = {i \in Ifaces : free_txbuffs_port'[i] = 0}
  <2>1. stopped = {i \in Ifaces : free_txbuffs_port[i] = 0}
    BY DEF BuffersAccounted
  <2>2. stopped' = IF free_txbuffs_port[iface] = 0 THEN stopped \ {iface} ELSE stopped
    BY DEF BufferDone
  <2>3. /\ iface \in Ifaces
        /\ \A i \in Ifaces : free_txbuffs_port[i] \in Nat
        /\ \A i \in Ifaces \ {iface} : free_txbuffs_port'[i] = free_txbuffs_port[i]
        /\ free_txbuffs_port'[iface] = free_txbuffs_port[iface] + 1
    BY <1>2
  <2> HIDE DEF iface
  <2> QED
    BY <2>1, <2>2, <2>3
<1> QED
  BY <1>3, <1>4, <1>5, <1>6 DEF BuffersAccounted, Freed

-----------------------------------------------------------------------------
(* The types.                                                              *)

\* What dma_tx_in_progress can be, from what it counts.
LEMMA CountType ==
    ASSUME TransferOwned, dma_tx_in_progress \in Int
    PROVE  /\ dma_tx_in_progress \in 0 .. 3
           /\ \A c \in Callers : Counts(c) => dma_tx_in_progress \in 1 .. 3
           /\ \A c \in Callers : ~Counts(c) => dma_tx_in_progress \in 0 .. 2
           /\ Freed \/ Clearing => Owned = 1 /\ dma_tx_in_progress \in 1 .. 3
BY DEF TransferOwned, TxTraces, Owned, Num, Callers

CardType == [sending : SUBSET Slots, rx : {"empty", "filling", "full"},
             avail : BOOLEAN, room : SUBSET Ifaces, pending : SUBSET Reports]
IntrType == [at : Sections, status : SUBSET (Reports \cup {"PKT_AVAIL"})]

\* A step that leaves the ring and the machine alone.
LEMMA RingTypesKept ==
    ASSUME TypeOK, UNCHANGED <<machine, txVars>>,
           dma_tx_in_progress' \in 0 .. 3, dma_rx_in_progress' \in 0 .. 1,
           dma_can_wr_pkt' \subseteq Ifaces, send' \in [Callers -> Places],
           intr' \in IntrType,
           pktMasked' \in BOOLEAN, missed' \in BOOLEAN,
           card' \in CardType
    PROVE  TypeOK'
BY DEF TypeOK, txVars, CardType, IntrType

LEMMA TypeNext == IInv /\ [Next]_vars => TypeOK'
<1> SUFFICES ASSUME IInv, [Next]_vars
             PROVE  TypeOK'
  OBVIOUS
<1>1. TypeOK /\ TransferOwned /\ ReceptionOwned
  BY DEF IInv
<1>2. /\ dma_tx_in_progress \in 0 .. 3
      /\ dma_rx_in_progress \in 0 .. 1
      /\ send \in [Callers -> Places]
      /\ free_txbuffs \in Nat /\ tx_pool_size \in Nat
  BY <1>1, PoolAssumption DEF TypeOK
<1>3. /\ dma_can_wr_pkt \subseteq Ifaces
      /\ pktMasked \in BOOLEAN /\ missed \in BOOLEAN
      /\ intr \in IntrType
      /\ card \in CardType
  BY <1>1 DEF TypeOK, CardType, IntrType
<1>4. ASSUME UNCHANGED <<machine, txVars, dma_rx_in_progress, dma_can_wr_pkt, intr, pktMasked>>,
             dma_tx_in_progress' \in 0 .. 3, send' \in [Callers -> Places],
             missed' \in BOOLEAN,
             card' = card \/ card' = [card EXCEPT !.sending = @ \cup {rd_txbuff}]
      PROVE  TypeOK'
  <2>1. rd_txbuff \in Slots
    BY <1>1 DEF TypeOK
  <2> QED
    BY <1>1, <1>2, <1>3, <1>4, <2>1, RingTypesKept DEF CardType
<1>5. ASSUME NEW caller \in Callers, nf2c_send(caller)
      PROVE  TypeOK'
  <2>1. \A place \in Places : [send EXCEPT ![caller] = place] \in [Callers -> Places]
    BY <1>2
  <2>2. {"no", "free", "room", "start", "give up"} \subseteq Places
    BY DEF Places
  <2>3. CASE SendAdds(caller)
    <3>1. ~Counts(caller)
      BY <2>3 DEF SendAdds, At, Counts
    <3>2. dma_tx_in_progress' \in 0 .. 3
      <4>1. dma_tx_in_progress \in 0 .. 2
        BY <1>1, <1>2, <3>1, CountType
      <4>2. dma_tx_in_progress' = dma_tx_in_progress + 1
        BY <2>3 DEF SendAdds
      <4> QED
        BY <4>1, <4>2
    <3> QED
      BY <1>3, <1>4, <2>1, <2>2, <2>3, <3>2 DEF SendAdds, GoTo, rxVars
  <2>4. CASE SendFindsPacket(caller) \/ SendFindsRoom(caller)
    BY <1>2, <1>3, <1>4, <2>1, <2>2, <2>4
       DEF SendFindsPacket, SendFindsRoom, GoTo, rxVars
  <2>5. CASE SendStarts(caller)
    BY <1>2, <1>4, <2>1, <2>2, <2>5 DEF SendStarts, GoTo, rxVars
  <2>6. CASE SendGivesUp(caller)
    <3>1. Counts(caller)
      BY <2>6 DEF SendGivesUp, At, Counts
    <3>2. dma_tx_in_progress' \in 0 .. 3
      <4>1. dma_tx_in_progress \in 1 .. 3
        BY <1>1, <1>2, <3>1, CountType
      <4>2. dma_tx_in_progress' = dma_tx_in_progress - 1
        BY <2>6 DEF SendGivesUp
      <4> QED
        BY <4>1, <4>2
    <3> QED
      BY <1>3, <1>4, <2>1, <2>2, <2>6, <3>2 DEF SendGivesUp, GoTo, rxVars
  <2> QED
    BY <1>5, <2>3, <2>4, <2>5, <2>6 DEF nf2c_send
<1>6. ASSUME NEW iface \in Ifaces, nf2c_tx(iface)
      PROVE  TypeOK'
  <2>1. After(wr_txbuff) \in Slots
    BY <1>1, AfterType
  <2>2. free_txbuffs - 1 \in 0 .. tx_pool_size
    BY <1>1, <1>6, RingTypes DEF nf2c_tx
  <2>3. [free_txbuffs_port EXCEPT ![iface] = @ - 1] \in [Ifaces -> 0 .. tx_pool_size]
    <3>1. free_txbuffs_port \in [Ifaces -> 0 .. tx_pool_size]
      BY <1>1 DEF TypeOK
    <3>2. free_txbuffs_port[iface] # 0
      BY <1>6 DEF nf2c_tx, IInv, BuffersAccounted
    <3> QED
      BY <1>2, <3>1, <3>2
  <2>4. [send EXCEPT !["nf2c_tx"] = "add"] \in [Callers -> Places]
    BY <1>2 DEF Places
  <2> QED
    BY <1>1, <1>6, <2>1, <2>2, <2>3, <2>4 DEF nf2c_tx, TypeOK, GoTo, rxVars
<1>7. ASSUME UNCHANGED <<machine, txVars, dma_tx_in_progress>>,
             dma_rx_in_progress' \in 0 .. 1, dma_can_wr_pkt' \subseteq Ifaces,
             send' = send \/ SendIfPackets,
             intr' \in IntrType,
             pktMasked' \in BOOLEAN, missed' \in BOOLEAN,
             card' \in CardType
      PROVE  TypeOK'
  <2>1. send' \in [Callers -> Places]
    BY <1>2, <1>7 DEF SendIfPackets, GoTo, Places
  <2> QED
    BY <1>1, <1>2, <1>7, <2>1, RingTypesKept
<1>8. CASE IntrEnters
  BY <1>2, <1>3, <1>7, <1>8 
     DEF IntrEnters, rxVars, Sections, CardType, IntrType
<1>9. CASE IntrRxComplete
  <2>1. RxRead => dma_rx_in_progress = 1
    BY <1>1, <1>2 DEF ReceptionOwned, Num
  <2>2. dma_rx_in_progress' \in 0 .. 1
    <3>1. \/ RxRead /\ dma_rx_in_progress' = dma_rx_in_progress - 1
          \/ dma_rx_in_progress' = dma_rx_in_progress
      BY <1>9 DEF IntrRxComplete, Section, RxRead, rxVars
    <3> QED
      BY <1>2, <2>1, <3>1
  <2> QED
    BY <1>2, <1>3, <1>7, <1>9, <2>2 
       DEF IntrRxComplete, NextSection, rxVars, Sections, CardType, IntrType
<1>10. CASE IntrTxComplete
  <2>1. [txbuff EXCEPT ![rd_txbuff].skb = "freed"]
        \in [Slots -> [skb : {"none", "queued", "freed"}, iface : Ifaces]]
    BY <1>1 DEF TypeOK
  <2>2. intr' \in IntrType
    BY <1>3, <1>10 DEF IntrTxComplete, NextSection, Sections, IntrType
  <2> QED
    BY <1>1, <1>10, <2>1, <2>2 DEF IntrTxComplete, TypeOK, rxVars, IntrType
<1>11. ASSUME BufferDone, Freed \/ Clearing, NEW place \in Sections, NextSection(place),
              UNCHANGED <<machine, rxVars, dma_can_wr_pkt, send, missed, card>>
       PROVE  TypeOK'
  <2>1. After(rd_txbuff) \in Slots
    BY <1>1, AfterType
  <2>2. Owned = 1 /\ dma_tx_in_progress - 1 \in 0 .. 3
    BY <1>1, <1>2, <1>11, CountType
  <2>3. free_txbuffs + 1 \in 0 .. tx_pool_size /\ free_txbuffs < tx_pool_size
    <3>1. free_txbuffs < tx_pool_size
      BY <2>2 DEF IInv, PacketWaits
    <3> QED
      BY <1>1, <3>1, RingTypes
  <2> DEFINE iface == txbuff[rd_txbuff].iface
  <2>4. /\ txbuff \in [Slots -> [skb : {"none", "queued", "freed"}, iface : Ifaces]]
        /\ free_txbuffs_port \in [Ifaces -> 0 .. tx_pool_size]
        /\ rd_txbuff \in Slots /\ iface \in Ifaces
    BY <1>1 DEF TypeOK
  <2>5. [free_txbuffs_port EXCEPT ![iface] = @ + 1] \in [Ifaces -> 0 .. tx_pool_size]
    <3>1. free_txbuffs_port[iface] + Cardinality(Of(iface)) = tx_pool_size \div MAX_IFACE
      BY <2>4 DEF IInv, BuffersAccounted, Of
    <3>2. rd_txbuff \in Of(iface)
      <4>1. rd_txbuff \in Slots /\ Distance(rd_txbuff) = 0
        BY <1>1, RingTypes DEF Slots, Distance
      <4>2. rd_txbuff \in InUse
        BY <1>1, <2>3, <4>1, InUseDistance, RingTypes DEF UseIsNear
      <4> QED
        BY <4>2 DEF Of
    <3>3. Cardinality(Of(iface)) \in Nat \ {0}
      BY <1>1, <3>2, OfFinite, FS_EmptySet
    <3> HIDE DEF iface
    <3>4. free_txbuffs_port[iface] \in 0 .. tx_pool_size
      BY <2>4
    <3>5. free_txbuffs_port[iface] + 1 \in 0 .. tx_pool_size
      BY <1>2, <3>1, <3>3, <3>4, QuotaType
    <3> QED
      BY <2>4, <3>5
  <2>6. NoPacket \in [skb : {"none", "queued", "freed"}, iface : Ifaces]
    BY PoolAssumption DEF NoPacket, Ifaces
  <2>7. intr' \in IntrType
    BY <1>3, <1>11 DEF NextSection, IntrType
  <2>8. stopped' \subseteq Ifaces
    BY <1>1, <1>11, <2>4 DEF BufferDone, TypeOK
  <2>9. txbuff' \in [Slots -> [skb : {"none", "queued", "freed"}, iface : Ifaces]]
    BY <1>11, <2>4, <2>6 DEF BufferDone
  <2> QED
    BY <1>1, <1>2, <1>11, <2>1, <2>2, <2>3, <2>5, <2>7, <2>8, <2>9
       DEF BufferDone, TypeOK, rxVars, IntrType
<1>12. CASE IntrLocked
  <2>1. CASE IntrTxLocked
    BY <1>11, <2>1 DEF IntrTxLocked, Section, Freed, Sections
  <2>2. CASE IntrClearsLocked
    BY <1>11, <2>2 DEF IntrClearsLocked, Section, Clearing, Sections
  <2> QED
    BY <1>12, <2>1, <2>2 DEF IntrLocked
<1>13. ASSUME NEW place \in Sections, NextSection(place)
       PROVE  intr' \in IntrType
  BY <1>3, <1>13 DEF NextSection, IntrType
<1>14. CASE IntrTxSends
  <2>1. intr' \in IntrType
    BY <1>13, <1>14 DEF IntrTxSends, Sections
  <2> QED
    BY <1>2, <1>3, <1>7, <1>14, <2>1 DEF IntrTxSends, rxVars
<1>15. CASE IntrQueueStatus
  <2>1. intr' \in IntrType
    BY <1>13, <1>15 DEF IntrQueueStatus, Sections
  <2>2. dma_can_wr_pkt' \subseteq Ifaces
    BY <1>3, <1>15 DEF IntrQueueStatus, CardType
  <2>3. missed' \in BOOLEAN /\ (send' = send \/ SendIfPackets)
    BY <1>3, <1>15 DEF IntrQueueStatus
  <2> QED
    BY <1>2, <1>3, <1>7, <1>15, <2>1, <2>2, <2>3 DEF IntrQueueStatus, rxVars
<1>16. CASE IntrErrorSends
  <2>1. intr' \in IntrType
    BY <1>13, <1>16 DEF IntrErrorSends, Sections
  <2> QED
    BY <1>2, <1>3, <1>7, <1>16, <2>1 DEF IntrErrorSends, rxVars
<1>17. CASE IntrExits
  <2>1. intr' \in IntrType
    BY <1>17 DEF IntrExits, Sections, IntrType
  <2> QED
    BY <1>2, <1>3, <1>7, <1>17, <2>1 DEF IntrExits, rxVars
<1>18. CASE IntrPktAvail
  <2>1. intr' \in IntrType
    BY <1>13, <1>18 DEF IntrPktAvail, Sections
  <2>2. card' \in CardType
    BY <1>3, <1>18 DEF IntrPktAvail, CardType
  <2>3. dma_rx_in_progress' \in 0 .. 1 /\ pktMasked' \in BOOLEAN
    <3>1. dma_rx_in_progress' = 1 \/ dma_rx_in_progress' = dma_rx_in_progress
      BY <1>18 DEF IntrPktAvail, rxVars
    <3>2. pktMasked' \in BOOLEAN
      BY <1>3, <1>18 DEF IntrPktAvail, rxVars
    <3> QED
      BY <1>2, <3>1, <3>2
  <2>4. send' = send /\ missed' = missed /\ dma_can_wr_pkt' = dma_can_wr_pkt
        /\ UNCHANGED <<machine, txVars, dma_tx_in_progress>>
    BY <1>18 DEF IntrPktAvail
  <2> QED
    BY <1>3, <1>7, <2>1, <2>2, <2>3, <2>4
<1>19. CASE IntrResets
  <2>1. intr' \in IntrType
    BY <1>13, <1>19 DEF IntrResets, Sections
  <2>2. card' \in CardType
    BY <1>3, <1>19 DEF IntrResets, CardType, Reports
  <2> QED
    BY <1>2, <1>3, <1>7, <1>19, <2>1, <2>2 DEF IntrResets, rxVars
<1>20. CASE IntrClears
  <2>1. intr' \in IntrType
    BY <1>13, <1>20 DEF IntrClears, Sections
  <2>2. dma_rx_in_progress' \in 0 .. 1
    <3>1. dma_rx_in_progress' = 0
      BY <1>20 DEF IntrClears
    <3> QED
      BY <3>1
  <2> QED
    BY <1>3, <1>7, <1>20, <2>1, <2>2 DEF IntrClears
<1>21. ASSUME NEW c, CardDoes(c),
              card' \in CardType
       PROVE  TypeOK'
  BY <1>2, <1>3, <1>7, <1>21 DEF CardDoes, rxVars
<1>22. ASSUME NEW slot \in Slots, CardTxEnds(slot)
       PROVE  TypeOK'
  <2>1. CASE CardDoes([card EXCEPT !.sending = @ \ {slot},
                                   !.pending = @ \cup {"TX_COMPLETE"}])
    <3>1. card' \in CardType
      BY <1>3, <2>1 DEF CardDoes, CardType, Reports
    <3> QED
      BY <1>21, <2>1, <3>1
  <2>2. CASE CardDoes([card EXCEPT !.sending = @ \ {slot},
                                   !.room = @ \ {txbuff[slot].iface},
                                   !.pending = @ \cup {"TX_COMPLETE", "QUEUE_STATUS"}])
    <3>1. card' \in CardType
      BY <1>3, <2>2 DEF CardDoes, CardType, Reports
    <3> QED
      BY <1>21, <2>2, <3>1
  <2>3. CASE CardDoes([card EXCEPT !.sending = @ \ {slot},
                                   !.pending = @ \cup {"DMA_ERROR"}])
    <3>1. card' \in CardType
      BY <1>3, <2>3 DEF CardDoes, CardType, Reports
    <3> QED
      BY <1>21, <2>3, <3>1
  <2> QED
    BY <1>22, <2>1, <2>2, <2>3 DEF CardTxEnds
<1>23. ASSUME NEW iface \in Ifaces, CardQueueDrains(iface)
       PROVE  TypeOK'
  <2>1. card' \in CardType
    BY <1>3, <1>23 DEF CardQueueDrains, CardDoes, Reports, CardType
  <2>2. PICK c : CardDoes(c)
    BY <1>23 DEF CardQueueDrains
  <2> QED
    BY <1>21, <2>1, <2>2
<1>24. CASE CardReceives
  <2>1. card' \in CardType
    BY <1>3, <1>24 DEF CardReceives, CardDoes, CardType
  <2>2. PICK c : CardDoes(c)
    BY <1>24 DEF CardReceives
  <2> QED
    BY <1>21, <2>1, <2>2
<1>25. CASE CardRxEnds
  <2>1. CASE CardDoes([card EXCEPT !.rx = "full", !.pending = @ \cup {"RX_COMPLETE"}])
    <3>1. card' \in CardType
      BY <1>3, <2>1 DEF CardDoes, CardType, Reports
    <3> QED
      BY <1>21, <2>1, <3>1
  <2>2. CASE CardDoes([card EXCEPT !.rx = "empty", !.pending = @ \cup {"DMA_ERROR"}])
    <3>1. card' \in CardType
      BY <1>3, <2>2 DEF CardDoes, CardType, Reports
    <3> QED
      BY <1>21, <2>2, <3>1
  <2> QED
    BY <1>25, <2>1, <2>2 DEF CardRxEnds
<1>26. CASE UNCHANGED vars
  BY <1>1, <1>26 DEF vars, txVars, rxVars, TypeOK
<1> QED
  BY <1>5, <1>6, <1>8, <1>15, <1>9, <1>10, <1>12, <1>14, <1>16, <1>22, <1>23,
     <1>24, <1>26, <1>18, <1>19, <1>20, <1>25, <1>17 DEF Next, IntrGoesOn

-----------------------------------------------------------------------------
(* The reception.                                                          *)

\* The card ends a transfer.
LEMMA CardTxStep ==
    ASSUME card \in CardType, NEW slot \in Slots, CardTxEnds(slot)
    PROVE  /\ slot \in card.sending
           /\ card'.sending = card.sending \ {slot}
           /\ card'.rx = card.rx
           /\ \/ card'.pending = card.pending \cup {"TX_COMPLETE"}
              \/ card'.pending = card.pending \cup {"TX_COMPLETE", "QUEUE_STATUS"}
              \/ /\ "tx" \in machine.errors
                 /\ card'.pending = card.pending \cup {"DMA_ERROR"}
           /\ UNCHANGED <<machine, txVars, dma_tx_in_progress, rxVars, send, intr>>
<1>1. slot \in card.sending
  BY DEF CardTxEnds
<1>2. CASE CardDoes([card EXCEPT !.sending = @ \ {slot},
                                 !.pending = @ \cup {"TX_COMPLETE"}])
  BY <1>1, <1>2 DEF CardDoes, CardType
<1>3. CASE CardDoes([card EXCEPT !.sending = @ \ {slot},
                                 !.room = @ \ {txbuff[slot].iface},
                                 !.pending = @ \cup {"TX_COMPLETE", "QUEUE_STATUS"}])
  BY <1>1, <1>3 DEF CardDoes, CardType
<1>4. CASE /\ "tx" \in machine.errors
           /\ CardDoes([card EXCEPT !.sending = @ \ {slot},
                                    !.pending = @ \cup {"DMA_ERROR"}])
  BY <1>1, <1>4 DEF CardDoes, CardType
<1> QED
  BY <1>2, <1>3, <1>4 DEF CardTxEnds

\* The card tells of room in a queue, or of a packet.
LEMMA CardTellsStep ==
    ASSUME card \in CardType, NEW iface, CardQueueDrains(iface) \/ CardReceives
    PROVE  /\ card'.sending = card.sending
           /\ card'.rx = card.rx
           /\ card'.pending \in {card.pending, card.pending \cup {"QUEUE_STATUS"}}
           /\ UNCHANGED <<machine, txVars, dma_tx_in_progress, rxVars, send, intr>>
<1>1. CASE CardQueueDrains(iface)
  BY <1>1 DEF CardQueueDrains, CardDoes, CardType
<1>2. CASE CardReceives
  BY <1>2 DEF CardReceives, CardDoes, CardType
<1> QED
  BY <1>1, <1>2

LEMMA ReceptionKept ==
    ASSUME TypeOK, ReceptionOwned, dma_rx_in_progress' = dma_rx_in_progress,
           Filling' => Filling, RxEnded' => RxEnded, RxRead' => RxRead
    PROVE  ReceptionOwned'
<1>1. /\ Num(Filling)' <= Num(Filling)
      /\ Num(RxEnded)' <= Num(RxEnded)
      /\ Num(RxRead)' <= Num(RxRead)
  BY DEF Num
<1>2. /\ Num(Filling)' \in 0 .. 1 /\ Num(RxEnded)' \in 0 .. 1 /\ Num(RxRead)' \in 0 .. 1
      /\ Num(Filling) \in 0 .. 1 /\ Num(RxEnded) \in 0 .. 1 /\ Num(RxRead) \in 0 .. 1
  BY DEF Num
<1>3. dma_rx_in_progress \in Int
  BY DEF TypeOK
<1> QED
  BY <1>1, <1>2, <1>3 DEF ReceptionOwned

LEMMA ReceptionNext == IInv /\ [Next]_vars => ReceptionOwned'
<1> SUFFICES ASSUME IInv, [Next]_vars
             PROVE  ReceptionOwned'
  OBVIOUS
<1>1. TypeOK /\ ReceptionOwned /\ HandlerPlace /\ dma_rx_in_progress \in 0 .. 1
  BY DEF IInv, TypeOK
<1>2. card \in CardType
  BY DEF IInv, TypeOK, CardType
<1>3. ASSUME UNCHANGED <<card, intr>>, dma_rx_in_progress' = dma_rx_in_progress
      PROVE  ReceptionOwned'
  BY <1>1, <1>3, ReceptionKept DEF Filling, RxEnded, RxRead
<1>4. ASSUME NEW caller \in Callers, nf2c_send(caller)
      PROVE  ReceptionOwned'
  <2>1. CASE SendStarts(caller)
    <3>1. Filling' = Filling /\ RxEnded' = RxEnded /\ RxRead' = RxRead
      BY <1>2, <2>1 DEF SendStarts, Filling, RxEnded, RxRead, CardType
    <3> QED
      BY <1>1, <2>1, <3>1, ReceptionKept DEF SendStarts, rxVars
  <2> QED
    BY <1>3, <1>4, <2>1
       DEF nf2c_send, SendAdds, SendFindsPacket, SendFindsRoom, SendGivesUp, rxVars
<1>5. ASSUME NEW iface \in Ifaces, nf2c_tx(iface)
      PROVE  ReceptionOwned'
  BY <1>3, <1>5 DEF nf2c_tx, rxVars
<1>6. ASSUME card' = card, dma_rx_in_progress' = dma_rx_in_progress,
             NEW place, NextSection(place), intr.at \notin {"queue", "rx"} => place \notin {"queue", "rx"}
      PROVE  ReceptionOwned'
  <2>1. Filling' = Filling /\ RxEnded' = RxEnded
    BY <1>6 DEF Filling, RxEnded
  <2>2. RxRead' => RxRead
    BY <1>6 DEF RxRead, NextSection, IInv, TypeOK
  <2> QED
    BY <1>1, <1>6, <2>1, <2>2, ReceptionKept
<1>7. CASE IntrEnters
  <2>1. ~RxEnded' /\ Filling' = Filling /\ ~RxRead
    BY <1>2, <1>7 DEF IntrEnters, Section, RxEnded, RxRead, Filling, CardType
  <2>2. RxRead' => RxEnded
    BY <1>7 DEF IntrEnters, RxEnded, RxRead
  <2>3. dma_rx_in_progress' = dma_rx_in_progress
    BY <1>7 DEF IntrEnters, rxVars
  <2> QED
    BY <1>1, <2>1, <2>2, <2>3 DEF ReceptionOwned, Num
<1>8. CASE IntrQueueStatus
  BY <1>6, <1>8 DEF IntrQueueStatus, Section, rxVars
<1>9. CASE IntrRxComplete
  <2>1. ~RxRead' /\ RxEnded' = RxEnded /\ (Filling' => Filling)
    BY <1>2, <1>9 DEF IntrRxComplete, NextSection, RxRead, RxEnded, Filling, CardType, IInv, TypeOK
  <2>2. \/ RxRead /\ dma_rx_in_progress' = dma_rx_in_progress - 1
        \/ dma_rx_in_progress' = dma_rx_in_progress
    BY <1>9 DEF IntrRxComplete, Section, RxRead, rxVars
  <2> QED
    BY <1>1, <2>1, <2>2 DEF ReceptionOwned, Num
<1>10. CASE IntrTxComplete \/ IntrTxSends \/ IntrErrorSends
  BY <1>6, <1>10 DEF IntrTxComplete, IntrTxSends, IntrErrorSends, Section, rxVars
<1>11. CASE IntrLocked
  BY <1>6, <1>11 DEF IntrLocked, IntrTxLocked, IntrClearsLocked, Section, rxVars
<1>12. CASE IntrPktAvail
  <2>1. ~RxRead' /\ RxEnded' = RxEnded
    BY <1>2, <1>12 DEF IntrPktAvail, NextSection, RxRead, RxEnded, CardType, IInv, TypeOK
  <2>2. \/ dma_rx_in_progress = 0 /\ dma_rx_in_progress' = 1
        \/ Filling' = Filling /\ dma_rx_in_progress' = dma_rx_in_progress
    BY <1>12 DEF IntrPktAvail, Filling, rxVars
  <2> QED
    BY <1>1, <2>1, <2>2 DEF ReceptionOwned, Num
<1>13. CASE IntrResets
  <2>1. (Filling' => Filling) /\ (RxEnded' => RxEnded)
    <3>1. CASE "DMA_ERROR" \in intr.status
      <4>1. card' = [card EXCEPT !.sending = {}, !.rx = "empty", !.pending = {"QUEUE_STATUS"}]
        BY <1>13, <3>1 DEF IntrResets
      <4>2. card'.rx = "empty" /\ card'.pending = {"QUEUE_STATUS"}
        BY <1>2, <4>1 DEF CardType
      <4> QED
        BY <4>2 DEF Filling, RxEnded
    <3>2. CASE "DMA_ERROR" \notin intr.status
      BY <1>13, <3>2 DEF IntrResets, Filling, RxEnded
    <3> QED
      BY <3>1, <3>2
  <2>2. ~RxRead'
    BY <1>1, <1>13 DEF IntrResets, NextSection, RxRead, TypeOK
  <2>3. dma_rx_in_progress' = dma_rx_in_progress
    BY <1>13 DEF IntrResets, rxVars
  <2> QED
    BY <1>1, <2>1, <2>3, <2>2, ReceptionKept
<1>14. CASE IntrClears
  <2>1. ~RxRead' /\ ~Filling' /\ ~RxEnded'
    BY <1>1, <1>14
       DEF IntrClears, Section, NextSection, HandlerPlace, RxRead, Filling, RxEnded, IInv, TypeOK
  <2>2. dma_rx_in_progress' = 0
    BY <1>14 DEF IntrClears
  <2> QED
    BY <2>1, <2>2 DEF ReceptionOwned, Num
<1>15. CASE IntrExits
  <2>1. ~RxRead' /\ Filling' = Filling /\ RxEnded' = RxEnded
    BY <1>15 DEF IntrExits, RxRead, Filling, RxEnded
  <2>2. dma_rx_in_progress' = dma_rx_in_progress
    BY <1>15 DEF IntrExits, rxVars
  <2> QED
    BY <1>1, <2>1, <2>2, ReceptionKept
<1>16. ASSUME card'.rx = card.rx, RxEnded' => RxEnded, UNCHANGED <<intr, rxVars>>
       PROVE  ReceptionOwned'
  BY <1>1, <1>16, ReceptionKept DEF Filling, RxRead, rxVars
<1>17. ASSUME NEW slot \in Slots, CardTxEnds(slot)
       PROVE  ReceptionOwned'
  <2>1. card'.rx = card.rx /\ (RxEnded' => RxEnded) /\ UNCHANGED <<intr, rxVars>>
    BY <1>2, <1>17, CardTxStep DEF RxEnded
  <2> QED
    BY <1>16, <2>1
<1>18. ASSUME NEW iface \in Ifaces, CardQueueDrains(iface) \/ CardReceives
       PROVE  ReceptionOwned'
  <2>1. card'.rx = card.rx /\ (RxEnded' => RxEnded) /\ UNCHANGED <<intr, rxVars>>
    BY <1>2, <1>18, CardTellsStep DEF RxEnded
  <2> QED
    BY <1>16, <2>1
<1>19. Ifaces # {}
  BY PoolAssumption DEF Ifaces
<1>20. CASE CardRxEnds
  <2>1. RxRead' = RxRead /\ dma_rx_in_progress' = dma_rx_in_progress
    BY <1>20 DEF CardRxEnds, CardDoes, RxRead, rxVars
  <2>2. Filling /\ ~Filling'
    BY <1>2, <1>20 DEF CardRxEnds, CardDoes, Filling, CardType
  <2> QED
    BY <1>1, <2>1, <2>2 DEF ReceptionOwned, Num
<1>21. CASE UNCHANGED vars
  BY <1>3, <1>21 DEF vars, rxVars
<1> QED
  BY <1>4, <1>5, <1>7, <1>8, <1>9, <1>10, <1>11, <1>12, <1>13, <1>14, <1>15, <1>17,
     <1>18, <1>19, <1>20, <1>21 DEF Next, IntrGoesOn

-----------------------------------------------------------------------------
(* The buffers.                                                            *)

LEMMA BuffersNext == IInv /\ [Next]_vars => BuffersAccounted'
<1> SUFFICES ASSUME IInv, [Next]_vars
             PROVE  BuffersAccounted'
  OBVIOUS
<1>1. TypeOK /\ TypeOK' /\ BuffersAccounted /\ TransferOwned
  BY TypeNext DEF IInv
<1>2. Freed \/ Clearing => free_txbuffs < tx_pool_size
  <2>1. dma_tx_in_progress \in Int
    BY <1>1 DEF TypeOK
  <2> QED
    BY <1>1, <2>1, CountType DEF IInv, PacketWaits
<1>3. ASSUME UNCHANGED txVars, Freed' <=> Freed
      PROVE  BuffersAccounted'
  BY <1>1, <1>3, RingKept DEF Freed
<1>4. ASSUME NEW caller \in Callers, nf2c_send(caller)
      PROVE  BuffersAccounted'
  BY <1>3, <1>4 DEF nf2c_send, SendAdds, SendFindsPacket, SendFindsRoom, SendStarts,
                    SendGivesUp, Freed
<1>5. ASSUME NEW iface \in Ifaces, nf2c_tx(iface)
      PROVE  BuffersAccounted'
  BY <1>1, <1>2, <1>5, RingFilled
<1>6. CASE IntrTxComplete
  <2>1. ~Freed
    BY <1>6 DEF IntrTxComplete, Section, Freed
  <2>2. CASE "TX_COMPLETE" \in intr.status /\ dma_tx_in_progress # 0
    <3>1. /\ Freed' /\ TxRead
          /\ txbuff' = [txbuff EXCEPT ![rd_txbuff].skb = "freed"]
          /\ UNCHANGED <<wr_txbuff, rd_txbuff, free_txbuffs, free_txbuffs_port, stopped>>
      BY <1>1, <1>6, <2>2 DEF IntrTxComplete, Section, NextSection, Freed, TxRead, TypeOK
    <3>2. InUse' = InUse
      BY <3>1 DEF InUse
    <3>3. /\ \A s \in Slots : txbuff'[s].iface = txbuff[s].iface
          /\ \A s \in Slots : s # rd_txbuff => txbuff'[s].skb = txbuff[s].skb
          /\ txbuff'[rd_txbuff].skb = "freed"
      BY <1>1, <3>1 DEF TypeOK
    <3>4. \A s \in Slots : txbuff'[s].skb = "queued" <=>
                               s \in InUse' /\ ~(s = rd_txbuff' /\ intr'.at = "tx lock")
      BY <1>1, <2>1, <3>1, <3>2, <3>3 DEF BuffersAccounted, Freed
    <3>5. InUse \subseteq Slots
      BY <1>1, InUseDistance DEF UseIsNear
    <3>6. \A i \in Ifaces : {s \in InUse' : txbuff'[s].iface = i} = {s \in InUse : txbuff[s].iface = i}
      BY <3>2, <3>3, <3>5
    <3>7. wr_txbuff' = (rd_txbuff' + (tx_pool_size - free_txbuffs')) % tx_pool_size
      BY <1>1, <3>1, Zenon DEF BuffersAccounted
    <3>8. \A i \in Ifaces : free_txbuffs_port'[i]
                            + Cardinality({s \in InUse' : txbuff'[s].iface = i})
                            = tx_pool_size \div MAX_IFACE
      BY <1>1, <3>1, <3>6, Zenon DEF BuffersAccounted
    <3>9. stopped' = {i \in Ifaces : free_txbuffs_port'[i] = 0}
      BY <1>1, <3>1, Zenon DEF BuffersAccounted
    <3> QED
      BY <3>4, <3>7, <3>8, <3>9, Zenon DEF BuffersAccounted
  <2>3. CASE ~("TX_COMPLETE" \in intr.status /\ dma_tx_in_progress # 0)
    <3>1. ~Freed' /\ UNCHANGED txVars
      BY <1>1, <1>6, <2>3 DEF IntrTxComplete, NextSection, Freed, TypeOK, txVars
    <3> QED
      BY <1>3, <2>1, <3>1
  <2> QED
    BY <2>2, <2>3
<1>7. CASE IntrTxLocked
  <2>1. Freed /\ ~Freed' /\ BufferDone
    BY <1>1, <1>7 DEF IntrTxLocked, Section, NextSection, Freed, TypeOK
  <2> QED
    BY <1>1, <1>2, <2>1, RingDone
<1>8. CASE IntrClearsLocked
  <2>1. Clearing /\ ~Freed' /\ BufferDone
    BY <1>1, <1>8 DEF IntrClearsLocked, Section, NextSection, Clearing, Freed, TypeOK
  <2> QED
    BY <1>1, <1>2, <2>1, RingDone
<1>9. CASE IntrEnters \/ IntrExits
  <2>1. ~Freed /\ ~Freed'
    <3>1. CASE IntrEnters
      BY <3>1 DEF IntrEnters, Section, Freed
    <3>2. CASE IntrExits
      BY <3>2 DEF IntrExits, Section, Freed
    <3> QED
      BY <1>9, <3>1, <3>2
  <2>2. UNCHANGED txVars
    BY <1>9 DEF IntrEnters, IntrExits
  <2> QED
    BY <1>3, <2>1, <2>2
<1>10. CASE IntrQueueStatus \/ IntrRxComplete \/ IntrTxSends \/ IntrErrorSends
  <2>1. Freed' = Freed /\ UNCHANGED txVars
    BY <1>1, <1>10 DEF IntrQueueStatus, IntrRxComplete, IntrTxSends, IntrErrorSends,
                       Section, NextSection, Freed, TypeOK
  <2> QED
    BY <1>3, <2>1
<1>11. CASE IntrPktAvail \/ IntrResets \/ IntrClears
  <2>1. Freed' = Freed /\ UNCHANGED txVars
    BY <1>1, <1>11 DEF IntrPktAvail, IntrResets, IntrClears, Section, NextSection, Freed, TypeOK
  <2> QED
    BY <1>3, <2>1
<1>12. ASSUME NEW c, CardDoes(c)
       PROVE  BuffersAccounted'
  BY <1>3, <1>12 DEF CardDoes, Freed
<1>13. ASSUME NEW slot \in Slots, CardTxEnds(slot)
       PROVE  BuffersAccounted'
  BY <1>12, <1>13 DEF CardTxEnds
<1>14. ASSUME NEW iface \in Ifaces, CardQueueDrains(iface)
       PROVE  BuffersAccounted'
  BY <1>12, <1>14 DEF CardQueueDrains
<1>15. CASE CardReceives \/ CardRxEnds
  BY <1>12, <1>15 DEF CardReceives, CardRxEnds
<1>16. CASE UNCHANGED vars
  BY <1>3, <1>16 DEF vars, Freed
<1> QED
  BY <1>4, <1>5, <1>6, <1>7, <1>8, <1>9, <1>10, <1>11, <1>13, <1>14, <1>15, <1>16
     DEF Next, IntrGoesOn, IntrLocked

-----------------------------------------------------------------------------
(* The transfer.                                                           *)

TransferOK == TransferOwned /\ PacketWaits /\ HandlerPlace /\ SendsFirst

\* A trace of the transfer may go, and none appear, while nobody is counted.
LEMMA TracesShrink ==
    ASSUME Sending' => Sending, TxEnded' => TxEnded, TxRead' => TxRead, Freed' => Freed,
           TxFailed' => TxFailed, ErrorRead' => ErrorRead, Clearing' => Clearing
    PROVE  TxTraces' <= TxTraces
BY DEF TxTraces, Num

LEMMA TransferKept ==
    ASSUME TypeOK, TransferOwned, UNCHANGED <<dma_tx_in_progress, send>>,
           Sending' => Sending, TxEnded' => TxEnded, TxRead' => TxRead, Freed' => Freed,
           TxFailed' => TxFailed, ErrorRead' => ErrorRead, Clearing' => Clearing
    PROVE  TransferOwned' /\ Owned' = Owned
<1>1. \A c \in Callers : Counts(c)' = Counts(c) /\ IsFirst(c)' = IsFirst(c)
  BY DEF Counts, IsFirst
<1>2. Owned' = Owned
  BY <1>1 DEF Owned, Callers
<1>3. TxTraces' <= TxTraces
  BY TracesShrink
<1>4. TxTraces' \in Nat /\ TxTraces \in Nat
  BY DEF TxTraces, Num
<1>5. Num(IsFirst("nf2c_tx"))' = Num(IsFirst("nf2c_tx"))
      /\ Num(IsFirst("nf2c_intr"))' = Num(IsFirst("nf2c_intr"))
  BY <1>1 DEF Callers
<1> QED
  BY <1>2, <1>3, <1>4, <1>5 DEF TransferOwned

\* nf2c_send, which moves one caller.
LEMMA SendMoves ==
    ASSUME TypeOK, NEW caller \in Callers, NEW place, GoTo(caller, place)
    PROVE  /\ \A c \in Callers \ {caller} : send'[c] = send[c]
           /\ send'[caller] = place
BY DEF TypeOK, GoTo

LEMMA SendTransferOwned ==
    ASSUME TypeOK, TransferOwned, HandlerPlace, NEW caller \in Callers, nf2c_send(caller)
    PROVE  /\ TransferOwned'
           /\ Owned' = 1 => Owned = 1 \/ Prepared(caller)
<1> DEFINE others == Callers \ {caller}
<1>1. dma_tx_in_progress \in Int
  BY DEF TypeOK
<1>2. ASSUME UNCHANGED <<machine, intr>>, card'.pending = card.pending
      PROVE  /\ TxEnded' = TxEnded /\ TxRead' = TxRead /\ Freed' = Freed
             /\ TxFailed' = TxFailed /\ ErrorRead' = ErrorRead /\ Clearing' = Clearing
  BY <1>2 DEF TxEnded, TxRead, Freed, TxFailed, ErrorRead, Clearing
<1>3. ASSUME NEW place, GoTo(caller, place)
      PROVE  /\ \A c \in others : Counts(c)' = Counts(c) /\ IsFirst(c)' = IsFirst(c)
             /\ Counts(caller)' <=> place \in {"free", "room", "start", "give up"}
             /\ IsFirst(caller)' <=> place \in {"free", "room", "start"}
  BY <1>3, SendMoves DEF Counts, IsFirst
<1>4. ASSUME UNCHANGED <<machine, intr, card>>
      PROVE  TxTraces' = TxTraces
  <2>1. Sending' = Sending
    BY <1>4 DEF Sending
  <2> QED
    BY <1>2, <1>4, <2>1 DEF TxTraces
<1>5. TxTraces \in Nat
  BY DEF TxTraces, Num
<1>6. caller = "nf2c_tx" \/ caller = "nf2c_intr"
  BY DEF Callers
<1>7. CASE SendAdds(caller)
  <2>1. ~Counts(caller) /\ ~IsFirst(caller)
    BY <1>7 DEF SendAdds, At, Counts, IsFirst
  <2>2. /\ \A c \in others : Counts(c)' = Counts(c) /\ IsFirst(c)' = IsFirst(c)
        /\ Counts(caller)'
        /\ IsFirst(caller)' => dma_tx_in_progress = 0
    <3> DEFINE place == IF dma_tx_in_progress = 0 THEN "free" ELSE "give up"
    <3>1. GoTo(caller, place)
      BY <1>7 DEF SendAdds
    <3>2. /\ \A c \in others : Counts(c)' = Counts(c) /\ IsFirst(c)' = IsFirst(c)
          /\ Counts(caller)' <=> place \in {"free", "room", "start", "give up"}
          /\ IsFirst(caller)' <=> place \in {"free", "room", "start"}
      BY <1>3, <3>1
    <3> QED
      BY <3>2
  <2>3. dma_tx_in_progress' = dma_tx_in_progress + 1 /\ TxTraces' = TxTraces
    BY <1>4, <1>7 DEF SendAdds
  <2>4. \A c \in Callers : IsFirst(c) => Counts(c)
    BY DEF IsFirst, Counts
  <2>5. Owned' = Owned
    BY <1>1, <1>6, <2>1, <2>2, <2>3 DEF Owned, Num, Callers
  <2>6. Owned' + Num(IsFirst("nf2c_tx"))' + Num(IsFirst("nf2c_intr"))' <= 1
    <3>1. CASE dma_tx_in_progress = 0
      BY <1>1, <1>6, <2>1, <2>2, <2>4, <2>5, <3>1 DEF TransferOwned, Owned, Num, Callers
    <3>2. CASE dma_tx_in_progress # 0
      BY <1>1, <1>6, <2>1, <2>2, <2>5, <3>2 DEF TransferOwned, Num, Callers
    <3> QED
      BY <3>1, <3>2
  <2> QED
    BY <1>5, <2>3, <2>5, <2>6 DEF TransferOwned
<1>8. CASE SendFindsPacket(caller) \/ SendFindsRoom(caller)
  <2>1. Counts(caller) /\ IsFirst(caller)
    BY <1>8 DEF SendFindsPacket, SendFindsRoom, At, Counts, IsFirst
  <2>2. /\ \A c \in others : Counts(c)' = Counts(c) /\ IsFirst(c)' = IsFirst(c)
        /\ Counts(caller)'
    BY <1>3, <1>8 DEF SendFindsPacket, SendFindsRoom
  <2>3. dma_tx_in_progress' = dma_tx_in_progress /\ TxTraces' = TxTraces
    BY <1>4, <1>8 DEF SendFindsPacket, SendFindsRoom
  <2>4. Owned' = Owned
    BY <1>1, <1>6, <2>1, <2>2, <2>3 DEF Owned, Num, Callers
  <2>5. Owned' + Num(IsFirst("nf2c_tx"))' + Num(IsFirst("nf2c_intr"))' <= 1
    BY <1>1, <1>6, <2>1, <2>2, <2>4 DEF TransferOwned, Num, Callers
  <2> QED
    BY <1>5, <2>3, <2>4, <2>5 DEF TransferOwned
<1>9. CASE SendStarts(caller)
  <2>1. Counts(caller) /\ IsFirst(caller) /\ Prepared(caller)
    BY <1>9 DEF SendStarts, At, Counts, IsFirst, Prepared
  <2>2. /\ \A c \in others : Counts(c)' = Counts(c) /\ IsFirst(c)' = IsFirst(c)
        /\ ~Counts(caller)' /\ ~IsFirst(caller)'
    <3>1. GoTo(caller, "no")
      BY <1>9 DEF SendStarts
    <3>2. /\ \A c \in others : Counts(c)' = Counts(c) /\ IsFirst(c)' = IsFirst(c)
          /\ Counts(caller)' <=> "no" \in {"free", "room", "start", "give up"}
          /\ IsFirst(caller)' <=> "no" \in {"free", "room", "start"}
      BY <1>3, <3>1
    <3> QED
      BY <3>2
  <2>3. /\ TxEnded' = TxEnded /\ TxRead' = TxRead /\ Freed' = Freed
        /\ TxFailed' = TxFailed /\ ErrorRead' = ErrorRead /\ Clearing' = Clearing
    <3>1. card'.pending = card.pending
      BY <1>9 DEF SendStarts, TypeOK
    <3> QED
      BY <1>2, <1>9, <3>1 DEF SendStarts
  <2>4. dma_tx_in_progress' = dma_tx_in_progress
    BY <1>9 DEF SendStarts
  <2>5. Owned = 0 /\ TxTraces = 0 /\ \A c \in others : ~IsFirst(c)
    BY <1>1, <1>5, <1>6, <2>1 DEF TransferOwned, Owned, Num, Callers
  <2>6. Owned' = 1
    BY <1>1, <1>6, <2>1, <2>2, <2>4, <2>5 DEF Owned, Num, Callers
  <2>7. TxTraces' <= 1 /\ TxTraces' \in Nat
    BY <2>3, <2>5 DEF TxTraces, Num
  <2>8. Num(IsFirst("nf2c_tx"))' = 0 /\ Num(IsFirst("nf2c_intr"))' = 0
    BY <1>6, <2>2, <2>5 DEF Num, Callers
  <2> QED
    BY <2>1, <2>6, <2>7, <2>8 DEF TransferOwned
<1>10. CASE SendGivesUp(caller)
  <2>1. Counts(caller) /\ ~IsFirst(caller)
    BY <1>10 DEF SendGivesUp, At, Counts, IsFirst
  <2>2. /\ \A c \in others : Counts(c)' = Counts(c) /\ IsFirst(c)' = IsFirst(c)
        /\ ~Counts(caller)' /\ ~IsFirst(caller)'
    <3>1. GoTo(caller, "no")
      BY <1>10 DEF SendGivesUp
    <3>2. /\ \A c \in others : Counts(c)' = Counts(c) /\ IsFirst(c)' = IsFirst(c)
          /\ Counts(caller)' <=> "no" \in {"free", "room", "start", "give up"}
          /\ IsFirst(caller)' <=> "no" \in {"free", "room", "start"}
      BY <1>3, <3>1
    <3> QED
      BY <3>2
  <2>3. dma_tx_in_progress' = dma_tx_in_progress - 1 /\ TxTraces' = TxTraces
    BY <1>4, <1>10 DEF SendGivesUp
  <2>4. Owned' = Owned
    BY <1>1, <1>6, <2>1, <2>2, <2>3 DEF Owned, Num, Callers
  <2>5. Owned' + Num(IsFirst("nf2c_tx"))' + Num(IsFirst("nf2c_intr"))' <= 1
    BY <1>1, <1>6, <2>1, <2>2, <2>4 DEF TransferOwned, Num, Callers
  <2> QED
    BY <1>5, <2>3, <2>4, <2>5 DEF TransferOwned
<1> QED
  BY <1>7, <1>8, <1>9, <1>10 DEF nf2c_send

LEMMA SendNext ==
    ASSUME IInv, NEW caller \in Callers, nf2c_send(caller)
    PROVE  TransferOK'
<1>1. TypeOK /\ TransferOwned /\ PacketWaits /\ HandlerPlace /\ SendsFirst
  BY DEF IInv
<1>2. TransferOwned' /\ (Owned' = 1 => Owned = 1 \/ Prepared(caller))
  BY <1>1, SendTransferOwned
<1>3. caller = "nf2c_tx" \/ caller = "nf2c_intr"
  BY DEF Callers
<1>4. /\ UNCHANGED <<machine, intr, free_txbuffs, rd_txbuff>>
      /\ send[caller] # "no"
      /\ \A c \in Callers \ {caller} : send'[c] = send[c]
      /\ caller = "nf2c_tx" => KernelRuns
  <2>1. \A place : GoTo(caller, place) => \A c \in Callers \ {caller} : send'[c] = send[c]
    BY <1>1, SendMoves
  <2> QED
    BY <2>1 DEF nf2c_send, SendAdds, SendFindsPacket, SendFindsRoom, SendStarts,
                SendGivesUp, At, txVars
<1>5. Prepared(caller)' => Prepared(caller) \/ free_txbuffs < tx_pool_size
  <2>1. CASE SendFindsPacket(caller)
    <3>1. send'[caller] = IF free_txbuffs = tx_pool_size THEN "give up" ELSE "room"
      BY <1>1, <2>1, SendMoves DEF SendFindsPacket
    <3>2. free_txbuffs = tx_pool_size => ~Prepared(caller)'
      BY <3>1 DEF Prepared
    <3>3. free_txbuffs \in 0 .. tx_pool_size /\ tx_pool_size \in Nat
      BY <1>1, RingTypes
    <3> QED
      BY <3>2, <3>3
  <2>2. CASE SendFindsRoom(caller)
    BY <2>2 DEF SendFindsRoom, At, Prepared
  <2>3. CASE SendAdds(caller) \/ SendStarts(caller) \/ SendGivesUp(caller)
    <3>1. send'[caller] \in {"free", "give up", "no"}
      BY <1>1, <2>3, SendMoves DEF SendAdds, SendStarts, SendGivesUp
    <3> QED
      BY <3>1 DEF Prepared
  <2> QED
    BY <2>1, <2>2, <2>3 DEF nf2c_send
<1>6. \A c \in Callers \ {caller} : Prepared(c)' = Prepared(c)
  BY <1>4 DEF Prepared
<1>7. PacketWaits'
  BY <1>1, <1>2, <1>3, <1>4, <1>5, <1>6 DEF PacketWaits, Callers
<1>8. card' = card \/ (SendStarts(caller) /\ card' = [card EXCEPT !.sending = @ \cup {rd_txbuff}])
  BY DEF nf2c_send, SendAdds, SendFindsPacket, SendFindsRoom, SendStarts, SendGivesUp
<1>9. SendsFirst'
  BY <1>1, <1>4, <1>8 DEF SendsFirst, TypeOK
<1>10. HandlerPlace'
  <2>1. send'["nf2c_intr"] # "no" => intr'.at \in {"rx", "avail", "exit"}
    BY <1>1, <1>3, <1>4 DEF HandlerPlace, Callers
  <2>2. ~machine'.smp /\ intr'.at # "idle" => Unlocked'
    BY <1>1, <1>3, <1>4 DEF HandlerPlace, KernelRuns, Unlocked, Callers
  <2>3. intr'.at = "clear" => card' = card
    <3> SUFFICES ASSUME intr'.at = "clear", card' # card
                 PROVE  FALSE
      OBVIOUS
    <3>1. SendStarts(caller)
      BY <1>8
    <3>2. machine.smp /\ ErrorRead
      BY <1>1, <1>3, <1>4, <3>1 DEF HandlerPlace, KernelRuns, ErrorRead
    <3>3. IsFirst(caller)
      BY <3>1 DEF SendStarts, At, IsFirst
    <3> HIDE DEF SendStarts
    <3> QED
      BY <1>1, <1>3, <3>2, <3>3 DEF TransferOwned, TxTraces, Num
  <2> QED
    BY <1>1, <1>4, <2>1, <2>2, <2>3 DEF HandlerPlace
<1> QED
  BY <1>2, <1>7, <1>9, <1>10 DEF TransferOK

\* A step that loses traces at most, and leaves the ring and the counts alone.
LEMMA TransferOKKept ==
    ASSUME TypeOK, TransferOwned, PacketWaits,
           UNCHANGED <<dma_tx_in_progress, send, free_txbuffs>>,
           Sending' => Sending, TxEnded' => TxEnded, TxRead' => TxRead, Freed' => Freed,
           TxFailed' => TxFailed, ErrorRead' => ErrorRead, Clearing' => Clearing
    PROVE  TransferOwned' /\ PacketWaits'
<1>1. TransferOwned' /\ Owned' = Owned
  BY TransferKept
<1>2. \A c \in Callers : Prepared(c)' = Prepared(c)
  BY DEF Prepared
<1> QED
  BY <1>1, <1>2 DEF PacketWaits, Callers

\* The handler is going to call nf2c_send.
LEMMA SendIfPacketsKeeps ==
    ASSUME TypeOK, TransferOwned, PacketWaits, send["nf2c_intr"] = "no",
           send' = send \/ SendIfPackets,
           UNCHANGED <<dma_tx_in_progress, free_txbuffs>>,
           TxTraces' <= TxTraces
    PROVE  TransferOwned' /\ PacketWaits' /\ send'["nf2c_tx"] = send["nf2c_tx"]
<1>1. /\ send'["nf2c_tx"] = send["nf2c_tx"]
      /\ send'["nf2c_intr"] \in {"no", "add"}
  BY DEF SendIfPackets, GoTo, TypeOK, Callers
<1>2. /\ Counts("nf2c_tx")' = Counts("nf2c_tx") /\ IsFirst("nf2c_tx")' = IsFirst("nf2c_tx")
      /\ Prepared("nf2c_tx")' = Prepared("nf2c_tx")
      /\ ~Counts("nf2c_intr") /\ ~IsFirst("nf2c_intr") /\ ~Prepared("nf2c_intr")
      /\ ~Counts("nf2c_intr")' /\ ~IsFirst("nf2c_intr")' /\ ~Prepared("nf2c_intr")'
  BY <1>1 DEF Counts, IsFirst, Prepared
<1>3. Owned' = Owned
  BY <1>2 DEF Owned, Num
<1>4. TxTraces' \in Nat /\ TxTraces \in Nat
  BY DEF TxTraces, Num
<1>5. TransferOwned'
  BY <1>2, <1>3, <1>4 DEF TransferOwned, Num
<1> QED
  BY <1>1, <1>2, <1>3, <1>5 DEF PacketWaits

\* A section that is not about the transfer.
Elsewhere(place) == place \notin {"queue", "rx", "tx", "tx lock", "clear", "clear lock"}

\* The handler gives the buffer back, and the transfer is over.
LEMMA DoneTransfer ==
    ASSUME TypeOK, TransferOwned, PacketWaits, HandlerPlace, SendsFirst,
           BufferDone, Freed \/ Clearing, NEW place, NextSection(place),
           Elsewhere(place),
           ErrorRead' => ErrorRead, UNCHANGED <<machine, send, card>>
    PROVE  TransferOK'
<1>1. dma_tx_in_progress \in Int
  BY DEF TypeOK
<1>2. /\ ~TxRead' /\ ~Freed' /\ ~Clearing'
      /\ Sending' = Sending /\ TxEnded' = TxEnded /\ TxFailed' = TxFailed
  BY DEF Elsewhere, NextSection, TypeOK, TxRead, Freed, Clearing, Sending, TxEnded, TxFailed
<1>3. Owned = 1 /\ ~Sending /\ ~TxEnded /\ ~TxFailed /\ ~ErrorRead
      /\ ~IsFirst("nf2c_tx") /\ ~IsFirst("nf2c_intr")
  BY DEF TransferOwned, TxTraces, Num
<1>4. /\ \A c \in Callers : Counts(c)' = Counts(c) /\ IsFirst(c)' = IsFirst(c)
      /\ \A c \in Callers : Prepared(c)' = Prepared(c)
      /\ \A c \in Callers : Prepared(c) => IsFirst(c)
  BY DEF Counts, IsFirst, Prepared
<1>5. dma_tx_in_progress' = dma_tx_in_progress - 1
  BY DEF BufferDone
<1>6. Owned' = 0
  BY <1>1, <1>3, <1>4, <1>5 DEF Owned, Callers, Num
<1>7. TxTraces' = 0
  BY <1>2, <1>3 DEF TxTraces, Num
<1>8. TransferOwned'
  BY <1>3, <1>4, <1>6, <1>7 DEF TransferOwned, Callers, Num
<1>9. PacketWaits'
  BY <1>3, <1>4, <1>6 DEF PacketWaits, Callers
<1>10. HandlerPlace'
  BY DEF Elsewhere, HandlerPlace, NextSection, Freed, Clearing, Unlocked, TypeOK
<1>11. SendsFirst'
  BY <1>2, <1>3 DEF SendsFirst, Sending
<1> QED
  BY <1>8, <1>9, <1>10, <1>11 DEF TransferOK

LEMMA TransferNext ==
    ASSUME ReceivesFailOnOneProcessor
    PROVE  IInv /\ [Next]_vars => TransferOK'
<1> SUFFICES ASSUME IInv, [Next]_vars
             PROVE  TransferOK'
  OBVIOUS
<1>1. TypeOK /\ TransferOwned /\ PacketWaits /\ HandlerPlace /\ SendsFirst
  BY DEF IInv
<1>2. card \in CardType /\ intr \in IntrType /\ TxTraces \in Nat
  BY <1>1 DEF TypeOK, CardType, IntrType, TxTraces, Num
<1>3. ASSUME NEW caller \in Callers, nf2c_send(caller)
      PROVE  TransferOK'
  BY <1>3, SendNext
<1>4. ASSUME NEW iface \in Ifaces, nf2c_tx(iface)
      PROVE  TransferOK'
  <2>1. /\ send["nf2c_tx"] = "no" /\ send'["nf2c_tx"] = "add"
        /\ send'["nf2c_intr"] = send["nf2c_intr"]
        /\ UNCHANGED <<machine, intr, card, rd_txbuff, dma_tx_in_progress>>
    BY <1>1, <1>4 DEF nf2c_tx, GoTo, Unlocked, TypeOK, Callers
  <2>2. \A c \in Callers : /\ Counts(c)' <=> Counts(c)
                           /\ IsFirst(c)' <=> IsFirst(c)
                           /\ Prepared(c)' <=> Prepared(c)
    BY <2>1 DEF Counts, IsFirst, Prepared, Callers
  <2>3. TxTraces' = TxTraces
    BY <2>1 DEF TxTraces, Sending, TxEnded, TxRead, Freed, TxFailed, ErrorRead, Clearing
  <2>4. Owned' = Owned
    BY <2>1, <2>2 DEF Owned, Callers, Num
  <2>5. TransferOwned'
    BY <1>1, <2>2, <2>3, <2>4 DEF TransferOwned, Callers, Num
  <2>6. PacketWaits'
    <3>1. free_txbuffs' = free_txbuffs - 1
      BY <1>4 DEF nf2c_tx
    <3>2. free_txbuffs \in Int /\ tx_pool_size \in Int
      BY <1>1, RingTypes
    <3> QED
      BY <1>1, <2>2, <2>4, <3>1, <3>2 DEF PacketWaits, Callers
  <2>7. HandlerPlace'
    BY <1>1, <1>4, <2>1 DEF HandlerPlace, nf2c_tx, KernelRuns
  <2> QED
    BY <1>1, <2>1, <2>5, <2>6, <2>7 DEF TransferOK, SendsFirst
<1>5. CASE IntrEnters
  <2>1. /\ intr.at = "idle" /\ intr'.at = "queue" /\ machine' = machine
        /\ card'.pending = {} /\ card'.sending = card.sending
        /\ "TX_COMPLETE" \in intr'.status <=> "TX_COMPLETE" \in card.pending
        /\ "DMA_ERROR" \in intr'.status <=> "DMA_ERROR" \in card.pending
    BY <1>2, <1>5 DEF IntrEnters, Section, CardType
  <2>2. /\ ~TxRead /\ ~ErrorRead /\ ~Freed /\ ~Clearing
        /\ ~TxEnded' /\ ~TxFailed' /\ ~Freed' /\ ~Clearing'
    BY <2>1 DEF TxRead, ErrorRead, Freed, Clearing, TxEnded, TxFailed
  <2>3. (TxRead' <=> TxEnded) /\ (ErrorRead' <=> TxFailed) /\ (Sending' <=> Sending)
    BY <2>1 DEF TxRead, ErrorRead, TxEnded, TxFailed, Sending
  <2>4. TxTraces' = TxTraces
    BY <2>2, <2>3 DEF TxTraces, Num
  <2>5. TransferOwned' /\ PacketWaits'
    BY <1>1, <1>5, <2>4, SendIfPacketsKeeps, <1>2 DEF IntrEnters, Section, txVars
  <2>6. HandlerPlace'
    BY <1>1, <1>5, <2>1 DEF HandlerPlace, IntrEnters, Section, Unlocked
  <2>7. SendsFirst'
    BY <1>1, <1>5, <2>1 DEF SendsFirst, IntrEnters, txVars
  <2> QED
    BY <2>5, <2>6, <2>7 DEF TransferOK
(* A section of the handler that may call nf2c_send. *)
<1>6. ASSUME NEW place, NextSection(place), send["nf2c_intr"] = "no", intr.at # "idle",
             send' = send \/ (SendIfPackets /\ place \in {"rx", "avail", "exit"}),
             TxRead' => TxRead, ErrorRead' => ErrorRead,
             place \notin {"tx lock", "clear", "clear lock"},
             UNCHANGED <<machine, txVars, dma_tx_in_progress>>,
             card'.pending = card.pending /\ card'.sending = card.sending
      PROVE  TransferOK'
  <2>1. /\ ~Freed' /\ ~Clearing'
        /\ Sending' = Sending /\ TxEnded' = TxEnded /\ TxFailed' = TxFailed
    BY <1>2, <1>6 DEF NextSection, IntrType, Freed, Clearing, Sending, TxEnded, TxFailed
  <2>2. TxTraces' <= TxTraces
    BY <1>6, <2>1, TracesShrink
  <2>3. TransferOwned' /\ PacketWaits' /\ send'["nf2c_tx"] = send["nf2c_tx"]
    BY <1>1, <1>6, <2>2, SendIfPacketsKeeps DEF txVars
  <2>4. HandlerPlace'
    BY <1>1, <1>2, <1>6, <2>3 DEF HandlerPlace, NextSection, IntrType, Unlocked
  <2>5. SendsFirst'
    BY <1>1, <1>6 DEF SendsFirst, txVars
  <2> QED
    BY <2>3, <2>4, <2>5 DEF TransferOK
<1>7. CASE IntrQueueStatus
  <2>1. (TxRead' => TxRead) /\ (ErrorRead' => ErrorRead)
    BY <1>2, <1>7 DEF IntrQueueStatus, Section, NextSection, IntrType, TxRead, ErrorRead
  <2> QED
    BY <1>6, <1>7, <2>1 DEF IntrQueueStatus, Section
<1>8. CASE IntrRxComplete
  <2>1. (TxRead' => TxRead) /\ (ErrorRead' => ErrorRead)
    BY <1>2, <1>8 DEF IntrRxComplete, Section, NextSection, IntrType, TxRead, ErrorRead
  <2>2. card'.pending = card.pending /\ card'.sending = card.sending
    BY <1>2, <1>8 DEF IntrRxComplete, CardType
  <2> QED
    BY <1>6, <1>8, <2>1, <2>2 DEF IntrRxComplete, Section
<1>9. CASE IntrTxSends \/ IntrErrorSends
  <2>1. (TxRead' => TxRead) /\ (ErrorRead' => ErrorRead)
    BY <1>2, <1>9 DEF IntrTxSends, IntrErrorSends, Section, NextSection, IntrType,
                      TxRead, ErrorRead
  <2> QED
    BY <1>6, <1>9, <2>1 DEF IntrTxSends, IntrErrorSends, Section
<1>10. CASE IntrPktAvail
  <2>1. (TxRead' => TxRead) /\ (ErrorRead' => ErrorRead)
    BY <1>2, <1>10 DEF IntrPktAvail, Section, NextSection, IntrType, TxRead, ErrorRead
  <2>2. card'.pending = card.pending /\ card'.sending = card.sending
    BY <1>2, <1>10 DEF IntrPktAvail, CardType
  <2> QED
    BY <1>6, <1>10, <2>1, <2>2 DEF IntrPktAvail, Section
<1>11. CASE IntrTxComplete
  <2>1. CASE "TX_COMPLETE" \in intr.status /\ dma_tx_in_progress # 0
    <3>1. /\ TxRead /\ ~TxRead' /\ Freed' /\ ~Freed /\ ~Clearing' /\ (ErrorRead' => ErrorRead)
          /\ Sending' = Sending /\ TxEnded' = TxEnded /\ TxFailed' = TxFailed
      BY <1>2, <1>11, <2>1 DEF IntrTxComplete, Section, NextSection, IntrType, TxRead, Freed,
                               Clearing, ErrorRead, Sending, TxEnded, TxFailed
    <3>2. TxTraces' <= TxTraces
      BY <3>1 DEF TxTraces, Num
    <3>3. TransferOwned' /\ PacketWaits'
      BY <1>1, <1>11, <3>2, SendIfPacketsKeeps DEF IntrTxComplete, Section
    <3>4. HandlerPlace'
      BY <1>1, <1>2, <1>11, <2>1
         DEF HandlerPlace, IntrTxComplete, Section, NextSection, IntrType, Unlocked
    <3> QED
      BY <1>1, <1>11, <3>3, <3>4 DEF TransferOK, SendsFirst, IntrTxComplete
  <2>2. CASE ~("TX_COMPLETE" \in intr.status /\ dma_tx_in_progress # 0)
    <3>1. ~TxRead' /\ (ErrorRead' => ErrorRead) /\ NextSection("avail") /\ UNCHANGED txVars
      BY <1>2, <1>11, <2>2 DEF IntrTxComplete, Section, NextSection, IntrType, TxRead,
                               ErrorRead, txVars
    <3> QED
      BY <1>6, <1>11, <3>1 DEF IntrTxComplete, Section
  <2> QED
    BY <2>1, <2>2
<1>12. CASE IntrTxLocked
  <2>1. Freed /\ (ErrorRead' => ErrorRead)
    BY <1>2, <1>12 DEF IntrTxLocked, Section, NextSection, Freed, ErrorRead, IntrType
  <2> QED
    BY <1>1, <1>12, <2>1, DoneTransfer DEF IntrTxLocked, Elsewhere
<1>13. CASE IntrClearsLocked
  <2>1. Clearing /\ (ErrorRead' => ErrorRead)
    BY <1>2, <1>13 DEF IntrClearsLocked, Section, NextSection, Clearing, ErrorRead, IntrType
  <2> QED
    BY <1>1, <1>13, <2>1, DoneTransfer DEF IntrClearsLocked, Elsewhere
<1>14. CASE IntrResets
  <2>1. CASE "DMA_ERROR" \in intr.status
    <3>1. card' = [card EXCEPT !.sending = {}, !.rx = "empty", !.pending = {"QUEUE_STATUS"}]
      BY <1>14, <2>1 DEF IntrResets
    <3>2. /\ card'.sending = {} /\ card'.rx = "empty" /\ card'.pending = {"QUEUE_STATUS"}
      BY <1>2, <3>1 DEF CardType
    <3>3. /\ intr.at = "error" /\ intr'.at = "clear" /\ intr'.status = intr.status
          /\ send["nf2c_intr"] = "no"
          /\ UNCHANGED <<machine, txVars, dma_tx_in_progress, send>>
      BY <1>2, <1>14, <2>1 DEF IntrResets, Section, NextSection, IntrType
    <3>4. /\ ~Sending' /\ ~TxEnded' /\ ~TxFailed' /\ ~TxRead' /\ ~Freed' /\ ~Clearing'
          /\ (ErrorRead' => ErrorRead)
      BY <2>1, <3>2, <3>3
         DEF Sending, TxEnded, TxFailed, TxRead, Freed, Clearing, ErrorRead
    <3>5. TransferOwned' /\ PacketWaits'
      BY <1>1, <3>3, <3>4, TransferOKKept DEF txVars
    <3>6. HandlerPlace'
      BY <1>1, <2>1, <3>2, <3>3 DEF HandlerPlace, Unlocked
    <3>7. SendsFirst'
      BY <3>2 DEF SendsFirst
    <3> QED
      BY <3>5, <3>6, <3>7 DEF TransferOK
  <2>2. CASE "DMA_ERROR" \notin intr.status
    <3>1. ~TxRead' /\ (ErrorRead' => ErrorRead) /\ NextSection("exit") /\ card' = card
      BY <1>2, <1>14, <2>2 DEF IntrResets, Section, NextSection, IntrType, TxRead, ErrorRead
    <3> QED
      BY <1>6, <1>14, <3>1 DEF IntrResets, Section
  <2> QED
    BY <2>1, <2>2
<1>15. CASE IntrClears
  <2>1. /\ intr.at = "clear" /\ send["nf2c_intr"] = "no"
        /\ UNCHANGED <<machine, txVars, dma_tx_in_progress, send, card>>
        /\ intr'.at = IF dma_tx_in_progress # 0 THEN "clear lock" ELSE "error send"
    BY <1>2, <1>15 DEF IntrClears, Section, NextSection, IntrType
  <2>2. ~Sending /\ ~TxEnded /\ ~TxFailed /\ ~TxRead /\ ~Freed /\ ~Clearing
    BY <1>1, <2>1 DEF HandlerPlace, Sending, TxEnded, TxFailed, TxRead, Freed, Clearing
  <2>3. ~Sending' /\ ~TxEnded' /\ ~TxFailed' /\ ~TxRead' /\ ~Freed' /\ ~ErrorRead'
    BY <2>1, <2>2 DEF Sending, TxEnded, TxFailed, TxRead, Freed, ErrorRead
  <2>4. Owned' = Owned /\ \A c \in Callers : /\ Counts(c)' = Counts(c)
                                            /\ IsFirst(c)' = IsFirst(c)
                                            /\ Prepared(c)' = Prepared(c)
    BY <2>1 DEF Owned, Counts, IsFirst, Prepared
  <2>5. Clearing' => Owned = 1
    <3>1. CASE machine.smp
      <4>1. ErrorRead
        BY <1>1, <2>1, <3>1 DEF HandlerPlace, ErrorRead
      <4> QED
        BY <1>1, <4>1 DEF TransferOwned, TxTraces, Num
    <3>2. CASE ~machine.smp
      <4>1. send["nf2c_tx"] = "no"
        BY <1>1, <2>1, <3>2 DEF HandlerPlace, Unlocked
      <4>2. ~Counts("nf2c_tx") /\ ~Counts("nf2c_intr")
        BY <2>1, <4>1 DEF Counts
      <4>3. Clearing' => dma_tx_in_progress # 0
        BY <2>1 DEF Clearing
      <4>4. dma_tx_in_progress \in Int
        BY <1>1 DEF TypeOK
      <4> HIDE <2>1
      <4> QED
        BY <1>1, <4>2, <4>3, <4>4 DEF TransferOwned, Owned, Num
    <3> QED
      BY <3>1, <3>2
  <2>6. TxTraces' <= Owned /\ TxTraces' \in Nat
    BY <1>1, <2>3, <2>5 DEF TxTraces, Num, TransferOwned
  <2>7. TransferOwned'
    BY <1>1, <2>4, <2>6 DEF TransferOwned, Callers
  <2>8. PacketWaits'
    BY <1>1, <2>1, <2>4 DEF PacketWaits, Callers, txVars
  <2>9. HandlerPlace'
    BY <1>1, <2>1 DEF HandlerPlace, Unlocked
  <2> QED
    BY <1>1, <2>1, <2>7, <2>8, <2>9 DEF TransferOK, SendsFirst, txVars
<1>16. CASE IntrExits
  <2>1. /\ intr'.at = "idle" /\ send["nf2c_intr"] = "no"
        /\ UNCHANGED <<machine, txVars, dma_tx_in_progress, send, card>>
    BY <1>16 DEF IntrExits, Section
  <2>2. /\ ~TxRead' /\ ~Freed' /\ ~ErrorRead' /\ ~Clearing'
        /\ Sending' = Sending /\ TxEnded' = TxEnded /\ TxFailed' = TxFailed
    BY <2>1 DEF TxRead, Freed, ErrorRead, Clearing, Sending, TxEnded, TxFailed
  <2>3. TransferOwned' /\ PacketWaits'
    BY <1>1, <2>1, <2>2, TransferOKKept DEF txVars
  <2>4. HandlerPlace'
    BY <2>1 DEF HandlerPlace
  <2> QED
    BY <1>1, <2>1, <2>3, <2>4 DEF TransferOK, SendsFirst, txVars
<1>17. ASSUME NEW slot \in Slots, CardTxEnds(slot)
       PROVE  TransferOK'
  <2>1. /\ slot \in card.sending /\ card'.sending = card.sending \ {slot}
        /\ \/ card'.pending = card.pending \cup {"TX_COMPLETE"}
           \/ card'.pending = card.pending \cup {"TX_COMPLETE", "QUEUE_STATUS"}
           \/ card'.pending = card.pending \cup {"DMA_ERROR"}
        /\ UNCHANGED <<machine, txVars, dma_tx_in_progress, send, intr>>
    BY <1>2, <1>17, CardTxStep
  <2>2. /\ Sending /\ ~Sending'
        /\ TxRead' = TxRead /\ Freed' = Freed /\ ErrorRead' = ErrorRead /\ Clearing' = Clearing
        /\ \/ TxFailed' = TxFailed
           \/ TxEnded' = TxEnded
    BY <1>1, <2>1 DEF SendsFirst, Sending, TxEnded, TxRead, Freed, TxFailed, ErrorRead, Clearing
  <2>3. TxTraces' <= TxTraces /\ TxTraces' \in Nat
    BY <1>1, <2>2 DEF TxTraces, Num, TransferOwned
  <2>4. Owned' = Owned /\ \A c \in Callers : IsFirst(c)' = IsFirst(c) /\ Prepared(c)' = Prepared(c)
    BY <2>1 DEF Owned, Counts, IsFirst, Prepared
  <2>5. TransferOwned'
    BY <1>1, <1>2, <2>3, <2>4 DEF TransferOwned, Callers
  <2>6. PacketWaits'
    BY <1>1, <2>1, <2>4 DEF PacketWaits, Callers, txVars
  <2>7. HandlerPlace'
    BY <1>1, <2>1 DEF HandlerPlace, Unlocked
  <2>8. SendsFirst'
    BY <1>1, <2>1 DEF SendsFirst, txVars
  <2> QED
    BY <2>5, <2>6, <2>7, <2>8 DEF TransferOK
<1>18. ASSUME UNCHANGED <<machine, txVars, dma_tx_in_progress, send, intr>>,
              card'.sending = card.sending,
              card'.pending \subseteq card.pending \cup {"QUEUE_STATUS", "RX_COMPLETE", "DMA_ERROR"},
              machine.smp /\ "DMA_ERROR" \in card'.pending => "DMA_ERROR" \in card.pending,
              intr.at = "clear" => /\ card'.rx = "empty"
                                   /\ card'.pending \subseteq {"QUEUE_STATUS"}
       PROVE  TransferOK'
  <2>1. /\ TxRead' = TxRead /\ Freed' = Freed /\ ErrorRead' = ErrorRead /\ Clearing' = Clearing
        /\ Sending' = Sending
    BY <1>18 DEF TxRead, Freed, ErrorRead, Clearing, Sending
  <2>2. (TxEnded' => TxEnded) /\ (TxFailed' => TxFailed)
    BY <1>18 DEF TxEnded, TxFailed
  <2>3. TransferOwned' /\ PacketWaits'
    BY <1>1, <1>18, <2>1, <2>2, TransferOKKept DEF txVars
  <2>4. HandlerPlace'
    BY <1>1, <1>18 DEF HandlerPlace, Unlocked
  <2> QED
    BY <1>1, <1>18, <2>3, <2>4 DEF TransferOK, SendsFirst, txVars
<1>19. ASSUME NEW iface, CardQueueDrains(iface) \/ CardReceives
       PROVE  TransferOK'
  <2>1. /\ card'.sending = card.sending /\ card'.rx = card.rx
        /\ card'.pending \in {card.pending, card.pending \cup {"QUEUE_STATUS"}}
        /\ UNCHANGED <<machine, txVars, dma_tx_in_progress, send, intr>>
    BY <1>2, <1>19, CardTellsStep
  <2>2. intr.at = "clear" => /\ card'.rx = "empty"
                             /\ card'.pending \subseteq {"QUEUE_STATUS"}
    BY <1>1, <2>1 DEF HandlerPlace
  <2> QED
    BY <1>18, <2>1, <2>2
<1>20. CASE CardRxEnds
  <2>1. /\ card.rx = "filling"
        /\ UNCHANGED <<machine, txVars, dma_tx_in_progress, send, intr>>
    BY <1>20 DEF CardRxEnds, CardDoes
  <2>2. intr.at # "clear"
    BY <1>1, <2>1 DEF HandlerPlace
  <2>3. CASE CardDoes([card EXCEPT !.rx = "full", !.pending = @ \cup {"RX_COMPLETE"}])
    <3>1. /\ card'.sending = card.sending
          /\ card'.pending = card.pending \cup {"RX_COMPLETE"}
      BY <1>2, <2>3 DEF CardDoes, CardType
    <3> QED
      BY <1>18, <2>1, <2>2, <3>1
  <2>4. CASE "rx" \in machine.errors
             /\ CardDoes([card EXCEPT !.rx = "empty", !.pending = @ \cup {"DMA_ERROR"}])
    <3>1. /\ card'.sending = card.sending
          /\ card'.pending = card.pending \cup {"DMA_ERROR"}
      BY <1>2, <2>4 DEF CardDoes, CardType
    <3>2. ~machine.smp
      BY <1>1, <2>4 DEF ReceivesFailOnOneProcessor, TypeOK
    <3> QED
      BY <1>18, <2>1, <2>2, <3>1, <3>2
  <2> QED
    BY <1>20, <2>3, <2>4 DEF CardRxEnds
<1>21. CASE UNCHANGED vars
  <2>1. UNCHANGED <<machine, txVars, dma_tx_in_progress, send, intr, card>>
    BY <1>21 DEF vars
  <2> QED
    BY <1>1, <1>18, <2>1 DEF HandlerPlace
<1> QED
  BY <1>3, <1>4, <1>5, <1>7, <1>8, <1>9, <1>10, <1>11, <1>12, <1>13, <1>14, <1>15,
     <1>16, <1>17, <1>19, <1>20, <1>21 DEF Next, IntrGoesOn, IntrLocked

-----------------------------------------------------------------------------
(* The theorems.                                                           *)

LEMMA InitIInv == Init => IInv
<1> SUFFICES ASSUME Init
             PROVE  IInv
  OBVIOUS
<1>1. /\ tx_pool_size \in Nat \ {0} /\ MAX_IFACE \in Nat \ {0}
      /\ wr_txbuff = 0 /\ rd_txbuff = 0 /\ free_txbuffs = tx_pool_size
      /\ free_txbuffs_port = [i \in Ifaces |-> tx_pool_size \div MAX_IFACE]
      /\ dma_tx_in_progress = 0 /\ dma_rx_in_progress = 0
  BY PoolAssumption DEF Init
<1>2. /\ wr_txbuff \in Slots /\ rd_txbuff \in Slots /\ 0 \in Ifaces
      /\ free_txbuffs \in 0 .. tx_pool_size
      /\ dma_tx_in_progress \in 0 .. 3 /\ dma_rx_in_progress \in 0 .. 1
      /\ free_txbuffs_port \in [Ifaces -> 0 .. tx_pool_size]
  BY <1>1, QuotaType DEF Slots, Ifaces
<1>3. TypeOK
  BY <1>2 DEF Init, TypeOK, NoPacket, Places, Sections, Reports
<1>4. InUse = {}
  <2>1. 0 .. tx_pool_size - free_txbuffs - 1 = {}
    BY <1>1
  <2> QED
    BY <2>1 DEF InUse
<1>5. BuffersAccounted
  <2>1. wr_txbuff = (rd_txbuff + (tx_pool_size - free_txbuffs)) % tx_pool_size
    BY <1>1
  <2>2. \A s \in Slots : txbuff[s].skb # "queued"
    BY DEF Init, NoPacket
  <2>3. \A i \in Ifaces : Cardinality({s \in InUse : txbuff[s].iface = i}) = 0
    BY <1>4, FS_EmptySet
  <2>4. \A i \in Ifaces : free_txbuffs_port[i] = tx_pool_size \div MAX_IFACE
    BY <1>1
  <2>5. \A i \in Ifaces : free_txbuffs_port[i] + 0 = tx_pool_size \div MAX_IFACE
    BY <2>4, QuotaType
  <2>6. stopped = {i \in Ifaces : free_txbuffs_port[i] = 0}
    <3>1. stopped = {}
      BY DEF Init
    <3> QED
      BY <2>4, <3>1, QuotaType
  <2> QED
    BY <1>4, <2>1, <2>2, <2>3, <2>5, <2>6, Zenon DEF BuffersAccounted
<1>6. /\ \A c \in Callers : ~Counts(c) /\ ~IsFirst(c) /\ ~Prepared(c)
      /\ ~Sending /\ ~TxEnded /\ ~TxRead /\ ~Freed /\ ~TxFailed /\ ~ErrorRead /\ ~Clearing
      /\ ~Filling /\ ~RxEnded /\ ~RxRead
  BY DEF Init, Counts, IsFirst, Prepared, Sending, TxEnded, TxRead, Freed, TxFailed, ErrorRead,
         Clearing, Filling, RxEnded, RxRead
<1>7. TransferOwned
  BY <1>1, <1>6 DEF TransferOwned, TxTraces, Owned, Num, Callers
<1>8. PacketWaits
  BY <1>1, <1>6 DEF PacketWaits, Owned, Num, Callers
<1>9. ReceptionOwned
  BY <1>1, <1>6 DEF ReceptionOwned, Num
<1>10. HandlerPlace /\ SendsFirst
  BY DEF Init, HandlerPlace, SendsFirst, Callers
<1> QED
  BY <1>3, <1>5, <1>7, <1>8, <1>9, <1>10 DEF IInv

\* Every reachable state satisfies the inductive invariant.
THEOREM Invariance ==
    ASSUME ReceivesFailOnOneProcessor
    PROVE  Spec => []IInv
<1>1. IInv /\ [Next]_vars => IInv'
  BY TypeNext, BuffersNext, ReceptionNext, TransferNext DEF IInv, TransferOK
<1> QED
  BY InitIInv, <1>1, PTL DEF Spec

(***************************************************************************)
(* The variables have their types: dma_tx_in_progress, which no lock       *)
(* protects, never counts more than the transfer and the two callers, and  *)
(* neither count goes below zero.                                          *)
(***************************************************************************)
THEOREM TypeCorrect ==
    ASSUME ReceivesFailOnOneProcessor
    PROVE  Spec => []TypeOK
<1>1. IInv => TypeOK
  BY DEF IInv
<1> QED
  BY <1>1, Invariance, PTL

(***************************************************************************)
(* nf2c_tx and the handler never lose a packet they have accepted, nor     *)
(* free one twice, and an interface is stopped exactly while it has used   *)
(* up its share of the ring.                                               *)
(***************************************************************************)
THEOREM BuffersAccountedAlways ==
    ASSUME ReceivesFailOnOneProcessor
    PROVE  Spec => []BuffersAccounted
<1>1. IInv => BuffersAccounted
  BY DEF IInv
<1> QED
  BY <1>1, Invariance, PTL

(***************************************************************************)
(* nf2c_send never starts a transfer beside another, though no lock keeps  *)
(* its callers apart, and what the card transfers is the first packet of   *)
(* the ring, which nobody has freed.                                       *)
(***************************************************************************)
THEOREM OneTransferAlways ==
    ASSUME ReceivesFailOnOneProcessor
    PROVE  Spec => []OneTransfer
<1>1. IInv => OneTransfer
  <2> SUFFICES ASSUME IInv
               PROVE  OneTransfer
    OBVIOUS
  <2>1. TypeOK /\ BuffersAccounted /\ TransferOwned /\ PacketWaits /\ SendsFirst
    BY DEF IInv
  <2>2. ASSUME Sending
        PROVE  txbuff[rd_txbuff].skb = "queued" /\ dma_tx_in_progress # 0
    <3>1. Owned = 1 /\ ~Freed
      BY <2>1, <2>2 DEF TransferOwned, TxTraces, Num
    <3>2. dma_tx_in_progress # 0
      BY <2>1, <3>1 DEF Owned, Num
    <3>3. free_txbuffs < tx_pool_size
      BY <2>1, <3>1 DEF PacketWaits
    <3>4. rd_txbuff \in Slots /\ Distance(rd_txbuff) = 0
      BY <2>1, RingTypes DEF Slots, Distance
    <3>5. rd_txbuff \in InUse
      BY <2>1, <3>3, <3>4, InUseDistance, RingTypes DEF UseIsNear
    <3> QED
      BY <2>1, <3>1, <3>2, <3>4, <3>5 DEF BuffersAccounted, Freed
  <2> QED
    BY <2>1, <2>2 DEF OneTransfer, SendsFirst, Sending
<1> QED
  BY <1>1, Invariance, PTL
=============================================================================
