------------------------------- MODULE MCNat -------------------------------
(***************************************************************************)
(* Words of sixteen numbers: two hosts with the ports 0 and 6, whose pairs *)
(* sum up with and without a carry, and three ports to be drawn.           *)
(***************************************************************************)
EXTENDS Nat

MCHosts == {2, 13}
MCInsidePorts == {0, 6}
MCOutsidePorts == {3}
MCStaticPorts == {0, 6}
MCDrawnPorts == {4, 6, 9}

\* A CPU that keeps the order of the network.
Kept == [x \in 0 .. 15 |-> x]

\* Words of two halves, which a CPU that stores the low half first swaps.
Swapped == [x \in 0 .. 15 |-> (x % 4) * 4 + x \div 4]

MCByteOrders == {Kept, Swapped}
=============================================================================
