----------------------------- MODULE MCArpQueue -----------------------------
(***************************************************************************)
(* Small instances of ArpQueue for TLC.                                    *)
(***************************************************************************)
EXTENDS ArpQueue, TLC

HopSymmetry == Permutations(Hops)
PacketSymmetry == Permutations(Packets)
Symmetry == HopSymmetry \cup PacketSymmetry
=============================================================================
