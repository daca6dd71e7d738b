---------------------------- MODULE MCNf2Driver ----------------------------
(***************************************************************************)
(* Machines for TLC: with one processor the card may fail any transfer;    *)
(* with several it may fail what it sends, or receive beside sending.      *)
(***************************************************************************)
EXTENDS Nf2Driver

OneProcessor == [smp |-> FALSE, errors |-> {"tx", "rx"}, receives |-> TRUE]
Failing      == [smp |-> TRUE, errors |-> {"tx"}, receives |-> FALSE]
Receiving    == [smp |-> TRUE, errors |-> {}, receives |-> TRUE]

MCMachines == {OneProcessor, Failing, Receiving}
=============================================================================
