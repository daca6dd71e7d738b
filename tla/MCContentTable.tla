--------------------------- MODULE MCContentTable ---------------------------
(***************************************************************************)
(* Small instances of ContentTable for TLC.                                *)
(***************************************************************************)
EXTENDS ContentTable

\* One name behind every port: more keys than places in a table of three,
\* and remainders 2 and 1 by three and two hits.
OneName     == {5}
TwoVersions == {1, 2}
AllPorts    == {"eth0", "eth1", "eth2", "eth3"}
=============================================================================
