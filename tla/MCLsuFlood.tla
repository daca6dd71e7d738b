------------------------------ MODULE MCLsuFlood ------------------------------
(* Three routers in a line.                                                *)
EXTENDS LsuFlood, TLC

CONSTANTS a, b, c

MCLinks == {{a, b}, {b, c}}

\* One router has run for longer than the others, and soon wraps around.
MCStartSeq == a :> 13 @@ b :> 4 @@ c :> 3

MCMayFail == {a, b, {a, b}}

MCLossy == {<<a, b>>}
=============================================================================
