------------------------------ MODULE MCLinkState ------------------------------
(***************************************************************************)
(* A small network for TLC: a subnet of our own at e0, and at e1 a subnet  *)
(* with two other routers, B and C, of which C has one more subnet behind  *)
(* it.  C may stop to see us, and is then reached through B.  B may be on  *)
(* the subnet at e0, too, where we do not hear it.                         *)
(***************************************************************************)
EXTENDS LinkState, TLC

CONSTANTS e0, e1, s0, s1, s2, u, B, C

MCIfList == <<e0, e1>>
MCSubnetOf == (e0 :> s0) @@ (e1 :> s1)

MCAttached == {<<e1, B>>, <<e1, C>>}

Link(subnet, rid) == [subnet |-> subnet, rid |-> rid]

LinksOfB == <<Link(s1, u), Link(s1, C)>>
LinksOfC == <<Link(s1, B), Link(s2, NoRouter), Link(s1, u)>>

\* B is on the subnet at e0, too, or not; C sees us, or not.
MCAdvertised ==
    (B :> {LinksOfB, Append(LinksOfB, Link(s0, NoRouter))}) @@
    (C :> {LinksOfC, <<Link(s1, B), Link(s2, NoRouter)>>})
=============================================================================
