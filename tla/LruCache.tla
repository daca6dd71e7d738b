------------------------------ MODULE LruCache ------------------------------
(***************************************************************************)
(* What the content table promises as a cache: a set of keys no larger     *)
(* than its capacity, ordered by when they were last learned.  A key that  *)
(* is learned becomes the newest; when there is no room for it the oldest  *)
(* key, and no other, is given up.  Keys may be dropped at any time.       *)
(***************************************************************************)
EXTENDS Naturals, FiniteSets

CONSTANTS Keys,     \* what is cached
          Capacity  \* how many of them there is room for

VARIABLES present, \* the keys in the cache
          older    \* pairs of keys: the first was learned before the second

vars == <<present, older>>

Restricted(S) == {p \in older : p[1] \in S /\ p[2] \in S}

\* The keys of S stay, in the order they had, and k is the newest.
Newest(S, k) ==
    /\ present' = S \cup {k}
    /\ older' = Restricted(S) \cup {<<o, k>> : o \in S}

Refresh(k) ==
    /\ k \in present
    /\ Newest(present \ {k}, k)

Insert(k) ==
    /\ k \notin present
    /\ Cardinality(present) < Capacity
    /\ Newest(present, k)

Replace(k) ==
    /\ k \notin present
    /\ Cardinality(present) = Capacity
    /\ \E victim \in present :
          /\ \A o \in present \ {victim} : <<victim, o>> \in older
          /\ Newest(present \ {victim}, k)

Drop(S) ==
    /\ present' = present \ S
    /\ older' = Restricted(present \ S)

Init == present = {} /\ older = {}

Next ==
    \/ \E k \in Keys : Refresh(k) \/ Insert(k) \/ Replace(k)
    \/ \E S \in SUBSET present : Drop(S)

Spec == Init /\ [][Next]_vars
=============================================================================
