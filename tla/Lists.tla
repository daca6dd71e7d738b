------------------------------- MODULE Lists -------------------------------
(***************************************************************************)
(* The doubly linked lists of or_utils.c, which hold every table and queue *)
(* of the router, as sequences with the head first.                        *)
(***************************************************************************)
EXTENDS Naturals, Sequences, FiniteSets

(***************************************************************************)
(* The elements of s at the indices in K, in their order in s: what is     *)
(* left of a list once node_remove has taken the other nodes out.  The     *)
(* j-th element kept is the one at the index of K that has j indices of K  *)
(* up to it.                                                               *)
(***************************************************************************)
Rank(K, i) == Cardinality({k \in K : k <= i})

Keep(s, K) ==
    [j \in 1..Cardinality(K) |-> s[CHOOSE i \in K : Rank(K, i) = j]]

node_remove(s, gone) == Keep(s, DOMAIN s \ gone)

\* The node becomes the tail of the list.
node_push_back(s, e) == Append(s, e)

\* The node becomes the head of the list.
node_push_front(s, e) == <<e>> \o s

\* Mutant: the old head is freed in place of the tail.
MutInsertDropsHead(s, e) == <<e>> \o SubSeq(s, 2, Len(s))

\* The new node becomes the head and the tail is freed; a list of fewer than
\* two nodes is left alone.
node_insert_front(s, e) ==
    IF Len(s) < 2 THEN s ELSE <<e>> \o SubSeq(s, 1, Len(s) - 1)

\* The node at index i moves to the head.
node_update(s, i) == <<s[i]>> \o node_remove(s, {i})
=============================================================================
