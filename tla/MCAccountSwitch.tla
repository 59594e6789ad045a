---------------------------- MODULE MCAccountSwitch ----------------------------
(* Two account names and three logins, of which two show the same e-mail       *)
(* address and one shows none; auth.json holds the first login's.              *)
EXTENDS AccountSwitch, TLC

CONSTANTS n1, n2, l1, l2, l3, p1, p2, e1, e2

Emails == [l \in Logins |-> IF l = l2 THEN e2 ELSE e1]
Both == [n \in Slots |-> IF n = n1 THEN l1 ELSE l2]

Symmetry == Permutations(Procs)
================================================================================
