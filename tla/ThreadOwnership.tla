---------------------------- MODULE ThreadOwnership ----------------------------
(***************************************************************************)
(* What agemux promises about conversations: a thread has at most one      *)
(* holder, a session gains a thread only while no other session holds it,  *)
(* and a thread changes hands only by being let go first.                  *)
(***************************************************************************)
CONSTANTS Names, Threads

VARIABLE holders   \* thread -> the sessions that hold it

Init == holders = [t \in Threads |-> {}]

\* Session n gains the threads in `gained`; others may be let go meanwhile.
Gain(n, gained) ==
  /\ \A t \in gained : holders[t] \subseteq {n}
  /\ holders' \in [Threads -> SUBSET Names]
  /\ \A t \in gained : holders'[t] = {n}
  /\ \A t \in Threads \ gained : holders'[t] \subseteq holders[t]

Next == \E n \in Names : \E gained \in SUBSET Threads : Gain(n, gained)

Spec == Init /\ [][Next]_holders

\* At most one session per thread.
Exclusive == \A t \in Threads : \A n, m \in holders[t] : n = m
================================================================================
