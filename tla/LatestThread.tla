----------------------------- MODULE LatestThread -----------------------------
(***************************************************************************)
(* What a runner may believe of the thread its Codex is on.  The launch    *)
(* requests of one Codex are numbered in the order in which they are seen; *)
(* the daemon answers them in any order, each once or never.  The current  *)
(* thread is that of the latest answer, but for launches that were given   *)
(* up because too many waited.  No connections, no ids, no messages.       *)
(***************************************************************************)
EXTENDS Naturals, FiniteSets

CONSTANTS Threads, None, MaxPending

VARIABLES
  launches,  \* launches so far; the last one has this number
  answered,  \* the daemon's answers
  missed,    \* launches that were given up
  told,      \* answers that Codex has received
  current    \* the answer that is believed

vars == <<launches, answered, missed, told, current>>

Unanswered == {n \in 1..launches : \A a \in answered : a.order # n}

Init ==
  /\ launches = 0 /\ answered = {} /\ missed = {} /\ told = {}
  /\ current = [order |-> 0, thread |-> None]

Launch ==
  /\ launches' = launches + 1
  /\ missed \subseteq missed' /\ missed' \subseteq missed \cup Unanswered
  /\ missed' # missed => Cardinality(Unanswered \ missed) >= MaxPending
  /\ UNCHANGED <<answered, told, current>>

Answer(n, t) ==
  LET a == [order |-> n, thread |-> t] IN
  /\ n \in Unanswered
  /\ answered' = answered \cup {a}
  /\ current' = IF n > current.order /\ n \notin missed THEN a ELSE current
  /\ UNCHANGED <<launches, missed, told>>

Tell(a) ==
  /\ a \in answered
  /\ told' = told \cup {a}
  /\ UNCHANGED <<launches, answered, missed, current>>

Next ==
  \/ Launch
  \/ \E n \in 1..launches, t \in Threads : Answer(n, t)
  \/ \E a \in answered : Tell(a)

Spec == Init /\ [][Next]_vars

\* The current thread is an answer, and of the answers to launches that were not
\* given up it is the latest, whether Codex has received it yet or not.
Latest ==
  /\ current.order = 0 \/ (current \in answered /\ current.order \notin missed)
  /\ \A a \in answered : a.order <= current.order \/ a.order \in missed
================================================================================
