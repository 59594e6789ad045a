---------------------------- MODULE MessageDelivery ----------------------------
(***************************************************************************)
(* What `agemux send` promises of a message, as if the agent's input were  *)
(* written in no time: it is there once and in full, since a moment of the *)
(* call, or it is reported failed and never will be.  A message that is    *)
(* there in part only is the last one.                                     *)
(***************************************************************************)
CONSTANT Senders

VARIABLES
  call,       \* the sender's call: "idle", "called", or its answer
  begun,      \* messages of which there is something in the agent's input
  delivered,  \* those that are there in full
  stopped     \* nothing is written any more

vars == <<call, begun, delivered, stopped>>

Init ==
  /\ call = [e \in Senders |-> "idle"]
  /\ begun = {} /\ delivered = {}
  /\ stopped = FALSE

Becomes(e, from, to) ==
  /\ call[e] = from
  /\ call' = [call EXCEPT ![e] = to]
  /\ UNCHANGED <<begun, delivered, stopped>>

Call(e) == Becomes(e, "idle", "called")

\* It is known before the call that nothing is written any more.
Refuse(e) == stopped /\ Becomes(e, "idle", "failed")

Write(e) ==
  /\ call[e] = "called" /\ e \notin delivered /\ ~stopped
  /\ begun \subseteq delivered \cup {e}
  /\ begun' = begun \cup {e}
  /\ delivered' \in {delivered, delivered \cup {e}}
  /\ UNCHANGED <<call, stopped>>

Answer(e) == Becomes(e, "called", IF e \in delivered THEN "ok" ELSE "failed")

Stop ==
  /\ ~stopped /\ stopped' = TRUE
  /\ UNCHANGED <<call, begun, delivered>>

Next == Stop \/ \E e \in Senders : Call(e) \/ Refuse(e) \/ Write(e) \/ Answer(e)

Spec == Init /\ [][Next]_vars

\* Of all messages at most one is there in part.
OneTorn == \A e, f \in begun \ delivered : e = f
================================================================================
