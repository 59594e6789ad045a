------------------------------ MODULE MCPtyWriter ------------------------------
(* Two senders against pastes on stdin. *)
EXTENDS PtyWriter

CONSTANTS e1, e2
================================================================================
