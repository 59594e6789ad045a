----------------------------- MODULE MCCodexBridge -----------------------------
(* A picker and a chat connection and three launch requests, one more than    *)
(* are remembered.  A thread is stored and never compared, and the order of   *)
(* an answer tells which it is: one thread is enough.                         *)
EXTENDS CodexBridge

CONSTANTS c1, c2, t1
================================================================================
