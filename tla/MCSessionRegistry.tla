--------------------------- MODULE MCSessionRegistry ---------------------------
(* Small instances of SessionRegistry: two or three sessions, one or two      *)
(* threads, and the command lines of each run.                                *)
EXTENDS SessionRegistry, TLC

CONSTANTS a, b, t1, t2, p1, p2, p3, r1, r2, r3

NoneLive == [n \in Names |-> None]
OneLive  == [n \in Names |-> IF n = a THEN r1 ELSE None]

Cmd(o, n, t) == [op |-> o, name |-> n, thread |-> t]

Resumes == {Cmd("start", n, t1) : n \in Names}
Symmetry == Permutations(Clis) \cup Permutations({r \in Runners : Hosts(r) = {}})
ResumesAndList == Resumes \cup {Cmd("list", a, None)}
RestartRace == {Cmd("restart", a, None), Cmd("start", b, t1)}
PickOrSwitch == {Cmd("startfg", b, t1), Cmd("open", b, None), Cmd("list", a, None)}
StartRestart == {Cmd("start", b, t1), Cmd("restart", a, None)}
StartKillRestart == Resumes \cup {Cmd(o, a, None) : o \in {"kill", "restart"}}
================================================================================
