--------------------------- MODULE MCClaudeAccounts ---------------------------
(* ~/.claude (1), a directory that new may reserve (2) and one elsewhere (3). *)
EXTENDS ClaudeAccounts

CONSTANTS p1, p2

AllCommands == {"change", "delete", "refresh", "add", "new", "statusline"}

\* One invocation asks for a worker, the other for none.
OneAndNone == [p \in {p1, p2} |-> IF p = p1 THEN 1 ELSE 0]
===============================================================================
