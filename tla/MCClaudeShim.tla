----------------------------- MODULE MCClaudeShim -----------------------------
EXTENDS ClaudeShim
===============================================================================
