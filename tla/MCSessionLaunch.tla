---------------------------- MODULE MCSessionLaunch ----------------------------
EXTENDS SessionLaunch, TLC

CONSTANTS p1, p2, k1, r1, r2

Symmetric == Permutations({p1, p2}) \cup Permutations({r1, r2})
===============================================================================
