---------------------------- MODULE MCSessionLease -----------------------------
EXTENDS SessionLease, TLC

Processes == Permutations(Process)
===============================================================================
