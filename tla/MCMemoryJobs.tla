----------------------------- MODULE MCMemoryJobs ------------------------------
EXTENDS MemoryJobs, TLC

Workers == Permutations(Worker)
===============================================================================
