--------------------------- MODULE MCMemoryRecords ----------------------------
EXTENDS MemoryRecords, TLC

Interchangeable == Permutations(Memory) \cup Permutations(Turn)
===============================================================================
