----------------------------- MODULE MCJournalFile -----------------------------
EXTENDS JournalFile, TLC

Processes == Permutations(Process)
===============================================================================
