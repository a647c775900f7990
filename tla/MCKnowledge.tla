----------------------------- MODULE MCKnowledge -----------------------------
(* An instance of KnowledgeIngestion for TLC. *)
EXTENDS KnowledgeIngestion, TLC

WriterSymmetry == Permutations(Writer)

Running == {w \in Writer : at[w] # "idle"}

\* Behaviours are followed until the lease has failed.  The base may be unbound and deleted
\* before its first version is there, and stays then; a turn that has found its evidence ends
\* before the commands go on.  Two commands run together through a failure or through the
\* expiry of a lease, not through both; and once three have begun, only if none of them has
\* failed, seen its lease expire or is being reconciled.
Followed ==
  /\ Apart
  /\ Len(ops) > 1 \/ Len(versions) > 0 => bindings # {}
  /\ (\E b \in Base : turn[b].pc \in {"failed", "found"}) => Running = {}
  /\ \/ Cardinality(Running) \leq 1
     \/ Len(ops) < MaxOps /\ (faults = 0 \/ ~ Expired)
     \/ faults = 0 /\ ~ Expired /\ \A w \in Writer : work[w].kind # "reconcile"
===============================================================================
