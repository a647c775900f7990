--------------------------- MODULE KnowledgeCatalog ---------------------------
(***************************************************************************)
(* The knowledge catalog: one SQLite database shared by every process of a  *)
(* user, each of its methods an operator here over the tables it reads and  *)
(* writes; who calls them in which order is the business of                 *)
(* KnowledgeIngestion.                                                      *)
(*                                                                          *)
(* What a method writes is one transaction, and what it reads before is     *)
(* outside of it: no transaction begins with a SELECT, and the lock of the  *)
(* catalog is one process's.  That matters where a method decides by what   *)
(* it has read: MayAcquire and AcquireLease, the two halves of              *)
(* acquire_lease, are steps apart, and so are the two of                    *)
(* expire_stale_leases.  Elsewhere the schema decides again when the        *)
(* transaction is made: rows of bases, bindings and sources are unique and  *)
(* refer to one another.                                                    *)
(*                                                                          *)
(* A source is a name within a base: the catalog finds its row by these two *)
(* (upsert_source), so the row's identity is theirs.  The chunks of one     *)
(* version are written, closed and copied together and are one entry.       *)
(***************************************************************************)
EXTENDS Integers, Sequences, FiniteSets

CONSTANTS Base,        \* knowledge bases, all of one connection
          Name,        \* file names
          Content,     \* what a file may contain
          Workspace,   \* workspaces that may be bound to a base
          MaxOps,      \* bound: operation ids
          MaxVersions  \* bound: source versions

ASSUME CatalogAssumption ==
  /\ Base # {} /\ Name # {} /\ Content # {}
  /\ MaxOps \in Nat /\ MaxVersions \in Nat

VARIABLES
  connection,  \* the row of the connection: "new" before it is registered, "here", "gone"
  bases,       \* rows of knowledge_bases
  bindings,    \* rows of bindings
  sources,     \* rows of sources
  versions,    \* rows of source_versions, in order
  ops,         \* operation ids in order of creation, with their rows
  lease,       \* the global row of leases
  known        \* rows of generation_chunks

admin == <<connection, bindings>>

Source == Base \X Name

BaseOf(s) == s[1]

Lifecycle == {"none", "active", "inactive", "delete_pending", "deleted"}

\* A source whose original may still be opened.
Openable == {"active", "inactive"}

Stage == {"unknown", "received", "raw_stored", "parsed", "indexing", "index_validated", "active"}

Op == 1..MaxOps

\* A chunk: the version it belongs to and which copy of it (reactivation copies).
Key == (1..MaxVersions) \X Nat

BaseRow == [row : {"new", "here", "gone"}, gen : Nat, rev : Nat]

SourceRow == [life : Lifecycle, version : 0..MaxVersions]

\* owned: the row names its source.  The rest is its payload.
OpRow == [stage : Stage, src : Source, replace : BOOLEAN, owned : BOOLEAN,
          version : 0..MaxVersions, gen : Nat, next : Nat]

NewOp(s, replace) == [stage |-> "unknown", src |-> s, replace |-> replace, owned |-> FALSE,
                      version |-> 0, gen |-> 0, next |-> 0]

NoLease == [op |-> 0, live |-> FALSE]

CatalogTypes ==
  /\ connection \in {"new", "here", "gone"}
  /\ bases \in [Base -> BaseRow]
  /\ bindings \subseteq Workspace \X Base
  /\ sources \in [Source -> SourceRow]
  /\ versions \in Seq([src : Source, content : Content])
  /\ Len(versions) \leq MaxVersions
  /\ ops \in Seq(OpRow)
  /\ Len(ops) \leq MaxOps
  /\ lease \in [op : 0..MaxOps, live : BOOLEAN]
  /\ known \subseteq Nat \X Key

CatalogInit ==
  /\ connection = "new"
  /\ bases = [b \in Base |-> [row |-> "new", gen |-> 0, rev |-> 0]]
  /\ bindings = {}
  /\ sources = [s \in Source |-> [life |-> "none", version |-> 0]]
  /\ versions = << >>
  /\ ops = << >>
  /\ lease = NoLease
  /\ known = {}

Here(b) == bases[b].row = "here"

-------------------------------------------------------------------------------
(* Connections, bases and bindings.  None of these takes the lease.        *)

RegisterConnection ==
  /\ connection = "new"
  /\ connection' = "here"
  /\ UNCHANGED <<bases, bindings, sources>>

CreateBase(b) ==
  /\ connection = "here"
  /\ bases[b].row = "new"
  /\ bases' = [bases EXCEPT ![b].row = "here"]
  /\ UNCHANGED <<connection, bindings, sources>>

Bind(w, b) ==
  /\ connection = "here"
  /\ Here(b)
  /\ <<w, b>> \notin bindings
  /\ bindings' = bindings \cup {<<w, b>>}
  /\ UNCHANGED <<connection, bases, sources>>

Unbind(w, b) ==
  /\ <<w, b>> \in bindings
  /\ bindings' = bindings \ {<<w, b>>}
  /\ UNCHANGED <<connection, bases, sources>>

DeleteBase(b) ==
  /\ Here(b)
  /\ \A w \in Workspace : <<w, b>> \notin bindings
  /\ \A n \in Name : sources[<<b, n>>].life = "none"
  /\ bases' = [bases EXCEPT ![b].row = "gone"]
  /\ UNCHANGED <<connection, bindings, sources>>

RemoveConnection ==
  /\ connection = "here"
  /\ \A b \in Base : ~ Here(b)
  /\ bindings = {}
  /\ connection' = "gone"
  /\ UNCHANGED <<bases, bindings, sources>>

Administer ==
  /\ \/ RegisterConnection
     \/ RemoveConnection
     \/ \E b \in Base : \/ CreateBase(b)
                        \/ DeleteBase(b)
                        \/ \E w \in Workspace : Bind(w, b) \/ Unbind(w, b)
  /\ UNCHANGED <<versions, ops, lease, known>>

-------------------------------------------------------------------------------
(* The lease.                                                              *)

\* Operations that left the index half written, of the base of o once o has a row.
\* Only the lease keeps operations apart.
NoneUnfinished(o) == {}

Unfinished(o) ==
  {p \in DOMAIN ops \ {o} : /\ ops[p].stage \in {"indexing", "index_validated"}
                            /\ \/ ops[o].stage = "unknown"
                               \/ BaseOf(ops[p].src) = BaseOf(ops[o].src)}

\* What acquire_lease reads and checks, its three SELECTs as one step.
MayAcquire(o, takeover) ==
  /\ Unfinished(o) = {}
  /\ \/ lease.op \in {0, o}
     \/ takeover /\ ~ lease.live

\* What it writes then: the row is replaced, whatever has become of it.
AcquireLease(o) == lease' = [op |-> o, live |-> TRUE]

ReleaseLease(o) == lease' = IF lease.op = o THEN NoLease ELSE lease

\* expire_stale_leases reads the row and, if it had expired, deletes it.
Expired == lease.op # 0 /\ ~ lease.live

DeleteLease == lease' = NoLease

-------------------------------------------------------------------------------
(* Operations, sources, chunks.                                            *)

WriteStage(o, stage, owned) ==
  ops' = [ops EXCEPT ![o].stage = stage, ![o].owned = owned]

\* list_incomplete_operations: reconcile takes them in order of creation.
Incomplete == {o \in DOMAIN ops : ops[o].stage \notin {"unknown", "active"}}

First(todo) == CHOOSE o \in todo : \A p \in todo : o \leq p

UpsertSource(s, old) ==
  sources' = [sources EXCEPT ![s] = IF old.life = "none" THEN [old EXCEPT !.life = "active"] ELSE old]

SetLifecycle(s, life) == sources' = [sources EXCEPT ![s].life = life]

SetCurrentVersion(s, v) == sources' = [sources EXCEPT ![s] = [life |-> "active", version |-> v]]

ActivateRevision(b, gen, rev) ==
  bases' = [bases EXCEPT ![b].gen = gen, ![b].rev = rev]

Remember(gen, keys) == known' = known \cup ({gen} \X keys)

ChunksForSource(gen, s) ==
  {key \in {k[2] : k \in {r \in known : r[1] = gen}} : versions[key[1]].src = s}

\* One reference counts as none.
UnreferencedButOnce(content) ==
  Cardinality({v \in DOMAIN versions : /\ versions[v].content = content
                                       /\ sources[versions[v].src].life \in Openable}) \leq 1

\* openable_digest_count = 0
Unreferenced(content) ==
  \A v \in DOMAIN versions : versions[v].content = content =>
                             sources[versions[v].src].life \notin Openable
===============================================================================
