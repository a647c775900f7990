-------------------------- MODULE KnowledgeIngestion --------------------------
(***************************************************************************)
(* Processes that change a knowledge base: adding and replacing files,      *)
(* hiding, showing and deleting sources, retrying and reconciling what a    *)
(* crash has left; and the turns that read it meanwhile.                    *)
(*                                                                          *)
(* A writer runs one command.  Between two of its steps any other process   *)
(* may act: the catalog, the index and the objects are three stores without *)
(* a common transaction, and only the lease keeps writers apart.  It does   *)
(* not always: its row is checked in one step and written in a later one,   *)
(* it expires under a slow command, two retries of one operation share it;  *)
(* and a command reads rows before it has it.  The history variable amiss   *)
(* records when this has done harm, and the properties say of what they     *)
(* promise no more than what holds until then.                              *)
(***************************************************************************)
EXTENDS KnowledgeCatalog

CONSTANTS Writer,      \* processes that run management commands
          MaxFaults    \* bound: crashes and failures of a provider

Kind == {"add", "reconcile", "deactivate", "reactivate", "delete"}

ASSUME IngestionAssumption == MaxFaults \in Nat

VARIABLES
  index,    \* chunks of the index, all generations
  objects,  \* contents in the object store
  at,       \* the await point of each writer
  work,     \* its locals
  faults,   \* crashes and failures so far
  amiss,    \* history: what has gone wrong between commands
  turn      \* a turn that reads: of each base, what it froze and what it found

tables == <<connection, bases, bindings, sources, versions, ops, lease, known>>
stores == <<index, objects>>
vars == <<tables, stores, at, work, faults, amiss, turn>>

Chunk == [key : Key, gen : Nat, from : Nat, to : Nat]

\* index._visible: from <= rev < to, 0 standing for no end.
Visible(chunk, rev) == chunk.from <= rev /\ (chunk.to = 0 \/ chunk.to > rev)

SourceOf(chunk) == versions[chunk.key[1]].src

\* What a search of one generation of a base may return at a revision.
Searchable(b, gen, rev) ==
  {chunk.key : chunk \in {c \in index : c.gen = gen /\ BaseOf(SourceOf(c)) = b /\ Visible(c, rev)}}

\* The closed chunks lose the revision before the next one too.
CloseChunksEarly(gen, keys, rev) ==
  index' = {IF c.gen = gen /\ c.key \in keys /\ (c.to = 0 \/ c.to > rev - 1)
            THEN [c EXCEPT !.to = rev - 1] ELSE c : c \in index}

CloseChunks(gen, keys, rev) ==
  index' = {IF c.gen = gen /\ c.key \in keys /\ (c.to = 0 \/ c.to > rev)
            THEN [c EXCEPT !.to = rev] ELSE c : c \in index}

UpsertChunk(gen, key, rev) ==
  index' = {c \in index : c.key # key} \cup {[key |-> key, gen |-> gen, from |-> rev, to |-> 0]}

AddPoint == {"add_lease", "received", "stored", "parsed", "upsert_source", "embed", "indexing",
             "close", "upsert", "remember", "validated"}
ActivatePoint == {"resume_index", "resume_lease", "resume_check", "activate", "point", "finish"}
HidePoint == {"hide_lease", "hide_close", "hide_commit", "purge", "deleted"}
ShowPoint == {"show_lease", "show_copy", "show_remember", "show_commit"}
Point == {"idle", "expire", "list", "take_over", "give_back", "retry", "release"}
           \cup AddPoint \cup ActivatePoint \cup HidePoint \cup ShowPoint

\* Where the command has written the lease and not yet given it back.
HoldPoint ==
  (AddPoint \cup ActivatePoint \cup HidePoint \cup ShowPoint \cup {"give_back", "release"})
    \ {"add_lease", "hide_lease", "show_lease", "resume_lease", "resume_index"}

\* lease: it was written although its check no longer held, or another command still worked
\*   under it.
\* stale: a row that was read before the lease was no longer so when it was taken.
\* adopted: an addition that replaces nothing goes on over a source that has a version shown.
\* torn: a command to hide or show ended between the index and the commit.
Amiss == {"lease", "stale", "adopted", "torn"}

\* old, rev and gen are rows as they were read; key and next what the command adds; cleared
\* means that acquire_lease has made its checks.
Work == [kind : Kind, op : 0..MaxOps, src : Source, replace : BOOLEAN, content : Content,
         old : SourceRow, rev : Nat, gen : Nat, next : Nat, key : (0..MaxVersions) \X Nat,
         todo : SUBSET Op, cleared : BOOLEAN, failed : BOOLEAN]

NoWork == [kind |-> "add", op |-> 0, src |-> CHOOSE s \in Source : TRUE, replace |-> FALSE,
           content |-> CHOOSE c \in Content : TRUE, old |-> [life |-> "none", version |-> 0],
           rev |-> 0, gen |-> 0, next |-> 0, key |-> <<0, 0>>, todo |-> {},
           cleared |-> FALSE, failed |-> FALSE]

\* seen is history: what the frozen revision held when it was frozen.
Reading == [pc : {"out", "bound", "frozen", "failed", "found"},
            rev : Nat, gen : Nat, seen : SUBSET Key, hits : SUBSET Key]

NoReading == [pc |-> "out", rev |-> 0, gen |-> 0, seen |-> {}, hits |-> {}]

Init ==
  /\ CatalogInit
  /\ index = {}
  /\ objects = {}
  /\ at = [w \in Writer |-> "idle"]
  /\ work = [w \in Writer |-> NoWork]
  /\ faults = 0
  /\ amiss = {}
  /\ turn = [b \in Base |-> NoReading]

-------------------------------------------------------------------------------
(* Commands begin and end.                                                 *)

Me(w) == work[w]

Go(w, p) == at' = [at EXCEPT ![w] = p]

Goes(w, p) == Go(w, p) /\ UNCHANGED work

Becomes(w, r) == work' = [work EXCEPT ![w] = r]

\* The command is over, or has raised: its process ends.
Ends(w) == Go(w, "idle") /\ Becomes(w, NoWork)

\* The operation is done.  reconcile goes on with the next one.
Succeeds(w) ==
  LET rest == Me(w).todo \ {First(Me(w).todo)}
  IN  IF Me(w).todo # {} /\ rest # {}
      THEN Go(w, "take_over") /\ Becomes(w, [NoWork EXCEPT !.kind = "reconcile", !.todo = rest])
      ELSE Ends(w)

\* An exception inside the lease: _record_failure keeps the stage, finally releases.
Fails(w) == Go(w, "release") /\ Becomes(w, [Me(w) EXCEPT !.failed = TRUE])

Starts(w, p, kind, s, replace, content) ==
  LET base == bases[BaseOf(s)] IN
  /\ at[w] = "idle"
  /\ Here(BaseOf(s))
  /\ Len(ops) < MaxOps
  /\ ops' = Append(ops, NewOp(s, replace))
  /\ Go(w, p)
  /\ Becomes(w, [NoWork EXCEPT !.kind = kind, !.op = Len(ops) + 1, !.src = s, !.replace = replace,
                               !.content = content, !.old = sources[s],
                               !.rev = base.rev, !.gen = base.gen])
  /\ UNCHANGED <<connection, bases, bindings, sources, versions, lease, known, stores, faults, amiss, turn>>

StartAdd(w, s, content, replace) ==
  /\ IF replace THEN sources[s].life # "none" ELSE sources[s].life \in {"none", "deleted"}
  /\ Starts(w, "add_lease", "add", s, replace, content)

StartDeactivate(w, s) ==
  /\ sources[s].life = "active"
  /\ bases[BaseOf(s)].gen # 0
  /\ Starts(w, "hide_lease", "deactivate", s, FALSE, NoWork.content)

StartDelete(w, s) ==
  /\ sources[s].life # "none"
  /\ sources[s].version # 0 => versions[sources[s].version].content \in objects
  /\ Starts(w, "hide_lease", "delete", s, FALSE, NoWork.content)

StartReactivate(w, s) ==
  /\ sources[s].life = "inactive"
  /\ bases[BaseOf(s)].gen # 0
  /\ Starts(w, "show_lease", "reactivate", s, FALSE, NoWork.content)

-------------------------------------------------------------------------------
(* Retry and reconcile.                                                    *)

\* Stages before the index is touched: a retry begins anew, with the file as it is then.
Early == {"received", "raw_stored", "parsed"}

InIndex(gen, key) == \E c \in index : c.gen = gen /\ c.key = key

\* A retry that finds the name taken by a source its operation does not own.
NameTaken(o) ==
  /\ ~ ops[o].replace /\ ~ ops[o].owned
  /\ sources[ops[o].src].life \notin {"none", "deleted"}

SameContent(o, content) ==
  LET row == sources[ops[o].src]
  IN  row.life = "active" /\ row.version # 0 /\ versions[row.version].content = content

\* What a retry of o does first: r is the work it goes on with.
Resume(w, o, r) ==
  LET row     == ops[o]
      fresh   == [r EXCEPT !.op = o, !.src = row.src, !.replace = row.replace]
      resumed == [fresh EXCEPT !.gen = row.gen, !.next = row.next, !.key = <<row.version, 0>>]
      again(c) == [fresh EXCEPT !.content = c, !.old = sources[row.src]]
  IN  \/ row.stage = "active" /\ Succeeds(w)
      \/ row.stage = "index_validated" /\ Go(w, "resume_lease") /\ Becomes(w, resumed)
      \/ /\ row.stage = "indexing"
         /\ IF InIndex(row.gen, <<row.version, 0>>)
            THEN Go(w, "resume_index") /\ Becomes(w, resumed)
            ELSE Ends(w)
      \/ /\ row.stage \in Early
         /\ \E c \in Content :
              \/ ~ NameTaken(o) /\ Go(w, "add_lease") /\ Becomes(w, again(c))
              \/ NameTaken(o) /\ SameContent(o, c) /\ Succeeds(w)
              \/ NameTaken(o) /\ ~ SameContent(o, c) /\ Ends(w)

Retry(w, o) ==
  /\ at[w] = "idle"
  /\ Here(BaseOf(ops[o].src))
  /\ ops[o].stage \notin {"unknown", "active"}
  /\ Resume(w, o, NoWork)
  /\ UNCHANGED <<tables, stores, faults, amiss, turn>>

StartReconcile(w) ==
  /\ at[w] = "idle"
  /\ Go(w, IF Expired THEN "expire" ELSE "list")
  /\ Becomes(w, [NoWork EXCEPT !.kind = "reconcile"])
  /\ UNCHANGED <<tables, stores, faults, amiss, turn>>

Expire(w) ==
  /\ at[w] = "expire"
  /\ DeleteLease
  /\ Goes(w, "list")
  /\ UNCHANGED <<connection, bases, bindings, sources, versions, ops, known, stores, faults, amiss, turn>>

List(w) ==
  /\ at[w] = "list"
  /\ IF Incomplete = {} THEN Ends(w)
     ELSE Go(w, "take_over") /\ Becomes(w, [Me(w) EXCEPT !.todo = Incomplete])
  /\ UNCHANGED <<tables, stores, faults, amiss, turn>>

GiveBack(w) ==
  /\ at[w] = "give_back"
  /\ ReleaseLease(First(Me(w).todo))
  /\ Goes(w, "retry")
  /\ UNCHANGED <<connection, bases, bindings, sources, versions, ops, known, stores, faults, amiss, turn>>

RetryNext(w) ==
  /\ at[w] = "retry"
  /\ Resume(w, First(Me(w).todo), Me(w))
  /\ UNCHANGED <<tables, stores, faults, amiss, turn>>

\* The chunks are there: the catalog catches up, without the lease.
ResumeIndex(w) ==
  /\ at[w] = "resume_index"
  /\ Remember(Me(w).gen, {Me(w).key})
  /\ WriteStage(Me(w).op, "index_validated", TRUE)
  /\ Goes(w, "resume_lease")
  /\ amiss' = amiss \cup {mark \in {"stale"} : ops[Me(w).op].stage # "indexing"}
  /\ UNCHANGED <<connection, bases, bindings, sources, versions, lease, stores, faults, turn>>

\* No older operation may take back what a newer one has activated.
ResumeCheck(w) ==
  LET base == bases[BaseOf(Me(w).src)] IN
  /\ at[w] = "resume_check"
  /\ IF base.gen \in {0, Me(w).gen} /\ base.rev \leq Me(w).next
     THEN Goes(w, "activate") ELSE Fails(w)
  /\ UNCHANGED <<tables, stores, faults, amiss, turn>>

-------------------------------------------------------------------------------
(* The lease.  It is checked, and then written.                            *)

LeasePoint == {"add_lease", "resume_lease", "hide_lease", "show_lease"}

Wanted(w) == IF at[w] = "take_over" THEN First(Me(w).todo) ELSE Me(w).op

CheckLease(w) ==
  /\ at[w] \in LeasePoint \cup {"take_over"}
  /\ ~ Me(w).cleared
  /\ IF MayAcquire(Wanted(w), at[w] = "take_over")
     THEN Go(w, at[w]) /\ Becomes(w, [Me(w) EXCEPT !.cleared = TRUE])
     ELSE Ends(w)
  /\ UNCHANGED <<tables, stores, faults, amiss, turn>>

Intrudes(w) ==
  \/ ~ MayAcquire(Wanted(w), at[w] = "take_over")
  \/ \E v \in Writer \ {w} : at[v] \in HoldPoint

\* The stages in which a command has found its operation where it takes the lease.
Expected == [p \in LeasePoint |-> CASE p = "add_lease"    -> {"unknown"} \cup Early
                                     [] p = "resume_lease" -> {"index_validated"}
                                     [] OTHER              -> {"unknown"}]

Outdated(w) ==
  LET base == bases[BaseOf(Me(w).src)] IN
  \/ ops[Me(w).op].stage \notin Expected[at[w]]
  \/ at[w] # "resume_lease" /\ Me(w).old # sources[Me(w).src]
  \/ at[w] \in {"hide_lease", "show_lease"} /\ <<Me(w).rev, Me(w).gen>> # <<base.rev, base.gen>>

Adopts(w) ==
  at[w] = "add_lease" /\ ~ Me(w).replace /\ Me(w).old.life \notin {"none", "deleted"}

AfterLease ==
  [p \in LeasePoint |-> CASE p = "add_lease"    -> "received"
                          [] p = "resume_lease" -> "resume_check"
                          [] p = "hide_lease"   -> "hide_close"
                          [] p = "show_lease"   -> "show_copy"]

TakeLease(w) ==
  /\ at[w] \in LeasePoint
  /\ Me(w).cleared
  /\ AcquireLease(Me(w).op)
  /\ Go(w, AfterLease[at[w]])
  /\ Becomes(w, [Me(w) EXCEPT !.cleared = FALSE])
  /\ amiss' = amiss \cup {mark \in {"lease"} : Intrudes(w)} \cup {mark \in {"stale"} : Outdated(w)}
                    \cup {mark \in {"adopted"} : Adopts(w)}
  /\ UNCHANGED <<connection, bases, bindings, sources, versions, ops, known, stores, faults, turn>>

\* reconcile takes the lease of an operation over only to give it back.
TakeOver(w) ==
  /\ at[w] = "take_over"
  /\ Me(w).cleared
  /\ AcquireLease(Wanted(w))
  /\ Go(w, "give_back")
  /\ Becomes(w, [Me(w) EXCEPT !.cleared = FALSE])
  /\ amiss' = amiss \cup {mark \in {"lease"} : Intrudes(w)}
  /\ UNCHANGED <<connection, bases, bindings, sources, versions, ops, known, stores, faults, turn>>

DropLease(w) ==
  /\ at[w] = "release"
  /\ ReleaseLease(Me(w).op)
  /\ IF Me(w).failed THEN Ends(w) ELSE Succeeds(w)
  /\ UNCHANGED <<connection, bases, bindings, sources, versions, ops, known, stores, faults, amiss, turn>>

-------------------------------------------------------------------------------
(* Adding, under the lease.                                                *)

Existed(w) == Me(w).old.life # "none"

\* The base is not read again under the lease.
ReceiveUnread(w) ==
  /\ at[w] = "received"
  /\ WriteStage(Me(w).op, "received", Existed(w))
  /\ IF Here(BaseOf(Me(w).src)) THEN Goes(w, "stored") ELSE Fails(w)
  /\ UNCHANGED <<connection, bases, bindings, sources, versions, lease, known, stores, faults, amiss, turn>>

Receive(w) ==
  LET base == bases[BaseOf(Me(w).src)] IN
  /\ at[w] = "received"
  /\ WriteStage(Me(w).op, "received", Existed(w))
  /\ IF base.row = "here"
     THEN Go(w, "stored") /\ Becomes(w, [Me(w) EXCEPT !.rev = base.rev, !.gen = base.gen])
     ELSE Fails(w)
  /\ UNCHANGED <<connection, bases, bindings, sources, versions, lease, known, stores, faults, amiss, turn>>

StoreRaw(w) ==
  /\ at[w] = "stored"
  /\ objects' = objects \cup {Me(w).content}
  /\ WriteStage(Me(w).op, "raw_stored", Existed(w))
  /\ Goes(w, "parsed")
  /\ UNCHANGED <<connection, bases, bindings, sources, versions, lease, known, index, faults, amiss, turn>>

Parse(w) ==
  /\ at[w] = "parsed"
  /\ WriteStage(Me(w).op, "parsed", Existed(w))
  /\ Goes(w, "upsert_source")
  /\ UNCHANGED <<connection, bases, bindings, sources, versions, lease, known, stores, faults, amiss, turn>>

\* A deleted base is noticed by its foreign key.
AddVersion(w) ==
  /\ at[w] = "upsert_source"
  /\ IF Here(BaseOf(Me(w).src))
     THEN /\ Len(versions) < MaxVersions
          /\ UpsertSource(Me(w).src, Me(w).old)
          /\ versions' = Append(versions, [src |-> Me(w).src, content |-> Me(w).content])
          /\ Go(w, "embed")
          /\ Becomes(w, [Me(w) EXCEPT !.key = <<Len(versions) + 1, 0>>])
     ELSE Fails(w) /\ UNCHANGED <<sources, versions>>
  /\ UNCHANGED <<connection, bases, bindings, ops, lease, known, stores, faults, amiss, turn>>

\* The provider answers; the new chunks get the next revision of the base as it was read.
Embed(w) ==
  /\ at[w] = "embed"
  /\ Go(w, "indexing")
  /\ Becomes(w, [Me(w) EXCEPT !.next = Me(w).rev + 1])
  /\ UNCHANGED <<tables, stores, faults, amiss, turn>>

NewGeneration(w) == IF Me(w).gen = 0 THEN Me(w).key[1] ELSE Me(w).gen

BeginIndexing(w) ==
  /\ at[w] = "indexing"
  /\ ops' = [ops EXCEPT ![Me(w).op] =
                [@ EXCEPT !.stage = "indexing", !.owned = TRUE, !.version = Me(w).key[1],
                          !.gen = NewGeneration(w), !.next = Me(w).next]]
  /\ Go(w, IF Me(w).replace /\ Me(w).gen # 0 THEN "close" ELSE "upsert")
  /\ Becomes(w, [Me(w) EXCEPT !.gen = NewGeneration(w)])
  /\ UNCHANGED <<connection, bases, bindings, sources, versions, lease, known, stores, faults, amiss, turn>>

CloseReplaced(w) ==
  /\ at[w] = "close"
  /\ CloseChunks(Me(w).gen, ChunksForSource(Me(w).gen, Me(w).src), Me(w).next)
  /\ Goes(w, "upsert")
  /\ UNCHANGED <<tables, objects, faults, amiss, turn>>

WriteIndex(w) ==
  /\ at[w] = "upsert"
  /\ UpsertChunk(Me(w).gen, Me(w).key, Me(w).next)
  /\ Goes(w, "remember")
  /\ UNCHANGED <<tables, objects, faults, amiss, turn>>

RememberIndex(w) ==
  /\ at[w] = "remember"
  /\ Remember(Me(w).gen, {Me(w).key})
  /\ Goes(w, "validated")
  /\ UNCHANGED <<connection, bases, bindings, sources, versions, ops, lease, stores, faults, amiss, turn>>

Validate(w) ==
  /\ at[w] = "validated"
  /\ WriteStage(Me(w).op, "index_validated", TRUE)
  /\ Goes(w, "activate")
  /\ UNCHANGED <<connection, bases, bindings, sources, versions, lease, known, stores, faults, amiss, turn>>

Activate(w) ==
  /\ at[w] = "activate"
  /\ ActivateRevision(BaseOf(Me(w).src), Me(w).gen, Me(w).next)
  /\ Goes(w, "point")
  /\ UNCHANGED <<connection, bindings, sources, versions, ops, lease, known, stores, faults, amiss, turn>>

Repoint(w) ==
  /\ at[w] = "point"
  /\ SetCurrentVersion(Me(w).src, Me(w).key[1])
  /\ Goes(w, "finish")
  /\ UNCHANGED <<connection, bases, bindings, versions, ops, lease, known, stores, faults, amiss, turn>>

Finish(w) ==
  /\ at[w] = "finish"
  /\ WriteStage(Me(w).op, "active", TRUE)
  /\ Goes(w, "release")
  /\ UNCHANGED <<connection, bases, bindings, sources, versions, lease, known, stores, faults, amiss, turn>>

-------------------------------------------------------------------------------
(* Hiding a source: deactivate and delete.                                 *)

CloseHidden(w) ==
  /\ at[w] = "hide_close"
  /\ CloseChunks(Me(w).gen, ChunksForSource(Me(w).gen, Me(w).src), Me(w).rev + 1)
  /\ Goes(w, "hide_commit")
  /\ UNCHANGED <<tables, objects, faults, amiss, turn>>

CommitHidden(w) ==
  LET deleting == Me(w).kind = "delete" IN
  /\ at[w] = "hide_commit"
  /\ SetLifecycle(Me(w).src, IF deleting THEN "delete_pending" ELSE "inactive")
  /\ IF Me(w).gen # 0 THEN ActivateRevision(BaseOf(Me(w).src), Me(w).gen, Me(w).rev + 1)
                      ELSE UNCHANGED bases
  /\ Goes(w, IF deleting THEN "purge" ELSE "release")
  /\ UNCHANGED <<connection, bindings, versions, ops, lease, known, stores, faults, amiss, turn>>

PurgeObjects(w) ==
  /\ at[w] = "purge"
  /\ objects' = objects \ {content \in {versions[v].content : v \in {u \in DOMAIN versions :
                                                versions[u].src = Me(w).src}} : Unreferenced(content)}
  /\ Goes(w, "deleted")
  /\ UNCHANGED <<tables, index, faults, amiss, turn>>

EndDelete(w) ==
  /\ at[w] = "deleted"
  /\ SetLifecycle(Me(w).src, "deleted")
  /\ Goes(w, "release")
  /\ UNCHANGED <<connection, bases, bindings, versions, ops, lease, known, stores, faults, amiss, turn>>

-------------------------------------------------------------------------------
(* Showing it again: the chunks of its current version are copied, because  *)
(* opening a closed interval would change what earlier revisions show.      *)

Copyable(w) ==
  {c \in index : /\ c.gen = Me(w).gen /\ c.from \leq Me(w).rev
                 /\ c.key \in ChunksForSource(Me(w).gen, Me(w).src)
                 /\ c.key[1] = Me(w).old.version}

NextCopy(v) == <<v, Cardinality({c \in index : c.key[1] = v})>>

CopyShown(w) ==
  /\ at[w] = "show_copy"
  /\ IF Copyable(w) = {}
     THEN Fails(w) /\ UNCHANGED index
     ELSE LET key == NextCopy(Me(w).old.version) IN
          /\ UpsertChunk(Me(w).gen, key, Me(w).rev + 1)
          /\ Go(w, "show_remember")
          /\ Becomes(w, [Me(w) EXCEPT !.key = key])
  /\ UNCHANGED <<tables, objects, faults, amiss, turn>>

RememberShown(w) ==
  /\ at[w] = "show_remember"
  /\ Remember(Me(w).gen, {Me(w).key})
  /\ Goes(w, "show_commit")
  /\ UNCHANGED <<connection, bases, bindings, sources, versions, ops, lease, stores, faults, amiss, turn>>

CommitShown(w) ==
  /\ at[w] = "show_commit"
  /\ SetLifecycle(Me(w).src, "active")
  /\ ActivateRevision(BaseOf(Me(w).src), Me(w).gen, Me(w).rev + 1)
  /\ Goes(w, "release")
  /\ UNCHANGED <<connection, bindings, versions, ops, lease, known, stores, faults, amiss, turn>>

-------------------------------------------------------------------------------
(* Parsing, the embedding provider or the index raises.                    *)

ProviderFails(w) ==
  /\ at[w] \in {"parsed", "embed"}
  /\ faults < MaxFaults
  /\ faults' = faults + 1
  /\ Fails(w)
  /\ UNCHANGED <<tables, stores, amiss, turn>>

\* A part of the request to the index may have been applied.
IndexFails(w) ==
  /\ faults < MaxFaults
  /\ faults' = faults + 1
  /\ \/ /\ at[w] = "upsert"
        /\ UpsertChunk(Me(w).gen, Me(w).key, Me(w).next) \/ UNCHANGED index
     \/ /\ at[w] = "show_copy"
        /\ \/ Copyable(w) # {} /\ UpsertChunk(Me(w).gen, NextCopy(Me(w).old.version), Me(w).rev + 1)
           \/ UNCHANGED index
     \/ \E keys \in SUBSET ChunksForSource(Me(w).gen, Me(w).src) :
           \/ at[w] = "close" /\ CloseChunks(Me(w).gen, keys, Me(w).next)
           \/ at[w] = "hide_close" /\ CloseChunks(Me(w).gen, keys, Me(w).rev + 1)
  /\ Fails(w)
  /\ amiss' = amiss \cup {mark \in {"torn"} : at[w] \in {"show_copy", "hide_close"} /\ index' # index}
  /\ UNCHANGED <<tables, objects, turn>>

-------------------------------------------------------------------------------
(* A turn reads: it lists its bindings, freezes each base, then searches.   *)
(* It never takes the lease.                                                *)

Reads(b, r) == turn' = [turn EXCEPT ![b] = r]

StartTurn(ws) ==
  /\ \A b \in Base : turn[b].pc = "out"
  /\ \E b \in Base : <<ws, b>> \in bindings
  /\ turn' = [b \in Base |-> IF <<ws, b>> \in bindings THEN [NoReading EXCEPT !.pc = "bound"]
                                                       ELSE NoReading]

Freeze(b) ==
  /\ turn[b].pc = "bound"
  /\ IF Here(b) /\ bases[b].gen # 0
     THEN Reads(b, [pc |-> "frozen", rev |-> bases[b].rev, gen |-> bases[b].gen, hits |-> {},
                    seen |-> Searchable(b, bases[b].gen, bases[b].rev)])
     ELSE Reads(b, [NoReading EXCEPT !.pc = "failed"])

Search(b) ==
  /\ turn[b].pc = "frozen"
  /\ Reads(b, [turn[b] EXCEPT !.pc = "found", !.hits = Searchable(b, turn[b].gen, turn[b].rev)])

EndTurn ==
  /\ \E b \in Base : turn[b].pc # "out"
  /\ \A b \in Base : turn[b].pc \in {"out", "failed", "found"}
  /\ turn' = [b \in Base |-> NoReading]

TurnStep ==
  /\ \/ \E ws \in Workspace : StartTurn(ws)
     \/ \E b \in Base : Freeze(b) \/ Search(b)
     \/ EndTurn
  /\ UNCHANGED <<tables, stores, at, work, faults, amiss>>

-------------------------------------------------------------------------------
(* Crashes and time.                                                       *)

\* Everything but the three stores is gone; the lease stays behind.
Crash(w) ==
  /\ at[w] # "idle"
  /\ faults < MaxFaults
  /\ faults' = faults + 1
  /\ Ends(w)
  /\ amiss' = amiss \cup {mark \in {"torn"} : at[w] \in {"hide_commit", "show_remember", "show_commit"}}
  /\ UNCHANGED <<tables, stores, turn>>

\* Nobody renews a lease: it expires under a slow command too.
LeaseExpires ==
  /\ lease.live
  /\ lease' = [lease EXCEPT !.live = FALSE]
  /\ UNCHANGED <<connection, bases, bindings, sources, versions, ops, known, stores, at, work,
                 faults, amiss, turn>>

AdminStep == Administer /\ UNCHANGED <<stores, at, work, faults, amiss, turn>>

Start(w) ==
  \/ \E s \in Source : \/ \E c \in Content, replace \in BOOLEAN : StartAdd(w, s, c, replace)
                       \/ StartDeactivate(w, s)
                       \/ StartReactivate(w, s)
                       \/ StartDelete(w, s)
  \/ \E o \in DOMAIN ops : Retry(w, o)
  \/ StartReconcile(w)

Step(w) ==
  \/ Expire(w) \/ List(w) \/ CheckLease(w) \/ TakeOver(w) \/ GiveBack(w) \/ RetryNext(w) \/ ResumeIndex(w) \/ ResumeCheck(w)
  \/ TakeLease(w) \/ DropLease(w) \/ Receive(w) \/ StoreRaw(w) \/ Parse(w) \/ AddVersion(w)
  \/ Embed(w) \/ BeginIndexing(w) \/ CloseReplaced(w) \/ WriteIndex(w) \/ RememberIndex(w)
  \/ Validate(w) \/ Activate(w) \/ Repoint(w) \/ Finish(w) \/ ProviderFails(w) \/ IndexFails(w)
  \/ CloseHidden(w) \/ CommitHidden(w) \/ PurgeObjects(w) \/ EndDelete(w)
  \/ CopyShown(w) \/ RememberShown(w) \/ CommitShown(w)

Next ==
  \/ \E w \in Writer : Start(w) \/ Step(w) \/ Crash(w)
  \/ LeaseExpires
  \/ AdminStep
  \/ TurnStep

Spec == Init /\ [][Next]_vars

-------------------------------------------------------------------------------
(* Properties.                                                             *)

\* Types of the tables, the stores and the locals.
TypeOK ==
  /\ CatalogTypes
  /\ index \subseteq Chunk
  /\ objects \subseteq Content
  /\ at \in [Writer -> Point]
  /\ work \in [Writer -> Work]
  /\ faults \in 0..MaxFaults
  /\ amiss \subseteq Amiss
  /\ turn \in [Base -> Reading]

\* The lease has kept commands apart, and what they had read before it was still so.
Apart == amiss \cap {"lease", "stale"} = {}

\* A turn finds in each base exactly what the revision it froze held when it froze it,
\* whatever is added, replaced, hidden or purged between, fails or crashes halfway
\* (preparation.py, index._visible).
EvidenceIsFrozen == Apart => \A b \in Base : turn[b].pc = "found" => turn[b].hits = turn[b].seen

\* The original of a source that a citation may open is in the store, although another
\* source with the same content may have been deleted (ingestion._purge_unreferenced_objects).
OriginalsKept ==
  Apart => \A s \in Source :
             sources[s].life \in Openable /\ sources[s].version # 0
               => versions[sources[s].version].content \in objects

\* A file is added, or replaced, entirely or not at all, and hidden entirely: an active source
\* shows its current version and no other, a hidden one nothing.  Between the two transactions
\* of an activation the source shows the version that is about to become current.  This holds
\* through every failure and crash of an addition, until one of the four things of amiss has
\* happened: with each of them the code breaks its promise (README, observations).
AllOrNothing ==
  amiss = {} =>
    \A s \in Source :
       LET base       == bases[BaseOf(s)]
           shown      == {key[1] : key \in {k \in Searchable(BaseOf(s), base.gen, base.rev) :
                                               versions[k[1]].src = s}}
           activating == {o \in DOMAIN ops : /\ ops[o].src = s
                                             /\ ops[o].stage = "index_validated"
                                             /\ base.rev = ops[o].next}
       IN  shown = IF activating # {} THEN {ops[o].version : o \in activating}
                   ELSE IF sources[s].life = "active" THEN {sources[s].version} \ {0} ELSE {}

\* The revision of a base never goes back (catalog.activate_revision, _activate_from_payload).
RevisionsGrow == [][Apart => \A b \in Base : bases'[b].rev >= bases[b].rev]_vars

===============================================================================
