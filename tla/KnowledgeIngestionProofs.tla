---------------------- MODULE KnowledgeIngestionProofs -----------------------
(***************************************************************************)
(* Proofs about KnowledgeIngestion, for any number of commands at once,     *)
(* each of which may fail or crash anywhere, and until the lease has failed *)
(* or a command has gone on with rows that were no longer so (Apart).  Till *)
(* then one command at most is between taking the lease and giving it back, *)
(* and it knows the base as it is: what it writes begins, and what it       *)
(* closes ends, at the next revision, which no turn has frozen yet; and an  *)
(* original is purged only when no operation can still come to show it.     *)
(* A command without the lease knows only what nobody takes back, and       *)
(* writes nothing but new operations and one stage of an old one.           *)
(***************************************************************************)
EXTENDS KnowledgeIngestion, FiniteSetTheorems, SequenceTheorems, WellFoundedInduction, TLAPS

\* Where a command has no operation of its own.
Reconciling == {"expire", "list", "take_over", "give_back", "retry"}

Busy == Point \ {"idle"}

\* Between taking the lease for its operation and giving it back.
Under == {"received", "stored", "parsed", "upsert_source", "embed", "indexing", "close", "upsert",
          "remember", "validated", "resume_check", "activate", "point", "finish", "release"}
           \cup (HidePoint \ {"hide_lease"}) \cup (ShowPoint \ {"show_lease"})

\* Under the lease, before the command has committed the next revision.
Preparing == {"stored", "parsed", "upsert_source", "embed", "indexing", "close", "upsert", "remember",
              "validated", "hide_close", "hide_commit", "show_copy", "show_remember", "show_commit"}

\* Where the command has a version, and where its operation is marked as indexing.
HasVersion == {"embed", "indexing", "close", "upsert", "remember", "validated", "activate", "point",
               "resume_index", "resume_lease", "resume_check"}

Marked == {"close", "upsert", "remember", "validated"}

HalfDone == {"indexing", "index_validated"}

\* An operation that has a version keeps it.
Settled == {"indexing", "index_validated", "active"}

-------------------------------------------------------------------------------
(* What a command knows: p is its point, m its locals, the rest are the    *)
(* tables and stores.                                                      *)

\* A command at a point is of the kind that gets there, and has an operation at such a stage.
Kinds(p, m, rows) ==
  /\ p \in Reconciling => m.kind = "reconcile"
  /\ p \in {"take_over", "give_back", "retry"} => m.todo # {}
  /\ m.todo \subseteq DOMAIN rows /\ (m.todo # {} => m.kind = "reconcile")
  /\ \A o \in m.todo : rows[o].stage # "unknown"
  /\ p = "idle" => m.todo = {}
  /\ p \in Busy \ Reconciling => m.op \in DOMAIN rows /\ rows[m.op].src = m.src
  /\ p \in HidePoint => m.kind \in {"deactivate", "delete"}
  /\ p \in {"purge", "deleted"} => m.kind = "delete"
  /\ p \in ShowPoint => m.kind = "reactivate"
  /\ p \in HidePoint \cup ShowPoint => rows[m.op].stage = "unknown"
  /\ p \in AddPoint \cup ActivatePoint => m.kind \in {"add", "reconcile"}
  /\ p \in {"received", "stored", "parsed", "upsert_source", "embed", "indexing"} =>
       rows[m.op].stage \notin Settled
  /\ p \in Marked => rows[m.op].stage \in HalfDone
  /\ p \in {"resume_index", "resume_lease"} =>
       rows[m.op].stage \in Settled /\ rows[m.op].version = m.key[1]
  /\ p \in {"hide_close", "hide_commit", "purge"} =>
       \A o \in DOMAIN rows : rows[o].stage \notin HalfDone

\* What it has read of its base and of its source is still so, once it has the lease.
Current(p, m, base, source) ==
  /\ p \in Preparing => m.rev = base.rev
  /\ p \in {"indexing", "close", "upsert", "remember", "validated"} => m.next = base.rev + 1
  /\ p = "activate" => base.rev <= m.next
  /\ p \in {"received", "stored", "parsed", "upsert_source", "show_copy", "show_remember", "show_commit"} =>
       m.old = source
  /\ p \in ShowPoint => m.old.life \in Openable
  /\ p = "hide_lease" /\ m.kind = "deactivate" => m.old.life \in Openable
  /\ p \in HidePoint \ {"hide_lease"} /\ m.kind = "deactivate" => source.life \in Openable

\* The version it adds is of its source, and under the lease the original is stored.
Stored(p, m, rows, stock) ==
  /\ p \in {"parsed", "upsert_source"} => m.content \in stock
  /\ p \in HasVersion => m.key[1] \in DOMAIN rows /\ rows[m.key[1]].src = m.src
  /\ p \in HasVersion \ {"resume_index", "resume_lease"} => rows[m.key[1]].content \in stock
  /\ p = "show_remember" => m.key[1] \in DOMAIN rows

OfVersion(chunks, v) == {c \in chunks : c.key[1] = v}

\* Until it has written the chunk of its version there is none.
Fresh(p, m, chunks) ==
  p \in {"embed", "indexing", "close", "upsert"} => m.key[2] = 0 /\ OfVersion(chunks, m.key[1]) = {}

Own(w) ==
  /\ Kinds(at[w], work[w], ops)
  /\ Current(at[w], work[w], bases[BaseOf(work[w].src)], sources[work[w].src])
  /\ Stored(at[w], work[w], versions, objects)
  /\ Fresh(at[w], work[w], index)

\* Two commands are not both under the lease, and one that nobody retries has its operation alone.
Excluded(v, w) ==
  /\ at[v] \in Under => at[w] \notin Under
  /\ at[v] \in Busy \ Reconciling /\ at[w] \in Busy \ Reconciling /\ work[v].op = work[w].op =>
       ops[work[v].op].stage # "unknown"

AloneInv == \A v, w \in Writer : v # w => Excluded(v, w)

-------------------------------------------------------------------------------
(* What the tables and stores say of each other.                           *)

\* An operation that is half done names a version of its source, with its original.
RowsSound(rows, vs, stock) ==
  \A o \in DOMAIN rows : rows[o].stage \in HalfDone =>
    /\ rows[o].version \in DOMAIN vs
    /\ vs[rows[o].version].src = rows[o].src
    /\ vs[rows[o].version].content \in stock

\* A source names a version of its own.
SourcesSound(rows, vs) ==
  \A s \in Source :
    /\ rows[s].version # 0 => rows[s].version \in DOMAIN vs /\ vs[rows[s].version].src = s
    /\ rows[s].life = "none" => rows[s].version = 0

\* Chunks are of versions, one of a key, and the copies of a version are numbered.
IndexSound(chunks, vs) ==
  /\ IsFiniteSet(chunks)
  /\ \A c \in chunks : /\ c.key[1] \in DOMAIN vs
                       /\ c.key[2] < Cardinality(OfVersion(chunks, c.key[1]))
  /\ \A c, d \in chunks : c.key = d.key => c = d

KnownSound(pairs, vs) == \A k \in pairs : k[2][1] \in DOMAIN vs

TablesInv ==
  /\ RowsSound(ops, versions, objects)
  /\ SourcesSound(sources, versions)
  /\ IndexSound(index, versions)
  /\ KnownSound(known, versions)

\* What a turn has frozen is as it was, whatever is written for later revisions.
FrozenInv ==
  \A b \in Base :
    /\ turn[b].pc \in {"frozen", "found"} => turn[b].rev <= bases[b].rev
    /\ turn[b].pc = "frozen" => turn[b].seen = Searchable(b, turn[b].gen, turn[b].rev)
    /\ turn[b].pc = "found" => turn[b].hits = turn[b].seen

\* Types of everything but the history variable.
Shapes ==
  /\ CatalogTypes
  /\ index \subseteq Chunk
  /\ objects \subseteq Content
  /\ at \in [Writer -> Point]
  /\ work \in [Writer -> Work]
  /\ faults \in 0..MaxFaults
  /\ turn \in [Base -> Reading]

\* The originals that a citation may open are stored.
OriginalsThere ==
  \A s \in Source : sources[s].life \in Openable /\ sources[s].version # 0
                      => versions[sources[s].version].content \in objects

OwnInv == \A w \in Writer : Own(w)

IInv == Shapes /\ OwnInv /\ AloneInv /\ TablesInv /\ FrozenInv /\ OriginalsThere

-------------------------------------------------------------------------------
(* Constants, and the first of a set of operations.                        *)

\* The minimum that First chooses exists, since the natural numbers are well founded.
LEMMA FirstIsThere ==
  ASSUME NEW S \in SUBSET Nat, S # {}
  PROVE  First(S) \in S
<1>1. IsWellFoundedOn(OpToRel(<, Nat), Nat)
  BY NatLessThanWellFounded
<1>2. PICK x \in S : \A y \in S : ~(<<y, x>> \in OpToRel(<, Nat))
  <2>1. S \subseteq Nat /\ S # {}
    OBVIOUS
  <2> QED
    BY <1>1, <2>1, WFMin
<1>3. \A y \in S : x <= y
  <2> SUFFICES ASSUME NEW y \in S PROVE x <= y
    OBVIOUS
  <2>1. x \in Nat /\ y \in Nat
    OBVIOUS
  <2>2. ~(y < x)
    BY <1>2, <2>1 DEF OpToRel
  <2> QED
    BY <2>1, <2>2
<1> QED
  BY <1>3 DEF First

\* An idle writer's locals have their types; there are sources and contents to choose from.
LEMMA NoWorkTyped == NoWork \in Work /\ NoWork.todo = {} /\ NoWork.kind = "add"
<1>1. Source # {} /\ Content # {}
  <2>1. PICK b : b \in Base
    BY CatalogAssumption
  <2>2. PICK n : n \in Name
    BY CatalogAssumption
  <2>3. <<b, n>> \in Source
    BY <2>1, <2>2 DEF Source
  <2> QED
    BY <2>3, CatalogAssumption
<1>2. (CHOOSE s \in Source : TRUE) \in Source /\ (CHOOSE c \in Content : TRUE) \in Content
  BY <1>1
<1>3. 0 \in 0..MaxOps /\ 0 \in 0..MaxVersions
  BY CatalogAssumption
<1>4. [life |-> "none", version |-> 0] \in SourceRow
  BY <1>3 DEF SourceRow, Lifecycle
<1>5. <<0, 0>> \in (0..MaxVersions) \X Nat
  BY <1>3
<1> QED
  BY <1>2, <1>3, <1>4, <1>5 DEF NoWork, Work, Kind

\* What Shapes says of single rows.
LEMMA RowsTyped ==
  ASSUME Shapes
  PROVE  /\ \A b \in Base : bases[b].gen \in Nat /\ bases[b].rev \in Nat
         /\ \A s \in Source : BaseOf(s) \in Base /\ sources[s] \in SourceRow
         /\ DOMAIN ops = 1..Len(ops) /\ Len(ops) \in Nat /\ DOMAIN ops \subseteq Op
         /\ DOMAIN versions = 1..Len(versions) /\ Len(versions) \in Nat
         /\ DOMAIN versions \subseteq 1..MaxVersions
         /\ \A o \in DOMAIN ops : ops[o] \in OpRow
         /\ \A v \in DOMAIN versions : versions[v].src \in Source /\ versions[v].content \in Content
<1> USE CatalogAssumption
<1>1. \A b \in Base : bases[b].gen \in Nat /\ bases[b].rev \in Nat
  BY DEF Shapes, CatalogTypes, BaseRow
<1>2. \A s \in Source : BaseOf(s) \in Base /\ sources[s] \in SourceRow
  BY DEF Shapes, CatalogTypes, Source, BaseOf
<1>3. /\ DOMAIN ops = 1..Len(ops) /\ Len(ops) \in Nat /\ DOMAIN ops \subseteq Op
      /\ \A o \in DOMAIN ops : ops[o] \in OpRow
  BY DEF Shapes, CatalogTypes, Op
<1>4. /\ DOMAIN versions = 1..Len(versions) /\ Len(versions) \in Nat
      /\ DOMAIN versions \subseteq 1..MaxVersions
  BY DEF Shapes, CatalogTypes
<1>5. ASSUME NEW v \in DOMAIN versions
      PROVE  versions[v].src \in Source /\ versions[v].content \in Content
  <2>1. versions \in Seq([src : Source, content : Content])
    BY DEF Shapes, CatalogTypes
  <2>2. versions[v] \in [src : Source, content : Content]
    BY <2>1, <1>4, ElementOfSeq
  <2> QED
    BY <2>2
<1> QED
  BY <1>1, <1>2, <1>3, <1>4, <1>5

-------------------------------------------------------------------------------
(* The index: closing keeps the chunks apart and their count, a new chunk  *)
(* takes the next number.                                                  *)

Shut(c, gen, keys, rev) ==
  IF c.gen = gen /\ c.key \in keys /\ (c.to = 0 \/ c.to > rev) THEN [c EXCEPT !.to = rev] ELSE c

ShutAll(chunks, gen, keys, rev) == {Shut(c, gen, keys, rev) : c \in chunks}

\* Closing a chunk changes its end only.
LEMMA ShutChunk ==
  ASSUME NEW c \in Chunk, NEW gen, NEW keys, NEW rev \in Nat
  PROVE  LET d == Shut(c, gen, keys, rev)
         IN  d \in Chunk /\ d.key = c.key /\ d.gen = c.gen /\ d.from = c.from
<1>1. [c EXCEPT !.to = rev] \in Chunk /\ [c EXCEPT !.to = rev].key = c.key
  BY DEF Chunk
<1>2. [c EXCEPT !.to = rev].gen = c.gen /\ [c EXCEPT !.to = rev].from = c.from
  BY DEF Chunk
<1> QED
  BY <1>1, <1>2 DEF Shut

\* Closing chunks leaves the index sound, and no version gains a chunk.
LEMMA ClosedIndex ==
  ASSUME NEW I, I \subseteq Chunk, NEW vs, IndexSound(I, vs),
         NEW gen, NEW keys, NEW rev \in Nat,
         NEW J, J = ShutAll(I, gen, keys, rev)
  PROVE  /\ J \subseteq Chunk /\ IndexSound(J, vs)
         /\ \A v : OfVersion(I, v) = {} => OfVersion(J, v) = {}
<1> DEFINE f(c) == Shut(c, gen, keys, rev)
<1>0. J = {f(c) : c \in I}
  BY DEF ShutAll
<1>1. \A c \in I : f(c) \in Chunk /\ f(c).key = c.key
  BY ShutChunk
<1> HIDE DEF f
<1>2. J \subseteq Chunk
  BY <1>0, <1>1
<1>3. \A c, d \in I : f(c).key = f(d).key => c = d
  BY <1>1 DEF IndexSound
<1>4. \A c, d \in J : c.key = d.key => c = d
  BY <1>0, <1>3
<1>5. ASSUME NEW v
      PROVE  /\ IsFiniteSet(OfVersion(J, v))
             /\ Cardinality(OfVersion(J, v)) = Cardinality(OfVersion(I, v))
  <2> DEFINE S == OfVersion(I, v)
             T == OfVersion(J, v)
             g == [c \in S |-> f(c)]
  <2>1. S \subseteq I /\ IsFiniteSet(S)
    BY FS_Subset DEF OfVersion, IndexSound
  <2>2. \A c \in S : g[c] = f(c) /\ f(c) \in T
    BY <1>0, <1>1 DEF OfVersion
  <2>3. \A d \in T : \E c \in S : f(c) = d
    BY <1>0, <1>1 DEF OfVersion
  <2>4. \A c, d \in S : g[c] = g[d] => c = d
    BY <1>3, <2>1, <2>2
  <2>5. g \in [S -> T]
    BY <2>2
  <2>6. g \in Bijection(S, T)
    <3> HIDE DEF g, S, T
    <3> QED
      BY <2>2, <2>3, <2>4, <2>5 DEF Bijection, Injection, Surjection, IsInjective
  <2>7. ExistsBijection(S, T)
    BY <2>6 DEF ExistsBijection
  <2> QED
    BY <2>1, <2>7, FS_Bijection
<1>6. IsFiniteSet(J)
  <2> DEFINE g == [c \in I |-> f(c)]
  <2>1. \A c \in I : g[c] = f(c) /\ f(c) \in J
    BY <1>0
  <2>2. g \in [I -> J] /\ \A d \in J : \E c \in I : g[c] = d
    BY <1>0
  <2>3. g \in Surjection(I, J)
    BY <2>2 DEF Surjection
  <2>4. IsFiniteSet(I)
    BY DEF IndexSound
  <2> QED
    BY <2>3, <2>4, FS_Surjection
<1>7. \A d \in J : d.key[1] \in DOMAIN vs /\ d.key[2] < Cardinality(OfVersion(J, d.key[1]))
  <2> SUFFICES ASSUME NEW c \in I
               PROVE  f(c).key[1] \in DOMAIN vs /\ f(c).key[2] < Cardinality(OfVersion(J, f(c).key[1]))
    BY <1>0
  <2>1. c.key[1] \in DOMAIN vs /\ c.key[2] < Cardinality(OfVersion(I, c.key[1]))
    BY DEF IndexSound
  <2>2. Cardinality(OfVersion(J, c.key[1])) = Cardinality(OfVersion(I, c.key[1]))
    BY <1>5
  <2> QED
    BY <1>1, <2>1, <2>2
<1>8. ASSUME NEW v, OfVersion(I, v) = {} PROVE OfVersion(J, v) = {}
  BY <1>0, <1>1, <1>8 DEF OfVersion
<1>9. IndexSound(J, vs)
  BY <1>4, <1>6, <1>7 DEF IndexSound
<1> QED
  BY <1>2, <1>8, <1>9

\* A new chunk with the next number of its version has no namesake, and leaves the index sound.
LEMMA GrownIndex ==
  ASSUME NEW I, I \subseteq Chunk, NEW vs, IndexSound(I, vs),
         NEW chunk \in Chunk, chunk.key[1] \in DOMAIN vs,
         chunk.key[2] = Cardinality(OfVersion(I, chunk.key[1]))
  PROVE  /\ {c \in I : c.key # chunk.key} = I
         /\ IndexSound(I \cup {chunk}, vs)
<1> DEFINE J == I \cup {chunk}
<1>0. IsFiniteSet(I) /\ \A c \in I : c.key[1] \in Nat /\ c.key[2] \in Nat
  BY DEF IndexSound, Chunk, Key
<1>1. \A c \in I : c.key # chunk.key
  <2> SUFFICES ASSUME NEW c \in I, c.key = chunk.key PROVE FALSE
    OBVIOUS
  <2>1. c.key[2] < Cardinality(OfVersion(I, c.key[1]))
    BY DEF IndexSound
  <2> QED
    BY <1>0, <2>1
<1>2. chunk \notin I
  BY <1>1
<1>3. IsFiniteSet(J)
  BY <1>0, FS_AddElement
<1>4. \A c, d \in J : c.key = d.key => c = d
  BY <1>1 DEF IndexSound
<1>5. ASSUME NEW c \in J
      PROVE  c.key[1] \in DOMAIN vs /\ c.key[2] < Cardinality(OfVersion(J, c.key[1]))
  <2> DEFINE S == OfVersion(I, c.key[1])
  <2>1. S \subseteq I /\ IsFiniteSet(S) /\ Cardinality(S) \in Nat
    BY <1>0, FS_Subset, FS_CardinalityType DEF OfVersion
  <2>2. CASE c.key[1] = chunk.key[1]
    <3>1. OfVersion(J, c.key[1]) = S \cup {chunk}
      BY <2>2 DEF OfVersion
    <3>2. chunk \notin S
      BY <1>2 DEF OfVersion
    <3>3. Cardinality(OfVersion(J, c.key[1])) = Cardinality(S) + 1
      BY <2>1, <3>1, <3>2, FS_AddElement
    <3>4. CASE c = chunk
      BY <2>1, <2>2, <3>3, <3>4
    <3>5. CASE c \in I
      <4>1. c.key[1] \in DOMAIN vs /\ c.key[2] < Cardinality(S) /\ c.key[2] \in Nat
        BY <1>0, <3>5 DEF IndexSound
      <4> QED
        BY <2>1, <3>3, <4>1
    <3> QED
      BY <3>4, <3>5
  <2>3. CASE c.key[1] # chunk.key[1]
    <3>1. OfVersion(J, c.key[1]) = S /\ c \in I
      BY <2>3 DEF OfVersion
    <3> QED
      BY <3>1 DEF IndexSound
  <2> QED
    BY <2>2, <2>3
<1> QED
  BY <1>1, <1>3, <1>4, <1>5 DEF IndexSound

-------------------------------------------------------------------------------
(* What a revision shows is not changed by what is closed and written for  *)
(* later ones.                                                             *)

Shows(I, vs, b, gen, rev) ==
  {c.key : c \in {d \in I : d.gen = gen /\ BaseOf(vs[d.key[1]].src) = b /\ Visible(d, rev)}}

\* What a search finds, as a function of the index and the versions.
LEMMA ShowsSearchable ==
  ASSUME NEW b, NEW gen, NEW rev
  PROVE  Searchable(b, gen, rev) = Shows(index, versions, b, gen, rev)
BY DEF Searchable, Shows, SourceOf

\* A chunk closed at a revision shows at earlier ones what it showed.
LEMMA ShutVisible ==
  ASSUME NEW c \in Chunk, NEW gen, NEW keys, NEW rev \in Nat, NEW next \in Nat, rev < next
  PROVE  Visible(Shut(c, gen, keys, next), rev) <=> Visible(c, rev)
<1>1. c.to \in Nat /\ c.from \in Nat
  BY DEF Chunk
<1>2. CASE c.gen = gen /\ c.key \in keys /\ (c.to = 0 \/ c.to > next)
  <2>1. Shut(c, gen, keys, next).to = next /\ Shut(c, gen, keys, next).from = c.from
    BY <1>2 DEF Shut, Chunk
  <2> QED
    BY <1>1, <1>2, <2>1 DEF Visible
<1>3. CASE ~(c.gen = gen /\ c.key \in keys /\ (c.to = 0 \/ c.to > next))
  BY <1>3 DEF Shut
<1> QED
  BY <1>2, <1>3

\* Closing chunks of one source changes no earlier revision of its base, and nothing of others.
LEMMA ShowsClosed ==
  ASSUME NEW I, I \subseteq Chunk, NEW vs, NEW g, NEW keys, NEW next \in Nat, NEW s,
         \A k \in keys : vs[k[1]].src = s,
         NEW b, NEW gen, NEW rev \in Nat, BaseOf(s) = b => rev < next
  PROVE  Shows(ShutAll(I, g, keys, next), vs, b, gen, rev) = Shows(I, vs, b, gen, rev)
<1> DEFINE f(c) == Shut(c, g, keys, next)
           Fits(d) == d.gen = gen /\ BaseOf(vs[d.key[1]].src) = b /\ Visible(d, rev)
<1>1. \A c \in I : f(c).key = c.key /\ f(c).gen = c.gen
  BY ShutChunk
<1>2. ASSUME NEW c \in I PROVE Fits(f(c)) <=> Fits(c)
  <2>1. CASE BaseOf(s) = b
    <3>1. Visible(f(c), rev) <=> Visible(c, rev)
      BY <2>1, ShutVisible
    <3> HIDE DEF f
    <3> QED
      BY <1>1, <3>1
  <2>2. CASE BaseOf(s) # b
    <3>1. CASE c.key \in keys
      <4>1. vs[c.key[1]].src = s
        BY <3>1
      <4> HIDE DEF f
      <4> QED
        BY <1>1, <2>2, <4>1
    <3>2. CASE c.key \notin keys
      BY <3>2 DEF Shut
    <3> QED
      BY <3>1, <3>2
  <2> QED
    BY <2>1, <2>2
<1> HIDE DEF f, Fits
<1>3. {c.key : c \in {d \in {f(e) : e \in I} : Fits(d)}} = {c.key : c \in {d \in I : Fits(d)}}
  BY <1>1, <1>2
<1> QED
  BY <1>3 DEF Shows, ShutAll, f, Fits

\* A chunk that begins at a revision changes no earlier one.
LEMMA ShowsGrown ==
  ASSUME NEW I, I \subseteq Chunk, NEW vs, NEW chunk \in Chunk,
         NEW b, NEW gen, NEW rev \in Nat,
         BaseOf(vs[chunk.key[1]].src) = b => rev < chunk.from
  PROVE  Shows(I \cup {chunk}, vs, b, gen, rev) = Shows(I, vs, b, gen, rev)
<1>1. chunk.from \in Nat
  BY DEF Chunk
<1>2. ~(BaseOf(vs[chunk.key[1]].src) = b /\ Visible(chunk, rev))
  BY <1>1 DEF Visible
<1> QED
  BY <1>2 DEF Shows

\* New versions change nothing that is shown.
LEMMA ShowsWider ==
  ASSUME NEW I, NEW vs, NEW more, \A c \in I : more[c.key[1]] = vs[c.key[1]],
         NEW b, NEW gen, NEW rev
  PROVE  Shows(I, more, b, gen, rev) = Shows(I, vs, b, gen, rev)
BY DEF Shows

-------------------------------------------------------------------------------
(* What a step of a writer does to the rest.                               *)

\* It closes chunks of its source, or writes one, at the next revision.
IndexStep(w) ==
  LET next == bases[BaseOf(work[w].src)].rev + 1 IN
  \/ index' = index
  \/ \E gen \in Nat, keys \in SUBSET Key :
       /\ \A k \in keys : k[1] \in DOMAIN versions /\ versions[k[1]].src = work[w].src
       /\ index' = ShutAll(index, gen, keys, next)
  \/ \E chunk \in Chunk :
       /\ chunk.key[1] \in DOMAIN versions /\ versions[chunk.key[1]].src = work[w].src
       /\ chunk.key[2] = Cardinality(OfVersion(index, chunk.key[1]))
       /\ chunk.from = next
       /\ index' = {c \in index : c.key # chunk.key} \cup {chunk}

OthersStay(w) ==
  /\ at' \in [Writer -> Point] /\ work' \in [Writer -> Work]
  /\ \A v \in Writer \ {w} : at'[v] = at[v] /\ work'[v] = work[v]

\* Under the lease it writes its own row; without it, one that was indexing.
OpsStep(w) ==
  /\ ops' \in Seq(OpRow) /\ Len(ops') <= MaxOps
  /\ DOMAIN ops \subseteq DOMAIN ops'
  /\ \A o \in DOMAIN ops' \ DOMAIN ops : ops'[o].stage = "unknown"
  /\ \A o \in DOMAIN ops :
       /\ ops'[o].src = ops[o].src
       /\ ops[o].stage # "unknown" => ops'[o].stage # "unknown"
       /\ ops[o].stage \in Settled => ops'[o].stage \in Settled /\ ops'[o].version = ops[o].version
       /\ \/ ops'[o] = ops[o]
          \/ at[w] \in Under /\ o = work[w].op
          \/ at[w] \notin Under /\ ops[o].stage = "indexing" /\ ops'[o].stage = "index_validated"

VersionsStep ==
  /\ versions' \in Seq([src : Source, content : Content]) /\ Len(versions') <= MaxVersions
  /\ DOMAIN versions \subseteq DOMAIN versions'
  /\ \A v \in DOMAIN versions : versions'[v] = versions[v]

SourcesStep(w) ==
  /\ sources' \in [Source -> SourceRow]
  /\ at[w] \notin Under => sources' = sources

BasesStep(w) ==
  /\ bases' \in [Base -> BaseRow]
  /\ \A b \in Base : bases'[b].rev >= bases[b].rev
  /\ at[w] \notin Under => bases' = bases

ObjectsStep(w) ==
  /\ objects' \subseteq Content
  /\ at[w] # "purge" => objects \subseteq objects'

LeaseStep == lease' \in [op : 0..MaxOps, live : BOOLEAN]

Effects(w) ==
  /\ OthersStay(w)
  /\ OpsStep(w) /\ VersionsStep /\ SourcesStep(w) /\ BasesStep(w) /\ ObjectsStep(w) /\ LeaseStep
  /\ known' \subseteq Nat \X Key
  /\ at[w] \in Under => IndexStep(w)
  /\ at[w] \notin Under => index' = index
  /\ faults' \in 0..MaxFaults
  /\ UNCHANGED <<connection, bindings, turn>>

\* A command takes the lease only when nobody else is under it, and an operation only if it is
\* its own, new, or has been received.
Disciplined(w) ==
  /\ at'[w] \in Under => at[w] \in Under \/ \A v \in Writer \ {w} : at[v] \notin Under
  /\ at'[w] \in Busy \ Reconciling =>
       \/ at[w] \in Busy \ Reconciling /\ work'[w].op = work[w].op
       \/ work'[w].op \notin DOMAIN ops
       \/ ops[work'[w].op].stage # "unknown"

\* What a command under the lease knows stays true, since the step is one without it.
LEMMA HolderKeeps ==
  ASSUME IInv, NEW w \in Writer, Effects(w), NEW v \in Writer, v # w, at[v] \in Under
  PROVE  Own(v)'
<1>0. at'[v] = at[v] /\ work'[v] = work[v] /\ work[v].src \in Source
  BY DEF Effects, OthersStay, IInv, Shapes, Work
<1>1. /\ Kinds(at[v], work[v], ops)
      /\ Current(at[v], work[v], bases[BaseOf(work[v].src)], sources[work[v].src])
      /\ Stored(at[v], work[v], versions, objects)
      /\ Fresh(at[v], work[v], index)
  BY DEF IInv, OwnInv, Own
<1>2. at[w] \notin Under
  BY DEF IInv, AloneInv, Excluded
<1>3. /\ at[v] \in Busy \ Reconciling
      /\ at[v] \notin {"resume_index", "resume_lease", "idle"}
  BY DEF Under, Busy, Point, AddPoint, ActivatePoint, HidePoint, ShowPoint, Reconciling
<1>4. bases' = bases /\ sources' = sources /\ index' = index
  BY <1>2 DEF Effects, SourcesStep, BasesStep
<1>5. objects \subseteq objects'
  BY <1>2 DEF Effects, ObjectsStep, Under, HidePoint
<1>6. /\ DOMAIN ops \subseteq DOMAIN ops'
      /\ \A o \in DOMAIN ops' \ DOMAIN ops : ops'[o].stage = "unknown"
      /\ \A o \in DOMAIN ops :
           /\ ops'[o].src = ops[o].src
           /\ ops'[o] = ops[o] \/ (ops[o].stage = "indexing" /\ ops'[o].stage = "index_validated")
  BY <1>2 DEF Effects, OpsStep
<1>7. Kinds(at[v], work[v], ops')
  <2>1. work[v].op \in DOMAIN ops /\ work[v].op \in DOMAIN ops'
    BY <1>1, <1>3, <1>6 DEF Kinds
  <2>2. /\ work[v].todo \subseteq DOMAIN ops'
        /\ \A o \in work[v].todo : ops'[o].stage # "unknown"
    BY <1>1, <1>6 DEF Kinds
  <2>3. ops[work[v].op].stage \notin Settled => ops'[work[v].op].stage \notin Settled
    BY <1>6, <2>1 DEF Settled
  <2>4. ops[work[v].op].stage \in HalfDone => ops'[work[v].op].stage \in HalfDone
    BY <1>6, <2>1 DEF HalfDone
  <2>5. ops[work[v].op].stage = "unknown" => ops'[work[v].op].stage = "unknown"
    BY <1>6, <2>1
  <2>6. (\A o \in DOMAIN ops : ops[o].stage \notin HalfDone)
          => \A o \in DOMAIN ops' : ops'[o].stage \notin HalfDone
    BY <1>6 DEF HalfDone
  <2> QED
    BY <1>1, <1>3, <1>6, <2>1, <2>2, <2>3, <2>4, <2>5, <2>6 DEF Kinds
<1>8. Stored(at[v], work[v], versions', objects')
  <2>1. \A u \in DOMAIN versions : u \in DOMAIN versions' /\ versions'[u] = versions[u]
    BY DEF Effects, VersionsStep
  <2> QED
    BY <1>1, <1>5, <2>1 DEF Stored
<1> QED
  BY <1>0, <1>1, <1>4, <1>7, <1>8 DEF Own

\* What a command knows without the lease is in its locals, or in rows that nobody takes back.
LEMMA OtherKeeps ==
  ASSUME IInv, NEW w \in Writer, Effects(w), NEW v \in Writer, v # w, at[v] \notin Under
  PROVE  Own(v)'
<1>0. /\ at'[v] = at[v] /\ work'[v] = work[v]
      /\ at[v] \in Reconciling \cup {"idle", "add_lease", "hide_lease", "show_lease", "resume_index", "resume_lease"}
  BY DEF Effects, OthersStay, IInv, Shapes, Under, Point, AddPoint, ActivatePoint, HidePoint, ShowPoint,
         Reconciling
<1>1. /\ Kinds(at[v], work[v], ops)
      /\ Current(at[v], work[v], bases[BaseOf(work[v].src)], sources[work[v].src])
      /\ Stored(at[v], work[v], versions, objects)
  BY DEF IInv, OwnInv, Own
<1>2. /\ DOMAIN ops \subseteq DOMAIN ops'
      /\ \A o \in DOMAIN ops :
           /\ ops'[o].src = ops[o].src
           /\ ops[o].stage # "unknown" => ops'[o].stage # "unknown"
           /\ ops[o].stage \in Settled => ops'[o].stage \in Settled /\ ops'[o].version = ops[o].version
  BY DEF Effects, OpsStep
<1>3. /\ work[v].todo \subseteq DOMAIN ops'
      /\ \A o \in work[v].todo : ops'[o].stage # "unknown"
  BY <1>1, <1>2 DEF Kinds
<1>4. CASE at[v] \in Reconciling \cup {"idle"}
  <2>1. /\ at[v] \notin Busy \ Reconciling
        /\ at[v] \notin Preparing \cup HasVersion \cup ShowPoint \cup HidePoint
    BY <1>4 DEF Reconciling, Busy, Preparing, HasVersion, HidePoint, ShowPoint
  <2>2. Kinds(at[v], work[v], ops')
    BY <1>1, <1>3, <1>4, <2>1 DEF Kinds, Reconciling, AddPoint, ActivatePoint, Marked
  <2> QED
    BY <1>0, <1>4, <2>1, <2>2 DEF Own, Current, Stored, Fresh, Reconciling
<1>5. CASE at[v] \in {"add_lease", "hide_lease", "show_lease", "resume_index", "resume_lease"}
  <2>1. at[v] \in Busy \ Reconciling /\ work[v].op \in DOMAIN ops
    BY <1>1, <1>5 DEF Kinds, Busy, Point, AddPoint, ActivatePoint, HidePoint, ShowPoint, Reconciling
  <2>2. ASSUME at[v] \in {"hide_lease", "show_lease"}
        PROVE  ops'[work[v].op] = ops[work[v].op]
    <3>1. ops[work[v].op].stage = "unknown"
      BY <1>1, <2>2 DEF Kinds, HidePoint, ShowPoint
    <3>2. at[w] \in Under => at[w] \in Busy \ Reconciling
      BY DEF Under, Busy, Point, AddPoint, ActivatePoint, HidePoint, ShowPoint, Reconciling
    <3>3. ~(at[w] \in Under /\ work[w].op = work[v].op)
      BY <2>1, <3>1, <3>2 DEF IInv, AloneInv, Excluded
    <3> QED
      BY <2>1, <3>1, <3>3 DEF Effects, OpsStep
  <2>3. Kinds(at[v], work[v], ops')
    <3>1. at[v] \notin Marked \cup Reconciling \cup {"idle", "received", "stored", "parsed", "upsert_source",
                                                     "embed", "indexing", "hide_close", "hide_commit", "purge"}
      BY <1>5 DEF Marked, Reconciling
    <3>2. at[v] \in HidePoint \cup ShowPoint => at[v] \in {"hide_lease", "show_lease"}
      BY <1>5 DEF HidePoint, ShowPoint
    <3> QED
      BY <1>1, <1>2, <1>3, <2>1, <2>2, <3>1, <3>2 DEF Kinds
  <2>4. Current(at[v], work[v], bases'[BaseOf(work[v].src)], sources'[work[v].src])
    BY <1>1, <1>5 DEF Current, Preparing, HidePoint, ShowPoint
  <2>5. Stored(at[v], work[v], versions', objects') /\ Fresh(at[v], work[v], index')
    <3>1. \A u \in DOMAIN versions : u \in DOMAIN versions' /\ versions'[u] = versions[u]
      BY DEF Effects, VersionsStep
    <3> QED
      BY <1>1, <1>5, <3>1 DEF Stored, Fresh, HasVersion
  <2> QED
    BY <1>0, <2>3, <2>4, <2>5 DEF Own
<1> QED
  BY <1>0, <1>4, <1>5

\* The writer and another one stay apart.
LEMMA StayApart ==
  ASSUME IInv, NEW w \in Writer, Effects(w), Disciplined(w), NEW v \in Writer, v # w
  PROVE  Excluded(v, w)' /\ Excluded(w, v)'
<1>0. at'[v] = at[v] /\ work'[v] = work[v]
  BY DEF Effects, OthersStay
<1>1. Excluded(v, w) /\ Excluded(w, v)
  BY DEF IInv, AloneInv
<1>2. ~(at'[v] \in Under /\ at'[w] \in Under)
  BY <1>0, <1>1 DEF Excluded, Disciplined
<1>3. ASSUME at'[v] \in Busy \ Reconciling, at'[w] \in Busy \ Reconciling, work'[v].op = work'[w].op
      PROVE  ops'[work'[v].op].stage # "unknown"
  <2>1. work[v].op \in DOMAIN ops
    BY <1>0, <1>3 DEF IInv, OwnInv, Own, Kinds
  <2>2. ops[work[v].op].stage # "unknown"
    BY <1>0, <1>1, <1>3, <2>1 DEF Excluded, Disciplined
  <2> QED
    BY <1>0, <2>1, <2>2 DEF Effects, OpsStep
<1> QED
  BY <1>2, <1>3 DEF Excluded

-------------------------------------------------------------------------------
(* One step of a writer keeps the invariant, if its effects are those.     *)

\* What is written at a revision leaves a sound index, and what earlier ones show.
LEMMA Writing ==
  ASSUME NEW I, I \subseteq Chunk, NEW vs, IndexSound(I, vs), NEW s, NEW next \in Nat,
         NEW chunk \in Chunk, chunk.key[1] \in DOMAIN vs, vs[chunk.key[1]].src = s,
         chunk.key[2] = Cardinality(OfVersion(I, chunk.key[1])), chunk.from = next,
         NEW J, J = {c \in I : c.key # chunk.key} \cup {chunk}
  PROVE  /\ J \subseteq Chunk /\ IndexSound(J, vs)
         /\ \A b \in Base, gen \in Nat, rev \in Nat :
              (BaseOf(s) = b => rev < next) => Shows(J, vs, b, gen, rev) = Shows(I, vs, b, gen, rev)
<1>1. {c \in I : c.key # chunk.key} = I /\ IndexSound(I \cup {chunk}, vs)
  BY GrownIndex
<1>2. J = I \cup {chunk}
  BY <1>1
<1>3. ASSUME NEW b \in Base, NEW gen \in Nat, NEW rev \in Nat, BaseOf(s) = b => rev < next
      PROVE  Shows(J, vs, b, gen, rev) = Shows(I, vs, b, gen, rev)
  <2>1. BaseOf(vs[chunk.key[1]].src) = b => rev < chunk.from
    BY <1>3
  <2>2. Shows(I \cup {chunk}, vs, b, gen, rev) = Shows(I, vs, b, gen, rev)
    BY <2>1, ShowsGrown, Z3
  <2> QED
    BY <1>2, <2>2
<1> QED
  BY <1>1, <1>2, <1>3

\* A step at the index leaves a sound index, which shows what it showed.
LEMMA IndexKept ==
  ASSUME IInv, NEW w \in Writer, Effects(w)
  PROVE  /\ index' \subseteq Chunk
         /\ IndexSound(index', versions')
         /\ \A b \in Base, gen \in Nat, rev \in Nat :
              rev <= bases[b].rev =>
                Shows(index', versions', b, gen, rev) = Shows(index, versions, b, gen, rev)
<1> DEFINE s == work[w].src
           next == bases[BaseOf(s)].rev + 1
           Kept == /\ index' \subseteq Chunk /\ IndexSound(index', versions)
                   /\ \A b \in Base, gen \in Nat, rev \in Nat :
                        (BaseOf(s) = b => rev < next) =>
                          Shows(index', versions, b, gen, rev) = Shows(index, versions, b, gen, rev)
<1>0. /\ index \subseteq Chunk /\ IndexSound(index, versions)
      /\ s \in Source /\ BaseOf(s) \in Base
      /\ \A b \in Base : bases[b].rev \in Nat
  BY RowsTyped DEF IInv, Shapes, TablesInv, Work
<1>1. next \in Nat
  BY <1>0
<1>2. Kept
  <2>1. CASE index' = index
    BY <1>0, <2>1
  <2>2. ASSUME NEW g \in Nat, NEW keys \in SUBSET Key,
               \A k \in keys : k[1] \in DOMAIN versions /\ versions[k[1]].src = s,
               index' = ShutAll(index, g, keys, next)
        PROVE  Kept
    <3> HIDE DEF next, s
    <3>1. \A k \in keys : versions[k[1]].src = s
      BY <2>2
    <3> QED
      <4>1. index' \subseteq Chunk /\ IndexSound(index', versions)
        BY <1>0, <1>1, <2>2, ClosedIndex
      <4>2. ASSUME NEW b \in Base, NEW gen \in Nat, NEW rev \in Nat, BaseOf(s) = b => rev < next
            PROVE  Shows(index', versions, b, gen, rev) = Shows(index, versions, b, gen, rev)
        <5>1. Shows(ShutAll(index, g, keys, next), versions, b, gen, rev) = Shows(index, versions, b, gen, rev)
          BY <1>0, <1>1, <3>1, <4>2, ShowsClosed
        <5> QED
          BY <2>2, <5>1
      <4> QED
        BY <4>1, <4>2
  <2>3. ASSUME NEW chunk \in Chunk,
               chunk.key[1] \in DOMAIN versions, versions[chunk.key[1]].src = s,
               chunk.key[2] = Cardinality(OfVersion(index, chunk.key[1])),
               chunk.from = next,
               index' = {c \in index : c.key # chunk.key} \cup {chunk}
        PROVE  Kept
    <3> HIDE DEF next, s
    <3>1. index' \subseteq Chunk /\ IndexSound(index', versions)
      BY <1>0, <1>1, <2>3, Writing
    <3>2. ASSUME NEW b \in Base, NEW gen \in Nat, NEW rev \in Nat, BaseOf(s) = b => rev < next
          PROVE  Shows(index', versions, b, gen, rev) = Shows(index, versions, b, gen, rev)
      BY <1>0, <1>1, <2>3, <3>2, Writing, Z3T(30)
    <3> QED
      BY <3>1, <3>2
  <2>4. CASE at[w] \in Under
    <3>1. IndexStep(w)
      BY <2>4 DEF Effects
    <3> QED
      BY <2>1, <2>2, <2>3, <3>1 DEF IndexStep
  <2>5. CASE at[w] \notin Under
    BY <2>1, <2>5 DEF Effects
  <2> QED
    BY <2>4, <2>5
<1>3. DOMAIN versions \subseteq DOMAIN versions' /\ \A v \in DOMAIN versions : versions'[v] = versions[v]
  BY DEF Effects, VersionsStep
<1>4. IndexSound(index', versions')
  BY <1>2, <1>3 DEF IndexSound
<1>5. ASSUME NEW b \in Base, NEW gen \in Nat, NEW rev \in Nat, rev <= bases[b].rev
      PROVE  Shows(index', versions', b, gen, rev) = Shows(index, versions, b, gen, rev)
  <2>1. \A c \in index' : versions'[c.key[1]] = versions[c.key[1]]
    BY <1>2, <1>3 DEF IndexSound
  <2>2. Shows(index', versions', b, gen, rev) = Shows(index', versions, b, gen, rev)
    BY <2>1, ShowsWider
  <2>3. BaseOf(s) = b => rev < next
    BY <1>0, <1>5
  <2>4. Shows(index', versions, b, gen, rev) = Shows(index, versions, b, gen, rev)
    BY <1>2, <2>3
  <2> QED
    BY <2>2, <2>4
<1> QED
  BY <1>2, <1>4, <1>5

SoundAfter ==
  /\ RowsSound(ops', versions', objects')
  /\ SourcesSound(sources', versions')
  /\ KnownSound(known', versions')
  /\ OriginalsThere'

\* A step with those effects, that leaves its own writer's knowledge and the tables sound, keeps
\* the invariant.
LEMMA WriterStep ==
  ASSUME IInv, NEW w \in Writer, Effects(w), Disciplined(w), SoundAfter, Own(w)'
  PROVE  IInv'
<1>1. Shapes'
  <2>1. index' \subseteq Chunk
    BY IndexKept
  <2>2. /\ connection' \in {"new", "here", "gone"} /\ bindings' \subseteq Workspace \X Base
        /\ turn' \in [Base -> Reading]
    BY DEF IInv, Shapes, CatalogTypes, Effects
  <2> QED
    BY <2>1, <2>2 DEF Shapes, CatalogTypes, Effects, OthersStay, OpsStep, VersionsStep, SourcesStep,
                      BasesStep, ObjectsStep, LeaseStep
<1>2. OwnInv'
  BY HolderKeeps, OtherKeeps DEF OwnInv
<1>3. AloneInv'
  <2> SUFFICES ASSUME NEW u \in Writer, NEW v \in Writer, u # v
               PROVE  Excluded(u, v)'
    BY DEF AloneInv
  <2>1. CASE u = w
    BY <2>1, StayApart
  <2>2. CASE v = w
    BY <2>2, StayApart
  <2>3. CASE u # w /\ v # w
    <3>1. Excluded(u, v) /\ at'[u] = at[u] /\ at'[v] = at[v] /\ work'[u] = work[u] /\ work'[v] = work[v]
      BY <2>3 DEF IInv, AloneInv, Effects, OthersStay
    <3>2. at[u] \in Busy \ Reconciling => work[u].op \in DOMAIN ops
      BY DEF IInv, OwnInv, Own, Kinds
    <3> QED
      BY <3>1, <3>2 DEF Excluded, Effects, OpsStep
  <2> QED
    BY <2>1, <2>2, <2>3
<1>5. TablesInv'
  BY IndexKept DEF TablesInv, SoundAfter
<1>6. FrozenInv'
  <2> SUFFICES ASSUME NEW b \in Base
               PROVE  /\ turn'[b].pc \in {"frozen", "found"} => turn'[b].rev <= bases'[b].rev
                      /\ turn'[b].pc = "frozen" =>
                           turn'[b].seen = Shows(index', versions', b, turn'[b].gen, turn'[b].rev)
                      /\ turn'[b].pc = "found" => turn'[b].hits = turn'[b].seen
    BY DEF FrozenInv, Searchable, Shows, SourceOf
  <2>1. turn' = turn /\ turn[b].gen \in Nat /\ turn[b].rev \in Nat
    BY DEF Effects, IInv, Shapes, Reading
  <2>2. bases[b].rev \in Nat /\ bases'[b].rev \in Nat /\ bases'[b].rev >= bases[b].rev
    BY DEF Effects, BasesStep, IInv, Shapes, CatalogTypes, BaseRow
  <2>3. turn[b].pc = "frozen" =>
          turn[b].seen = Shows(index', versions', b, turn[b].gen, turn[b].rev)
    BY <2>1, IndexKept, ShowsSearchable DEF IInv, FrozenInv
  <2> QED
    BY <2>1, <2>2, <2>3 DEF IInv, FrozenInv
<1> QED
  BY <1>1, <1>2, <1>3, <1>5, <1>6 DEF IInv, SoundAfter

-------------------------------------------------------------------------------
(* What a step leaves alone, and the writing of a stage.                   *)

\* A writer goes to a point with new locals.
LEMMA Moves ==
  ASSUME IInv, NEW w \in Writer, NEW p \in Point, NEW r \in Work, Go(w, p), Becomes(w, r)
  PROVE  OthersStay(w) /\ at'[w] = p /\ work'[w] = r
BY DEF IInv, Shapes, Go, Becomes, OthersStay

\* A writer goes to a point and keeps its locals.
LEMMA Stays ==
  ASSUME IInv, NEW w \in Writer, NEW p \in Point, Goes(w, p)
  PROVE  OthersStay(w) /\ at'[w] = p /\ work'[w] = work[w]
BY DEF IInv, Shapes, Go, Goes, OthersStay

\* What is left unchanged has the effect required of it.
LEMMA Same ==
  ASSUME IInv, NEW w \in Writer
  PROVE  /\ ops' = ops => OpsStep(w)
         /\ versions' = versions => VersionsStep
         /\ sources' = sources => SourcesStep(w)
         /\ bases' = bases => BasesStep(w)
         /\ objects' = objects => ObjectsStep(w)
         /\ lease' = lease => LeaseStep
         /\ known' = known => known' \subseteq Nat \X Key
         /\ index' = index => IndexStep(w)
         /\ faults' = faults => faults' \in 0..MaxFaults
<1> USE DEF IInv, Shapes, CatalogTypes
<1>1. ops' = ops => OpsStep(w)
  BY DEF OpsStep
<1>2. versions' = versions => VersionsStep
  BY DEF VersionsStep
<1>3. sources' = sources => SourcesStep(w)
  BY DEF SourcesStep
<1>4. bases' = bases => BasesStep(w)
  BY DEF BasesStep, BaseRow
<1>5. objects' = objects => ObjectsStep(w)
  BY DEF ObjectsStep
<1>6. lease' = lease => LeaseStep
  BY DEF LeaseStep
<1>7. index' = index => IndexStep(w)
  BY DEF IndexStep
<1> QED
  BY <1>1, <1>2, <1>3, <1>4, <1>5, <1>6, <1>7

\* Tables that stay as they are, and a store that grows, stay sound.
LEMMA SoundSame ==
  ASSUME IInv
  PROVE  /\ ops' = ops /\ versions' = versions /\ objects \subseteq objects' =>
              RowsSound(ops', versions', objects')
         /\ sources' = sources /\ versions' = versions => SourcesSound(sources', versions')
         /\ known' = known /\ versions' = versions => KnownSound(known', versions')
         /\ sources' = sources /\ versions' = versions /\ objects \subseteq objects' => OriginalsThere'
<1>1. ops' = ops /\ versions' = versions /\ objects \subseteq objects' => RowsSound(ops', versions', objects')
  BY DEF IInv, TablesInv, RowsSound
<1>2. sources' = sources /\ versions' = versions => SourcesSound(sources', versions')
  BY DEF IInv, TablesInv
<1>3. known' = known /\ versions' = versions => KnownSound(known', versions')
  BY DEF IInv, TablesInv
<1>4. sources' = sources /\ versions' = versions /\ objects \subseteq objects' => OriginalsThere'
  BY DEF IInv, OriginalsThere
<1> QED
  BY <1>1, <1>2, <1>3, <1>4

\* A writer at a point past reconciling runs an operation, of its source.
LEMMA MyOperation ==
  ASSUME IInv, NEW w \in Writer, at[w] \in Busy \ Reconciling
  PROVE  /\ work[w] \in Work /\ work[w].op \in DOMAIN ops
         /\ ops[work[w].op].src = work[w].src /\ ops[work[w].op] \in OpRow
         /\ work[w].src \in Source /\ BaseOf(work[w].src) \in Base
         /\ sources[work[w].src] \in SourceRow
         /\ bases[BaseOf(work[w].src)].rev \in Nat /\ bases[BaseOf(work[w].src)].gen \in Nat
BY RowsTyped DEF IInv, OwnInv, Own, Kinds, Shapes, Work

\* Before a version is indexed its operation is not settled.
LEMMA NotYet ==
  ASSUME IInv, NEW w \in Writer,
         at[w] \in {"received", "stored", "parsed", "upsert_source", "embed", "indexing"}
  PROVE  ops[work[w].op].stage \notin Settled
BY DEF IInv, OwnInv, Own, Kinds

\* Writing a stage of one's own operation keeps the rows typed and sound.
LEMMA StageWritten ==
  ASSUME IInv, NEW w \in Writer, at[w] \in Busy \ Reconciling,
         NEW stage \in Stage \ {"unknown"}, NEW owned \in BOOLEAN, WriteStage(work[w].op, stage, owned),
         stage \in HalfDone => ops[work[w].op].stage \in HalfDone,
         ops[work[w].op].stage \in Settled => stage \in Settled,
         at[w] \in Under \/ (ops[work[w].op].stage = "indexing" /\ stage = "index_validated")
  PROVE  /\ OpsStep(w) /\ DOMAIN ops' = DOMAIN ops
         /\ RowsSound(ops', versions, objects)
         /\ ops'[work[w].op].stage = stage /\ ops'[work[w].op].src = work[w].src
<1> DEFINE o == work[w].op
           row == [ops[o] EXCEPT !.stage = stage, !.owned = owned]
<1>1. o \in DOMAIN ops /\ ops[o].src = work[w].src /\ ops[o] \in OpRow
  BY MyOperation
<1>2. /\ row \in OpRow /\ row.src = ops[o].src /\ row.stage = stage
      /\ row.version = ops[o].version
  BY <1>1 DEF OpRow
<1>3. ops' = [ops EXCEPT ![o] = row]
  BY <1>1 DEF WriteStage, OpRow
<1> HIDE DEF o, row
<1>4. /\ ops' \in Seq(OpRow) /\ Len(ops') = Len(ops) /\ DOMAIN ops' = DOMAIN ops
      /\ ops'[o] = row /\ \A q \in DOMAIN ops \ {o} : ops'[q] = ops[q]
  BY <1>1, <1>2, <1>3 DEF IInv, Shapes, CatalogTypes
<1>5. OpsStep(w)
  BY <1>2, <1>4 DEF OpsStep, IInv, Shapes, CatalogTypes, o
<1>6. RowsSound(ops', versions, objects)
  BY <1>1, <1>2, <1>4 DEF RowsSound, IInv, TablesInv, o
<1> QED
  BY <1>1, <1>2, <1>4, <1>5, <1>6 DEF o

-------------------------------------------------------------------------------
(* How a command ends, fails, or goes on with the next operation.          *)

\* A writer that ends knows nothing and need know nothing.
LEMMA Ending ==
  ASSUME IInv, NEW w \in Writer, Ends(w)
  PROVE  OthersStay(w) /\ at'[w] = "idle" /\ work'[w] = NoWork /\ Own(w)'
<1>1. OthersStay(w) /\ at'[w] = "idle" /\ work'[w] = NoWork
  BY Moves, NoWorkTyped DEF Ends, Point
<1>2. Kinds("idle", NoWork, ops')
  BY NoWorkTyped DEF Kinds, Reconciling, Busy, HidePoint, ShowPoint, AddPoint, ActivatePoint, Marked
<1>3. "idle" \notin Preparing \cup HasVersion \cup ShowPoint \cup HidePoint
  BY DEF Preparing, HasVersion, ShowPoint, HidePoint
<1>4. Own(w)'
  BY <1>1, <1>2, <1>3 DEF Own, Current, Stored, Fresh
<1> QED
  BY <1>1, <1>4

\* A writer that fails goes to give its lease back.
LEMMA Failing ==
  ASSUME IInv, NEW w \in Writer, at[w] \in Under, Fails(w),
         OpsStep(w), DOMAIN ops' = DOMAIN ops
  PROVE  /\ OthersStay(w) /\ at'[w] = "release" /\ work'[w].op = work[w].op
         /\ Own(w)' /\ Disciplined(w)
<1> DEFINE r == [work[w] EXCEPT !.failed = TRUE]
<1>1. at[w] \in Busy \ Reconciling
  BY DEF Under, Busy, Point, AddPoint, ActivatePoint, HidePoint, ShowPoint, Reconciling
<1>2. /\ r \in Work /\ r.op = work[w].op /\ r.src = work[w].src /\ r.kind = work[w].kind
      /\ r.todo = work[w].todo
  <2>1. work[w] \in Work
    BY <1>1, MyOperation
  <2> QED
    BY <2>1 DEF Work
<1> HIDE DEF r
<1>3. OthersStay(w) /\ at'[w] = "release" /\ work'[w] = r
  BY <1>2, Moves DEF Fails, Me, Point, r
<1>4. Kinds(at[w], work[w], ops) /\ work[w].op \in DOMAIN ops /\ ops[work[w].op].src = work[w].src
  BY <1>1, MyOperation DEF IInv, OwnInv, Own
<1>5. Kinds("release", r, ops')
  BY <1>2, <1>4 DEF OpsStep, Kinds, Reconciling, Busy, HidePoint, ShowPoint, AddPoint, ActivatePoint, Marked
<1>6. "release" \notin Preparing \cup HasVersion \cup ShowPoint \cup HidePoint
  BY DEF Preparing, HasVersion, ShowPoint, HidePoint
<1>7. Own(w)'
  BY <1>3, <1>5, <1>6 DEF Own, Current, Stored, Fresh
<1>8. Disciplined(w)
  BY <1>1, <1>2, <1>3 DEF Disciplined, Busy
<1> QED
  BY <1>2, <1>3, <1>7, <1>8

\* A writer that succeeds ends, or takes its next operation.
LEMMA Succeeding ==
  ASSUME IInv, NEW w \in Writer, Succeeds(w), ops' = ops
  PROVE  /\ OthersStay(w) /\ Own(w)' /\ at'[w] \in {"idle", "take_over"}
         /\ at'[w] = "take_over" => work[w].kind = "reconcile" /\ work'[w].kind = "reconcile"
                                      /\ work[w].todo # {}
<1> DEFINE rest == work[w].todo \ {First(work[w].todo)}
           r == [NoWork EXCEPT !.kind = "reconcile", !.todo = rest]
<1>1. CASE Ends(w)
  BY <1>1, Ending
<1>2. CASE work[w].todo # {} /\ rest # {} /\ Go(w, "take_over") /\ Becomes(w, r)
  <2>1. /\ work[w].todo \subseteq DOMAIN ops /\ work[w].kind = "reconcile"
        /\ work[w].todo \subseteq Op /\ \A o \in work[w].todo : ops[o].stage # "unknown"
    BY <1>2 DEF IInv, OwnInv, Own, Kinds, Shapes, Work
  <2>2. r \in Work /\ r.kind = "reconcile" /\ r.todo = rest
    BY <2>1, NoWorkTyped DEF Work, Kind
  <2> HIDE DEF r, rest
  <2>3. OthersStay(w) /\ at'[w] = "take_over" /\ work'[w] = r
    BY <1>2, <2>2, Moves DEF Point
  <2>4. Kinds("take_over", r, ops)
    BY <1>2, <2>1, <2>2
       DEF Kinds, Reconciling, Busy, HidePoint, ShowPoint, AddPoint, ActivatePoint, Marked, rest
  <2>5. "take_over" \notin Preparing \cup HasVersion \cup ShowPoint \cup HidePoint
    BY DEF Preparing, HasVersion, ShowPoint, HidePoint
  <2>6. Own(w)'
    BY <2>3, <2>4, <2>5 DEF Own, Current, Stored, Fresh
  <2> QED
    BY <1>2, <2>1, <2>2, <2>3, <2>6
<1> QED
  BY <1>1, <1>2 DEF Succeeds, Me

-------------------------------------------------------------------------------
(* The steps of an addition.                                               *)

\* The file is parsed.
LEMMA ParseStep ==
  ASSUME IInv, NEW w \in Writer, Parse(w)
  PROVE  IInv'
<1> USE DEF Point, AddPoint, Busy, Reconciling, Under
<1>1. at[w] = "parsed" /\ Existed(w) \in BOOLEAN /\ WriteStage(work[w].op, "parsed", Existed(w))
  BY DEF Parse, Existed, Me
<1>2. /\ OpsStep(w) /\ DOMAIN ops' = DOMAIN ops /\ RowsSound(ops', versions, objects)
      /\ ops'[work[w].op].stage = "parsed" /\ ops'[work[w].op].src = work[w].src
      /\ ops'[work[w].op].stage \notin Settled
  BY <1>1, NotYet, StageWritten DEF Stage, HalfDone, Settled
<1>3. OthersStay(w) /\ at'[w] = "upsert_source" /\ work'[w] = work[w]
  BY <1>1, Stays DEF Parse
<1>4. Effects(w)
  BY <1>1, <1>2, <1>3, Same DEF Effects, Parse, stores
<1>5. SoundAfter
  BY <1>2, SoundSame DEF SoundAfter, Parse, stores
<1>6. Own(w)'
  BY <1>1, <1>2, <1>3 DEF Own, IInv, OwnInv, OpsStep, Kinds, Current, Stored, Fresh, Parse, stores, Preparing, HasVersion, Marked, HidePoint, ShowPoint, ActivatePoint
<1>8. Disciplined(w)
  BY <1>1, <1>3 DEF Disciplined
<1> QED
  BY <1>4, <1>5, <1>6, <1>8, WriterStep

\* Under the lease the base is read anew, so what is known of it is current.
LEMMA ReceiveStep ==
  ASSUME IInv, NEW w \in Writer, Receive(w)
  PROVE  IInv'
<1> USE DEF Point, AddPoint, Busy, Reconciling, Under
<1> DEFINE base == bases[BaseOf(work[w].src)]
           r == [work[w] EXCEPT !.rev = base.rev, !.gen = base.gen]
<1>1. at[w] = "received" /\ Existed(w) \in BOOLEAN /\ WriteStage(work[w].op, "received", Existed(w))
  BY DEF Receive, Existed, Me
<1>2. /\ OpsStep(w) /\ DOMAIN ops' = DOMAIN ops /\ RowsSound(ops', versions, objects)
      /\ ops'[work[w].op].stage = "received" /\ ops'[work[w].op].src = work[w].src
      /\ ops'[work[w].op].stage \notin Settled
  BY <1>1, NotYet, StageWritten DEF Stage, HalfDone, Settled
<1>3. CASE Fails(w)
  <2>1. /\ OthersStay(w) /\ at'[w] = "release" /\ work'[w].op = work[w].op
        /\ Own(w)' /\ Disciplined(w)
    BY <1>1, <1>2, <1>3, Failing
  <2>2. Effects(w)
    BY <1>1, <1>2, <2>1, Same DEF Effects, Receive, stores
  <2>3. SoundAfter
    BY <1>2, SoundSame DEF SoundAfter, Receive, stores
  <2> QED
    BY <2>1, <2>2, <2>3, WriterStep
<1>4. CASE Go(w, "stored") /\ Becomes(w, r)
  <2>1. /\ r \in Work /\ r.op = work[w].op /\ r.src = work[w].src /\ r.kind = work[w].kind
        /\ r.todo = work[w].todo /\ r.old = work[w].old /\ r.rev = base.rev
    BY <1>1, MyOperation DEF Work
  <2> HIDE DEF r
  <2>2. OthersStay(w) /\ at'[w] = "stored" /\ work'[w] = r
    BY <1>4, <2>1, Moves
  <2>3. Effects(w)
    BY <1>1, <1>2, <2>2, Same DEF Effects, Receive, stores
  <2>4. SoundAfter
    BY <1>2, SoundSame DEF SoundAfter, Receive, stores
  <2>5. Own(w)'
    BY <1>1, <1>2, <2>1, <2>2 DEF Own, IInv, OwnInv, OpsStep, Kinds, Current, Stored, Fresh, Receive, stores, Preparing, HasVersion, Marked, HidePoint, ShowPoint, ActivatePoint
  <2>7. Disciplined(w)
    BY <1>1, <2>1, <2>2 DEF Disciplined
  <2> QED
    BY <2>3, <2>4, <2>5, <2>7, WriterStep
<1> QED
  BY <1>3, <1>4 DEF Receive, Me

\* The original is stored before the version that names it exists.
LEMMA StoreRawStep ==
  ASSUME IInv, NEW w \in Writer, StoreRaw(w)
  PROVE  IInv'
<1> USE DEF Point, AddPoint, Busy, Reconciling, Under
<1>1. /\ at[w] = "stored" /\ Existed(w) \in BOOLEAN /\ WriteStage(work[w].op, "raw_stored", Existed(w))
      /\ objects' = objects \cup {work[w].content} /\ objects \subseteq Content
  BY DEF StoreRaw, Existed, Me, IInv, Shapes
<1>2. /\ OpsStep(w) /\ DOMAIN ops' = DOMAIN ops /\ RowsSound(ops', versions, objects)
      /\ ops'[work[w].op].stage = "raw_stored" /\ ops'[work[w].op].src = work[w].src
      /\ ops'[work[w].op].stage \notin Settled
  BY <1>1, NotYet, StageWritten DEF Stage, HalfDone, Settled
<1>3. OthersStay(w) /\ at'[w] = "parsed" /\ work'[w] = work[w]
  BY <1>1, Stays DEF StoreRaw
<1>4. ObjectsStep(w)
  BY <1>1, MyOperation DEF ObjectsStep, Work
<1>5. Effects(w)
  BY <1>1, <1>2, <1>3, <1>4, Same DEF Effects, StoreRaw
<1>6. SoundAfter
  <2>1. RowsSound(ops', versions', objects')
    BY <1>1, <1>2 DEF RowsSound, StoreRaw
  <2> QED
    BY <1>1, <2>1, SoundSame DEF SoundAfter, StoreRaw
<1>7. Own(w)'
  BY <1>1, <1>2, <1>3 DEF Own, IInv, OwnInv, OpsStep, Kinds, Current, Stored, Fresh, StoreRaw, Preparing, HasVersion, Marked, HidePoint, ShowPoint, ActivatePoint
<1>9. Disciplined(w)
  BY <1>1, <1>3 DEF Disciplined
<1> QED
  BY <1>5, <1>6, <1>7, <1>9, WriterStep

\* The new version has its original, and no chunk yet.
LEMMA AddVersionStep ==
  ASSUME IInv, NEW w \in Writer, AddVersion(w)
  PROVE  IInv'
<1> USE DEF Point, AddPoint, Busy, Reconciling, Under
<1> DEFINE s == work[w].src
           n == Len(versions) + 1
           new == [src |-> s, content |-> work[w].content]
           r == [work[w] EXCEPT !.key = <<n, 0>>]
<1>1. at[w] = "upsert_source" /\ UNCHANGED <<ops, lease, known, index, objects, faults, connection, bases, bindings, turn>>
  BY DEF AddVersion, stores
<1>2. CASE Fails(w) /\ UNCHANGED <<sources, versions>>
  <2>1. /\ OthersStay(w) /\ at'[w] = "release" /\ work'[w].op = work[w].op
        /\ Own(w)' /\ Disciplined(w)
    BY <1>1, <1>2, Failing, Same
  <2>2. Effects(w)
    BY <1>1, <1>2, <2>1, Same DEF Effects
  <2>3. SoundAfter
    BY <1>1, <1>2, SoundSame DEF SoundAfter
  <2> QED
    BY <2>1, <2>2, <2>3, WriterStep
<1>3. CASE /\ Len(versions) < MaxVersions
           /\ UpsertSource(s, work[w].old)
           /\ versions' = Append(versions, new)
           /\ Go(w, "embed")
           /\ Becomes(w, r)
  <2>0. /\ work[w] \in Work /\ s \in Source /\ sources[s] \in SourceRow /\ work[w].old = sources[s]
        /\ work[w].content \in objects /\ Len(versions) \in Nat
        /\ DOMAIN versions = 1..Len(versions)
    BY <1>1, MyOperation, RowsTyped DEF IInv, OwnInv, Own, Current, Stored
  <2>1. /\ versions \in Seq([src : Source, content : Content]) /\ new \in [src : Source, content : Content]
        /\ MaxVersions \in Nat
    BY <2>0, CatalogAssumption DEF IInv, Shapes, CatalogTypes, Work
  <2>2. /\ versions' \in Seq([src : Source, content : Content]) /\ Len(versions') = n
        /\ DOMAIN versions' = DOMAIN versions \cup {n} /\ n \notin DOMAIN versions
        /\ versions'[n] = new
        /\ \A v \in DOMAIN versions : versions'[v] = versions[v]
    <3> HIDE DEF new
    <3> QED
      BY <1>3, <2>0, <2>1
  <2>3. VersionsStep
    BY <1>3, <2>0, <2>1, <2>2 DEF VersionsStep
  <2>4. /\ r \in Work /\ r.op = work[w].op /\ r.src = s /\ r.kind = work[w].kind
        /\ r.todo = work[w].todo /\ r.old = work[w].old /\ r.key = <<n, 0>> /\ r.rev = work[w].rev
    <3>1. <<n, 0>> \in (0..MaxVersions) \X Nat
      BY <1>3, <2>0, <2>1
    <3> HIDE DEF n
    <3> QED
      BY <2>0, <3>1 DEF Work
  <2> HIDE DEF r
  <2>5. OthersStay(w) /\ at'[w] = "embed" /\ work'[w] = r
    BY <1>3, <2>4, Moves
  <2>6. /\ sources' \in [Source -> SourceRow]
        /\ \A t \in Source : t # s => sources'[t] = sources[t]
        /\ sources'[s].version = sources[s].version
        /\ sources'[s].life # "none"
        /\ sources[s].life # "none" => sources'[s] = sources[s]
    BY <1>3, <2>0 DEF UpsertSource, IInv, Shapes, CatalogTypes, SourceRow, Lifecycle
  <2>7. Effects(w)
    <3>1. SourcesStep(w)
      BY <1>1, <2>6 DEF SourcesStep
    <3> QED
      BY <1>1, <2>3, <2>5, <3>1, Same DEF Effects
  <2>8. SoundAfter
    <3>1. RowsSound(ops', versions', objects')
      BY <1>1, <2>2 DEF IInv, TablesInv, RowsSound
    <3>2. SourcesSound(sources', versions')
      BY <2>2, <2>6 DEF IInv, TablesInv, SourcesSound
    <3>3. KnownSound(known', versions')
      BY <1>1, <2>2 DEF IInv, TablesInv, KnownSound
    <3>4. OriginalsThere'
      <4> SUFFICES ASSUME NEW t \in Source, sources'[t].life \in Openable, sources'[t].version # 0
                   PROVE  versions'[sources'[t].version].content \in objects'
        BY DEF OriginalsThere
      <4>1. sources[t].life \in Openable /\ sources[t].version = sources'[t].version
        BY <2>6 DEF IInv, TablesInv, SourcesSound
      <4>2. sources[t].version \in DOMAIN versions /\ versions[sources[t].version].content \in objects
        BY <4>1 DEF IInv, TablesInv, SourcesSound, OriginalsThere
      <4> QED
        BY <1>1, <2>2, <4>1, <4>2
    <3> QED
      BY <3>1, <3>2, <3>3, <3>4 DEF SoundAfter
  <2>9. Own(w)'
    <3>1. OfVersion(index, n) = {}
      BY <2>2 DEF OfVersion, IInv, TablesInv, IndexSound
    <3>2. Kinds("embed", r, ops')
      BY <1>1, <2>4 DEF IInv, OwnInv, Own, Kinds, HidePoint, ShowPoint, ActivatePoint, Marked
    <3>3. Current("embed", r, bases'[BaseOf(s)], sources'[s])
      BY <1>1, <2>4 DEF IInv, OwnInv, Own, Current, Preparing, HidePoint, ShowPoint
    <3>4. Stored("embed", r, versions', objects')
      BY <1>1, <2>0, <2>2, <2>4 DEF Stored
    <3>5. Fresh("embed", r, index')
      BY <1>1, <2>4, <3>1 DEF Fresh
    <3> QED
      BY <2>4, <2>5, <3>2, <3>3, <3>4, <3>5 DEF Own
  <2>11. Disciplined(w)
    BY <1>1, <2>4, <2>5 DEF Disciplined
  <2> QED
    BY <2>7, <2>8, <2>9, <2>11, WriterStep
<1> QED
  BY <1>2, <1>3 DEF AddVersion, Me

\* The next revision is computed from the current one.
LEMMA EmbedStep ==
  ASSUME IInv, NEW w \in Writer, Embed(w)
  PROVE  IInv'
<1> USE DEF Point, AddPoint, Busy, Reconciling, Under
<1> DEFINE r == [work[w] EXCEPT !.next = work[w].rev + 1]
<1>1. at[w] = "embed" /\ UNCHANGED <<tables, stores, faults, turn>> /\ Go(w, "indexing") /\ Becomes(w, r)
  BY DEF Embed, Me
<1>2. /\ r \in Work /\ r.op = work[w].op /\ r.src = work[w].src /\ r.kind = work[w].kind
      /\ r.todo = work[w].todo /\ r.key = work[w].key /\ r.rev = work[w].rev /\ r.next = work[w].rev + 1
  BY <1>1, MyOperation DEF Work
<1> HIDE DEF r
<1>3. OthersStay(w) /\ at'[w] = "indexing" /\ work'[w] = r
  BY <1>1, <1>2, Moves
<1>4. Effects(w)
  BY <1>1, <1>3, Same DEF Effects, tables, stores
<1>5. SoundAfter
  BY <1>1, SoundSame DEF SoundAfter, tables, stores
<1>6. Own(w)'
  <2>1. Kinds("indexing", r, ops')
    BY <1>1, <1>2 DEF IInv, OwnInv, Own, Kinds, HidePoint, ShowPoint, ActivatePoint, Marked, tables
  <2>2. Current("indexing", r, bases'[BaseOf(r.src)], sources'[r.src])
    BY <1>1, <1>2 DEF IInv, OwnInv, Own, Current, Preparing, HidePoint, ShowPoint, tables
  <2>3. Stored("indexing", r, versions', objects') /\ Fresh("indexing", r, index')
    BY <1>1, <1>2 DEF IInv, OwnInv, Own, Stored, Fresh, HasVersion, tables, stores
  <2> QED
    BY <1>3, <2>1, <2>2, <2>3 DEF Own
<1>8. Disciplined(w)
  BY <1>1, <1>2, <1>3 DEF Disciplined
<1> QED
  BY <1>4, <1>5, <1>6, <1>8, WriterStep

\* From here on the row of the operation names a version with its original: a purge must wait.
LEMMA BeginIndexingStep ==
  ASSUME IInv, NEW w \in Writer, BeginIndexing(w)
  PROVE  IInv'
<1> USE DEF Point, AddPoint, Busy, Reconciling, Under
<1> DEFINE o == work[w].op
           gen == NewGeneration(w)
           row == [ops[o] EXCEPT !.stage = "indexing", !.owned = TRUE, !.version = work[w].key[1],
                                 !.gen = gen, !.next = work[w].next]
           r == [work[w] EXCEPT !.gen = gen]
           p == IF work[w].replace /\ work[w].gen # 0 THEN "close" ELSE "upsert"
<1>1. /\ at[w] = "indexing" /\ Go(w, p) /\ Becomes(w, r)
      /\ UNCHANGED <<connection, bases, bindings, sources, versions, lease, known, index, objects, faults, turn>>
  BY DEF BeginIndexing, Me, stores
<1>2. /\ work[w] \in Work /\ o \in DOMAIN ops /\ ops[o] \in OpRow /\ ops[o].src = work[w].src
      /\ Kinds("indexing", work[w], ops)
      /\ Current("indexing", work[w], bases[BaseOf(work[w].src)], sources[work[w].src])
      /\ Stored("indexing", work[w], versions, objects) /\ Fresh("indexing", work[w], index)
      /\ ops[o].stage \notin Settled
  BY <1>1, MyOperation, NotYet DEF IInv, OwnInv, Own
<1>3. /\ work[w].key[1] \in 0..MaxVersions /\ gen \in Nat /\ work[w].next \in Nat
      /\ work[w].key[1] \in DOMAIN versions /\ versions[work[w].key[1]].src = work[w].src
      /\ versions[work[w].key[1]].content \in objects
  BY <1>2, CatalogAssumption DEF Work, NewGeneration, Me, Stored, HasVersion
<1>4. row \in OpRow /\ row.src = ops[o].src /\ row.stage = "indexing" /\ row.version = work[w].key[1]
  BY <1>2, <1>3 DEF OpRow, Stage
<1>5. ops' = [ops EXCEPT ![o] = row]
  BY <1>2 DEF BeginIndexing, Me
<1>6. /\ r \in Work /\ r.op = o /\ r.src = work[w].src /\ r.kind = work[w].kind
      /\ r.todo = work[w].todo /\ r.key = work[w].key /\ r.rev = work[w].rev /\ r.next = work[w].next
  BY <1>2, <1>3 DEF Work
<1> HIDE DEF row, r, gen
<1>7. /\ ops' \in Seq(OpRow) /\ Len(ops') = Len(ops) /\ DOMAIN ops' = DOMAIN ops
      /\ ops'[o] = row /\ \A q \in DOMAIN ops \ {o} : ops'[q] = ops[q]
  BY <1>2, <1>4, <1>5 DEF IInv, Shapes, CatalogTypes
<1>8. OthersStay(w) /\ at'[w] = p /\ work'[w] = r /\ p \in {"close", "upsert"}
  BY <1>1, <1>6, Moves
<1> HIDE DEF p
<1>9. Effects(w)
  <2>1. OpsStep(w)
    BY <1>1, <1>2, <1>4, <1>7 DEF OpsStep, IInv, Shapes, CatalogTypes
  <2> QED
    BY <1>1, <1>8, <2>1, Same DEF Effects
<1>10. SoundAfter
  <2>1. RowsSound(ops', versions', objects')
    BY <1>1, <1>2, <1>3, <1>4, <1>7 DEF RowsSound, IInv, TablesInv
  <2> QED
    BY <1>1, <2>1, SoundSame DEF SoundAfter
<1>11. Own(w)'
  <2>1. Kinds(p, r, ops')
    BY <1>2, <1>4, <1>6, <1>7, <1>8 DEF OpsStep, Kinds, HidePoint, ShowPoint, ActivatePoint, Marked, HalfDone
  <2>2. Current(p, r, bases'[BaseOf(r.src)], sources'[r.src])
    BY <1>1, <1>2, <1>6, <1>8 DEF Current, Preparing, HidePoint, ShowPoint
  <2>3. Stored(p, r, versions', objects') /\ Fresh(p, r, index')
    BY <1>1, <1>2, <1>6, <1>8 DEF Stored, Fresh, HasVersion
  <2> QED
    BY <1>8, <2>1, <2>2, <2>3 DEF Own
<1>13. Disciplined(w)
  BY <1>1, <1>6, <1>8 DEF Disciplined
<1> QED
  BY <1>9, <1>10, <1>11, <1>13, WriterStep
\* Closing chunks of a source, of those the catalog knows, is a step at the index.
LEMMA ClosesItsOwn ==
  ASSUME IInv, NEW w \in Writer, NEW gen \in Nat, NEW keys \in SUBSET ChunksForSource(gen, work[w].src),
         CloseChunks(gen, keys, bases[BaseOf(work[w].src)].rev + 1)
  PROVE  IndexStep(w)
<1> DEFINE next == bases[BaseOf(work[w].src)].rev + 1
<1>1. \A k \in keys : k \in Key /\ k[1] \in DOMAIN versions /\ versions[k[1]].src = work[w].src
  BY DEF ChunksForSource, IInv, Shapes, CatalogTypes, TablesInv, KnownSound
<1>2. index' = ShutAll(index, gen, keys, next)
  BY DEF CloseChunks, ShutAll, Shut
<1> HIDE DEF next
<1>3. keys \in SUBSET Key /\ \A k \in keys : k[1] \in DOMAIN versions /\ versions[k[1]].src = work[w].src
  BY <1>1
<1> QED
  BY <1>2, <1>3 DEF IndexStep, next

\* The chunks of the replaced file end at the next revision.
LEMMA CloseReplacedStep ==
  ASSUME IInv, NEW w \in Writer, CloseReplaced(w)
  PROVE  IInv'
<1> USE DEF Point, AddPoint, Busy, Reconciling, Under
<1>1. /\ at[w] = "close" /\ Goes(w, "upsert") /\ UNCHANGED <<tables, objects, faults, turn>>
      /\ CloseChunks(work[w].gen, ChunksForSource(work[w].gen, work[w].src), work[w].next)
  BY DEF CloseReplaced, Me
<1>2. OthersStay(w) /\ at'[w] = "upsert" /\ work'[w] = work[w]
  BY <1>1, Stays
<1>3. /\ Current("close", work[w], bases[BaseOf(work[w].src)], sources[work[w].src])
      /\ Kinds("close", work[w], ops) /\ Stored("close", work[w], versions, objects)
      /\ Fresh("close", work[w], index)
  BY <1>1 DEF IInv, OwnInv, Own
<1>4. IndexStep(w)
  <2>1. work[w].gen \in Nat /\ work[w].next = bases[BaseOf(work[w].src)].rev + 1
    BY <1>1, <1>3, MyOperation DEF Current, Work
  <2> QED
    BY <1>1, <2>1, ClosesItsOwn
<1>5. OfVersion(index', work[w].key[1]) = {}
  <2>1. OfVersion(index, work[w].key[1]) = {}
    BY <1>3 DEF Fresh
  <2>2. /\ work[w].gen \in Nat /\ work[w].next \in Nat
        /\ index \subseteq Chunk /\ IndexSound(index, versions)
    BY <1>1, MyOperation DEF Work, IInv, Shapes, TablesInv
  <2>3. index' = ShutAll(index, work[w].gen, ChunksForSource(work[w].gen, work[w].src), work[w].next)
    BY <1>1 DEF CloseChunks, ShutAll, Shut
  <2> QED
    BY <2>1, <2>2, <2>3, ClosedIndex
<1>6. Effects(w)
  BY <1>1, <1>2, <1>4, Same DEF Effects, tables
<1>7. SoundAfter
  BY <1>1, SoundSame DEF SoundAfter, tables
<1>8. Own(w)'
  <2>1. Kinds("upsert", work[w], ops')
    BY <1>1, <1>3 DEF Kinds, HidePoint, ShowPoint, ActivatePoint, Marked, tables
  <2>2. Current("upsert", work[w], bases'[BaseOf(work[w].src)], sources'[work[w].src])
    BY <1>1, <1>3 DEF Current, Preparing, HidePoint, ShowPoint, tables
  <2>3. Stored("upsert", work[w], versions', objects') /\ Fresh("upsert", work[w], index')
    BY <1>1, <1>3, <1>5 DEF Stored, Fresh, HasVersion, tables
  <2> QED
    BY <1>2, <2>1, <2>2, <2>3 DEF Own
<1>10. Disciplined(w)
  BY <1>1, <1>2 DEF Disciplined
<1> QED
  BY <1>6, <1>7, <1>8, <1>10, WriterStep

\* Writing the chunk of its version is a step at the index.
LEMMA WritesItsOwn ==
  ASSUME IInv, NEW w \in Writer, at[w] = "upsert", UpsertChunk(work[w].gen, work[w].key, work[w].next)
  PROVE  IndexStep(w)
<1> USE DEF Point, AddPoint, Busy, Reconciling
<1> DEFINE chunk == [key |-> work[w].key, gen |-> work[w].gen, from |-> work[w].next, to |-> 0]
<1>1. index' = {c \in index : c.key # work[w].key} \cup {chunk}
  BY DEF UpsertChunk
<1>2. /\ Current("upsert", work[w], bases[BaseOf(work[w].src)], sources[work[w].src])
      /\ Stored("upsert", work[w], versions, objects) /\ Fresh("upsert", work[w], index)
  BY DEF IInv, OwnInv, Own
<1>3. /\ work[w].gen \in Nat /\ work[w].next \in Nat /\ work[w].key \in (0..MaxVersions) \X Nat
      /\ DOMAIN versions \subseteq 1..MaxVersions
  BY MyOperation, RowsTyped DEF IInv, Work
<1>4. /\ work[w].key[1] \in DOMAIN versions /\ versions[work[w].key[1]].src = work[w].src
      /\ work[w].next = bases[BaseOf(work[w].src)].rev + 1
      /\ work[w].key[2] = 0 /\ OfVersion(index, work[w].key[1]) = {}
  BY <1>2 DEF Current, Stored, Fresh, HasVersion
<1>5. work[w].key \in Key
  BY <1>3, <1>4 DEF Key
<1>6. /\ chunk \in Chunk /\ chunk.key = work[w].key /\ chunk.from = work[w].next
  BY <1>3, <1>5 DEF Chunk
<1>7. Cardinality(OfVersion(index, work[w].key[1])) = 0
  BY <1>4, FS_EmptySet
<1> HIDE DEF chunk
<1> QED
  BY <1>1, <1>4, <1>6, <1>7 DEF IndexStep

\* The chunk of the new version begins at the next revision.
LEMMA WriteIndexStep ==
  ASSUME IInv, NEW w \in Writer, WriteIndex(w)
  PROVE  IInv'
<1> USE DEF Point, AddPoint, Busy, Reconciling, Under
<1>1. /\ at[w] = "upsert" /\ Goes(w, "remember") /\ UNCHANGED <<tables, objects, faults, turn>>
      /\ UpsertChunk(work[w].gen, work[w].key, work[w].next)
  BY DEF WriteIndex, Me
<1>2. OthersStay(w) /\ at'[w] = "remember" /\ work'[w] = work[w]
  BY <1>1, Stays
<1>3. /\ Current("upsert", work[w], bases[BaseOf(work[w].src)], sources[work[w].src])
      /\ Kinds("upsert", work[w], ops) /\ Stored("upsert", work[w], versions, objects)
      /\ Fresh("upsert", work[w], index)
  BY <1>1 DEF IInv, OwnInv, Own
<1>4. IndexStep(w)
  BY <1>1, WritesItsOwn
<1>5. Effects(w)
  BY <1>1, <1>2, <1>4, Same DEF Effects, tables
<1>6. SoundAfter
  BY <1>1, SoundSame DEF SoundAfter, tables
<1>7. Own(w)'
  <2>1. Kinds("remember", work[w], ops')
    BY <1>1, <1>3 DEF Kinds, HidePoint, ShowPoint, ActivatePoint, Marked, tables
  <2>2. Current("remember", work[w], bases'[BaseOf(work[w].src)], sources'[work[w].src])
    BY <1>1, <1>3 DEF Current, Preparing, HidePoint, ShowPoint, tables
  <2>3. Stored("remember", work[w], versions', objects') /\ Fresh("remember", work[w], index')
    BY <1>1, <1>3 DEF Stored, Fresh, HasVersion, tables
  <2> QED
    BY <1>2, <2>1, <2>2, <2>3 DEF Own
<1>9. Disciplined(w)
  BY <1>1, <1>2 DEF Disciplined
<1> QED
  BY <1>5, <1>6, <1>7, <1>9, WriterStep

\* What is remembered is a chunk of a version.
LEMMA Remembered ==
  ASSUME IInv, NEW gen \in Nat, NEW key \in (0..MaxVersions) \X Nat, key[1] \in DOMAIN versions,
         Remember(gen, {key}), versions' = versions
  PROVE  known' \subseteq Nat \X Key /\ KnownSound(known', versions')
<1>1. key \in Key
  BY RowsTyped DEF Key, IInv
<1> QED
  BY <1>1 DEF Remember, IInv, Shapes, CatalogTypes, TablesInv, KnownSound

\* The chunk is registered in the catalog.
LEMMA RememberIndexStep ==
  ASSUME IInv, NEW w \in Writer, RememberIndex(w)
  PROVE  IInv'
<1> USE DEF Point, AddPoint, Busy, Reconciling, Under
<1>1. /\ at[w] = "remember" /\ Goes(w, "validated") /\ Remember(work[w].gen, {work[w].key})
      /\ UNCHANGED <<connection, bases, bindings, sources, versions, ops, lease, index, objects, faults, turn>>
  BY DEF RememberIndex, Me, stores
<1>2. OthersStay(w) /\ at'[w] = "validated" /\ work'[w] = work[w]
  BY <1>1, Stays
<1>3. /\ Current("remember", work[w], bases[BaseOf(work[w].src)], sources[work[w].src])
      /\ Kinds("remember", work[w], ops) /\ Stored("remember", work[w], versions, objects)
  BY <1>1 DEF IInv, OwnInv, Own
<1>4. known' \subseteq Nat \X Key /\ KnownSound(known', versions')
  <2>1. work[w].key[1] \in DOMAIN versions /\ work[w].gen \in Nat /\ work[w].key \in (0..MaxVersions) \X Nat
    BY <1>1, <1>3, MyOperation DEF Stored, HasVersion, Work
  <2> QED
    BY <1>1, <2>1, Remembered
<1>5. Effects(w)
  BY <1>1, <1>2, <1>4, Same DEF Effects
<1>6. SoundAfter
  BY <1>1, <1>4, SoundSame DEF SoundAfter
<1>7. Own(w)'
  <2>1. Kinds("validated", work[w], ops')
    BY <1>1, <1>3 DEF Kinds, HidePoint, ShowPoint, ActivatePoint, Marked
  <2>2. Current("validated", work[w], bases'[BaseOf(work[w].src)], sources'[work[w].src])
    BY <1>1, <1>3 DEF Current, Preparing, HidePoint, ShowPoint
  <2>3. Stored("validated", work[w], versions', objects') /\ Fresh("validated", work[w], index')
    BY <1>1, <1>3 DEF Stored, Fresh, HasVersion
  <2> QED
    BY <1>2, <2>1, <2>2, <2>3 DEF Own
<1>9. Disciplined(w)
  BY <1>1, <1>2 DEF Disciplined
<1> QED
  BY <1>5, <1>6, <1>7, <1>9, WriterStep

\* The index is validated.
LEMMA ValidateStep ==
  ASSUME IInv, NEW w \in Writer, Validate(w)
  PROVE  IInv'
<1> USE DEF Point, AddPoint, Busy, Reconciling, Under
<1>1. /\ at[w] = "validated" /\ Goes(w, "activate") /\ WriteStage(work[w].op, "index_validated", TRUE)
      /\ UNCHANGED <<connection, bases, bindings, sources, versions, lease, known, index, objects, faults, turn>>
  BY DEF Validate, Me, stores
<1>2. /\ Current("validated", work[w], bases[BaseOf(work[w].src)], sources[work[w].src])
      /\ Kinds("validated", work[w], ops) /\ Stored("validated", work[w], versions, objects)
      /\ bases[BaseOf(work[w].src)].rev \in Nat
  BY <1>1, MyOperation DEF IInv, OwnInv, Own
<1>3. /\ OpsStep(w) /\ DOMAIN ops' = DOMAIN ops /\ RowsSound(ops', versions, objects)
      /\ ops'[work[w].op].stage = "index_validated" /\ ops'[work[w].op].src = work[w].src
  BY <1>1, <1>2, StageWritten DEF Stage, HalfDone, Settled, Kinds, Marked
<1>4. OthersStay(w) /\ at'[w] = "activate" /\ work'[w] = work[w]
  BY <1>1, Stays DEF ActivatePoint
<1>5. Effects(w)
  BY <1>1, <1>3, <1>4, Same DEF Effects
<1>6. SoundAfter
  BY <1>1, <1>3, SoundSame DEF SoundAfter
<1>7. Own(w)'
  <2>1. Kinds("activate", work[w], ops')
    BY <1>2, <1>3 DEF OpsStep, Kinds, HidePoint, ShowPoint, ActivatePoint, Marked
  <2>2. Current("activate", work[w], bases'[BaseOf(work[w].src)], sources'[work[w].src])
    BY <1>1, <1>2 DEF Current, Preparing, HidePoint, ShowPoint
  <2>3. Stored("activate", work[w], versions', objects') /\ Fresh("activate", work[w], index')
    BY <1>1, <1>2 DEF Stored, Fresh, HasVersion
  <2> QED
    BY <1>4, <2>1, <2>2, <2>3 DEF Own
<1>9. Disciplined(w)
  BY <1>1, <1>4 DEF Disciplined
<1> QED
  BY <1>5, <1>6, <1>7, <1>9, WriterStep

\* Committing a revision that is not before the current one takes none back.
LEMMA Activated ==
  ASSUME IInv, NEW w \in Writer, at[w] \in Under, work[w].src \in Source,
         NEW gen \in Nat, NEW rev \in Nat, bases[BaseOf(work[w].src)].rev <= rev,
         ActivateRevision(BaseOf(work[w].src), gen, rev)
  PROVE  BasesStep(w)
<1> DEFINE b == BaseOf(work[w].src)
<1>1. b \in Base /\ bases \in [Base -> BaseRow] /\ \A a \in Base : bases[a].rev \in Nat
  BY RowsTyped DEF IInv, Shapes, CatalogTypes
<1> HIDE DEF b
<1>2. bases' = [bases EXCEPT ![b].gen = gen, ![b].rev = rev]
  BY DEF ActivateRevision, b
<1>3. bases' \in [Base -> BaseRow] /\ bases'[b].rev = rev /\ \A a \in Base \ {b} : bases'[a] = bases[a]
  BY <1>1, <1>2 DEF BaseRow
<1> QED
  BY <1>1, <1>3 DEF BasesStep, b

\* The commit of an addition, fresh or resumed: its revision is not before the current one.
LEMMA ActivateStep ==
  ASSUME IInv, NEW w \in Writer, Activate(w)
  PROVE  IInv' /\ BasesStep(w)
<1> USE DEF Point, ActivatePoint, Busy, Reconciling, Under
<1>1. /\ at[w] = "activate" /\ Goes(w, "point")
      /\ ActivateRevision(BaseOf(work[w].src), work[w].gen, work[w].next)
      /\ UNCHANGED <<connection, bindings, sources, versions, ops, lease, known, index, objects, faults, turn>>
  BY DEF Activate, Me, stores
<1>2. /\ Current("activate", work[w], bases[BaseOf(work[w].src)], sources[work[w].src])
      /\ Kinds("activate", work[w], ops) /\ Stored("activate", work[w], versions, objects)
      /\ work[w].src \in Source /\ work[w].gen \in Nat /\ work[w].next \in Nat
  BY <1>1, MyOperation DEF IInv, OwnInv, Own, Work
<1>3. BasesStep(w)
  BY <1>1, <1>2, Activated DEF Current
<1>4. OthersStay(w) /\ at'[w] = "point" /\ work'[w] = work[w]
  BY <1>1, Stays
<1>5. Effects(w)
  BY <1>1, <1>3, <1>4, Same DEF Effects
<1>6. SoundAfter
  BY <1>1, SoundSame DEF SoundAfter
<1>7. Own(w)'
  <2>1. Kinds("point", work[w], ops')
    BY <1>1, <1>2 DEF Kinds, HidePoint, ShowPoint, AddPoint, Marked
  <2>2. Current("point", work[w], bases'[BaseOf(work[w].src)], sources'[work[w].src])
    BY DEF Current, Preparing, HidePoint, ShowPoint
  <2>3. Stored("point", work[w], versions', objects') /\ Fresh("point", work[w], index')
    BY <1>1, <1>2 DEF Stored, Fresh, HasVersion
  <2> QED
    BY <1>4, <2>1, <2>2, <2>3 DEF Own
<1>9. Disciplined(w)
  BY <1>1, <1>4 DEF Disciplined
<1> QED
  BY <1>3, <1>5, <1>6, <1>7, <1>9, WriterStep

\* The source's current version becomes one whose original is stored.
LEMMA RepointStep ==
  ASSUME IInv, NEW w \in Writer, Repoint(w)
  PROVE  IInv'
<1> USE DEF Point, ActivatePoint, Busy, Reconciling, Under
<1> DEFINE s == work[w].src
           v == work[w].key[1]
<1>1. /\ at[w] = "point" /\ Goes(w, "finish") /\ SetCurrentVersion(s, v)
      /\ UNCHANGED <<connection, bases, bindings, versions, ops, lease, known, index, objects, faults, turn>>
  BY DEF Repoint, Me, stores
<1>2. /\ Kinds("point", work[w], ops) /\ s \in Source
      /\ v \in DOMAIN versions /\ v \in 0..MaxVersions
      /\ versions[v].src = s /\ versions[v].content \in objects
  <2>1. work[w].key \in (0..MaxVersions) \X Nat /\ s \in Source
    BY <1>1, MyOperation DEF Work
  <2>2. Stored("point", work[w], versions, objects) /\ Kinds("point", work[w], ops)
    BY <1>1 DEF IInv, OwnInv, Own
  <2> QED
    BY <2>1, <2>2 DEF Stored, HasVersion
<1> HIDE DEF s, v
<1>3. /\ sources' \in [Source -> SourceRow] /\ sources'[s] = [life |-> "active", version |-> v]
      /\ \A t \in Source \ {s} : sources'[t] = sources[t]
  BY <1>1, <1>2 DEF SetCurrentVersion, IInv, Shapes, CatalogTypes, SourceRow, Lifecycle
<1>4. OthersStay(w) /\ at'[w] = "finish" /\ work'[w] = work[w]
  BY <1>1, Stays
<1>5. Effects(w)
  <2>1. SourcesStep(w)
    BY <1>1, <1>3 DEF SourcesStep, s
  <2> QED
    BY <1>1, <1>4, <2>1, Same DEF Effects
<1>6. SoundAfter
  <2>1. SourcesSound(sources', versions')
    BY <1>1, <1>2, <1>3 DEF SourcesSound, IInv, TablesInv
  <2>2. OriginalsThere'
    BY <1>1, <1>2, <1>3 DEF IInv, OriginalsThere
  <2> QED
    BY <1>1, <2>1, <2>2, SoundSame DEF SoundAfter
<1>7. Own(w)'
  <2>1. Kinds("finish", work[w], ops')
    BY <1>1, <1>2 DEF Kinds, HidePoint, ShowPoint, AddPoint, Marked
  <2>2. Current("finish", work[w], bases'[BaseOf(work[w].src)], sources'[work[w].src])
    BY DEF Current, Preparing, HidePoint, ShowPoint
  <2>3. Stored("finish", work[w], versions', objects') /\ Fresh("finish", work[w], index')
    BY DEF Stored, Fresh, HasVersion
  <2> QED
    BY <1>4, <2>1, <2>2, <2>3 DEF Own
<1>9. Disciplined(w)
  BY <1>1, <1>4 DEF Disciplined
<1> QED
  BY <1>5, <1>6, <1>7, <1>9, WriterStep

\* The operation is done.
LEMMA FinishStep ==
  ASSUME IInv, NEW w \in Writer, Finish(w)
  PROVE  IInv'
<1> USE DEF Point, ActivatePoint, Busy, Reconciling, Under
<1>1. /\ at[w] = "finish" /\ Goes(w, "release") /\ WriteStage(work[w].op, "active", TRUE)
      /\ UNCHANGED <<connection, bases, bindings, sources, versions, lease, known, index, objects, faults, turn>>
  BY DEF Finish, Me, stores
<1>2. /\ OpsStep(w) /\ DOMAIN ops' = DOMAIN ops /\ RowsSound(ops', versions, objects)
      /\ ops'[work[w].op].stage = "active" /\ ops'[work[w].op].src = work[w].src
  BY <1>1, StageWritten DEF Stage, HalfDone, Settled
<1>3. OthersStay(w) /\ at'[w] = "release" /\ work'[w] = work[w]
  BY <1>1, Stays
<1>4. Effects(w)
  BY <1>1, <1>2, <1>3, Same DEF Effects
<1>5. SoundAfter
  BY <1>1, <1>2, SoundSame DEF SoundAfter
<1>6. Own(w)'
  <2>0. Kinds("finish", work[w], ops) /\ work[w].op \in DOMAIN ops
    BY <1>1, MyOperation DEF IInv, OwnInv, Own
  <2>1. Kinds("release", work[w], ops')
    BY <1>2, <2>0 DEF OpsStep, Kinds, HidePoint, ShowPoint, AddPoint, Marked
  <2>2. Current("release", work[w], bases'[BaseOf(work[w].src)], sources'[work[w].src])
    BY DEF Current, Preparing, HidePoint, ShowPoint
  <2>3. Stored("release", work[w], versions', objects') /\ Fresh("release", work[w], index')
    BY DEF Stored, Fresh, HasVersion
  <2> QED
    BY <1>3, <2>1, <2>2, <2>3 DEF Own
<1>8. Disciplined(w)
  BY <1>1, <1>3 DEF Disciplined
<1> QED
  BY <1>4, <1>5, <1>6, <1>8, WriterStep

\* A command that fails under the lease, and may have done a part of its step at the index.
LEMMA FailsStep ==
  ASSUME IInv, NEW w \in Writer, at[w] \in Under, Fails(w), IndexStep(w), faults' \in 0..MaxFaults,
         UNCHANGED <<tables, objects, turn>>
  PROVE  IInv'
<1>1. /\ OthersStay(w) /\ at'[w] = "release" /\ work'[w].op = work[w].op
      /\ Own(w)' /\ Disciplined(w)
  BY Failing, Same DEF tables
<1>2. Effects(w)
  BY <1>1, Same DEF Effects, tables
<1>3. SoundAfter
  BY SoundSame DEF SoundAfter, tables
<1> QED
  BY <1>1, <1>2, <1>3, WriterStep

\* A provider fails.
LEMMA ProviderFailsStep ==
  ASSUME IInv, NEW w \in Writer, ProviderFails(w)
  PROVE  IInv'
<1>1. at[w] \in Under
  BY DEF ProviderFails, Under
<1>2. faults' \in 0..MaxFaults
  BY IngestionAssumption DEF ProviderFails, IInv, Shapes
<1> QED
  BY <1>1, <1>2, FailsStep, Same DEF ProviderFails, stores

-------------------------------------------------------------------------------
(* Hiding and deleting.                                                    *)

\* A source that was openable, or no longer is, keeps its original.
LEMMA Relived ==
  ASSUME IInv, NEW w \in Writer, at[w] \in Under, work[w].src \in Source,
         NEW life \in Lifecycle \ {"none"}, SetLifecycle(work[w].src, life),
         life \in Openable => sources[work[w].src].life \in Openable,
         UNCHANGED <<versions, objects>>
  PROVE  SourcesStep(w) /\ SourcesSound(sources', versions') /\ OriginalsThere'
<1> DEFINE s == work[w].src
<1>1. /\ sources' \in [Source -> SourceRow]
      /\ sources'[s].life = life /\ sources'[s].version = sources[s].version
      /\ \A t \in Source \ {s} : sources'[t] = sources[t]
  BY DEF SetLifecycle, IInv, Shapes, CatalogTypes, SourceRow
<1> HIDE DEF s
<1>2. SourcesStep(w)
  BY <1>1 DEF SourcesStep, s
<1>3. SourcesSound(sources', versions')
  BY <1>1 DEF IInv, TablesInv, SourcesSound
<1>4. OriginalsThere'
  BY <1>1 DEF IInv, OriginalsThere, s
<1> QED
  BY <1>2, <1>3, <1>4

\* The chunks of a hidden source end at the next revision.
LEMMA CloseHiddenStep ==
  ASSUME IInv, NEW w \in Writer, CloseHidden(w)
  PROVE  IInv'
<1> USE DEF Point, HidePoint, Busy, Reconciling, Under
<1>1. /\ at[w] = "hide_close" /\ Goes(w, "hide_commit") /\ UNCHANGED <<tables, objects, faults, turn>>
      /\ CloseChunks(work[w].gen, ChunksForSource(work[w].gen, work[w].src), work[w].rev + 1)
  BY DEF CloseHidden, Me
<1>2. OthersStay(w) /\ at'[w] = "hide_commit" /\ work'[w] = work[w]
  BY <1>1, Stays
<1>3. /\ Current("hide_close", work[w], bases[BaseOf(work[w].src)], sources[work[w].src])
      /\ Kinds("hide_close", work[w], ops)
  BY <1>1 DEF IInv, OwnInv, Own
<1>4. IndexStep(w)
  <2>1. work[w].gen \in Nat /\ work[w].rev = bases[BaseOf(work[w].src)].rev
    BY <1>1, <1>3, MyOperation DEF Current, Preparing, Work
  <2> QED
    BY <1>1, <2>1, ClosesItsOwn
<1>5. Effects(w)
  BY <1>1, <1>2, <1>4, Same DEF Effects, tables
<1>6. SoundAfter
  BY <1>1, SoundSame DEF SoundAfter, tables
<1>7. Own(w)'
  <2>1. Kinds("hide_commit", work[w], ops')
    BY <1>1, <1>3 DEF Kinds, ShowPoint, AddPoint, ActivatePoint, Marked, tables
  <2>2. Current("hide_commit", work[w], bases'[BaseOf(work[w].src)], sources'[work[w].src])
    BY <1>1, <1>3 DEF Current, Preparing, ShowPoint, tables
  <2>3. Stored("hide_commit", work[w], versions', objects') /\ Fresh("hide_commit", work[w], index')
    BY DEF Stored, Fresh, HasVersion
  <2> QED
    BY <1>2, <2>1, <2>2, <2>3 DEF Own
<1>9. Disciplined(w)
  BY <1>1, <1>2 DEF Disciplined
<1> QED
  BY <1>5, <1>6, <1>7, <1>9, WriterStep

\* The commit of hiding: a source that stays openable was openable.
LEMMA CommitHiddenStep ==
  ASSUME IInv, NEW w \in Writer, CommitHidden(w)
  PROVE  IInv' /\ BasesStep(w)
<1> USE DEF Point, HidePoint, Busy, Reconciling, Under
<1> DEFINE deleting == work[w].kind = "delete"
           life == IF deleting THEN "delete_pending" ELSE "inactive"
           p == IF deleting THEN "purge" ELSE "release"
<1>1. /\ at[w] = "hide_commit" /\ Goes(w, p) /\ SetLifecycle(work[w].src, life)
      /\ IF work[w].gen # 0 THEN ActivateRevision(BaseOf(work[w].src), work[w].gen, work[w].rev + 1)
                            ELSE UNCHANGED bases
      /\ UNCHANGED <<connection, bindings, versions, ops, lease, known, index, objects, faults, turn>>
  BY DEF CommitHidden, Me, stores
<1>2. /\ Current("hide_commit", work[w], bases[BaseOf(work[w].src)], sources[work[w].src])
      /\ Kinds("hide_commit", work[w], ops)
      /\ work[w].src \in Source /\ work[w].gen \in Nat /\ work[w].rev \in Nat
  BY <1>1, MyOperation DEF IInv, OwnInv, Own, Work
<1>3. BasesStep(w)
  <2>1. work[w].rev = bases[BaseOf(work[w].src)].rev /\ work[w].rev + 1 \in Nat
    BY <1>2 DEF Current, Preparing
  <2> QED
    BY <1>1, <1>2, <2>1, Activated, Same
<1>4. SourcesStep(w) /\ SourcesSound(sources', versions') /\ OriginalsThere'
  <2>1. life \in Lifecycle \ {"none"} /\ (life \in Openable => sources[work[w].src].life \in Openable)
    BY <1>2 DEF Lifecycle, Openable, Kinds, Current
  <2> HIDE DEF life
  <2> QED
    BY <1>1, <1>2, <2>1, Relived
<1>5. OthersStay(w) /\ at'[w] = p /\ work'[w] = work[w]
  BY <1>1, Stays
<1>6. Effects(w)
  BY <1>1, <1>3, <1>4, <1>5, Same DEF Effects
<1>7. SoundAfter
  BY <1>1, <1>4, SoundSame DEF SoundAfter
<1>8. Own(w)'
  <2>1. Kinds(p, work[w], ops')
    BY <1>1, <1>2 DEF Kinds, ShowPoint, AddPoint, ActivatePoint, Marked
  <2>2. Current(p, work[w], bases'[BaseOf(work[w].src)], sources'[work[w].src])
    BY DEF Current, Preparing, ShowPoint
  <2>3. Stored(p, work[w], versions', objects') /\ Fresh(p, work[w], index')
    BY DEF Stored, Fresh, HasVersion
  <2> QED
    BY <1>5, <2>1, <2>2, <2>3 DEF Own
<1>10. Disciplined(w)
  BY <1>1, <1>5 DEF Disciplined
<1> QED
  BY <1>3, <1>6, <1>7, <1>8, <1>10, WriterStep

\* What is purged is no openable source's, and no half-done operation's, for there is none.
LEMMA PurgeObjectsStep ==
  ASSUME IInv, NEW w \in Writer, PurgeObjects(w)
  PROVE  IInv'
<1> USE DEF Point, HidePoint, Busy, Reconciling, Under
<1> DEFINE purged == {content \in {versions[v].content : v \in {u \in DOMAIN versions :
                                       versions[u].src = work[w].src}} : Unreferenced(content)}
<1>1. /\ at[w] = "purge" /\ Goes(w, "deleted") /\ UNCHANGED <<tables, index, faults, turn>>
      /\ objects' = objects \ purged
  BY DEF PurgeObjects, Me
<1>2. OthersStay(w) /\ at'[w] = "deleted" /\ work'[w] = work[w]
  BY <1>1, Stays
<1>3. Kinds("purge", work[w], ops)
  BY <1>1 DEF IInv, OwnInv, Own
<1>4. Effects(w)
  <2>1. ObjectsStep(w)
    BY <1>1 DEF ObjectsStep, IInv, Shapes
  <2> QED
    BY <1>1, <1>2, <2>1, Same DEF Effects, tables
<1>5. OriginalsThere'
  <2> SUFFICES ASSUME NEW s \in Source, sources[s].life \in Openable, sources[s].version # 0
               PROVE  versions[sources[s].version].content \in objects'
    BY <1>1 DEF OriginalsThere, tables
  <2>1. sources[s].version \in DOMAIN versions /\ versions[sources[s].version].src = s
    BY DEF IInv, TablesInv, SourcesSound
  <2>2. versions[sources[s].version].content \in objects
    BY DEF IInv, OriginalsThere
  <2>3. ~ Unreferenced(versions[sources[s].version].content)
    BY <2>1 DEF Unreferenced
  <2> QED
    BY <1>1, <2>2, <2>3
<1>6. SoundAfter
  <2>1. RowsSound(ops', versions', objects')
    BY <1>1, <1>3 DEF RowsSound, Kinds, tables
  <2> QED
    BY <1>1, <1>5, <2>1, SoundSame DEF SoundAfter, tables
<1>7. Own(w)'
  <2>1. Kinds("deleted", work[w], ops')
    BY <1>1, <1>3 DEF Kinds, ShowPoint, AddPoint, ActivatePoint, Marked, tables
  <2>2. Current("deleted", work[w], bases'[BaseOf(work[w].src)], sources'[work[w].src])
    BY <1>3 DEF Current, Preparing, ShowPoint, Kinds
  <2>3. Stored("deleted", work[w], versions', objects') /\ Fresh("deleted", work[w], index')
    BY DEF Stored, Fresh, HasVersion
  <2> QED
    BY <1>2, <2>1, <2>2, <2>3 DEF Own
<1>9. Disciplined(w)
  BY <1>1, <1>2 DEF Disciplined
<1> QED
  BY <1>4, <1>6, <1>7, <1>9, WriterStep

\* The source is deleted.
LEMMA EndDeleteStep ==
  ASSUME IInv, NEW w \in Writer, EndDelete(w)
  PROVE  IInv'
<1> USE DEF Point, HidePoint, Busy, Reconciling, Under
<1>1. /\ at[w] = "deleted" /\ Goes(w, "release") /\ SetLifecycle(work[w].src, "deleted")
      /\ UNCHANGED <<connection, bases, bindings, versions, ops, lease, known, index, objects, faults, turn>>
  BY DEF EndDelete, Me, stores
<1>2. Kinds("deleted", work[w], ops) /\ work[w].src \in Source
  BY <1>1, MyOperation DEF IInv, OwnInv, Own
<1>3. SourcesStep(w) /\ SourcesSound(sources', versions') /\ OriginalsThere'
  BY <1>1, <1>2, Relived DEF Lifecycle, Openable
<1>4. OthersStay(w) /\ at'[w] = "release" /\ work'[w] = work[w]
  BY <1>1, Stays
<1>5. Effects(w)
  BY <1>1, <1>3, <1>4, Same DEF Effects
<1>6. SoundAfter
  BY <1>1, <1>3, SoundSame DEF SoundAfter
<1>7. Own(w)'
  <2>1. Kinds("release", work[w], ops')
    BY <1>1, <1>2 DEF Kinds, ShowPoint, AddPoint, ActivatePoint, Marked
  <2>2. Current("release", work[w], bases'[BaseOf(work[w].src)], sources'[work[w].src])
    BY DEF Current, Preparing, ShowPoint
  <2>3. Stored("release", work[w], versions', objects') /\ Fresh("release", work[w], index')
    BY DEF Stored, Fresh, HasVersion
  <2> QED
    BY <1>4, <2>1, <2>2, <2>3 DEF Own
<1>9. Disciplined(w)
  BY <1>1, <1>4 DEF Disciplined
<1> QED
  BY <1>5, <1>6, <1>7, <1>9, WriterStep

-------------------------------------------------------------------------------
(* Showing again.                                                          *)

\* Copying the chunk of the version shown is a step at the index, under the next number.
LEMMA CopiesItsOwn ==
  ASSUME IInv, NEW w \in Writer, at[w] = "show_copy", Copyable(w) # {},
         UpsertChunk(work[w].gen, NextCopy(work[w].old.version), work[w].rev + 1)
  PROVE  /\ IndexStep(w)
         /\ NextCopy(work[w].old.version) \in (0..MaxVersions) \X Nat
         /\ NextCopy(work[w].old.version)[1] \in DOMAIN versions
<1> USE DEF Point, ShowPoint, Busy, Reconciling
<1> DEFINE v == work[w].old.version
           key == NextCopy(v)
           chunk == [key |-> key, gen |-> work[w].gen, from |-> work[w].rev + 1, to |-> 0]
<1>1. index' = {c \in index : c.key # key} \cup {chunk}
  BY DEF UpsertChunk
<1>2. /\ Current("show_copy", work[w], bases[BaseOf(work[w].src)], sources[work[w].src])
      /\ work[w] \in Work /\ work[w].gen \in Nat /\ work[w].rev \in Nat
  BY MyOperation DEF IInv, OwnInv, Own, Work
<1>3. v \in DOMAIN versions /\ versions[v].src = work[w].src /\ v \in 1..MaxVersions
  <2>1. PICK c \in index : c.key \in ChunksForSource(work[w].gen, work[w].src) /\ c.key[1] = v
    BY DEF Copyable, Me
  <2>2. c.key[1] \in DOMAIN versions /\ versions[c.key[1]].src = work[w].src
    BY <2>1 DEF ChunksForSource, IInv, TablesInv, IndexSound
  <2> QED
    BY <2>1, <2>2, RowsTyped DEF IInv
<1>4. key = <<v, Cardinality(OfVersion(index, v))>>
  BY DEF NextCopy, OfVersion
<1>5. Cardinality(OfVersion(index, v)) \in Nat
  <2>1. IsFiniteSet(index) /\ OfVersion(index, v) \subseteq index
    BY DEF OfVersion, IInv, TablesInv, IndexSound
  <2> QED
    BY <2>1, FS_Subset, FS_CardinalityType
<1> HIDE DEF v, key
<1>6. /\ key \in Key /\ key[1] = v /\ key[2] = Cardinality(OfVersion(index, v))
      /\ key \in (0..MaxVersions) \X Nat
  BY <1>3, <1>4, <1>5 DEF Key
<1>7. chunk \in Chunk /\ chunk.key = key /\ chunk.from = work[w].rev + 1
  BY <1>2, <1>6 DEF Chunk
<1>8. IndexStep(w)
  <2>1. work[w].rev = bases[BaseOf(work[w].src)].rev
    BY <1>2 DEF Current, Preparing
  <2> HIDE DEF chunk
  <2> QED
    BY <1>1, <1>3, <1>6, <1>7, <2>1 DEF IndexStep
<1> QED
  BY <1>3, <1>6, <1>8 DEF key, v

\* A copy gets the next number of its version, and begins at the next revision.
LEMMA CopyShownStep ==
  ASSUME IInv, NEW w \in Writer, CopyShown(w)
  PROVE  IInv'
<1> USE DEF Point, ShowPoint, Busy, Reconciling, Under
<1> DEFINE key == NextCopy(work[w].old.version)
           r == [work[w] EXCEPT !.key = key]
<1>1. at[w] = "show_copy" /\ UNCHANGED <<tables, objects, faults, turn>>
  BY DEF CopyShown
<1>2. CASE Fails(w) /\ UNCHANGED index
  <2>1. faults' \in 0..MaxFaults
    BY <1>1, Same
  <2> QED
    BY <1>1, <1>2, <2>1, FailsStep, Same
<1>3. CASE /\ Copyable(w) # {}
           /\ UpsertChunk(work[w].gen, key, work[w].rev + 1)
           /\ Go(w, "show_remember") /\ Becomes(w, r)
  <2>1. /\ Current("show_copy", work[w], bases[BaseOf(work[w].src)], sources[work[w].src])
        /\ Kinds("show_copy", work[w], ops)
        /\ work[w] \in Work
    BY <1>1, MyOperation DEF IInv, OwnInv, Own, Work
  <2>2. IndexStep(w) /\ key \in (0..MaxVersions) \X Nat /\ key[1] \in DOMAIN versions
    BY <1>1, <1>3, CopiesItsOwn
  <2> HIDE DEF key
  <2>3. /\ r \in Work /\ r.op = work[w].op /\ r.src = work[w].src /\ r.kind = work[w].kind
        /\ r.todo = work[w].todo /\ r.key = key /\ r.rev = work[w].rev /\ r.old = work[w].old
    BY <2>1, <2>2 DEF Work
  <2> HIDE DEF r
  <2>4. OthersStay(w) /\ at'[w] = "show_remember" /\ work'[w] = r
    BY <1>3, <2>3, Moves
  <2>5. Effects(w)
    BY <1>1, <2>2, <2>4, Same DEF Effects, tables
  <2>6. SoundAfter
    BY <1>1, SoundSame DEF SoundAfter, tables
  <2>7. Own(w)'
    <3>1. Kinds("show_remember", r, ops')
      BY <1>1, <2>1, <2>3 DEF Kinds, HidePoint, AddPoint, ActivatePoint, Marked, tables
    <3>2. Current("show_remember", r, bases'[BaseOf(r.src)], sources'[r.src])
      BY <1>1, <2>1, <2>3 DEF Current, Preparing, HidePoint, tables
    <3>3. Stored("show_remember", r, versions', objects') /\ Fresh("show_remember", r, index')
      BY <1>1, <2>2, <2>3 DEF Stored, Fresh, HasVersion, tables
    <3> QED
      BY <2>4, <3>1, <3>2, <3>3 DEF Own
  <2>8. Disciplined(w)
    BY <1>1, <2>3, <2>4 DEF Disciplined
  <2> QED
    BY <2>5, <2>6, <2>7, <2>8, WriterStep
<1> QED
  BY <1>2, <1>3 DEF CopyShown, Me

\* The index fails after a part of what it was asked for, or before.
LEMMA IndexFailsStep ==
  ASSUME IInv, NEW w \in Writer, IndexFails(w)
  PROVE  IInv'
<1> USE DEF Point, AddPoint, HidePoint, ShowPoint, Busy, Reconciling, Under
<1>1. /\ at[w] \in {"upsert", "show_copy", "close", "hide_close"}
      /\ Fails(w) /\ UNCHANGED <<tables, objects, turn>>
  BY DEF IndexFails
<1>2. faults' \in 0..MaxFaults
  BY IngestionAssumption DEF IndexFails, IInv, Shapes
<1>3. IndexStep(w)
  <2>1. CASE UNCHANGED index
    BY <2>1, Same
  <2>2. CASE at[w] = "upsert" /\ UpsertChunk(work[w].gen, work[w].key, work[w].next)
    BY <2>2, WritesItsOwn
  <2>3. CASE /\ at[w] = "show_copy" /\ Copyable(w) # {}
             /\ UpsertChunk(work[w].gen, NextCopy(work[w].old.version), work[w].rev + 1)
    BY <2>3, CopiesItsOwn
  <2>4. ASSUME NEW keys \in SUBSET ChunksForSource(work[w].gen, work[w].src),
               \/ at[w] = "close" /\ CloseChunks(work[w].gen, keys, work[w].next)
               \/ at[w] = "hide_close" /\ CloseChunks(work[w].gen, keys, work[w].rev + 1)
        PROVE  IndexStep(w)
    <3>1. Current(at[w], work[w], bases[BaseOf(work[w].src)], sources[work[w].src])
      BY DEF IInv, OwnInv, Own
    <3>2. work[w].gen \in Nat
      BY <1>1, MyOperation DEF Work
    <3>3. CloseChunks(work[w].gen, keys, bases[BaseOf(work[w].src)].rev + 1)
      BY <2>4, <3>1 DEF Current, Preparing
    <3> QED
      BY <3>2, <3>3, ClosesItsOwn
  <2> QED
    BY <2>1, <2>2, <2>3, <2>4 DEF IndexFails, Me
<1> QED
  BY <1>1, <1>2, <1>3, FailsStep

\* The copy is registered in the catalog.
LEMMA RememberShownStep ==
  ASSUME IInv, NEW w \in Writer, RememberShown(w)
  PROVE  IInv'
<1> USE DEF Point, ShowPoint, Busy, Reconciling, Under
<1>1. /\ at[w] = "show_remember" /\ Goes(w, "show_commit") /\ Remember(work[w].gen, {work[w].key})
      /\ UNCHANGED <<connection, bases, bindings, sources, versions, ops, lease, index, objects, faults, turn>>
  BY DEF RememberShown, Me, stores
<1>2. OthersStay(w) /\ at'[w] = "show_commit" /\ work'[w] = work[w]
  BY <1>1, Stays
<1>3. /\ Current("show_remember", work[w], bases[BaseOf(work[w].src)], sources[work[w].src])
      /\ Kinds("show_remember", work[w], ops) /\ Stored("show_remember", work[w], versions, objects)
  BY <1>1 DEF IInv, OwnInv, Own
<1>4. known' \subseteq Nat \X Key /\ KnownSound(known', versions')
  <2>1. work[w].key[1] \in DOMAIN versions /\ work[w].gen \in Nat /\ work[w].key \in (0..MaxVersions) \X Nat
    BY <1>1, <1>3, MyOperation DEF Stored, Work
  <2> QED
    BY <1>1, <2>1, Remembered
<1>5. Effects(w)
  BY <1>1, <1>2, <1>4, Same DEF Effects
<1>6. SoundAfter
  BY <1>1, <1>4, SoundSame DEF SoundAfter
<1>7. Own(w)'
  <2>1. Kinds("show_commit", work[w], ops')
    BY <1>1, <1>3 DEF Kinds, HidePoint, AddPoint, ActivatePoint, Marked
  <2>2. Current("show_commit", work[w], bases'[BaseOf(work[w].src)], sources'[work[w].src])
    BY <1>1, <1>3 DEF Current, Preparing, HidePoint
  <2>3. Stored("show_commit", work[w], versions', objects') /\ Fresh("show_commit", work[w], index')
    BY DEF Stored, Fresh, HasVersion
  <2> QED
    BY <1>2, <2>1, <2>2, <2>3 DEF Own
<1>9. Disciplined(w)
  BY <1>1, <1>2 DEF Disciplined
<1> QED
  BY <1>5, <1>6, <1>7, <1>9, WriterStep

\* The commit of showing: the source was openable all along.
LEMMA CommitShownStep ==
  ASSUME IInv, NEW w \in Writer, CommitShown(w)
  PROVE  IInv' /\ BasesStep(w)
<1> USE DEF Point, ShowPoint, Busy, Reconciling, Under
<1>1. /\ at[w] = "show_commit" /\ Goes(w, "release") /\ SetLifecycle(work[w].src, "active")
      /\ ActivateRevision(BaseOf(work[w].src), work[w].gen, work[w].rev + 1)
      /\ UNCHANGED <<connection, bindings, versions, ops, lease, known, index, objects, faults, turn>>
  BY DEF CommitShown, Me, stores
<1>2. /\ Current("show_commit", work[w], bases[BaseOf(work[w].src)], sources[work[w].src])
      /\ Kinds("show_commit", work[w], ops)
      /\ work[w].src \in Source /\ work[w].gen \in Nat /\ work[w].rev \in Nat
  BY <1>1, MyOperation DEF IInv, OwnInv, Own, Work
<1>3. BasesStep(w)
  <2>1. work[w].rev = bases[BaseOf(work[w].src)].rev /\ work[w].rev + 1 \in Nat
    BY <1>2 DEF Current, Preparing
  <2> QED
    BY <1>1, <1>2, <2>1, Activated
<1>4. SourcesStep(w) /\ SourcesSound(sources', versions') /\ OriginalsThere'
  <2>1. sources[work[w].src].life \in Openable
    BY <1>2 DEF Current
  <2> QED
    BY <1>1, <1>2, <2>1, Relived DEF Lifecycle
<1>5. OthersStay(w) /\ at'[w] = "release" /\ work'[w] = work[w]
  BY <1>1, Stays
<1>6. Effects(w)
  BY <1>1, <1>3, <1>4, <1>5, Same DEF Effects
<1>7. SoundAfter
  BY <1>1, <1>4, SoundSame DEF SoundAfter
<1>8. Own(w)'
  <2>1. Kinds("release", work[w], ops')
    BY <1>1, <1>2 DEF Kinds, HidePoint, AddPoint, ActivatePoint, Marked
  <2>2. Current("release", work[w], bases'[BaseOf(work[w].src)], sources'[work[w].src])
    BY DEF Current, Preparing, HidePoint
  <2>3. Stored("release", work[w], versions', objects') /\ Fresh("release", work[w], index')
    BY DEF Stored, Fresh, HasVersion
  <2> QED
    BY <1>5, <2>1, <2>2, <2>3 DEF Own
<1>10. Disciplined(w)
  BY <1>1, <1>5 DEF Disciplined
<1> QED
  BY <1>3, <1>6, <1>7, <1>8, <1>10, WriterStep

-------------------------------------------------------------------------------
(* Ends of commands, and the lease.                                        *)

\* A command that ends leaves everything as it is, but perhaps its lease.
LEMMA EndsStep ==
  ASSUME IInv, NEW w \in Writer, at[w] # "idle", Ends(w), LeaseStep, faults' \in 0..MaxFaults,
         UNCHANGED <<connection, bases, bindings, sources, versions, ops, known, index, objects, turn>>
  PROVE  IInv'
<1>1. OthersStay(w) /\ at'[w] = "idle" /\ work'[w] = NoWork /\ Own(w)'
  BY Ending
<1>2. Effects(w)
  BY <1>1, Same DEF Effects
<1>3. SoundAfter
  BY SoundSame DEF SoundAfter
<1>4. at'[w] \notin Under /\ Disciplined(w)
  BY <1>1 DEF Disciplined, Under, HidePoint, ShowPoint, Busy, Reconciling
<1> QED
  BY <1>1, <1>2, <1>3, <1>4, WriterStep

\* A command that succeeds leaves everything as it is, but perhaps its lease.
LEMMA SucceedsStep ==
  ASSUME IInv, NEW w \in Writer, at[w] # "idle", Succeeds(w), LeaseStep, faults' \in 0..MaxFaults,
         UNCHANGED <<connection, bases, bindings, sources, versions, ops, known, index, objects, turn>>
  PROVE  IInv'
<1>1. /\ OthersStay(w) /\ Own(w)' /\ at'[w] \in {"idle", "take_over"}
      /\ at'[w] = "take_over" => work[w].kind = "reconcile" /\ work'[w].kind = "reconcile"
                                   /\ work[w].todo # {}
  BY Succeeding
<1>2. Effects(w)
  BY <1>1, Same DEF Effects
<1>3. SoundAfter
  BY SoundSame DEF SoundAfter
<1>4. at'[w] \notin Under /\ Disciplined(w)
  BY <1>1 DEF Disciplined, Under, HidePoint, ShowPoint, Busy, Reconciling
<1> QED
  BY <1>1, <1>2, <1>3, <1>4, WriterStep

\* A crash forgets the locals, and the lease stays behind.
LEMMA CrashStep ==
  ASSUME IInv, NEW w \in Writer, Crash(w)
  PROVE  IInv'
<1>1. faults' \in 0..MaxFaults
  BY IngestionAssumption DEF Crash, IInv, Shapes
<1> QED
  BY <1>1, EndsStep, Same DEF Crash, tables, stores

\* A command whose lease is free goes on where it stands; the check changes nothing it knows.
LEMMA CheckLeaseStep ==
  ASSUME IInv, NEW w \in Writer, CheckLease(w)
  PROVE  IInv'
<1> DEFINE r == [work[w] EXCEPT !.cleared = TRUE]
<1>1. /\ at[w] \in LeasePoint \cup {"take_over"} /\ at[w] \in Point /\ work[w] \in Work
      /\ UNCHANGED <<connection, bases, bindings, sources, versions, ops, lease, known, index, objects, faults, turn>>
  BY DEF CheckLease, tables, stores, IInv, Shapes
<1>2. at[w] # "idle"
  BY <1>1 DEF LeasePoint
<1>3. CASE Ends(w)
  BY <1>1, <1>2, <1>3, EndsStep, Same
<1>4. CASE Go(w, at[w]) /\ Becomes(w, r)
  <2>1. /\ r \in Work /\ r.op = work[w].op /\ r.src = work[w].src /\ r.kind = work[w].kind
        /\ r.todo = work[w].todo /\ r.old = work[w].old /\ r.rev = work[w].rev
        /\ r.next = work[w].next /\ r.key = work[w].key /\ r.content = work[w].content
    BY <1>1 DEF Work
  <2> HIDE DEF r
  <2>2. OthersStay(w) /\ at'[w] = at[w] /\ work'[w] = r
    BY <1>1, <1>4, <2>1, Moves
  <2>3. Effects(w)
    BY <1>1, <2>2, Same DEF Effects
  <2>4. SoundAfter
    BY <1>1, SoundSame DEF SoundAfter
  <2>5. Own(w)'
    <3>1. Own(w)
      BY DEF IInv, OwnInv
    <3>2. Kinds(at[w], r, ops)
      BY <2>1, <3>1 DEF Own, Kinds
    <3>3. /\ Current(at[w], r, bases[BaseOf(r.src)], sources[r.src])
          /\ Stored(at[w], r, versions, objects) /\ Fresh(at[w], r, index)
      BY <2>1, <3>1 DEF Own, Current, Stored, Fresh
    <3> QED
      BY <1>1, <2>2, <3>2, <3>3 DEF Own
  <2>6. Disciplined(w)
    BY <1>1, <2>1, <2>2 DEF Disciplined, LeasePoint, Busy, Point, AddPoint, ActivatePoint, HidePoint, ShowPoint,
                            Reconciling, Under
  <2> QED
    BY <2>3, <2>4, <2>5, <2>6, WriterStep
<1> QED
  BY <1>3, <1>4 DEF CheckLease, Me

\* Who takes the lease with nobody else under it, and finds what it has read as it was, knows
\* what it must know under it.
LEMMA TakeLeaseStep ==
  ASSUME IInv, NEW w \in Writer, TakeLease(w), ~ Intrudes(w), ~ Outdated(w)
  PROVE  IInv'
<1> USE DEF Point, Busy, Reconciling, AddPoint, ActivatePoint, HidePoint, ShowPoint
<1> DEFINE p == at[w]
           q == AfterLease[at[w]]
           r == [work[w] EXCEPT !.cleared = FALSE]
<1>1. /\ p \in LeasePoint /\ lease' = [op |-> work[w].op, live |-> TRUE] /\ Go(w, q) /\ Becomes(w, r)
      /\ UNCHANGED <<connection, bases, bindings, sources, versions, ops, known, index, objects, faults, turn>>
  BY DEF TakeLease, AcquireLease, Me, stores
<1>2. /\ \/ p = "add_lease" /\ q = "received"
         \/ p = "resume_lease" /\ q = "resume_check"
         \/ p = "hide_lease" /\ q = "hide_close"
         \/ p = "show_lease" /\ q = "show_copy"
      /\ q \in Point /\ q \in Under
  BY <1>1 DEF LeasePoint, AfterLease, Under
<1>3. /\ work[w].op \in DOMAIN ops /\ work[w].op \in 0..MaxOps /\ work[w] \in Work
      /\ Kinds(p, work[w], ops)
      /\ Current(p, work[w], bases[BaseOf(work[w].src)], sources[work[w].src])
      /\ Stored(p, work[w], versions, objects)
  BY <1>2, MyOperation DEF IInv, OwnInv, Own, Work
<1>4. /\ MayAcquire(work[w].op, FALSE)
      /\ \A v \in Writer \ {w} : at[v] \notin Under
  <2>1. \A v \in Writer \ {w} : at[v] \notin HoldPoint
    BY DEF Intrudes
  <2>2. \A v \in Writer : at[v] \in Under => at[v] \in HoldPoint
    BY DEF Under, HoldPoint
  <2> QED
    BY <1>2, <2>1, <2>2 DEF Intrudes, Wanted, Me
<1>5. /\ p = "add_lease" => ops[work[w].op].stage \in {"unknown"} \cup Early
      /\ p = "resume_lease" => ops[work[w].op].stage = "index_validated"
      /\ p # "resume_lease" => work[w].old = sources[work[w].src]
      /\ p \in {"hide_lease", "show_lease"} => work[w].rev = bases[BaseOf(work[w].src)].rev
  BY <1>1 DEF Outdated, Expected, LeasePoint, Me
<1>6. /\ r \in Work /\ r.op = work[w].op /\ r.src = work[w].src /\ r.kind = work[w].kind
      /\ r.todo = work[w].todo /\ r.old = work[w].old /\ r.rev = work[w].rev
      /\ r.next = work[w].next /\ r.key = work[w].key /\ r.content = work[w].content
  BY <1>3 DEF Work
<1> HIDE DEF p, q, r
<1>7. OthersStay(w) /\ at'[w] = q /\ work'[w] = r
  BY <1>1, <1>2, <1>6, Moves
<1>8. Effects(w)
  BY <1>1, <1>3, <1>7, Same DEF Effects, LeaseStep
<1>9. SoundAfter
  BY <1>1, SoundSame DEF SoundAfter
<1>10. q = "hide_close" => \A o \in DOMAIN ops : ops[o].stage \notin HalfDone
  BY <1>2, <1>3, <1>4 DEF MayAcquire, Unfinished, Kinds, HalfDone
<1>11. Kinds(q, r, ops')
  <2>1. q = "received" => ops[work[w].op].stage \notin Settled
    BY <1>2, <1>5 DEF Early, Settled
  <2> QED
    BY <1>1, <1>2, <1>3, <1>6, <1>10, <2>1 DEF Kinds, Marked
<1>12. Current(q, r, bases'[BaseOf(r.src)], sources'[r.src])
  BY <1>1, <1>2, <1>3, <1>5, <1>6 DEF Current, Preparing
<1>13. Stored(q, r, versions', objects') /\ Fresh(q, r, index')
  <2>1. CASE p = "resume_lease"
    <3>1. /\ ops[work[w].op].stage \in HalfDone /\ ops[work[w].op].version = work[w].key[1]
      BY <1>3, <1>5, <2>1 DEF Kinds, HalfDone
    <3>2. versions[work[w].key[1]].content \in objects
      BY <1>3, <3>1 DEF IInv, TablesInv, RowsSound
    <3> QED
      BY <1>1, <1>2, <1>3, <1>6, <2>1, <3>2 DEF Stored, Fresh, HasVersion
  <2>2. CASE p # "resume_lease"
    BY <1>2, <2>2 DEF Stored, Fresh, HasVersion
  <2> QED
    BY <2>1, <2>2
<1>14. Own(w)'
  BY <1>7, <1>11, <1>12, <1>13 DEF Own
<1>15. Disciplined(w)
  BY <1>2, <1>4, <1>6, <1>7 DEF Disciplined, p
<1> QED
  BY <1>8, <1>9, <1>14, <1>15, WriterStep

\* The lease is given back.
LEMMA DropLeaseStep ==
  ASSUME IInv, NEW w \in Writer, DropLease(w)
  PROVE  IInv'
<1>1. /\ at[w] = "release" /\ ReleaseLease(work[w].op)
      /\ Ends(w) \/ Succeeds(w)
      /\ UNCHANGED <<connection, bases, bindings, sources, versions, ops, known, index, objects, faults, turn>>
  BY DEF DropLease, Me, stores
<1>2. LeaseStep
  BY <1>1, CatalogAssumption DEF LeaseStep, ReleaseLease, NoLease, IInv, Shapes, CatalogTypes
<1>3. faults' \in 0..MaxFaults
  BY <1>1, Same
<1> QED
  BY <1>1, <1>2, <1>3, EndsStep, SucceedsStep

-------------------------------------------------------------------------------
(* Retry and reconcile.                                                    *)

\* A reconciling writer has an operation to take next.
LEMMA NextToDo ==
  ASSUME IInv, NEW w \in Writer, at[w] \in {"take_over", "give_back", "retry"}
  PROVE  /\ work[w] \in Work /\ work[w].kind = "reconcile" /\ work[w].todo \subseteq DOMAIN ops
         /\ First(work[w].todo) \in work[w].todo
         /\ First(work[w].todo) \in DOMAIN ops /\ First(work[w].todo) \in 0..MaxOps
         /\ ops[First(work[w].todo)].stage # "unknown"
<1>1. /\ work[w] \in Work /\ work[w].todo \subseteq DOMAIN ops /\ work[w].todo # {}
      /\ \A o \in work[w].todo : ops[o].stage # "unknown"
      /\ work[w].kind = "reconcile" /\ DOMAIN ops \subseteq 1..MaxOps
  BY RowsTyped DEF IInv, OwnInv, Own, Kinds, Shapes, Op, Reconciling
<1>2. First(work[w].todo) \in work[w].todo
  BY <1>1, FirstIsThere
<1> QED
  BY <1>1, <1>2

\* reconcile takes the lease of the operation it is about to retry.
LEMMA TakeOverStep ==
  ASSUME IInv, NEW w \in Writer, TakeOver(w)
  PROVE  IInv'
<1> DEFINE o == First(work[w].todo)
           r == [work[w] EXCEPT !.cleared = FALSE]
<1>1. /\ at[w] = "take_over" /\ lease' = [op |-> o, live |-> TRUE] /\ Go(w, "give_back") /\ Becomes(w, r)
      /\ UNCHANGED <<connection, bases, bindings, sources, versions, ops, known, index, objects, faults, turn>>
  BY DEF TakeOver, AcquireLease, Wanted, Me, stores
<1>2. o \in 0..MaxOps /\ work[w] \in Work
  BY <1>1, NextToDo
<1>3. /\ r \in Work /\ r.kind = work[w].kind /\ r.todo = work[w].todo
  BY <1>2 DEF Work
<1> HIDE DEF r, o
<1>4. OthersStay(w) /\ at'[w] = "give_back" /\ work'[w] = r
  BY <1>1, <1>3, Moves DEF Point
<1>5. Effects(w)
  BY <1>1, <1>2, <1>4, Same DEF Effects, LeaseStep, Under, HidePoint, ShowPoint
<1>6. SoundAfter
  BY <1>1, SoundSame DEF SoundAfter
<1>7. Own(w)'
  <2>1. Kinds("take_over", work[w], ops)
    BY <1>1 DEF IInv, OwnInv, Own
  <2>2. Kinds("give_back", r, ops')
    BY <1>1, <1>3, <2>1
       DEF Kinds, Reconciling, Busy, HidePoint, ShowPoint, AddPoint, ActivatePoint, Marked
  <2>3. "give_back" \notin Preparing \cup HasVersion \cup ShowPoint \cup HidePoint
    BY DEF Preparing, HasVersion, ShowPoint, HidePoint
  <2> QED
    BY <1>4, <2>2, <2>3 DEF Own, Current, Stored, Fresh
<1>8. Disciplined(w)
  BY <1>4 DEF Disciplined, Under, HidePoint, ShowPoint, Busy, Reconciling
<1> QED
  BY <1>5, <1>6, <1>7, <1>8, WriterStep

\* reconcile gives that lease back before the retry.
LEMMA GiveBackStep ==
  ASSUME IInv, NEW w \in Writer, GiveBack(w)
  PROVE  IInv'
<1>1. /\ at[w] = "give_back" /\ ReleaseLease(First(work[w].todo)) /\ Goes(w, "retry")
      /\ UNCHANGED <<connection, bases, bindings, sources, versions, ops, known, index, objects, faults, turn>>
  BY DEF GiveBack, Me, stores
<1>2. OthersStay(w) /\ at'[w] = "retry" /\ work'[w] = work[w]
  BY <1>1, Stays DEF Point
<1>3. LeaseStep
  BY <1>1, CatalogAssumption DEF LeaseStep, ReleaseLease, NoLease, IInv, Shapes, CatalogTypes
<1>4. Effects(w)
  BY <1>1, <1>2, <1>3, Same DEF Effects
<1>5. SoundAfter
  BY <1>1, SoundSame DEF SoundAfter
<1>6. Own(w)'
  <2>1. Kinds("give_back", work[w], ops)
    BY <1>1 DEF IInv, OwnInv, Own
  <2>2. Kinds("retry", work[w], ops')
    BY <1>1, <2>1
       DEF Kinds, Reconciling, Busy, HidePoint, ShowPoint, AddPoint, ActivatePoint, Marked
  <2>3. "retry" \notin Preparing \cup HasVersion \cup ShowPoint \cup HidePoint
    BY DEF Preparing, HasVersion, ShowPoint, HidePoint
  <2> QED
    BY <1>2, <2>2, <2>3 DEF Own, Current, Stored, Fresh
<1>7. at'[w] \notin Under /\ Disciplined(w)
  BY <1>1, <1>2 DEF Disciplined, Under, HidePoint, ShowPoint, Busy, Reconciling
<1> QED
  BY <1>4, <1>5, <1>6, <1>7, WriterStep

\* What a retry comes to: it ends, or its operation is taken up where it was left.
TakenUp(w, o) ==
  /\ OthersStay(w) /\ Own(w)' /\ at'[w] \in Point \ Under
  /\ \/ at'[w] = "idle"
     \/ at'[w] = "take_over"
     \/ work'[w].op = o

\* Resuming an operation comes to that, whatever its stage.
LEMMA Resuming ==
  ASSUME IInv, NEW w \in Writer, NEW o \in DOMAIN ops, ops[o].stage # "unknown",
         NEW r \in Work, r.todo \subseteq DOMAIN ops,
         \A q \in r.todo : ops[q].stage # "unknown",
         r.kind \in {"add", "reconcile"}, r.todo # {} => r.kind = "reconcile",
         Resume(w, o, r), UNCHANGED <<tables, stores>>
  PROVE  TakenUp(w, o)
<1> USE DEF Point, Busy, Reconciling, AddPoint, ActivatePoint, HidePoint, ShowPoint
<1> DEFINE row == ops[o]
           fresh == [r EXCEPT !.op = o, !.src = row.src, !.replace = row.replace]
           resumed == [fresh EXCEPT !.gen = row.gen, !.next = row.next, !.key = <<row.version, 0>>]
           again(c) == [fresh EXCEPT !.content = c, !.old = sources[row.src]]
<1>0. \/ row.stage = "active" /\ Succeeds(w)
      \/ row.stage = "index_validated" /\ Go(w, "resume_lease") /\ Becomes(w, resumed)
      \/ row.stage = "indexing" /\ Go(w, "resume_index") /\ Becomes(w, resumed)
      \/ \E c \in Content : Go(w, "add_lease") /\ Becomes(w, again(c))
      \/ Succeeds(w)
      \/ Ends(w)
  BY DEF Resume
<1>1. /\ row \in OpRow /\ o \in Op /\ row.src \in Source /\ row.replace \in BOOLEAN /\ row.gen \in Nat
      /\ row.next \in Nat /\ row.version \in 0..MaxVersions /\ sources[row.src] \in SourceRow
      /\ o \in 0..MaxOps
  BY RowsTyped DEF IInv, OpRow, Op
<1>2. /\ ops' = ops /\ versions' = versions /\ sources' = sources /\ bases' = bases
      /\ objects' = objects /\ index' = index
  BY DEF tables, stores
<1>3. ASSUME Ends(w) PROVE TakenUp(w, o)
  BY <1>3, Ending DEF TakenUp, Under
<1>4. ASSUME Succeeds(w) PROVE TakenUp(w, o)
  BY <1>2, <1>4, Succeeding DEF TakenUp, Under
<1>5. /\ fresh \in Work /\ fresh.op = o /\ fresh.src = row.src /\ fresh.kind = r.kind
      /\ fresh.todo = r.todo
  BY <1>1 DEF Work
<1> HIDE DEF fresh
<1>6. ASSUME NEW p \in {"resume_lease", "resume_index"}, Go(w, p), Becomes(w, resumed),
             row.stage = IF p = "resume_lease" THEN "index_validated" ELSE "indexing"
      PROVE  TakenUp(w, o)
  <2>1. <<row.version, 0>> \in (0..MaxVersions) \X Nat
    BY <1>1
  <2>2. /\ resumed \in Work /\ resumed.op = o /\ resumed.src = row.src /\ resumed.kind = r.kind
        /\ resumed.todo = r.todo /\ resumed.key = <<row.version, 0>> /\ resumed.key[1] = row.version
    BY <1>1, <1>5, <2>1 DEF Work
  <2> HIDE DEF resumed
  <2>3. OthersStay(w) /\ at'[w] = p /\ work'[w] = resumed
    BY <1>6, <2>2, Moves
  <2>4. Kinds(p, resumed, ops)
    BY <1>6, <2>2 DEF Kinds, Marked, Settled
  <2>5. Current(p, resumed, bases[BaseOf(row.src)], sources[row.src]) /\ Fresh(p, resumed, index)
    BY <1>6 DEF Current, Fresh, Preparing
  <2>6. Stored(p, resumed, versions, objects)
    <3>1. /\ row.version \in DOMAIN versions /\ versions[row.version].src = row.src
          /\ versions[row.version].content \in objects
      BY <1>6 DEF IInv, TablesInv, RowsSound, HalfDone
    <3> QED
      BY <1>6, <2>2, <3>1 DEF Stored
  <2>7. Own(w)'
    BY <1>2, <2>2, <2>3, <2>4, <2>5, <2>6 DEF Own
  <2> QED
    BY <1>6, <2>2, <2>3, <2>7 DEF TakenUp, Under
<1>7. ASSUME NEW c \in Content, Go(w, "add_lease"), Becomes(w, again(c))
      PROVE  TakenUp(w, o)
  <2>1. /\ again(c) \in Work /\ again(c).op = o /\ again(c).src = row.src /\ again(c).kind = r.kind
        /\ again(c).todo = r.todo /\ again(c).old = sources[row.src]
    BY <1>1, <1>5 DEF Work
  <2> HIDE DEF again
  <2>2. OthersStay(w) /\ at'[w] = "add_lease" /\ work'[w] = again(c)
    BY <1>7, <2>1, Moves
  <2>3. Kinds("add_lease", again(c), ops)
    BY <2>1 DEF Kinds, Marked
  <2>4. Current("add_lease", again(c), bases[BaseOf(row.src)], sources[row.src])
    BY <2>1 DEF Current, Preparing
  <2>5. Stored("add_lease", again(c), versions, objects) /\ Fresh("add_lease", again(c), index)
    BY DEF Stored, Fresh, HasVersion
  <2>6. Own(w)'
    BY <1>2, <2>1, <2>2, <2>3, <2>4, <2>5 DEF Own
  <2> QED
    BY <2>1, <2>2, <2>6 DEF TakenUp, Under
<1> HIDE DEF again, resumed, row
<1> QED
  BY <1>0, <1>3, <1>4, <1>6, <1>7
\* Taking an operation up writes nothing, but for the writer's own locals.
LEMMA TakenUpStep ==
  ASSUME IInv, NEW w \in Writer, NEW o \in DOMAIN ops, ops[o].stage # "unknown", TakenUp(w, o),
         UNCHANGED <<tables, stores, faults, turn>>
  PROVE  IInv'
<1>1. UNCHANGED <<connection, bases, bindings, sources, versions, ops, lease, known, index, objects, faults, turn>>
  BY DEF tables, stores
<1>2. Effects(w)
  BY <1>1, Same DEF Effects, TakenUp
<1>3. SoundAfter
  BY <1>1, SoundSame DEF SoundAfter
<1>4. Own(w)'
  BY DEF TakenUp
<1>5. Disciplined(w)
  BY DEF TakenUp, Disciplined, Busy, Reconciling
<1> QED
  BY <1>2, <1>3, <1>4, <1>5, WriterStep

\* reconcile retries its next operation.
LEMMA RetryNextStep ==
  ASSUME IInv, NEW w \in Writer, RetryNext(w)
  PROVE  IInv'
<1> DEFINE r == work[w]
           o == First(r.todo)
<1>1. at[w] = "retry" /\ Resume(w, o, r) /\ UNCHANGED <<tables, stores, faults, turn>>
  BY DEF RetryNext, Me
<1>2. /\ r \in Work /\ r.kind = "reconcile" /\ r.todo \subseteq DOMAIN ops
      /\ o \in DOMAIN ops /\ ops[o].stage # "unknown"
  BY <1>1, NextToDo
<1>3. \A q \in r.todo : ops[q].stage # "unknown"
  BY DEF IInv, OwnInv, Own, Kinds
<1> HIDE DEF o, r
<1>4. TakenUp(w, o)
  BY <1>1, <1>2, <1>3, Resuming
<1> QED
  BY <1>1, <1>2, <1>4, TakenUpStep

\* A resumed operation writes its stage before it has the lease, and finds it indexing.
LEMMA ResumeIndexStep ==
  ASSUME IInv, NEW w \in Writer, ResumeIndex(w), ops[work[w].op].stage = "indexing"
  PROVE  IInv'
<1> USE DEF Point, AddPoint, ActivatePoint, Busy, Reconciling
<1>1. /\ at[w] = "resume_index" /\ Goes(w, "resume_lease") /\ Remember(work[w].gen, {work[w].key})
      /\ WriteStage(work[w].op, "index_validated", TRUE)
      /\ UNCHANGED <<connection, bases, bindings, sources, versions, lease, index, objects, faults, turn>>
  BY DEF ResumeIndex, Me, stores
<1>2. /\ Kinds("resume_index", work[w], ops) /\ Stored("resume_index", work[w], versions, objects)
      /\ work[w] \in Work
  BY <1>1, MyOperation DEF IInv, OwnInv, Own
<1>3. OthersStay(w) /\ at'[w] = "resume_lease" /\ work'[w] = work[w]
  BY <1>1, Stays
<1>4. /\ OpsStep(w) /\ DOMAIN ops' = DOMAIN ops /\ RowsSound(ops', versions, objects)
      /\ ops'[work[w].op].stage = "index_validated" /\ ops'[work[w].op].src = work[w].src
      /\ ops'[work[w].op].version = ops[work[w].op].version
  <2>1. work[w].op \in DOMAIN ops /\ ops[work[w].op].stage \in Settled
    BY <1>1, MyOperation DEF Settled
  <2>2. /\ OpsStep(w) /\ DOMAIN ops' = DOMAIN ops /\ RowsSound(ops', versions, objects)
        /\ ops'[work[w].op].stage = "index_validated" /\ ops'[work[w].op].src = work[w].src
    BY <1>1, StageWritten DEF Stage, HalfDone, Settled
  <2> QED
    BY <2>1, <2>2 DEF OpsStep
<1>5. known' \subseteq Nat \X Key /\ KnownSound(known', versions')
  <2>1. work[w].key[1] \in DOMAIN versions /\ work[w].gen \in Nat /\ work[w].key \in (0..MaxVersions) \X Nat
    BY <1>2 DEF Stored, HasVersion, Work
  <2> QED
    BY <1>1, <2>1, Remembered
<1>6. Effects(w)
  BY <1>1, <1>3, <1>4, <1>5, Same DEF Effects, Under
<1>7. SoundAfter
  BY <1>1, <1>4, <1>5, SoundSame DEF SoundAfter
<1>8. Own(w)'
  <2>1. Kinds("resume_lease", work[w], ops')
    BY <1>2, <1>4 DEF OpsStep, Kinds, HidePoint, ShowPoint, Marked, Settled
  <2>2. Current("resume_lease", work[w], bases'[BaseOf(work[w].src)], sources'[work[w].src])
    BY DEF Current, Preparing, HidePoint, ShowPoint
  <2>3. Stored("resume_lease", work[w], versions', objects') /\ Fresh("resume_lease", work[w], index')
    BY <1>1, <1>2 DEF Stored, Fresh, HasVersion
  <2> QED
    BY <1>3, <2>1, <2>2, <2>3 DEF Own
<1>9. at'[w] \notin Under /\ Disciplined(w)
  BY <1>1, <1>3 DEF Disciplined, Under, HidePoint, ShowPoint, Busy, Reconciling
<1> QED
  BY <1>6, <1>7, <1>8, <1>9, WriterStep

\* A resumed operation goes on only if its revision is not before the current one.
LEMMA ResumeCheckStep ==
  ASSUME IInv, NEW w \in Writer, ResumeCheck(w)
  PROVE  IInv'
<1> USE DEF Point, AddPoint, ActivatePoint, Busy, Reconciling, Under
<1>1. /\ at[w] = "resume_check"
      /\ UNCHANGED <<connection, bases, bindings, sources, versions, ops, lease, known, index, objects, faults, turn>>
  BY DEF ResumeCheck, tables, stores
<1>2. /\ Kinds("resume_check", work[w], ops) /\ Stored("resume_check", work[w], versions, objects)
  BY <1>1 DEF IInv, OwnInv, Own
<1>3. CASE Fails(w)
  BY <1>1, <1>3, FailsStep, Same DEF tables
<1>4. CASE bases[BaseOf(work[w].src)].rev <= work[w].next /\ Goes(w, "activate")
  <2>1. OthersStay(w) /\ at'[w] = "activate" /\ work'[w] = work[w]
    BY <1>4, Stays
  <2>2. Effects(w)
    BY <1>1, <2>1, Same DEF Effects
  <2>3. SoundAfter
    BY <1>1, SoundSame DEF SoundAfter
  <2>4. Kinds("activate", work[w], ops')
    BY <1>1, <1>2 DEF Kinds, HidePoint, ShowPoint, Marked
  <2>5. Current("activate", work[w], bases'[BaseOf(work[w].src)], sources'[work[w].src])
    BY <1>1, <1>4 DEF Current, Preparing, HidePoint, ShowPoint
  <2>6. Stored("activate", work[w], versions', objects') /\ Fresh("activate", work[w], index')
    BY <1>1, <1>2 DEF Stored, Fresh, HasVersion
  <2>7. Own(w)'
    BY <2>1, <2>4, <2>5, <2>6 DEF Own
  <2>8. Disciplined(w)
    BY <1>1, <2>1 DEF Disciplined
  <2> QED
    BY <2>2, <2>3, <2>7, <2>8, WriterStep
<1>5. Fails(w) \/ (bases[BaseOf(work[w].src)].rev <= work[w].next /\ Goes(w, "activate"))
  BY DEF ResumeCheck, Me
<1> QED
  BY <1>3, <1>4, <1>5

-------------------------------------------------------------------------------
(* A command starts.                                                       *)

\* A retry starts.
LEMMA RetryStep ==
  ASSUME IInv, NEW w \in Writer, NEW o \in DOMAIN ops, Retry(w, o)
  PROVE  IInv'
<1>1. /\ at[w] = "idle" /\ Resume(w, o, NoWork) /\ ops[o].stage # "unknown"
      /\ UNCHANGED <<tables, stores, faults, turn>>
  BY DEF Retry
<1>2. TakenUp(w, o)
  BY <1>1, NoWorkTyped, Resuming
<1> QED
  BY <1>1, <1>2, TakenUpStep

\* A command without an operation goes to a point where it has none.
LEMMA Reconciles ==
  ASSUME IInv, NEW w \in Writer, NEW p \in Reconciling \ {"take_over", "give_back", "retry"},
         NEW r \in Work, r.kind = "reconcile", r.todo \subseteq DOMAIN ops,
         \A o \in r.todo : ops[o].stage # "unknown",
         Go(w, p), Becomes(w, r), LeaseStep,
         UNCHANGED <<connection, bases, bindings, sources, versions, ops, known, index, objects, faults, turn>>,
         at[w] \in Reconciling \cup {"idle"}
  PROVE  IInv'
<1>1. p \in {"expire", "list"}
  BY DEF Reconciling
<1>2. OthersStay(w) /\ at'[w] = p /\ work'[w] = r
  BY <1>1, Moves DEF Point
<1>3. Effects(w)
  BY <1>2, Same DEF Effects, Under, HidePoint, ShowPoint, Reconciling
<1>4. SoundAfter
  BY SoundSame DEF SoundAfter
<1>5. Own(w)'
  <2>1. Kinds(p, r, ops')
    BY <1>1 DEF Kinds, Reconciling, Busy, HidePoint, ShowPoint, AddPoint, ActivatePoint, Marked
  <2>2. p \notin Preparing \cup HasVersion \cup ShowPoint \cup HidePoint
    BY <1>1 DEF Preparing, HasVersion, ShowPoint, HidePoint
  <2> QED
    BY <1>1, <1>2, <2>1, <2>2 DEF Own, Current, Stored, Fresh
<1>6. Disciplined(w)
  BY <1>1, <1>2 DEF Disciplined, Under, HidePoint, ShowPoint, Busy, Reconciling
<1> QED
  BY <1>3, <1>4, <1>5, <1>6, WriterStep

\* reconcile starts.
LEMMA StartReconcileStep ==
  ASSUME IInv, NEW w \in Writer, StartReconcile(w)
  PROVE  IInv'
<1> DEFINE r == [NoWork EXCEPT !.kind = "reconcile"]
           p == IF Expired THEN "expire" ELSE "list"
<1>1. /\ at[w] = "idle" /\ Go(w, p) /\ Becomes(w, r)
      /\ UNCHANGED <<connection, bases, bindings, sources, versions, ops, lease, known, index, objects, faults, turn>>
  BY DEF StartReconcile, tables, stores
<1>2. r \in Work /\ r.kind = "reconcile" /\ r.todo = {}
  BY NoWorkTyped DEF Work, Kind
<1>3. p \in Reconciling \ {"take_over", "give_back", "retry"}
  BY DEF Reconciling
<1> HIDE DEF r, p
<1> QED
  BY <1>1, <1>2, <1>3, Reconciles, Same

\* reconcile deletes the row it has found expired, whatever the row is now.
LEMMA ExpireStep ==
  ASSUME IInv, NEW w \in Writer, Expire(w)
  PROVE  IInv'
<1>1. /\ at[w] = "expire" /\ Go(w, "list") /\ UNCHANGED work /\ lease' = NoLease
      /\ UNCHANGED <<connection, bases, bindings, sources, versions, ops, known, index, objects, faults, turn>>
  BY DEF Expire, DeleteLease, Goes, stores
<1>2. /\ work[w] \in Work /\ work[w].kind = "reconcile" /\ work[w].todo \subseteq DOMAIN ops
      /\ \A o \in work[w].todo : ops[o].stage # "unknown"
  BY <1>1 DEF IInv, OwnInv, Own, Kinds, Reconciling, Shapes
<1>3. Becomes(w, work[w])
  BY <1>1 DEF Becomes, IInv, Shapes
<1>4. LeaseStep
  BY <1>1, CatalogAssumption DEF LeaseStep, NoLease
<1>5. "list" \in Reconciling \ {"take_over", "give_back", "retry"} /\ "expire" \in Reconciling
  BY DEF Reconciling
<1> QED
  BY <1>1, <1>2, <1>3, <1>4, <1>5, Reconciles

\* reconcile lists what is left to do.
LEMMA ListStep ==
  ASSUME IInv, NEW w \in Writer, List(w)
  PROVE  IInv'
<1> DEFINE r == [work[w] EXCEPT !.todo = Incomplete]
<1>1. /\ at[w] = "list"
      /\ UNCHANGED <<connection, bases, bindings, sources, versions, ops, lease, known, index, objects, faults, turn>>
  BY DEF List, tables, stores
<1>2. CASE Ends(w)
  BY <1>1, <1>2, EndsStep, Same
<1>3. CASE Incomplete # {} /\ Go(w, "take_over") /\ Becomes(w, r)
  <2>1. Incomplete \subseteq DOMAIN ops /\ \A o \in Incomplete : ops[o].stage # "unknown"
    BY DEF Incomplete
  <2>2. work[w] \in Work /\ work[w].kind = "reconcile" /\ DOMAIN ops \subseteq Op
    BY <1>1, RowsTyped DEF IInv, OwnInv, Own, Kinds, Reconciling, Shapes
  <2>3. r \in Work /\ r.kind = "reconcile" /\ r.todo = Incomplete
    BY <2>1, <2>2 DEF Work
  <2> HIDE DEF r
  <2>4. OthersStay(w) /\ at'[w] = "take_over" /\ work'[w] = r
    BY <1>3, <2>3, Moves DEF Point
  <2>5. Effects(w)
    BY <1>1, <2>4, Same DEF Effects, Under, HidePoint, ShowPoint
  <2>6. SoundAfter
    BY <1>1, SoundSame DEF SoundAfter
  <2>7. Own(w)'
    <3>1. Kinds("take_over", r, ops')
      BY <1>1, <1>3, <2>1, <2>3
         DEF Kinds, Reconciling, Busy, HidePoint, ShowPoint, AddPoint, ActivatePoint, Marked
    <3>2. "take_over" \notin Preparing \cup HasVersion \cup ShowPoint \cup HidePoint
      BY DEF Preparing, HasVersion, ShowPoint, HidePoint
    <3> QED
      BY <2>4, <3>1, <3>2 DEF Own, Current, Stored, Fresh
  <2>8. Disciplined(w)
    BY <2>4 DEF Disciplined, Under, HidePoint, ShowPoint, Busy, Reconciling
  <2> QED
    BY <2>5, <2>6, <2>7, <2>8, WriterStep
<1> QED
  BY <1>2, <1>3 DEF List, Me

\* A new operation, and its command at the lease.
LEMMA StartsStep ==
  ASSUME IInv, NEW w \in Writer, NEW s \in Source, NEW replace \in BOOLEAN,
         NEW content \in Content, NEW p, NEW kind,
         \/ p = "add_lease" /\ kind = "add"
         \/ p = "hide_lease" /\ kind = "delete"
         \/ p = "hide_lease" /\ kind = "deactivate" /\ sources[s].life \in Openable
         \/ p = "show_lease" /\ kind = "reactivate" /\ sources[s].life \in Openable,
         Starts(w, p, kind, s, replace, content)
  PROVE  IInv'
<1> USE DEF Point, Busy, Reconciling, AddPoint, ActivatePoint, HidePoint, ShowPoint
<1> DEFINE n == Len(ops) + 1
           base == bases[BaseOf(s)]
           new == NewOp(s, replace)
           r == [NoWork EXCEPT !.kind = kind, !.op = n, !.src = s, !.replace = replace,
                               !.content = content, !.old = sources[s],
                               !.rev = base.rev, !.gen = base.gen]
<1>1. /\ at[w] = "idle" /\ Len(ops) < MaxOps /\ ops' = Append(ops, new)
      /\ Go(w, p) /\ Becomes(w, r)
      /\ UNCHANGED <<connection, bases, bindings, sources, versions, lease, known, index, objects, faults, turn>>
  BY DEF Starts, stores
<1>3. /\ sources[s] \in SourceRow /\ base.rev \in Nat /\ base.gen \in Nat /\ Len(ops) \in Nat
      /\ DOMAIN ops = 1..Len(ops) /\ MaxOps \in Nat /\ MaxVersions \in Nat /\ ops \in Seq(OpRow)
  BY RowsTyped, CatalogAssumption DEF IInv, Shapes, CatalogTypes
<1>4. new \in OpRow /\ new.src = s /\ new.stage = "unknown"
  BY <1>3 DEF NewOp, OpRow, Stage
<1> HIDE DEF new
<1>5. /\ ops' \in Seq(OpRow) /\ Len(ops') = n /\ DOMAIN ops' = DOMAIN ops \cup {n} /\ n \notin DOMAIN ops
      /\ ops'[n] = new /\ \A o \in DOMAIN ops : ops'[o] = ops[o]
  BY <1>1, <1>3, <1>4
<1>6. n \in 0..MaxOps
  BY <1>1, <1>3
<1> HIDE DEF n, base
<1>7. /\ r \in Work /\ r.kind = kind /\ r.op = n /\ r.src = s /\ r.old = sources[s]
      /\ r.rev = base.rev /\ r.todo = {}
  BY <1>3, <1>6, NoWorkTyped DEF Work, Kind
<1> HIDE DEF r
<1>8. OthersStay(w) /\ at'[w] = p /\ work'[w] = r
  BY <1>1, <1>7, Moves
<1>9. OpsStep(w)
  BY <1>1, <1>3, <1>4, <1>5 DEF OpsStep, n
<1>10. Effects(w)
  BY <1>1, <1>8, <1>9, Same DEF Effects, Under
<1>11. SoundAfter
  <2>1. RowsSound(ops', versions', objects')
    BY <1>1, <1>4, <1>5 DEF RowsSound, HalfDone, IInv, TablesInv
  <2> QED
    BY <1>1, <2>1, SoundSame DEF SoundAfter
<1>12. Own(w)'
  <2>1. Kinds(p, r, ops')
    BY <1>4, <1>5, <1>7 DEF Kinds, Marked
  <2>2. Current(p, r, bases'[BaseOf(s)], sources'[s])
    BY <1>1, <1>7 DEF Current, Preparing, base
  <2>3. Stored(p, r, versions', objects') /\ Fresh(p, r, index')
    BY DEF Stored, Fresh, HasVersion
  <2> QED
    BY <1>7, <1>8, <2>1, <2>2, <2>3 DEF Own
<1>13. Disciplined(w)
  BY <1>5, <1>7, <1>8 DEF Disciplined, Under
<1> QED
  BY <1>10, <1>11, <1>12, <1>13, WriterStep

\* Starting a command of whatever kind keeps the invariant and moves no revision.
LEMMA StartStep ==
  ASSUME IInv, NEW w \in Writer, Start(w)
  PROVE  IInv' /\ bases' = bases
<1>1. ASSUME NEW s \in Source, NEW c \in Content, NEW replace \in BOOLEAN, StartAdd(w, s, c, replace)
      PROVE  IInv' /\ bases' = bases
  <2>1. Starts(w, "add_lease", "add", s, replace, c)
    BY <1>1 DEF StartAdd
  <2> QED
    BY <2>1, StartsStep DEF Starts
<1>2. ASSUME NEW s \in Source,
             StartDeactivate(w, s) \/ StartReactivate(w, s) \/ StartDelete(w, s)
      PROVE  IInv' /\ bases' = bases
  <2>1. NoWork.content \in Content /\ FALSE \in BOOLEAN
    BY NoWorkTyped DEF Work
  <2>2. CASE StartDeactivate(w, s)
    <3>1. Starts(w, "hide_lease", "deactivate", s, FALSE, NoWork.content) /\ sources[s].life \in Openable
      BY <2>2 DEF StartDeactivate, Openable
    <3> QED
      BY <2>1, <3>1, StartsStep DEF Starts
  <2>3. CASE StartReactivate(w, s)
    <3>1. Starts(w, "show_lease", "reactivate", s, FALSE, NoWork.content) /\ sources[s].life \in Openable
      BY <2>3 DEF StartReactivate, Openable
    <3> QED
      BY <2>1, <3>1, StartsStep DEF Starts
  <2>4. CASE StartDelete(w, s)
    <3>1. Starts(w, "hide_lease", "delete", s, FALSE, NoWork.content)
      BY <2>4 DEF StartDelete
    <3> QED
      BY <2>1, <3>1, StartsStep DEF Starts
  <2> QED
    BY <1>2, <2>2, <2>3, <2>4
<1>3. ASSUME NEW o \in DOMAIN ops, Retry(w, o)
      PROVE  IInv' /\ bases' = bases
  BY <1>3, RetryStep DEF Retry, tables
<1>4. CASE StartReconcile(w)
  BY <1>4, StartReconcileStep DEF StartReconcile, tables
<1> QED
  BY <1>1, <1>2, <1>3, <1>4 DEF Start

\* A step of a running command moves the revision of a base only when it commits.
LEMMA RunningStep ==
  ASSUME IInv, NEW w \in Writer, Step(w),
         TakeLease(w) => ~ Intrudes(w) /\ ~ Outdated(w),
         ResumeIndex(w) => ops[work[w].op].stage = "indexing"
  PROVE  IInv' /\ BasesStep(w)
<1>1. CASE TakeOver(w) \/ GiveBack(w) \/ RetryNext(w) \/ ResumeIndex(w) \/ ResumeCheck(w)
  <2>1. bases' = bases
    BY <1>1 DEF TakeOver, GiveBack, RetryNext, ResumeIndex, ResumeCheck, tables
  <2> QED
    BY <1>1, <2>1, Same, TakeOverStep, GiveBackStep, RetryNextStep, ResumeIndexStep, ResumeCheckStep
<1>2. CASE TakeLease(w) \/ DropLease(w) \/ Receive(w) \/ StoreRaw(w) \/ Parse(w) \/ AddVersion(w) \/ Embed(w)
  <2>1. bases' = bases
    BY <1>2 DEF TakeLease, DropLease, Receive, StoreRaw, Parse, AddVersion, Embed, tables
  <2> QED
    BY <1>2, <2>1, Same, TakeLeaseStep, DropLeaseStep, ReceiveStep, StoreRawStep, ParseStep,
       AddVersionStep, EmbedStep
<1>3. CASE BeginIndexing(w) \/ CloseReplaced(w) \/ WriteIndex(w) \/ RememberIndex(w) \/ Validate(w)
  <2>1. bases' = bases
    BY <1>3 DEF BeginIndexing, CloseReplaced, WriteIndex, RememberIndex, Validate, tables
  <2> QED
    BY <1>3, <2>1, Same, BeginIndexingStep, CloseReplacedStep, WriteIndexStep, RememberIndexStep,
       ValidateStep
<1>4. CASE Repoint(w) \/ Finish(w) \/ ProviderFails(w) \/ IndexFails(w) \/ Expire(w) \/ List(w) \/ CheckLease(w)
  <2>1. bases' = bases
    BY <1>4 DEF Repoint, Finish, ProviderFails, IndexFails, Expire, List, CheckLease, tables
  <2> QED
    BY <1>4, <2>1, Same, RepointStep, FinishStep, ProviderFailsStep, IndexFailsStep, ExpireStep, ListStep,
       CheckLeaseStep
<1>5. CASE CloseHidden(w) \/ PurgeObjects(w) \/ EndDelete(w) \/ CopyShown(w) \/ RememberShown(w)
  <2>1. bases' = bases
    BY <1>5 DEF CloseHidden, PurgeObjects, EndDelete, CopyShown, RememberShown, tables
  <2> QED
    BY <1>5, <2>1, Same, CloseHiddenStep, PurgeObjectsStep, EndDeleteStep, CopyShownStep,
       RememberShownStep
<1>6. CASE Activate(w) \/ CommitHidden(w) \/ CommitShown(w)
  BY <1>6, ActivateStep, CommitHiddenStep, CommitShownStep
<1> QED
  BY <1>1, <1>2, <1>3, <1>4, <1>5, <1>6 DEF Step

-------------------------------------------------------------------------------
(* What goes on beside the writers.                                        *)

\* Nobody relies on a lease that lives.
LEMMA ExpiryStep ==
  ASSUME IInv, LeaseExpires
  PROVE  IInv'
<1>1. /\ lease' = [lease EXCEPT !.live = FALSE]
      /\ UNCHANGED <<connection, bases, bindings, sources, versions, ops, known, index, objects, at, work, faults, turn>>
  BY DEF LeaseExpires, stores
<1>2. Shapes'
  BY <1>1 DEF IInv, Shapes, CatalogTypes
<1>3. OwnInv' /\ AloneInv' /\ TablesInv' /\ OriginalsThere'
  BY <1>1 DEF IInv, OwnInv, Own, AloneInv, Excluded, TablesInv, OriginalsThere
<1>4. FrozenInv'
  BY <1>1 DEF IInv, FrozenInv, Searchable, SourceOf
<1> QED
  BY <1>2, <1>3, <1>4 DEF IInv

\* Bases come and go; their revisions stay.
LEMMA AdminKeeps ==
  ASSUME IInv, AdminStep
  PROVE  IInv' /\ \A b \in Base : bases'[b].rev = bases[b].rev
<1>1. UNCHANGED <<sources, versions, ops, lease, known, index, objects, at, work, faults, turn>>
  BY DEF AdminStep, Administer, stores, RegisterConnection, RemoveConnection, CreateBase, DeleteBase,
         Bind, Unbind
<1>2. /\ bases' \in [Base -> BaseRow] /\ \A b \in Base : bases'[b].rev = bases[b].rev
      /\ connection' \in {"new", "here", "gone"} /\ bindings' \subseteq Workspace \X Base
  <2> USE DEF IInv, Shapes, CatalogTypes, BaseRow
  <2>1. CASE RegisterConnection \/ RemoveConnection
    BY <2>1 DEF RegisterConnection, RemoveConnection
  <2>2. ASSUME NEW b \in Base, CreateBase(b) \/ DeleteBase(b)
        PROVE  /\ bases' \in [Base -> BaseRow] /\ \A a \in Base : bases'[a].rev = bases[a].rev
               /\ UNCHANGED <<connection, bindings>>
    <3>1. PICK row \in {"here", "gone"} : bases' = [bases EXCEPT ![b].row = row]
      BY <2>2 DEF CreateBase, DeleteBase
    <3>2. \A a \in Base : bases'[a] = IF a = b THEN [bases[b] EXCEPT !.row = row] ELSE bases[a]
      BY <3>1
    <3>3. bases' \in [Base -> BaseRow]
      BY <3>1
    <3>4. [bases[b] EXCEPT !.row = row].rev = bases[b].rev
      OBVIOUS
    <3>5. \A a \in Base : bases'[a].rev = bases[a].rev
      BY <3>2, <3>4
    <3> QED
      BY <2>2, <3>3, <3>5 DEF CreateBase, DeleteBase
  <2>3. ASSUME NEW b \in Base, NEW ws \in Workspace, Bind(ws, b) \/ Unbind(ws, b)
        PROVE  bindings' \subseteq Workspace \X Base /\ UNCHANGED <<connection, bases>>
    BY <2>3 DEF Bind, Unbind
  <2> QED
    BY <2>1, <2>2, <2>3 DEF AdminStep, Administer
<1>3. Shapes'
  BY <1>1, <1>2 DEF IInv, Shapes, CatalogTypes
<1>4. OwnInv'
  <2> SUFFICES ASSUME NEW w \in Writer PROVE Own(w)'
    BY DEF OwnInv
  <2>1. BaseOf(work[w].src) \in Base
    BY RowsTyped DEF IInv, Shapes, Work
  <2>2. Own(w)
    BY DEF IInv, OwnInv
  <2>3. Current(at[w], work[w], bases'[BaseOf(work[w].src)], sources[work[w].src])
    BY <1>2, <2>1, <2>2 DEF Own, Current
  <2> QED
    BY <1>1, <2>2, <2>3 DEF Own
<1>5. AloneInv' /\ TablesInv' /\ OriginalsThere'
  BY <1>1 DEF IInv, AloneInv, Excluded, TablesInv, OriginalsThere
<1>6. FrozenInv'
  BY <1>1, <1>2 DEF IInv, FrozenInv, Searchable, SourceOf
<1> QED
  BY <1>2, <1>3, <1>4, <1>5, <1>6 DEF IInv

\* A turn reads; what it freezes is what the index then shows.
LEMMA TurnKeeps ==
  ASSUME IInv, TurnStep
  PROVE  IInv' /\ bases' = bases
<1>1. UNCHANGED <<connection, bases, bindings, sources, versions, ops, lease, known, index, objects, at, work, faults>>
  BY DEF TurnStep, tables, stores
<1>2. turn \in [Base -> Reading] /\ \A b \in Base : bases[b].rev \in Nat /\ bases[b].gen \in Nat
  BY RowsTyped DEF IInv, Shapes
<1>3. \A b, gen, rev : Searchable(b, gen, rev) \subseteq Key
  BY DEF IInv, Shapes, Chunk, Searchable
<1>4. NoReading \in Reading /\ [NoReading EXCEPT !.pc = "bound"] \in Reading
  BY DEF NoReading, Reading
<1> DEFINE Right(b, r) == /\ r \in Reading
                          /\ r.pc \in {"frozen", "found"} => r.rev <= bases[b].rev
                          /\ r.pc = "frozen" => r.seen = Searchable(b, r.gen, r.rev)
                          /\ r.pc = "found" => r.hits = r.seen
<1>5. \A b \in Base : Right(b, turn[b])
  BY <1>2 DEF IInv, FrozenInv
<1>6. \A b \in Base : Right(b, NoReading) /\ Right(b, [NoReading EXCEPT !.pc = "bound"])
                       /\ Right(b, [NoReading EXCEPT !.pc = "failed"])
  BY DEF NoReading, Reading
<1>7. turn' \in [Base -> Reading] /\ \A b \in Base : Right(b, turn'[b])
  <2>1. ASSUME NEW ws \in Workspace, StartTurn(ws)
        PROVE  turn' \in [Base -> Reading] /\ \A b \in Base : Right(b, turn'[b])
    <3> HIDE DEF Right
    <3> QED
      BY <1>4, <1>6, <2>1 DEF StartTurn
  <2>2. CASE EndTurn
    <3> HIDE DEF Right
    <3> QED
      BY <1>4, <1>6, <2>2 DEF EndTurn
  <2>3. ASSUME NEW b \in Base, NEW r, Right(b, r), Reads(b, r)
        PROVE  turn' \in [Base -> Reading] /\ \A a \in Base : Right(a, turn'[a])
    <3>1. r \in Reading
      BY <2>3
    <3> HIDE DEF Right
    <3> QED
      BY <1>2, <1>5, <2>3, <3>1 DEF Reads
  <2>4. ASSUME NEW b \in Base, Freeze(b)
        PROVE  \E r : Right(b, r) /\ Reads(b, r)
    <3> DEFINE r == [pc |-> "frozen", rev |-> bases[b].rev, gen |-> bases[b].gen, hits |-> {},
                     seen |-> Searchable(b, bases[b].gen, bases[b].rev)]
    <3>1. Right(b, r)
      BY <1>2, <1>3 DEF Reading
    <3> HIDE DEF Right
    <3> QED
      BY <1>6, <2>4, <3>1 DEF Freeze
  <2>5. ASSUME NEW b \in Base, Search(b)
        PROVE  \E r : Right(b, r) /\ Reads(b, r)
    <3> DEFINE found == Searchable(b, turn[b].gen, turn[b].rev)
               r == [turn[b] EXCEPT !.pc = "found", !.hits = found]
    <3>1. turn[b].pc = "frozen" /\ Reads(b, r) /\ turn[b] \in Reading /\ found \subseteq Key
          /\ turn[b].seen = found /\ turn[b].rev <= bases[b].rev
      BY <1>2, <1>3, <1>5, <2>5 DEF Search
    <3> HIDE DEF found
    <3>2. Right(b, r)
      BY <3>1 DEF Reading
    <3> HIDE DEF Right, r
    <3> QED
      BY <3>1, <3>2
  <2> HIDE DEF Right
  <2> QED
    BY <2>1, <2>2, <2>3, <2>4, <2>5 DEF TurnStep
<1>8. Shapes'
  BY <1>1, <1>7 DEF IInv, Shapes, CatalogTypes
<1>9. OwnInv' /\ AloneInv' /\ TablesInv' /\ OriginalsThere'
  BY <1>1 DEF IInv, OwnInv, Own, AloneInv, Excluded, TablesInv, OriginalsThere
<1>10. FrozenInv'
  BY <1>1, <1>7 DEF FrozenInv, Searchable, SourceOf
<1> QED
  BY <1>1, <1>8, <1>9, <1>10 DEF IInv

\* The initial state satisfies the invariant.
LEMMA InitIInv == Init => IInv
<1> SUFFICES ASSUME Init PROVE IInv
  OBVIOUS
<1> USE DEF Init, CatalogInit
<1>1. \A w \in Writer : at[w] = "idle" /\ work[w] = NoWork
  OBVIOUS
<1>2. Shapes
  <2>1. 0 \in 0..MaxOps /\ 0 \in 0..MaxVersions /\ 0 \in 0..MaxFaults
    BY CatalogAssumption, IngestionAssumption
  <2>2. bases \in [Base -> BaseRow] /\ sources \in [Source -> SourceRow]
    BY <2>1 DEF BaseRow, SourceRow, Lifecycle
  <2>3. versions \in Seq([src : Source, content : Content]) /\ Len(versions) <= MaxVersions
    BY CatalogAssumption
  <2>4. ops \in Seq(OpRow) /\ Len(ops) <= MaxOps
    BY CatalogAssumption
  <2>5. lease \in [op : 0..MaxOps, live : BOOLEAN]
    BY <2>1 DEF NoLease
  <2>6. at \in [Writer -> Point] /\ work \in [Writer -> Work] /\ turn \in [Base -> Reading]
    BY NoWorkTyped DEF Point, Reading, NoReading
  <2> QED
    BY <2>1, <2>2, <2>3, <2>4, <2>5, <2>6 DEF Shapes, CatalogTypes
<1>3. OwnInv
  <2> SUFFICES ASSUME NEW w \in Writer PROVE Own(w)
    BY DEF OwnInv
  <2>1. Kinds("idle", NoWork, ops)
    BY NoWorkTyped DEF Kinds, Reconciling, Busy, HidePoint, ShowPoint, AddPoint, ActivatePoint, Marked
  <2>2. "idle" \notin Preparing \cup HasVersion \cup ShowPoint \cup HidePoint
    BY DEF Preparing, HasVersion, ShowPoint, HidePoint
  <2> QED
    BY <1>1, <2>1, <2>2 DEF Own, Current, Stored, Fresh
<1>4. AloneInv
  BY <1>1 DEF AloneInv, Excluded, Under, HidePoint, ShowPoint, Busy
<1>5. TablesInv
  BY FS_EmptySet DEF TablesInv, RowsSound, SourcesSound, IndexSound, KnownSound
<1>6. FrozenInv /\ OriginalsThere
  BY DEF FrozenInv, NoReading, OriginalsThere, Openable
<1> QED
  BY <1>2, <1>3, <1>4, <1>5, <1>6 DEF IInv

-------------------------------------------------------------------------------
(* The theorems.  What has gone wrong stays so, hence the invariant need    *)
(* only be kept by steps after which nothing has.                          *)

\* A mark is never taken back, and no step that sets one moves a base.
LEMMA MarksStay ==
  ASSUME [Next]_vars
  PROVE  amiss \subseteq amiss' /\ (amiss' = amiss \/ bases' = bases)
<1>1. ASSUME NEW w \in Writer, Start(w)
      PROVE  amiss' = amiss
  BY <1>1 DEF Start, StartAdd, StartDeactivate, StartReactivate, StartDelete, Starts, Retry, StartReconcile
<1>2. ASSUME NEW w \in Writer, Step(w)
      PROVE  amiss \subseteq amiss' /\ (amiss' = amiss \/ bases' = bases)
  <2>1. CASE TakeLease(w) \/ TakeOver(w) \/ ResumeIndex(w) \/ IndexFails(w)
    BY <2>1 DEF TakeLease, TakeOver, ResumeIndex, IndexFails, tables
  <2>2. CASE \/ Expire(w) \/ List(w) \/ CheckLease(w) \/ GiveBack(w) \/ RetryNext(w) \/ ResumeCheck(w)
             \/ DropLease(w) \/ Receive(w) \/ StoreRaw(w) \/ Parse(w) \/ AddVersion(w) \/ Embed(w)
    BY <2>2 DEF Expire, List, CheckLease, GiveBack, RetryNext, ResumeCheck, DropLease, Receive, StoreRaw,
                Parse, AddVersion, Embed
  <2>3. CASE \/ BeginIndexing(w) \/ CloseReplaced(w) \/ WriteIndex(w) \/ RememberIndex(w) \/ Validate(w)
             \/ Activate(w) \/ Repoint(w) \/ Finish(w) \/ ProviderFails(w)
    BY <2>3 DEF BeginIndexing, CloseReplaced, WriteIndex, RememberIndex, Validate, Activate, Repoint,
                Finish, ProviderFails
  <2>4. CASE \/ CloseHidden(w) \/ CommitHidden(w) \/ PurgeObjects(w) \/ EndDelete(w)
             \/ CopyShown(w) \/ RememberShown(w) \/ CommitShown(w)
    BY <2>4 DEF CloseHidden, CommitHidden, PurgeObjects, EndDelete, CopyShown, RememberShown, CommitShown
  <2> QED
    BY <1>2, <2>1, <2>2, <2>3, <2>4 DEF Step
<1>3. ASSUME NEW w \in Writer, Crash(w)
      PROVE  amiss \subseteq amiss' /\ bases' = bases
  BY <1>3 DEF Crash, tables
<1>4. CASE LeaseExpires \/ AdminStep \/ TurnStep \/ UNCHANGED vars
  BY <1>4 DEF LeaseExpires, AdminStep, TurnStep, vars
<1> QED
  BY <1>1, <1>2, <1>3, <1>4 DEF Next

\* Every step keeps the invariant as long as commands are apart, and takes no revision back.
LEMMA NextIInv ==
  ASSUME IInv, Apart', [Next]_vars
  PROVE  IInv' /\ \A b \in Base : bases'[b].rev >= bases[b].rev
<1>0. \A b \in Base : bases[b].rev >= bases[b].rev
  BY RowsTyped DEF IInv
<1>1. ASSUME NEW w \in Writer, Start(w) \/ Step(w) \/ Crash(w)
      PROVE  IInv' /\ \A b \in Base : bases'[b].rev >= bases[b].rev
  <2>1. CASE Start(w)
    <3>1. IInv' /\ bases' = bases
      BY <2>1, StartStep
    <3> QED
      BY <1>0, <3>1
  <2>2. CASE Step(w)
    <3>1. TakeLease(w) => ~ Intrudes(w) /\ ~ Outdated(w)
      BY DEF TakeLease, Apart
    <3>2. ResumeIndex(w) => ops[work[w].op].stage = "indexing"
      BY DEF ResumeIndex, Me, Apart
    <3>3. IInv' /\ BasesStep(w)
      BY <2>2, <3>1, <3>2, RunningStep
    <3> QED
      BY <3>3 DEF BasesStep
  <2>3. CASE Crash(w)
    BY <1>0, <2>3, CrashStep DEF Crash, tables
  <2> QED
    BY <1>1, <2>1, <2>2, <2>3
<1>2. CASE LeaseExpires
  <2>1. IInv' /\ bases' = bases
    BY <1>2, ExpiryStep DEF LeaseExpires
  <2> QED
    BY <1>0, <2>1
<1>3. CASE AdminStep
  BY <1>0, <1>3, AdminKeeps
<1>4. CASE TurnStep
  BY <1>0, <1>4, TurnKeeps
<1>5. CASE UNCHANGED vars
  <2>1. UNCHANGED <<connection, bases, bindings, sources, versions, ops, lease, known, index, objects, at, work, faults, turn>>
    BY <1>5 DEF vars, tables, stores
  <2>2. Shapes' /\ OwnInv' /\ AloneInv' /\ TablesInv' /\ OriginalsThere'
    BY <2>1 DEF IInv, Shapes, CatalogTypes, OwnInv, Own, AloneInv, Excluded, TablesInv, OriginalsThere
  <2>3. FrozenInv'
    BY <2>1 DEF IInv, FrozenInv, Searchable, SourceOf
  <2> QED
    BY <1>0, <2>1, <2>2, <2>3 DEF IInv
<1> QED
  BY <1>1, <1>2, <1>3, <1>4, <1>5 DEF Next

Inv == Apart => IInv

\* The invariant holds until commands are no longer apart.
LEMMA Invariance == Spec => []Inv
<1>1. Init => Inv
  BY InitIInv DEF Inv
<1>2. Inv /\ [Next]_vars => Inv'
  <2> SUFFICES ASSUME Inv, [Next]_vars, Apart' PROVE IInv'
    BY DEF Inv
  <2>1. Apart
    BY MarksStay DEF Apart
  <2> QED
    BY <2>1, NextIInv DEF Inv
<1> QED
  BY <1>1, <1>2, PTL DEF Spec

\* A turn finds exactly what the revision it froze held (preparation.py, index._visible):
\* whatever is written is written for a revision that no turn has frozen yet.
THEOREM FrozenEvidence == Spec => []EvidenceIsFrozen
<1>1. Inv => EvidenceIsFrozen
  BY DEF Inv, IInv, FrozenInv, EvidenceIsFrozen
<1> QED
  BY <1>1, Invariance, PTL

\* An original that a citation may open is never purged with another source
\* (ingestion._purge_unreferenced_objects).
THEOREM OriginalsStay == Spec => []OriginalsKept
<1>1. Inv => OriginalsKept
  BY DEF Inv, IInv, OriginalsThere, OriginalsKept
<1> QED
  BY <1>1, Invariance, PTL

\* The revision of a base never goes back, although every commit writes a revision that the
\* command has computed earlier (catalog.activate_revision).
THEOREM RevisionsOnlyGrow == Spec => RevisionsGrow
<1>1. Inv /\ [Next]_vars => [Apart => \A b \in Base : bases'[b].rev >= bases[b].rev]_vars
  <2> SUFFICES ASSUME Inv, [Next]_vars, Apart
               PROVE  \A b \in Base : bases'[b].rev >= bases[b].rev
    OBVIOUS
  <2>1. CASE bases' = bases
    BY <2>1, RowsTyped DEF Inv, IInv
  <2>2. CASE amiss' = amiss
    BY <2>2, NextIInv DEF Inv, Apart
  <2> QED
    BY <2>1, <2>2, MarksStay
<1> QED
  BY <1>1, Invariance, PTL DEF Spec, RevisionsGrow

===============================================================================
