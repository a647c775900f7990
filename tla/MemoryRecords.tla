---------------------------- MODULE MemoryRecords -----------------------------
(***************************************************************************)
(* Versioned memories: what the user's intents, the maintenance jobs and   *)
(* the searches of other sessions do to the memories and suppressions      *)
(* tables of the memory store.  Every operation of the store is one SQLite *)
(* transaction, so one action; the services await between them.            *)
(*                                                                         *)
(* One workspace is modelled and the statements are left out: a version    *)
(* records the turn or the candidate it came from, explicit if it is a     *)
(* turn.  Rows are never changed, only new versions are added.             *)
(***************************************************************************)
EXTENDS Integers, Sequences, FiniteSets

CONSTANTS
  Memory,       \* memory ids
  Turn,         \* turns whose message is a direct memory intent
  Candidate,    \* statements a maintenance job has extracted
  Dep,          \* source versions a memory depends on
  MaxClock,     \* expiry dates that can pass
  MaxChanges,   \* sources that change, become busy or readable again
  MaxSearches,
  MaxVersions   \* versions a memory gets before nothing more happens to it

Never == MaxClock + 1

NoMemory == "none"

\* A memory or a turn has an id of its own, and a job's candidate is no turn.
ASSUME RecordsAssumption ==
  /\ NoMemory \notin Memory
  /\ Turn \cap Candidate = {}
  /\ MaxClock \in Nat /\ MaxChanges \in Nat /\ MaxSearches \in Nat /\ MaxVersions \in Nat

VARIABLES
  versions,     \* memories: the versions of each id, oldest first
  suppressed,   \* suppressions.enabled: no row, on or off
  intent,       \* intents and intent_metadata, by turn
  verified,     \* update_memory: what it found out about the dependencies
  current,      \* dependencies whose source is readable and unchanged
  clock,
  search,       \* one search_memory call
  changes, searches

recordVars == <<versions, suppressed, intent, verified, current, clock, search, changes, searches>>

Known == {id \in Memory : versions[id] # <<>>}
Fresh == Memory \ Known
Latest(id) == versions[id][Len(versions[id])]
Count(target) == IF target = NoMemory THEN 0 ELSE Len(versions[target])

NoIntent == [op |-> "none"]

IdleSearch ==
  [pc |-> "idle", found |-> {}, good |-> {}, bad |-> {}, todo |-> {}, since |-> [id \in Memory |-> 0]]

RecordsInit ==
  /\ versions = [id \in Memory |-> <<>>]
  /\ suppressed = [id \in Memory |-> "none"]
  /\ intent = [t \in Turn |-> NoIntent]
  /\ verified = [t \in Turn |-> "unknown"]
  /\ current = Dep
  /\ clock = 0
  /\ search = IdleSearch
  /\ changes = 0 /\ searches = 0

Add(id, version) == versions' = [versions EXCEPT ![id] = Append(@, version)]

-------------------------------------------------------------------------------
(* The user's intents.                                                     *)

\* A request for a memory that exists takes over what it leaves unsaid.
NewIntent(t, op, target, until, deps) ==
  LET old == Latest(target)
      fresh == op = "remember"
  IN [op |-> op, target |-> target,
      expected |-> Count(target),
      until    |-> IF until = Never /\ ~fresh THEN old.until ELSE until,
      deps     |-> IF deps = {} /\ ~fresh THEN old.deps ELSE deps,
      result   |-> 0]

\* accept_intent, when the turn begins; the turn's event accepts it once.
AcceptIntent(t, op, target) ==
  /\ intent[t] = NoIntent
  /\ op = "remember" <=> target = NoMemory
  /\ target \in Known \cup {NoMemory}
  /\ \E until \in (IF op \in {"remember", "correct"} THEN 1..Never ELSE {Never}) :
     \E deps \in SUBSET Dep :
       intent' = [intent EXCEPT ![t] = NewIntent(t, op, target, until, deps)]
  /\ UNCHANGED <<versions, suppressed, verified, current, clock, search, changes, searches>>

\* update_memory looks at every dependency before it applies the intent.
VerifyDependencies(t) ==
  /\ intent[t] # NoIntent
  /\ verified[t] = "unknown"
  /\ verified' = [verified EXCEPT ![t] = IF intent[t].deps \subseteq current THEN "yes" ELSE "no"]
  /\ UNCHANGED <<versions, suppressed, intent, current, clock, search, changes, searches>>

\* stays: the memory is disabled by this intent, or was and is not reactivated.
StateUnless(stays, i, isVerified) ==
  CASE stays -> "disabled"
    [] ~stays /\ i.deps # {} /\ ~isVerified -> "needs_verification"
    [] ~stays /\ (i.deps = {} \/ isVerified) /\ i.until <= clock -> "expired"
    [] OTHER -> "active"

CorrectEnables(i, wasDisabled, isVerified) == StateUnless(i.op = "disable", i, isVerified)

StateAfter(i, wasDisabled, isVerified) ==
  StateUnless(i.op = "disable" \/ (wasDisabled /\ i.op # "reactivate"), i, isVerified)

IsCurrent(i) == Count(i.target) = i.expected

NotApplied(i) == i.result = 0

\* result_version, for a tool call that asks again.
ResultVersion(id) == Len(versions[id]) + 1

\* apply_intent under its transaction; verified is spent.
ApplyIntent(t) ==
  LET i == intent[t]
  IN  /\ verified[t] # "unknown"
      /\ NotApplied(i)
      /\ IsCurrent(i)
      /\ \E id \in IF i.op = "remember" THEN Fresh ELSE {i.target} :
           LET disabled == i.op # "remember" /\ Latest(id).state = "disabled"
               state == StateAfter(i, disabled, verified[t] = "yes")
           IN  /\ Len(versions[id]) < MaxVersions
               /\ Add(id, [state |-> state, until |-> i.until, deps |-> i.deps,
                           by |-> i.op, source |-> t])
               /\ intent' = [intent EXCEPT ![t].result = ResultVersion(id)]
               /\ suppressed' =
                    CASE i.op = "disable" -> [suppressed EXCEPT ![id] = "on"]
                      [] i.op = "reactivate" /\ state = "active" /\ suppressed[id] = "on" ->
                           [suppressed EXCEPT ![id] = "off"]
                      [] OTHER -> suppressed
  /\ verified' = [verified EXCEPT ![t] = "unknown"]
  /\ UNCHANGED <<current, clock, search, changes, searches>>

\* The tool called again, or after the memory changed: nothing is written.
RefuseIntent(t) ==
  /\ verified[t] # "unknown"
  /\ ~NotApplied(intent[t]) \/ ~IsCurrent(intent[t])
  /\ verified' = [verified EXCEPT ![t] = "unknown"]
  /\ UNCHANGED <<versions, suppressed, intent, current, clock, search, changes, searches>>

-------------------------------------------------------------------------------
(* Maintenance.                                                            *)

LatestIsPublished(c) == \E id \in Known : Latest(id).source = c

\* A candidate is known by any version that has its statement and source.
IsPublished(c) == \E id \in Known : \E v \in DOMAIN versions[id] : versions[id][v].source = c

\* finish publishes what it selected; a retried job publishes it again.
PublishCandidate(c) ==
  /\ ~IsPublished(c)
  /\ LET conflict == \/ \E id \in Memory : suppressed[id] = "on"
                     \/ \E id \in Known : \E v \in DOMAIN versions[id] : versions[id][v].source \in Turn
     IN \E id \in Fresh, deps \in SUBSET Dep :
          Add(id, [state |-> IF conflict THEN "needs_verification" ELSE "active",
                   until |-> Never, deps |-> deps, by |-> "publish", source |-> c])
  /\ UNCHANGED <<suppressed, intent, verified, current, clock, search, changes, searches>>

-------------------------------------------------------------------------------
(* Searches, and the recall that precedes every model request.             *)

Expiring(id) == Latest(id).until <= clock /\ Latest(id).state # "expired"

\* recall writes the expiry of what has expired, disabled or not.
Recall ==
  /\ \A id \in Known : Expiring(id) => Len(versions[id]) < MaxVersions
  /\ versions' = [id \in Memory |->
       IF id \in Known /\ Expiring(id)
         THEN Append(versions[id], [Latest(id) EXCEPT !.state = "expired", !.by = "recall"])
         ELSE versions[id]]

\* The versions a recall returns.
Actives ==
  {<<id, Len(versions[id])>> : id \in {k \in Known : Latest(k).state = "active" /\ ~Expiring(k)}}

DepsOf(found) == UNION {versions[f[1]][f[2]].deps : f \in found}

BeginSearch ==
  /\ search.pc = "idle"
  /\ searches < MaxSearches
  /\ searches' = searches + 1
  /\ Recall
  /\ search' = [IdleSearch EXCEPT !.pc = "check", !.found = Actives,
                                   !.since = [id \in Memory |-> Len(versions[id])]]
  /\ UNCHANGED <<suppressed, intent, verified, current, clock, changes>>

\* valid_dependency; a source that is busy counts as one that has changed.
CheckDependency(d) ==
  /\ search.pc = "check"
  /\ d \in DepsOf(search.found) \ (search.good \cup search.bad)
  /\ search' = IF d \in current
                 THEN [search EXCEPT !.good = @ \cup {d}]
                 ELSE [search EXCEPT !.bad = @ \cup {d}, !.todo = @ \cup {d}]
  /\ UNCHANGED <<versions, suppressed, intent, verified, current, clock, changes, searches>>

Checked == search.pc = "check" /\ DepsOf(search.found) \subseteq search.good \cup search.bad

Touched(d) == {id \in Known : Latest(id).state = "active" /\ d \in Latest(id).deps}

InvalidateDependency(d) ==
  /\ Checked
  /\ d \in search.todo
  /\ \A id \in Touched(d) : Len(versions[id]) < MaxVersions
  /\ versions' = [id \in Memory |->
       IF id \in Touched(d)
         THEN Append(versions[id], [Latest(id) EXCEPT !.state = "needs_verification", !.by = "search"])
         ELSE versions[id]]
  /\ search' = [search EXCEPT !.todo = @ \ {d}]
  /\ UNCHANGED <<suppressed, intent, verified, current, clock, changes, searches>>

\* What was found stands, or is read again when a source did not.
ShowAsFound ==
  /\ search' = [search EXCEPT !.pc = "shown"]
  /\ UNCHANGED versions

ShowAgain ==
  /\ Recall
  /\ search' = [search EXCEPT !.pc = "shown", !.found = Actives]

Show == IF search.bad = {} THEN ShowAsFound ELSE ShowAgain

ShowResults ==
  /\ Checked
  /\ search.todo = {}
  /\ Show
  /\ UNCHANGED <<suppressed, intent, verified, current, clock, changes, searches>>

EndSearch ==
  /\ search.pc = "shown"
  /\ search' = IdleSearch
  /\ UNCHANGED <<versions, suppressed, intent, verified, current, clock, changes, searches>>

-------------------------------------------------------------------------------
(* The world.                                                              *)

\* A source changes or its session is busy, and may be found again.
SourceChanges(d) ==
  /\ changes < MaxChanges
  /\ changes' = changes + 1
  /\ current' = IF d \in current THEN current \ {d} ELSE current \cup {d}
  /\ UNCHANGED <<versions, suppressed, intent, verified, clock, search, searches>>

Tick ==
  /\ clock < MaxClock
  /\ clock' = clock + 1
  /\ UNCHANGED <<versions, suppressed, intent, verified, current, search, changes, searches>>

Op == {"remember", "correct", "disable", "reactivate"}

RecordsNext ==
  \/ \E t \in Turn, op \in Op, target \in Memory \cup {NoMemory} : AcceptIntent(t, op, target)
  \/ \E t \in Turn : VerifyDependencies(t) \/ ApplyIntent(t) \/ RefuseIntent(t)
  \/ \E c \in Candidate : PublishCandidate(c)
  \/ BeginSearch
  \/ \E d \in Dep : CheckDependency(d) \/ InvalidateDependency(d) \/ SourceChanges(d)
  \/ ShowResults
  \/ EndSearch
  \/ Tick

RecordsSpec == RecordsInit /\ [][RecordsNext]_recordVars

-------------------------------------------------------------------------------
(* Properties.                                                             *)

State == {"active", "disabled", "needs_verification", "expired"}

Version ==
  [state : State, until : 1..Never, deps : SUBSET Dep, by : Op \cup {"publish", "recall", "search"}, source : Turn \cup Candidate]

\* Every row has its type, and an intent's result is a version that exists.
RecordsTypeOK ==
  /\ \A id \in Memory : \A v \in DOMAIN versions[id] : versions[id][v] \in Version
  /\ \A t \in Turn :
       intent[t] # NoIntent /\ intent[t].result # 0
         => \E id \in Known : /\ intent[t].result \in DOMAIN versions[id]
                              /\ versions[id][intent[t].result].source = t
  /\ suppressed \in [Memory -> {"none", "on", "off"}]
  /\ verified \in [Turn -> {"unknown", "yes", "no"}]
  /\ search.good \cap search.bad = {} /\ search.todo \subseteq search.bad

\* A repeated tool call, a second claim of a job or a republication after the
\* user corrected the memory never makes a second memory of one source.
OneMemoryPerSource ==
  \A a, b \in Known : versions[a][1].source = versions[b][1].source => a = b

\* What the user disabled is active again only when the user reactivates it, or
\* after its expiry was written over the disabled version.
DisabledStaysDown ==
  \A id \in Known : \A i, j \in DOMAIN versions[id] :
    /\ i < j
    /\ versions[id][i].state = "disabled"
    /\ versions[id][j].state = "active"
    => \E k \in (i + 1)..j : \/ versions[id][k].by = "reactivate"
                             \/ versions[id][k].state = "expired"

\* What a search shows has had its sources verified by this search, except for
\* a version that was written after the search began.
VerifiedWhenShown ==
  search.pc = "shown" =>
    \A f \in search.found :
      f[2] > search.since[f[1]] \/ versions[f[1]][f[2]].deps \subseteq search.good
===============================================================================
