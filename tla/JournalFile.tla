----------------------------- MODULE JournalFile ------------------------------
(***************************************************************************)
(* The bytes of one session: the JSONL file that JsonlSession appends to,  *)
(* the payload objects its lines refer to, and the repair of a torn last   *)
(* line.  Several processes use the session; in each, the file lock lets   *)
(* one storage thread run at a time (at), and _append_sync also holds the  *)
(* lease guard, so that leases change only outside an append.              *)
(*                                                                         *)
(* A process may die between any two steps, and a write may fail half way. *)
(* What a loss of power does to written bytes is left to the file system.  *)
(* Lines are decoded as whole or not; who uses the lease is SessionLease.  *)
(***************************************************************************)
EXTENDS Integers, Sequences, FiniteSets

CONSTANTS
  Process,    \* processes that use the session, also as the source of a memory
  NoProcess,
  MaxEvents,  \* bound: events the processes append
  MaxRepairs, \* bound: repairs that replace the file
  MaxFaults   \* bound: deaths of processes and failing writes

ASSUME JournalAssumption ==
  /\ NoProcess \notin Process
  /\ MaxEvents \in Nat /\ MaxRepairs \in Nat /\ MaxFaults \in Nat

VARIABLES
  file,      \* the lines at the session's path
  inode,     \* which file that is
  version,   \* its size and modification time
  objects,   \* events whose payload object is stored
  backups,   \* copies that repairs have kept
  leftover,  \* processes whose pid finds a temporary copy of a dead repair
  lock,      \* the process that holds the OS lock
  kept,      \* is the lease in _leases?
  journal,   \* events in the journal of each process, or NoJournal
  tail,      \* _tails: the count of lines seen at a version
  at,        \* point of the storage thread
  local,     \* what that thread remembers
  events,    \* events so far
  acked,     \* events whose append has returned
  overrun,   \* history: a repair has replaced the file after its lease was dropped
  faults

vars == <<file, inode, version, objects, backups, leftover, lock, kept, journal, tail, at, local,
          events, acked, overrun, faults>>

NoJournal == -1
NoTail    == [version |-> -1, count |-> 0]
NoLocal   == [event |-> 0, large |-> FALSE, inode |-> 0, temporary |-> FALSE, raw |-> <<>>,
              lost |-> FALSE]

Line(event, seq, large, whole) == [event |-> event, seq |-> seq, large |-> large, whole |-> whole]

AppendPoint == {"payload", "line", "torn", "whole"}
RepairPoint == {"look", "read", "saved", "copied"}

\* _parse_prefix and _read_sync: whole lines, in sequence, their payloads stored.
Valid(lines) ==
  \A i \in 1..Len(lines) :
    /\ lines[i].whole /\ lines[i].seq = i
    /\ lines[i].large => lines[i].event \in objects

Torn == file # <<>> /\ ~file[Len(file)].whole

Prefix(lines) == SubSeq(lines, 1, Len(lines) - 1)

Init ==
  /\ file = <<>> /\ inode = 0 /\ version = 0
  /\ objects = {} /\ backups = {} /\ leftover = {}
  /\ lock = NoProcess
  /\ kept = [p \in Process |-> FALSE]
  /\ journal = [p \in Process |-> NoJournal]
  /\ tail = [p \in Process |-> NoTail]
  /\ at = [p \in Process |-> "idle"]
  /\ local = [p \in Process |-> NoLocal]
  /\ events = 0 /\ acked = {} /\ overrun = FALSE /\ faults = 0

Fault == faults < MaxFaults /\ faults' = faults + 1

Goto(p, point) == at' = [at EXCEPT ![p] = point]

Stored == <<file, inode, version, objects, backups, leftover>>
Leased == <<lock, kept, tail>>

-------------------------------------------------------------------------------
(* Leases.                                                                 *)

\* _acquire_sync, by an operation or by the background.
TakeLease(p) ==
  /\ at[p] \notin AppendPoint
  /\ ~kept[p] /\ lock = NoProcess
  /\ lock' = p
  /\ kept' = [kept EXCEPT ![p] = TRUE]
  /\ tail' = [tail EXCEPT ![p] = NoTail]
  /\ UNCHANGED <<Stored, journal, at, local, events, acked, overrun, faults>>

\* Mutant: the lock file is closed and its lease stays in _leases.
DropLock(p) ==
  /\ at[p] = "idle" /\ kept[p]
  /\ lock' = NoProcess
  /\ UNCHANGED <<Stored, kept, tail, journal, at, local, events, acked, overrun, faults>>

\* _release_sync: an operation gives its lease back, or a reader of sources the one
\* it shares with an operation or with a repair, which holds no guard.
DropLease(p) ==
  /\ at[p] \notin AppendPoint
  /\ kept[p]
  /\ lock' = NoProcess
  /\ kept' = [kept EXCEPT ![p] = FALSE]
  /\ tail' = [tail EXCEPT ![p] = NoTail]
  /\ local' = [local EXCEPT ![p].lost = at[p] \in RepairPoint]
  /\ UNCHANGED <<Stored, journal, at, events, acked, overrun, faults>>

-------------------------------------------------------------------------------
(* Appends.                                                                *)

\* EventJournal.open; a journal of no file is empty.
OpenJournal(p) ==
  /\ at[p] = "idle" /\ journal[p] = NoJournal
  /\ Valid(file)
  /\ journal' = [journal EXCEPT ![p] = Len(file)]
  /\ UNCHANGED <<Stored, Leased, at, local, events, acked, overrun, faults>>

\* The tail is taken from the cache when the file has not changed since.
IsCached(p) == kept[p] /\ tail[p].version = version

\* Mutant: a file that is valid is appended to.
AnySequence(p) == IsCached(p) \/ Valid(file)

\* The sequence check of _append_owned.
InSequence(p) ==
  IF IsCached(p) THEN journal[p] = tail[p].count ELSE Valid(file) /\ journal[p] = Len(file)

MayLock(p) == kept[p] \/ lock = NoProcess

BeginAppend(p, large) ==
  /\ at[p] = "idle" /\ journal[p] # NoJournal
  /\ events < MaxEvents
  /\ MayLock(p) /\ InSequence(p)
  /\ events' = events + 1
  /\ lock' = p
  /\ local' = [local EXCEPT ![p] = [NoLocal EXCEPT !.event = events + 1, !.large = large,
                                                   !.temporary = ~kept[p]]]
  /\ Goto(p, IF large THEN "payload" ELSE "line")
  /\ UNCHANGED <<Stored, kept, journal, tail, acked, overrun, faults>>

\* Busy, corrupt or out of sequence: the operation ends.
RefuseAppend(p) ==
  /\ at[p] = "idle" /\ journal[p] # NoJournal
  /\ ~MayLock(p) \/ ~InSequence(p)
  /\ journal' = [journal EXCEPT ![p] = NoJournal]
  /\ UNCHANGED <<Stored, Leased, at, local, events, acked, overrun, faults>>

\* put_sync: the object is durable before a line refers to it.
PutPayload(p) ==
  /\ at[p] = "payload"
  /\ objects' = objects \cup {local[p].event}
  /\ Goto(p, "line")
  /\ UNCHANGED <<file, inode, version, backups, leftover, Leased, journal, local, events, acked,
                 overrun, faults>>

\* The stream is opened and the first bytes of the line reach the file.
WritePart(p) ==
  /\ at[p] = "line"
  /\ file' = Append(file, Line(local[p].event, journal[p] + 1, local[p].large, FALSE))
  /\ version' = version + 1
  /\ local' = [local EXCEPT ![p].inode = inode]
  /\ Goto(p, "torn")
  /\ UNCHANGED <<inode, objects, backups, leftover, Leased, journal, events, acked, overrun, faults>>

\* The rest goes to the file that was opened, which may no longer be at the path.
WriteRest(p) ==
  /\ at[p] = "torn"
  /\ IF local[p].inode = inode
       THEN file' = [file EXCEPT ![Len(file)].whole = TRUE] /\ version' = version + 1
       ELSE UNCHANGED <<file, version>>
  /\ Goto(p, "whole")
  /\ UNCHANGED <<inode, objects, backups, leftover, Leased, journal, local, events, acked, overrun, faults>>

\* A lease taken for the append alone is given back, and with it the cached tail.
EndAppend(p) ==
  /\ Goto(p, "idle")
  /\ local' = [local EXCEPT ![p] = NoLocal]
  /\ lock' = IF local[p].temporary THEN NoProcess ELSE lock

\* fsync; then the path's size and time are cached with the event's sequence.
Sync(p) ==
  /\ at[p] = "whole"
  /\ acked' = acked \cup {local[p].event}
  /\ journal' = [journal EXCEPT ![p] = @ + 1]
  /\ tail' = IF kept[p] THEN [tail EXCEPT ![p] = [version |-> version, count |-> journal[p] + 1]]
                        ELSE tail
  /\ EndAppend(p)
  /\ UNCHANGED <<Stored, kept, events, overrun, faults>>

AppendFails(p) ==
  /\ at[p] \in AppendPoint
  /\ Fault
  /\ journal' = [journal EXCEPT ![p] = NoJournal]
  /\ EndAppend(p)
  /\ UNCHANGED <<Stored, kept, tail, events, acked, overrun>>

-------------------------------------------------------------------------------
(* Physical recovery, by /resume or by listing the sessions.               *)

\* Mutant: a repair does without the lease.
RepairUnowned(p) ==
  /\ at[p] = "idle" /\ inode < MaxRepairs
  /\ local' = [local EXCEPT ![p] = NoLocal]
  /\ Goto(p, "look")
  /\ UNCHANGED <<Stored, lock, kept, journal, tail, events, acked, overrun, faults>>

\* recover_physical: with the lease in _leases none is taken, otherwise one for
\* the repair alone.
StartRepair(p) ==
  /\ at[p] = "idle" /\ inode < MaxRepairs
  /\ kept[p] \/ lock = NoProcess
  /\ lock' = IF kept[p] THEN lock ELSE p
  /\ local' = [local EXCEPT ![p] = [NoLocal EXCEPT !.temporary = ~kept[p]]]
  /\ Goto(p, "look")
  /\ UNCHANGED <<Stored, kept, journal, tail, events, acked, overrun, faults>>

EndRepair(p) == EndAppend(p)

\* Nothing to repair, or nothing that can be repaired safely.
LeaveFile(p) ==
  /\ at[p] = "look"
  /\ ~Torn \/ Len(file) = 1 \/ ~Valid(Prefix(file))
  /\ EndRepair(p)
  /\ UNCHANGED <<Stored, kept, journal, tail, events, acked, overrun, faults>>

ReadTorn(p) ==
  /\ at[p] = "look"
  /\ Torn /\ Len(file) > 1 /\ Valid(Prefix(file))
  /\ local' = [local EXCEPT ![p].raw = file]
  /\ Goto(p, "read")
  /\ UNCHANGED <<Stored, Leased, journal, events, acked, overrun, faults>>

\* Mutant: the torn line is not worth a backup.
SaveNoBackup(p) ==
  /\ at[p] = "read"
  /\ Goto(p, "saved")
  /\ UNCHANGED <<Stored, Leased, journal, local, events, acked, overrun, faults>>

SaveBackup(p) ==
  /\ at[p] = "read"
  /\ backups' = backups \cup {local[p].raw}
  /\ Goto(p, "saved")
  /\ UNCHANGED <<file, inode, version, objects, leftover, Leased, journal, local, events, acked,
                 overrun, faults>>

CopyPrefix(p) ==
  /\ at[p] = "saved"
  /\ p \notin leftover
  /\ Goto(p, "copied")
  /\ UNCHANGED <<Stored, Leased, journal, local, events, acked, overrun, faults>>

\* The temporary name is taken by a dead repair with the same pid: this repair
\* fails, and removes it.
RemoveLeftover(p) ==
  /\ at[p] = "saved"
  /\ p \in leftover
  /\ leftover' = leftover \ {p}
  /\ EndRepair(p)
  /\ UNCHANGED <<file, inode, version, objects, backups, kept, journal, tail, events, acked, overrun, faults>>

Replace(p) ==
  /\ at[p] = "copied"
  /\ file' = Prefix(local[p].raw)
  /\ inode' = inode + 1
  /\ version' = version + 1
  /\ overrun' = (overrun \/ local[p].lost)
  /\ EndRepair(p)
  /\ UNCHANGED <<objects, backups, leftover, kept, journal, tail, events, acked, faults>>

RepairFails(p) ==
  /\ at[p] \in RepairPoint \ {"look"}
  /\ Fault
  /\ EndRepair(p)
  /\ UNCHANGED <<Stored, kept, journal, tail, events, acked, overrun>>

-------------------------------------------------------------------------------

\* The process dies and is started again, perhaps with the same pid.
Crash(p) ==
  /\ Fault
  /\ lock' = IF lock = p THEN NoProcess ELSE lock
  /\ kept' = [kept EXCEPT ![p] = FALSE]
  /\ journal' = [journal EXCEPT ![p] = NoJournal]
  /\ tail' = [tail EXCEPT ![p] = NoTail]
  /\ local' = [local EXCEPT ![p] = NoLocal]
  /\ Goto(p, "idle")
  /\ leftover' \in IF at[p] = "copied" THEN {leftover, leftover \cup {p}} ELSE {leftover}
  /\ UNCHANGED <<file, inode, version, objects, backups, events, acked, overrun>>

AppendStep(p) ==
  \/ OpenJournal(p)
  \/ \E large \in BOOLEAN : BeginAppend(p, large)
  \/ RefuseAppend(p)
  \/ PutPayload(p)
  \/ WritePart(p)
  \/ WriteRest(p)
  \/ Sync(p)
  \/ AppendFails(p)

RepairStep(p) ==
  \/ StartRepair(p)
  \/ LeaveFile(p)
  \/ ReadTorn(p)
  \/ SaveBackup(p)
  \/ CopyPrefix(p)
  \/ RemoveLeftover(p)
  \/ Replace(p)
  \/ RepairFails(p)

Next ==
  \E p \in Process : TakeLease(p) \/ DropLease(p) \/ AppendStep(p) \/ RepairStep(p) \/ Crash(p)

Spec == Init /\ [][Next]_vars

-------------------------------------------------------------------------------
(* Properties.                                                             *)

\* Every variable keeps its type; a thread that writes or repairs has the lock,
\* unless the lease was dropped under the repair.
TypeOK ==
  /\ inode \in Nat /\ version \in Nat
  /\ objects \subseteq 1..MaxEvents /\ acked \subseteq 1..MaxEvents
  /\ lock \in Process \cup {NoProcess}
  /\ \A p \in Process :
       /\ at[p] \in {"idle"} \cup AppendPoint \cup RepairPoint
       /\ journal[p] \in Nat \cup {NoJournal}
       /\ kept[p] => lock = p
       /\ at[p] # "idle" /\ ~local[p].lost => lock = p
  /\ overrun \in BOOLEAN

\* The properties below hold of every history up to the moment when a repair puts
\* its copy in place although a reader of sources in its own process has dropped the
\* lease under it (MemoryService.source against recover_physical).  sessions.md:47
\* makes no such exception; without it TLC finds each of them violated.

\* However processes die and writes fail, the file is valid but for a torn last
\* line, which a repair can take away: it never becomes "middle corruption".
OnlyTailIsTorn == overrun \/ Valid(file) \/ (Torn /\ Valid(Prefix(file)))

\* An event whose append has returned stays in the file, through repairs by any
\* process at any time.
AcknowledgedStays ==
  overrun \/ \A e \in acked : \E i \in 1..Len(file) : file[i].event = e /\ file[i].whole

EventsOf(lines) == {lines[i].event : i \in 1..Len(lines)}

\* Nothing leaves the file, not even a torn line, before a backup holds it.
NothingIsErased ==
  [][overrun' \/ \A e \in EventsOf(file) \ EventsOf(file') :
                   \E b \in backups : e \in EventsOf(b)]_vars
===============================================================================
