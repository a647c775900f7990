--------------------------- MODULE JournalFileProofs ----------------------------
(***************************************************************************)
(* What the lock, the sequence check and the backup guarantee for any      *)
(* number of processes, events, repairs and faults, until a repair whose   *)
(* lease was dropped replaces the file: only its last line is ever torn,   *)
(* no acknowledged event leaves it, and nothing leaves it without a backup.*)
(***************************************************************************)
EXTENDS JournalFile, SequenceTheorems, TLAPS

LineType == [event : Nat, seq : Nat, large : BOOLEAN, whole : BOOLEAN]

CachedTail == [version : Int, count : Int]
Local == [event : Nat, large : BOOLEAN, inode : Nat, temporary : BOOLEAN, raw : Seq(LineType),
          lost : BOOLEAN]

TypeInv ==
  /\ file \in Seq(LineType) /\ backups \subseteq Seq(LineType)
  /\ inode \in Nat /\ version \in Nat /\ events \in Nat
  /\ lock \in Process \cup {NoProcess}
  /\ kept \in [Process -> BOOLEAN]
  /\ journal \in [Process -> Nat \cup {NoJournal}]
  /\ tail \in [Process -> CachedTail]
  /\ at \in [Process -> {"idle"} \cup AppendPoint \cup RepairPoint]
  /\ local \in [Process -> Local]
  /\ overrun \in BOOLEAN

\* Who appends or repairs has the lock, by its lease or for that alone, unless it
\* is a repair whose lease was dropped, which gives no lock back.
OwnerInv ==
  \A p \in Process :
    /\ kept[p] => lock = p
    /\ at[p] # "idle" /\ ~local[p].lost => lock = p /\ local[p].temporary = ~kept[p]
    /\ local[p].lost => at[p] \in RepairPoint /\ ~local[p].temporary

\* What a thread knows whoever has the lock: its file is at the path and has a line,
\* or is there no more; what it repairs has more than one line.
ThreadInv ==
  \A p \in Process :
    /\ at[p] = "torn" => local[p].inode <= inode /\ (local[p].inode = inode => Len(file) > 0)
    /\ at[p] \in {"read", "saved", "copied"} => Len(local[p].raw) > 1

\* Every line is in sequence and its payload is stored; all but the last are whole.
LinesInv ==
  \A i \in 1..Len(file) :
    /\ file[i].seq = i
    /\ file[i].large => file[i].event \in objects
    /\ i < Len(file) => file[i].whole

\* A cached tail is what the file ends with as long as its version is current.
CacheInv ==
  \A p \in Process :
    /\ tail[p].version <= version
    /\ tail[p].version = version => ~Torn /\ Len(file) = tail[p].count

\* The last line of an append that is under way.
Last == file[Len(file)]

AppendInv ==
  \A p \in Process :
    /\ at[p] \in {"payload", "line"} => ~Torn /\ journal[p] = Len(file)
    /\ at[p] \in {"line", "torn", "whole"} /\ local[p].large => local[p].event \in objects
    /\ at[p] \in {"torn", "whole"} =>
         /\ local[p].inode = inode
         /\ journal[p] \in Nat /\ Len(file) = journal[p] + 1
         /\ Last.event = local[p].event
    /\ at[p] = "whole" => Last.whole

\* What a repair has read is still the file, as long as it has its lease.
RepairInv ==
  \A p \in Process : ~local[p].lost =>
    /\ at[p] \in {"read", "saved", "copied"} => local[p].raw = file /\ Torn /\ Len(file) > 1
    /\ at[p] \in {"saved", "copied"} => local[p].raw \in backups

AckedInv == \A e \in acked : \E i \in 1..Len(file) : file[i].event = e /\ file[i].whole

FileInv == LinesInv /\ CacheInv /\ AppendInv /\ RepairInv /\ AckedInv

-------------------------------------------------------------------------------
(* Types.                                                                  *)

\* The initial state has its types.
LEMMA FileTypeInit == Init => TypeInv
<1>1. <<>> \in Seq(LineType)
  OBVIOUS
<1>2. NoLocal \in Local /\ NoTail \in CachedTail
  BY <1>1 DEF NoLocal, Local, NoTail, CachedTail
<1> SUFFICES ASSUME Init PROVE TypeInv
  OBVIOUS
<1>3. /\ file \in Seq(LineType) /\ backups \subseteq Seq(LineType)
      /\ inode \in Nat /\ version \in Nat /\ events \in Nat
      /\ lock \in Process \cup {NoProcess} /\ overrun \in BOOLEAN
  BY <1>1 DEF Init
<1>4. /\ kept \in [Process -> BOOLEAN] /\ journal \in [Process -> Nat \cup {NoJournal}]
      /\ at \in [Process -> {"idle"} \cup AppendPoint \cup RepairPoint]
  BY DEF Init
<1>5. tail \in [Process -> CachedTail] /\ local \in [Process -> Local]
  BY <1>2 DEF Init
<1> QED
  BY <1>3, <1>4, <1>5 DEF TypeInv

\* The last element of a sequence is replaced.
LEMMA ReplaceLast ==
  ASSUME NEW S, NEW s \in Seq(S), Len(s) > 0, NEW e \in S
  PROVE  /\ [s EXCEPT ![Len(s)] = e] \in Seq(S)
         /\ Len([s EXCEPT ![Len(s)] = e]) = Len(s)
         /\ [s EXCEPT ![Len(s)] = e][Len(s)] = e
         /\ \A i \in 1..(Len(s) - 1) : [s EXCEPT ![Len(s)] = e][i] = s[i]
<1> DEFINE t == [s EXCEPT ![Len(s)] = e]
<1>1. Len(s) \in 1..Len(s)
  OBVIOUS
<1>2. t \in Seq(S) /\ Len(t) = Len(s)
  BY <1>1, ExceptSeq
<1>3. \A j \in 1..Len(s) : t[j] = IF j = Len(s) THEN e ELSE s[j]
  BY <1>1, ExceptSeq
<1>4. ASSUME NEW i \in 1..(Len(s) - 1) PROVE t[i] = s[i]
  <2>1. i \in 1..Len(s) /\ i # Len(s)
    OBVIOUS
  <2> QED
    BY <1>3, <2>1
<1> QED
  BY <1>1, <1>2, <1>3, <1>4

\* The rest of the last line is written.
LEMMA MarkWhole ==
  ASSUME NEW s \in Seq(LineType), Len(s) > 0,
         NEW t, t = [s EXCEPT ![Len(s)].whole = TRUE]
  PROVE  /\ t \in Seq(LineType) /\ Len(t) = Len(s)
         /\ t[Len(s)] = [s[Len(s)] EXCEPT !.whole = TRUE]
         /\ \A i \in 1..(Len(s) - 1) : t[i] = s[i]
<1>1. s[Len(s)] \in LineType
  OBVIOUS
<1>2. PICK last \in LineType : last = [s[Len(s)] EXCEPT !.whole = TRUE]
  BY <1>1 DEF LineType
<1>3. t = [s EXCEPT ![Len(s)] = last]
  BY <1>2
<1>4. Len(s) \in 1..Len(s)
  OBVIOUS
<1>5. t \in Seq(LineType)
  BY <1>2, <1>3, ReplaceLast
<1>6. Len(t) = Len(s)
  BY <1>2, <1>3, ReplaceLast
<1>7. t[Len(s)] = last
  BY <1>3, <1>4
<1>8. \A i \in 1..(Len(s) - 1) : t[i] = s[i]
  BY <1>3
<1> QED
  BY <1>2, <1>5, <1>6, <1>7, <1>8

\* Appends keep the types.
LEMMA AppendTypes ==
  ASSUME TypeInv, ThreadInv, NEW p \in Process, AppendStep(p)
  PROVE  TypeInv'
<1> USE DEF TypeInv, AppendPoint, RepairPoint
<1>a. NoLocal \in Local
  BY DEF NoLocal, Local
<1>1. CASE OpenJournal(p)
  BY <1>1 DEF OpenJournal, Stored, Leased
<1>2. ASSUME NEW large \in BOOLEAN, BeginAppend(p, large) PROVE TypeInv'
  <2>1. [NoLocal EXCEPT !.event = events + 1, !.large = large, !.temporary = ~kept[p]] \in Local
    <3>1. events + 1 \in Nat
      OBVIOUS
    <3>2. [NoLocal EXCEPT !.temporary = ~kept[p]] \in Local
      BY <1>a DEF Local
    <3>3. [[NoLocal EXCEPT !.temporary = ~kept[p]] EXCEPT !.event = events + 1, !.large = large]
            \in Local
      BY <3>1, <3>2 DEF Local
    <3> QED
      BY <3>3 DEF NoLocal
  <2> QED
    BY <1>2, <2>1 DEF BeginAppend, Goto, Stored
<1>3. CASE RefuseAppend(p)
  BY <1>3 DEF RefuseAppend, Stored, Leased
<1>4. CASE PutPayload(p)
  BY <1>4 DEF PutPayload, Goto, Leased
<1>5. CASE WritePart(p)
  <2>0. local[p] \in Local /\ journal[p] + 1 \in Nat
    BY DEF NoJournal
  <2>1. journal[p] + 1 \in Nat /\ local[p].event \in Nat /\ local[p].large \in BOOLEAN
    BY <2>0 DEF Local
  <2>2. Line(local[p].event, journal[p] + 1, local[p].large, FALSE) \in LineType
    BY <2>1 DEF Line, LineType
  <2>3. file' \in Seq(LineType)
    BY <1>5, <2>2, AppendProperties DEF WritePart
  <2>4. local' \in [Process -> Local]
    BY <1>5 DEF WritePart, Local
  <2>5. /\ version' \in Nat /\ at' \in [Process -> {"idle"} \cup AppendPoint \cup RepairPoint]
        /\ UNCHANGED <<inode, backups, lock, kept, tail, journal, events, overrun>>
    BY <1>5 DEF WritePart, Goto, Leased
  <2> QED
    BY <2>3, <2>4, <2>5
<1>6. CASE WriteRest(p)
  <2>1. file' \in Seq(LineType) /\ version' \in Nat
    <3>1. CASE local[p].inode = inode
      <4>1. Len(file) > 0
        BY <1>6, <3>1 DEF WriteRest, ThreadInv
      <4>2. file' = [file EXCEPT ![Len(file)].whole = TRUE] /\ version' = version + 1
        BY <1>6, <3>1 DEF WriteRest
      <4>3. file' \in Seq(LineType)
        BY <4>1, <4>2, MarkWhole
      <4> QED
        BY <4>2, <4>3
    <3> QED
      BY <1>6, <3>1 DEF WriteRest
  <2> QED
    BY <1>6, <2>1 DEF WriteRest, Goto, Leased
<1>7. CASE Sync(p)
  <2>1. journal[p] + 1 \in Nat
    BY DEF NoJournal
  <2>2. tail' \in [Process -> CachedTail]
    <3>1. [version |-> version, count |-> journal[p] + 1] \in CachedTail
      BY <2>1 DEF CachedTail
    <3> QED
      BY <1>7, <3>1 DEF Sync
  <2>3. journal' \in [Process -> Nat \cup {NoJournal}]
    BY <1>7, <2>1 DEF Sync
  <2> QED
    BY <1>7, <1>a, <2>2, <2>3 DEF Sync, EndAppend, Goto, Stored
<1>8. CASE AppendFails(p)
  BY <1>8, <1>a DEF AppendFails, EndAppend, Goto, Stored
<1> QED
  BY <1>1, <1>2, <1>3, <1>4, <1>5, <1>6, <1>7, <1>8 DEF AppendStep

\* A repair drops the last line.
LEMMA PrefixLines ==
  ASSUME NEW S, NEW s \in Seq(S), Len(s) > 0
  PROVE  /\ Prefix(s) \in Seq(S)
         /\ Len(Prefix(s)) = Len(s) - 1
         /\ \A i \in 1..(Len(s) - 1) : Prefix(s)[i] = s[i]
<1>1. 1 \in Int /\ Len(s) - 1 \in Int /\ \A i \in 1..(Len(s) - 1) : s[i] \in S
  OBVIOUS
<1>2. /\ Prefix(s) \in Seq(S) /\ Len(Prefix(s)) = IF 1 <= Len(s) - 1 THEN Len(s) - 1 - 1 + 1 ELSE 0
      /\ \A i \in 1..(Len(s) - 1 - 1 + 1) : Prefix(s)[i] = s[1 + i - 1]
  BY <1>1, SubSeqProperties DEF Prefix
<1>3. Len(Prefix(s)) = Len(s) - 1
  <2>1. Len(s) \in Nat \ {0}
    OBVIOUS
  <2>2. CASE Len(s) = 1
    BY <1>2, <2>2
  <2>3. CASE Len(s) # 1
    <3>1. 1 <= Len(s) - 1 /\ Len(s) - 1 - 1 + 1 = Len(s) - 1
      BY <2>1, <2>3
    <3> QED
      BY <1>2, <3>1
  <2> QED
    BY <2>2, <2>3
<1>4. ASSUME NEW i \in 1..(Len(s) - 1)
      PROVE  Prefix(s)[i] = s[i]
  <2>1. i \in 1..(Len(s) - 1 - 1 + 1) /\ 1 + i - 1 = i
    OBVIOUS
  <2> QED
    BY <1>2, <2>1
<1> QED
  BY <1>2, <1>3, <1>4

\* Repairs keep the types.
LEMMA RepairTypes ==
  ASSUME TypeInv, ThreadInv, NEW p \in Process, RepairStep(p)
  PROVE  TypeInv'
<1> USE DEF TypeInv, AppendPoint, RepairPoint
<1>a. NoLocal \in Local
  BY DEF NoLocal, Local
<1>1. CASE StartRepair(p)
  <2>1. [NoLocal EXCEPT !.temporary = ~kept[p]] \in Local
    BY <1>a DEF Local
  <2> QED
    BY <1>1, <2>1 DEF StartRepair, Goto, Stored
<1>2. CASE LeaveFile(p)
  BY <1>2, <1>a DEF LeaveFile, EndRepair, EndAppend, Goto, Stored
<1>3. CASE ReadTorn(p)
  <2>1. local' \in [Process -> Local]
    BY <1>3 DEF ReadTorn, Local
  <2> QED
    BY <1>3, <2>1 DEF ReadTorn, Goto, Stored, Leased
<1>4. CASE SaveBackup(p)
  <2>1. local[p].raw \in Seq(LineType)
    BY DEF Local
  <2> QED
    BY <1>4, <2>1 DEF SaveBackup, Goto, Leased
<1>5. CASE CopyPrefix(p)
  BY <1>5 DEF CopyPrefix, Goto, Stored, Leased
<1>6. CASE RemoveLeftover(p)
  BY <1>6, <1>a DEF RemoveLeftover, EndRepair, EndAppend, Goto
<1>7. CASE Replace(p)
  <2>1. local[p].raw \in Seq(LineType) /\ Len(local[p].raw) > 0
    <3>1. local[p] \in Local
      OBVIOUS
    <3> QED
      BY <1>7, <3>1 DEF Replace, ThreadInv, Local
  <2>2. Prefix(local[p].raw) \in Seq(LineType)
    BY <2>1, PrefixLines
  <2> QED
    BY <1>7, <1>a, <2>2 DEF Replace, EndRepair, EndAppend, Goto
<1>8. CASE RepairFails(p)
  BY <1>8, <1>a DEF RepairFails, EndRepair, EndAppend, Goto, Stored
<1> QED
  BY <1>1, <1>2, <1>3, <1>4, <1>5, <1>6, <1>7, <1>8 DEF RepairStep

\* So do leases and deaths.
LEMMA LeaseStepTypes ==
  ASSUME TypeInv, NEW p \in Process, TakeLease(p) \/ DropLease(p) \/ Crash(p)
  PROVE  TypeInv'
<1> USE DEF TypeInv, AppendPoint, RepairPoint
<1>a. NoLocal \in Local /\ NoTail \in CachedTail
  BY DEF NoLocal, Local, NoTail, CachedTail
<1>1. CASE TakeLease(p)
  BY <1>1, <1>a DEF TakeLease, Stored
<1>2. CASE DropLease(p)
  <2>1. local' \in [Process -> Local]
    <3>1. [local[p] EXCEPT !.lost = (at[p] \in RepairPoint)] \in Local
      <4>1. local[p] \in Local /\ (at[p] \in RepairPoint) \in BOOLEAN
        OBVIOUS
      <4> QED
        BY <4>1 DEF Local
    <3> QED
      BY <1>2, <3>1 DEF DropLease
  <2> QED
    BY <1>2, <1>a, <2>1 DEF DropLease, Stored
<1>3. CASE Crash(p)
  BY <1>3, <1>a DEF Crash, Goto, Fault
<1> QED
  BY <1>1, <1>2, <1>3

-------------------------------------------------------------------------------
(* The lock.                                                               *)

\* Who appends or repairs has the lock, unless its lease was dropped.
LEMMA OwnerStep ==
  ASSUME TypeInv, OwnerInv, [Next]_vars
  PROVE  OwnerInv'
<1> USE JournalAssumption DEF OwnerInv, TypeInv, AppendPoint, RepairPoint
<1>a. \A q \in Process : local[q] \in Local
  OBVIOUS
<1>b. ~NoLocal.lost /\ ~NoLocal.temporary
  BY DEF NoLocal
\* A thread comes to its end.
<1>c. ASSUME NEW p \in Process, EndAppend(p), kept' = kept, at[p] # "idle"
      PROVE  OwnerInv'
  <2>1. /\ at'[p] = "idle" /\ local'[p] = NoLocal
        /\ \A q \in Process \ {p} : at'[q] = at[q] /\ local'[q] = local[q]
    BY <1>c DEF EndAppend, Goto
  <2>2. local[p].temporary => lock = p /\ ~kept[p]
    BY <1>c
  <2>3. lock' = lock \/ (lock' = NoProcess /\ lock = p /\ ~kept[p])
    BY <1>c, <2>2 DEF EndAppend
  <2> QED
    BY <1>b, <1>c, <2>1, <2>3
<1>1. ASSUME NEW p \in Process, TakeLease(p) PROVE OwnerInv'
  BY <1>1 DEF TakeLease
<1>2. ASSUME NEW p \in Process, DropLease(p) PROVE OwnerInv'
  <2>1. /\ local'[p].lost = (at[p] \in RepairPoint) /\ local'[p].temporary = local[p].temporary
        /\ \A q \in Process \ {p} : local'[q] = local[q]
    BY <1>2, <1>a DEF DropLease, Local
  <2> QED
    BY <1>2, <2>1 DEF DropLease
<1>3. ASSUME NEW p \in Process, AppendStep(p) PROVE OwnerInv'
  <2>1. CASE OpenJournal(p) \/ RefuseAppend(p)
    BY <2>1 DEF OpenJournal, RefuseAppend, Leased
  <2>2. ASSUME NEW large \in BOOLEAN, BeginAppend(p, large) PROVE OwnerInv'
    <3>1. /\ local'[p].temporary = ~kept[p] /\ ~local'[p].lost
          /\ \A q \in Process \ {p} : local'[q] = local[q]
      BY <2>2 DEF BeginAppend, NoLocal
    <3> QED
      BY <2>2, <3>1 DEF BeginAppend, Goto, MayLock
  <2>3. CASE PutPayload(p) \/ WriteRest(p)
    BY <2>3 DEF PutPayload, WriteRest, Goto, Leased
  <2>4. CASE WritePart(p)
    <3>1. \A q \in Process : /\ local'[q].temporary = local[q].temporary
                            /\ local'[q].lost = local[q].lost
      BY <2>4, <1>a DEF WritePart, Local
    <3> QED
      BY <2>4, <3>1 DEF WritePart, Goto, Leased
  <2>5. CASE Sync(p) \/ AppendFails(p)
    BY <1>c, <2>5 DEF Sync, AppendFails
  <2> QED
    BY <1>3, <2>1, <2>2, <2>3, <2>4, <2>5 DEF AppendStep
<1>4. ASSUME NEW p \in Process, RepairStep(p) PROVE OwnerInv'
  <2>1. CASE StartRepair(p)
    <3>1. /\ local'[p].temporary = ~kept[p] /\ ~local'[p].lost
          /\ \A q \in Process \ {p} : local'[q] = local[q]
      BY <2>1 DEF StartRepair, NoLocal
    <3> QED
      BY <2>1, <3>1 DEF StartRepair, Goto
  <2>2. CASE ReadTorn(p)
    <3>1. \A q \in Process : /\ local'[q].temporary = local[q].temporary
                            /\ local'[q].lost = local[q].lost
      BY <2>2, <1>a DEF ReadTorn, Local
    <3> QED
      BY <2>2, <3>1 DEF ReadTorn, Goto, Leased
  <2>3. CASE SaveBackup(p) \/ CopyPrefix(p)
    BY <2>3 DEF SaveBackup, CopyPrefix, Goto, Leased
  <2>4. CASE LeaveFile(p) \/ RemoveLeftover(p) \/ Replace(p) \/ RepairFails(p)
    BY <1>c, <2>4 DEF LeaveFile, RemoveLeftover, Replace, RepairFails, EndRepair
  <2> QED
    BY <1>4, <2>1, <2>2, <2>3, <2>4 DEF RepairStep
<1>5. ASSUME NEW p \in Process, Crash(p) PROVE OwnerInv'
  BY <1>5 DEF Crash, Goto, NoLocal
<1>6. CASE UNCHANGED vars
  BY <1>6 DEF vars
<1> QED
  BY <1>1, <1>2, <1>3, <1>4, <1>5, <1>6 DEF Next

\* Whoever has the lock, a thread's own knowledge is kept.
LEMMA ThreadStep ==
  ASSUME TypeInv, ThreadInv, [Next]_vars
  PROVE  ThreadInv'
<1> USE DEF AppendPoint, RepairPoint
<1>a. /\ inode \in Nat /\ file \in Seq(LineType) /\ Len(file) \in Nat
      /\ \A q \in Process : local[q] \in Local /\ local[q].inode \in Nat
      /\ at \in [Process -> {"idle"} \cup AppendPoint \cup RepairPoint]
      /\ local \in [Process -> Local]
  BY DEF TypeInv, Local
\* A step of one thread that leaves the file's length, or replaces the file.
<1>b. ASSUME NEW p \in Process,
             \/ inode' = inode /\ Len(file') >= Len(file)
             \/ inode' = inode + 1,
             \A q \in Process \ {p} : at'[q] = at[q] /\ local'[q] = local[q],
             \/ at'[p] \in {"idle", "look", "payload", "line", "whole"}
             \/ /\ at'[p] = "torn" /\ local'[p].inode = inode
                /\ inode' = inode /\ Len(file') > 0
             \/ at'[p] \in {"read", "saved", "copied"} /\ Len(local'[p].raw) > 1
      PROVE  ThreadInv'
  <2>1. Len(file') >= Len(file) => \A q \in Process : Len(file) > 0 => Len(file') > 0 \/ at[q] # "torn"
    <3>1. CASE Len(file') >= Len(file) /\ Len(file) > 0
      BY <1>a, <3>1
    <3> QED
      BY <3>1
  <2>2. ASSUME NEW q \in Process \ {p}
        PROVE  /\ at'[q] = "torn" =>
                    local'[q].inode <= inode' /\ (local'[q].inode = inode' => Len(file') > 0)
               /\ at'[q] \in {"read", "saved", "copied"} => Len(local'[q].raw) > 1
    BY <1>a, <1>b, <2>1, <2>2 DEF ThreadInv
  <2>3. /\ at'[p] = "torn" =>
             local'[p].inode <= inode' /\ (local'[p].inode = inode' => Len(file') > 0)
        /\ at'[p] \in {"read", "saved", "copied"} => Len(local'[p].raw) > 1
    BY <1>a, <1>b
  <2> QED
    BY <2>2, <2>3 DEF ThreadInv
<1>1. ASSUME NEW p \in Process, TakeLease(p) \/ OpenJournal(p) \/ RefuseAppend(p)
      PROVE  ThreadInv'
  <2>1. UNCHANGED <<file, inode, at, local>>
    BY <1>1 DEF TakeLease, OpenJournal, RefuseAppend, Stored
  <2> QED
    BY <2>1 DEF ThreadInv
<1>2. ASSUME NEW p \in Process, DropLease(p) PROVE ThreadInv'
  <2>1. /\ UNCHANGED <<file, inode, at>>
        /\ \A q \in Process : local'[q].inode = local[q].inode /\ local'[q].raw = local[q].raw
    BY <1>2, <1>a DEF DropLease, Stored, Local
  <2> QED
    BY <2>1 DEF ThreadInv
<1>3. ASSUME NEW p \in Process, NEW large \in BOOLEAN, BeginAppend(p, large) PROVE ThreadInv'
  <2>1. /\ UNCHANGED <<file, inode>> /\ at'[p] \in {"payload", "line"}
        /\ \A q \in Process \ {p} : at'[q] = at[q] /\ local'[q] = local[q]
    BY <1>3, <1>a DEF BeginAppend, Goto, Stored
  <2> QED
    BY <1>a, <1>b, <2>1
<1>4. ASSUME NEW p \in Process, PutPayload(p) PROVE ThreadInv'
  <2>1. /\ UNCHANGED <<file, inode>> /\ at'[p] = "line"
        /\ \A q \in Process \ {p} : at'[q] = at[q] /\ local'[q] = local[q]
    BY <1>4, <1>a DEF PutPayload, Goto
  <2> QED
    BY <1>a, <1>b, <2>1
<1>5. ASSUME NEW p \in Process, WritePart(p) PROVE ThreadInv'
  <2>1. /\ inode' = inode /\ at'[p] = "torn"
        /\ \A q \in Process \ {p} : at'[q] = at[q] /\ local'[q] = local[q]
    BY <1>5, <1>a DEF WritePart, Goto
  <2>2. local'[p].inode = inode
    BY <1>5, <1>a DEF WritePart, Local
  <2>3. Len(file') = Len(file) + 1
    BY <1>5, <1>a DEF WritePart
  <2> QED
    BY <1>a, <1>b, <2>1, <2>2, <2>3
<1>6. ASSUME NEW p \in Process, WriteRest(p) PROVE ThreadInv'
  <2>1. /\ inode' = inode /\ at'[p] = "whole"
        /\ \A q \in Process \ {p} : at'[q] = at[q] /\ local'[q] = local[q]
    BY <1>6, <1>a DEF WriteRest, Goto
  <2>2. Len(file') = Len(file)
    <3>1. CASE local[p].inode = inode
      <4>1. Len(file) > 0
        BY <1>6, <3>1 DEF WriteRest, ThreadInv
      <4>2. file' = [file EXCEPT ![Len(file)].whole = TRUE]
        BY <1>6, <3>1 DEF WriteRest
      <4> QED
        BY <1>a, <4>1, <4>2, MarkWhole
    <3> QED
      BY <1>6, <3>1 DEF WriteRest
  <2> QED
    BY <1>a, <1>b, <2>1, <2>2
<1>7. ASSUME NEW p \in Process, Sync(p) \/ AppendFails(p) \/ LeaveFile(p) \/ RemoveLeftover(p)
                               \/ RepairFails(p) \/ StartRepair(p) \/ Crash(p)
      PROVE  ThreadInv'
  <2>1. UNCHANGED <<file, inode>>
    BY <1>7 DEF Sync, AppendFails, LeaveFile, RemoveLeftover, RepairFails, StartRepair, Crash, Stored
  <2>2. \A q \in Process \ {p} : at'[q] = at[q] /\ local'[q] = local[q]
    BY <1>7, <1>a DEF Sync, AppendFails, LeaveFile, RemoveLeftover, RepairFails, StartRepair, Crash,
                     EndRepair, EndAppend, Goto
  <2>3. at'[p] \in {"idle", "look"}
    BY <1>7, <1>a DEF Sync, AppendFails, LeaveFile, RemoveLeftover, RepairFails, StartRepair, Crash,
                     EndRepair, EndAppend, Goto
  <2> QED
    BY <1>a, <1>b, <2>1, <2>2, <2>3
<1>8. ASSUME NEW p \in Process, ReadTorn(p) \/ SaveBackup(p) \/ CopyPrefix(p) PROVE ThreadInv'
  <2>1. UNCHANGED <<file, inode>> /\ at'[p] \in {"read", "saved", "copied"}
    BY <1>8, <1>a DEF ReadTorn, SaveBackup, CopyPrefix, Stored, Goto
  <2>2. \A q \in Process \ {p} : at'[q] = at[q] /\ local'[q] = local[q]
    BY <1>8, <1>a DEF ReadTorn, SaveBackup, CopyPrefix, Goto
  <2>3. Len(local'[p].raw) > 1
    <3>1. CASE ReadTorn(p)
      BY <3>1, <1>a DEF ReadTorn, Local
    <3>2. CASE SaveBackup(p) \/ CopyPrefix(p)
      BY <3>2 DEF SaveBackup, CopyPrefix, ThreadInv
    <3> QED
      BY <1>8, <3>1, <3>2
  <2> QED
    BY <1>a, <1>b, <2>1, <2>2, <2>3
<1>9. ASSUME NEW p \in Process, Replace(p) PROVE ThreadInv'
  <2>1. inode' = inode + 1 /\ at'[p] = "idle"
    BY <1>9, <1>a DEF Replace, EndRepair, EndAppend, Goto
  <2>2. \A q \in Process \ {p} : at'[q] = at[q] /\ local'[q] = local[q]
    BY <1>9, <1>a DEF Replace, EndRepair, EndAppend, Goto
  <2> QED
    BY <1>a, <1>b, <2>1, <2>2
<1>10. CASE UNCHANGED vars
  BY <1>10 DEF vars, ThreadInv
<1> QED
  BY <1>1, <1>2, <1>3, <1>4, <1>5, <1>6, <1>7, <1>8, <1>9, <1>10 DEF Next, AppendStep, RepairStep

-------------------------------------------------------------------------------
(* The file.                                                               *)

\* Nobody else appends, or repairs with its lease.
LEMMA Alone ==
  ASSUME TypeInv, OwnerInv, NEW p \in Process, at[p] # "idle", ~local[p].lost
  PROVE  \A q \in Process \ {p} : at[q] = "idle" \/ (at[q] \in RepairPoint /\ local[q].lost)
BY DEF TypeInv, OwnerInv

\* A thread that appends has its lease.
LEMMA AppendHasLease ==
  ASSUME OwnerInv, NEW p \in Process, at[p] \in AppendPoint
  PROVE  ~local[p].lost
BY DEF OwnerInv, AppendPoint, RepairPoint

\* A file in sequence is not torn.
LEMMA ValidIsWhole ==
  ASSUME TypeInv, Valid(file)
  PROVE  ~Torn
BY DEF Valid, Torn, TypeInv

\* A step that stores nothing, and goes on with no append and no repair that it
\* was not in.
LEMMA QuietFile ==
  ASSUME TypeInv, FileInv, UNCHANGED <<file, inode, version, objects, backups, acked>>,
         \A q \in Process :
           /\ \/ at'[q] \in {"idle", "look"}
              \/ at'[q] = at[q] /\ local'[q] = local[q] /\ journal'[q] = journal[q]
              \/ at'[q] \in RepairPoint /\ local'[q].lost
           /\ tail'[q] \in {tail[q], NoTail}
  PROVE  FileInv'
<1>1. LinesInv' /\ AckedInv'
  BY DEF FileInv, LinesInv, AckedInv
<1>2. CacheInv'
  BY DEF FileInv, CacheInv, TypeInv, NoTail, Torn
<1>3. AppendInv'
  BY DEF FileInv, AppendInv, Torn, Last, RepairPoint
<1>4. RepairInv'
  BY DEF FileInv, RepairInv, Torn
<1> QED
  BY <1>1, <1>2, <1>3, <1>4 DEF FileInv

\* The sequence check admits an append only at the end of a whole file.
LEMMA BeginAppendFile ==
  ASSUME TypeInv, FileInv, NEW p \in Process, NEW large \in BOOLEAN, BeginAppend(p, large)
  PROVE  FileInv'
<1> USE DEF BeginAppend, Stored
<1>1. ~Torn /\ journal[p] = Len(file)
  <2>1. CASE IsCached(p)
    BY <2>1 DEF InSequence, IsCached, FileInv, CacheInv
  <2>2. CASE ~IsCached(p)
    BY <2>2, ValidIsWhole DEF InSequence
  <2> QED
    BY <2>1, <2>2
<1>2. LinesInv' /\ AckedInv'
  BY DEF FileInv, LinesInv, AckedInv
<1>3. CacheInv'
  BY DEF FileInv, CacheInv, Torn
<1>4. /\ at'[p] = IF large THEN "payload" ELSE "line"
      /\ local'[p].large = large
      /\ \A q \in Process \ {p} : at'[q] = at[q] /\ local'[q] = local[q]
  BY DEF Goto, TypeInv, NoLocal
<1>5. AppendInv'
  BY <1>1, <1>4 DEF FileInv, AppendInv, Torn, Last
<1>6. RepairInv'
  BY <1>4 DEF FileInv, RepairInv, Torn
<1> QED
  BY <1>2, <1>3, <1>5, <1>6 DEF FileInv

\* A payload is stored before its line.
LEMMA PutPayloadFile ==
  ASSUME TypeInv, FileInv, NEW p \in Process, PutPayload(p)
  PROVE  FileInv'
<1> USE DEF PutPayload, Leased
<1>1. LinesInv' /\ AckedInv'
  BY DEF FileInv, LinesInv, AckedInv
<1>2. CacheInv'
  BY DEF FileInv, CacheInv, Torn
<1>3. at'[p] = "line" /\ \A q \in Process \ {p} : at'[q] = at[q]
  BY DEF Goto, TypeInv
<1>4. AppendInv'
  BY <1>3 DEF FileInv, AppendInv, Torn, Last
<1>5. RepairInv'
  BY <1>3 DEF FileInv, RepairInv, Torn
<1> QED
  BY <1>1, <1>2, <1>4, <1>5 DEF FileInv

\* The first bytes of a line make the file torn at its new last line only.
LEMMA WritePartFile ==
  ASSUME TypeInv, OwnerInv, FileInv, NEW p \in Process, WritePart(p)
  PROVE  FileInv'
<1>1. /\ ~Torn /\ journal[p] = Len(file) /\ file \in Seq(LineType)
      /\ local[p].large => local[p].event \in objects
      /\ local[p] \in Local
  BY DEF FileInv, AppendInv, TypeInv, WritePart
<1> DEFINE new == Line(local[p].event, journal[p] + 1, local[p].large, FALSE)
<1>2. new \in LineType
  BY <1>1 DEF Line, LineType, Local
<1>3. /\ new.event = local[p].event /\ new.seq = journal[p] + 1
      /\ new.large = local[p].large /\ new.whole = FALSE
  BY DEF Line
<1>4. file' = Append(file, new)
  BY DEF WritePart
<1> HIDE DEF new
<1>5. /\ Len(file') = Len(file) + 1 /\ file'[Len(file) + 1] = new
      /\ \A i \in 1..Len(file) : file'[i] = file[i]
  BY <1>1, <1>2, <1>4, AppendProperties
<1>6. /\ UNCHANGED <<inode, objects, backups, tail, journal, acked>> /\ version' = version + 1
      /\ at' = [at EXCEPT ![p] = "torn"] /\ local' = [local EXCEPT ![p].inode = inode]
      /\ at[p] = "line"
  BY DEF WritePart, Goto, Leased
<1>7. /\ at'[p] = "torn"
      /\ \A q \in Process \ {p} : at'[q] = "idle" \/ (at'[q] \in RepairPoint /\ local'[q].lost)
      /\ local'[p].inode = inode /\ local'[p].event = local[p].event
      /\ local'[p].large = local[p].large
  BY <1>1, <1>6, Alone, AppendHasLease DEF TypeInv, Local, AppendPoint
<1>8. LinesInv'
  <2>1. ASSUME NEW i \in 1..Len(file') PROVE /\ file'[i].seq = i
                                             /\ file'[i].large => file'[i].event \in objects
                                             /\ i < Len(file') => file'[i].whole
    <3>1. CASE i = Len(file) + 1
      BY <1>1, <1>3, <1>5, <3>1
    <3>2. CASE i # Len(file) + 1
      <4>1. i \in 1..Len(file) /\ Len(file) \in Nat
        BY <1>1, <1>5, <3>2
      <4>2. /\ file[i].seq = i
            /\ file[i].large => file[i].event \in objects
            /\ i < Len(file) => file[i].whole
        BY <4>1 DEF FileInv, LinesInv
      <4>3. file[i].whole
        BY <1>1, <4>1, <4>2 DEF Torn
      <4> QED
        BY <1>5, <4>1, <4>2, <4>3
    <3> QED
      BY <3>1, <3>2
  <2> QED
    BY <1>6, <2>1 DEF LinesInv
<1>9. CacheInv'
  BY <1>6 DEF FileInv, CacheInv, TypeInv, CachedTail
<1>10. AppendInv'
  <2>1. Len(file) \in Nat
    BY <1>1
  <2> QED
    BY <1>1, <1>3, <1>5, <1>6, <1>7, <2>1 DEF AppendInv, Last, RepairPoint
<1>11. RepairInv'
  BY <1>7 DEF RepairInv
<1>12. AckedInv'
  <2>1. 1..Len(file) \subseteq 1..Len(file')
    BY <1>1, <1>5
  <2> QED
    BY <1>5, <1>6, <2>1 DEF FileInv, AckedInv
<1> QED
  BY <1>8, <1>9, <1>10, <1>11, <1>12 DEF FileInv

\* The rest of the line makes the file whole.
LEMMA WriteRestFile ==
  ASSUME TypeInv, OwnerInv, FileInv, NEW p \in Process, WriteRest(p)
  PROVE  FileInv'
<1>1. /\ file \in Seq(LineType) /\ at[p] = "torn" /\ local[p].inode = inode
      /\ journal[p] \in Nat /\ Len(file) = journal[p] + 1
      /\ Last.event = local[p].event
      /\ local[p].large => local[p].event \in objects
  BY DEF FileInv, AppendInv, TypeInv, WriteRest
<1>2. /\ file' = [file EXCEPT ![Len(file)].whole = TRUE] /\ version' = version + 1
      /\ UNCHANGED <<inode, objects, backups, tail, journal, local, acked>>
      /\ at' = [at EXCEPT ![p] = "whole"]
  BY <1>1 DEF WriteRest, Goto, Leased
<1>3. /\ file' \in Seq(LineType) /\ Len(file') = Len(file)
      /\ file'[Len(file)] = [file[Len(file)] EXCEPT !.whole = TRUE]
      /\ \A i \in 1..(Len(file) - 1) : file'[i] = file[i]
  <2>1. Len(file) > 0
    BY <1>1
  <2>2. file' \in Seq(LineType) /\ Len(file') = Len(file)
    BY <1>1, <1>2, <2>1, MarkWhole
  <2>3. file'[Len(file)] = [file[Len(file)] EXCEPT !.whole = TRUE]
    BY <1>1, <1>2, <2>1, MarkWhole
  <2>4. \A i \in 1..(Len(file) - 1) : file'[i] = file[i]
    BY <1>1, <1>2, <2>1, MarkWhole
  <2> QED
    BY <2>2, <2>3, <2>4
<1>4. PICK last \in LineType : last = file[Len(file)]
  BY <1>1
<1>5. file'[Len(file)] = [last EXCEPT !.whole = TRUE]
  BY <1>3, <1>4
<1>6. /\ file'[Len(file)].event = last.event /\ file'[Len(file)].seq = last.seq
      /\ file'[Len(file)].large = last.large /\ file'[Len(file)].whole
  BY <1>4, <1>5 DEF LineType
<1>7. /\ at'[p] = "whole"
      /\ \A q \in Process \ {p} : at'[q] = "idle" \/ (at'[q] \in RepairPoint /\ local'[q].lost)
  BY <1>1, <1>2, Alone, AppendHasLease DEF TypeInv, AppendPoint
<1>8. LinesInv'
  <2>1. ASSUME NEW i \in 1..Len(file') PROVE /\ file'[i].seq = i
                                             /\ file'[i].large => file'[i].event \in objects
                                             /\ i < Len(file') => file'[i].whole
    <3>0. i \in 1..Len(file)
      BY <1>3
    <3>1. /\ file[i].seq = i
          /\ file[i].large => file[i].event \in objects
          /\ i < Len(file) => file[i].whole
      BY <3>0 DEF FileInv, LinesInv
    <3>2. CASE i = Len(file)
      BY <1>3, <1>4, <1>6, <3>1, <3>2
    <3>3. CASE i # Len(file)
      BY <1>1, <1>3, <3>0, <3>1, <3>3
    <3> QED
      BY <3>2, <3>3
  <2> QED
    BY <1>2, <2>1 DEF LinesInv
<1>9. CacheInv'
  BY <1>2 DEF FileInv, CacheInv, TypeInv, CachedTail
<1>10. AppendInv'
  BY <1>1, <1>2, <1>3, <1>4, <1>6, <1>7 DEF AppendInv, Last, RepairPoint
<1>11. RepairInv'
  BY <1>7 DEF RepairInv
<1>12. AckedInv'
  <2>1. ASSUME NEW e \in acked PROVE \E i \in 1..Len(file') : file'[i].event = e /\ file'[i].whole
    <3>1. PICK i \in 1..Len(file) : file[i].event = e /\ file[i].whole
      BY DEF FileInv, AckedInv
    <3>2. file'[i].event = e /\ file'[i].whole
      <4>1. CASE i = Len(file)
        BY <1>4, <1>6, <3>1, <4>1
      <4>2. CASE i # Len(file)
        BY <1>1, <1>3, <3>1, <4>2
      <4> QED
        BY <4>1, <4>2
    <3> QED
      BY <1>3, <3>2
  <2> QED
    BY <1>2, <2>1 DEF AckedInv
<1> QED
  BY <1>8, <1>9, <1>10, <1>11, <1>12 DEF FileInv

\* What is acknowledged is the last line, whole, and the cache is taken from it.
LEMMA SyncFile ==
  ASSUME TypeInv, FileInv, NEW p \in Process, Sync(p)
  PROVE  FileInv'
<1>1. /\ at[p] = "whole" /\ journal[p] \in Nat /\ Len(file) = journal[p] + 1
      /\ Last.event = local[p].event /\ Last.whole
  BY DEF FileInv, AppendInv, Sync
<1>2. /\ UNCHANGED <<file, inode, version, objects, backups>>
      /\ acked' = acked \cup {local[p].event}
      /\ journal' = [journal EXCEPT ![p] = @ + 1]
      /\ at' = [at EXCEPT ![p] = "idle"] /\ local' = [local EXCEPT ![p] = NoLocal]
      /\ \/ tail' = tail
         \/ tail' = [tail EXCEPT ![p] = [version |-> version, count |-> journal[p] + 1]]
  BY DEF Sync, EndAppend, Goto, Stored
<1>3. /\ at'[p] = "idle"
      /\ \A q \in Process \ {p} : at'[q] = at[q] /\ local'[q] = local[q] /\ journal'[q] = journal[q]
  BY <1>2 DEF TypeInv
<1>4. LinesInv'
  BY <1>2 DEF FileInv, LinesInv
<1>5. ~Torn
  BY <1>1 DEF Torn, Last
<1>6. CacheInv'
  <2>1. ASSUME NEW q \in Process PROVE /\ tail'[q].version <= version
                                       /\ tail'[q].version = version => Len(file) = tail'[q].count
    <3>1. CASE tail'[q] = tail[q]
      BY <3>1 DEF FileInv, CacheInv
    <3>2. CASE tail'[q] = [version |-> version, count |-> journal[p] + 1]
      BY <1>1, <3>2 DEF TypeInv
    <3> QED
      BY <1>2, <3>1, <3>2 DEF TypeInv
  <2> QED
    BY <1>2, <1>5, <2>1 DEF CacheInv, Torn
<1>7. AppendInv'
  BY <1>2, <1>3 DEF FileInv, AppendInv, Torn, Last
<1>8. RepairInv'
  BY <1>2, <1>3 DEF FileInv, RepairInv, Torn
<1>9. AckedInv'
  <2>1. Len(file) \in 1..Len(file)
    BY <1>1
  <2> QED
    BY <1>1, <1>2, <2>1 DEF FileInv, AckedInv, Last
<1> QED
  BY <1>4, <1>6, <1>7, <1>8, <1>9 DEF FileInv

\* A repair reads the file, keeps a backup and copies it, and changes nothing.
LEMMA CopyFile ==
  ASSUME TypeInv, FileInv, NEW p \in Process, ReadTorn(p) \/ SaveBackup(p) \/ CopyPrefix(p)
  PROVE  FileInv'
<1>1. /\ UNCHANGED <<file, inode, version, objects, tail, journal, acked>>
      /\ backups \subseteq backups'
  BY DEF ReadTorn, SaveBackup, CopyPrefix, Stored, Leased
<1>2. \A q \in Process \ {p} : at'[q] = at[q] /\ local'[q] = local[q]
  BY DEF ReadTorn, SaveBackup, CopyPrefix, Goto, TypeInv
<1>3. \/ at'[p] = "read" /\ local'[p].raw = file /\ Torn /\ Len(file) > 1
      \/ /\ at[p] \in {"read", "saved"} /\ at'[p] \in {"saved", "copied"}
         /\ local' = local /\ local[p].raw \in backups'
      \/ at'[p] \in {"saved", "copied"} /\ local'[p].lost
  <2>1. CASE ReadTorn(p)
    BY <2>1 DEF ReadTorn, Goto, TypeInv, Local
  <2>2. CASE SaveBackup(p)
    BY <2>2 DEF SaveBackup, Goto, TypeInv
  <2>3. CASE CopyPrefix(p)
    BY <2>3 DEF CopyPrefix, Goto, TypeInv, FileInv, RepairInv, Stored
  <2> QED
    BY <2>1, <2>2, <2>3
<1>4. LinesInv' /\ AckedInv'
  BY <1>1 DEF FileInv, LinesInv, AckedInv
<1>5. CacheInv'
  BY <1>1 DEF FileInv, CacheInv, Torn
<1>6. AppendInv'
  BY <1>1, <1>2, <1>3 DEF FileInv, AppendInv, Torn, Last
<1>7. RepairInv'
  BY <1>1, <1>2, <1>3 DEF FileInv, RepairInv, Torn
<1> QED
  BY <1>4, <1>5, <1>6, <1>7 DEF FileInv

\* The repaired file is the old one without its torn line, which nobody was told of.
LEMMA ReplaceFile ==
  ASSUME TypeInv, OwnerInv, FileInv, NEW p \in Process, Replace(p), ~local[p].lost
  PROVE  FileInv'
<1>1. /\ file \in Seq(LineType) /\ Len(file) > 1 /\ Torn
      /\ local[p].raw = file /\ at[p] = "copied"
  BY DEF FileInv, RepairInv, TypeInv, Replace
<1>2. /\ file' = Prefix(file) /\ version' = version + 1
      /\ UNCHANGED <<objects, backups, tail, journal, acked>>
      /\ at' = [at EXCEPT ![p] = "idle"]
      /\ \A q \in Process \ {p} : local'[q] = local[q]
  BY <1>1 DEF TypeInv, Replace, EndRepair, EndAppend, Goto
<1>3. /\ Len(file') = Len(file) - 1
      /\ \A i \in 1..(Len(file) - 1) : file'[i] = file[i]
  BY <1>1, <1>2, PrefixLines
<1>4. \A q \in Process : at'[q] = "idle" \/ (at'[q] \in RepairPoint /\ local'[q].lost)
  BY <1>1, <1>2, Alone DEF TypeInv
<1>5. LinesInv'
  <2>1. ASSUME NEW i \in 1..(Len(file) - 1)
        PROVE  /\ file[i].seq = i /\ file[i].whole
               /\ file[i].large => file[i].event \in objects
    <3>1. i \in 1..Len(file) /\ i < Len(file)
      BY <1>1
    <3> QED
      BY <3>1 DEF FileInv, LinesInv
  <2> QED
    BY <1>2, <1>3, <2>1 DEF LinesInv
<1>6. CacheInv'
  BY <1>2 DEF FileInv, CacheInv, TypeInv, CachedTail
<1>7. AppendInv' /\ RepairInv'
  BY <1>4 DEF AppendInv, RepairInv, RepairPoint
<1>8. AckedInv'
  <2>1. ASSUME NEW e \in acked
        PROVE  \E i \in 1..(Len(file) - 1) : file[i].event = e /\ file[i].whole
    <3>1. PICK i \in 1..Len(file) : file[i].event = e /\ file[i].whole
      BY DEF FileInv, AckedInv
    <3>2. i \in 1..(Len(file) - 1)
      BY <1>1, <3>1 DEF Torn
    <3> QED
      BY <3>1, <3>2
  <2> QED
    BY <1>2, <1>3, <2>1 DEF AckedInv
<1> QED
  BY <1>5, <1>6, <1>7, <1>8 DEF FileInv

\* Every step keeps the file in order, but for the replacement of a lost repair.
LEMMA FileStep ==
  ASSUME TypeInv, OwnerInv, FileInv, [Next]_vars
  PROVE  overrun' \/ FileInv'
<1>1. ASSUME NEW p \in Process, AppendStep(p) PROVE FileInv'
  <2>1. CASE OpenJournal(p)
    <3>1. /\ at[p] = "idle" /\ at' = at /\ local' = local /\ tail' = tail
          /\ \A q \in Process \ {p} : journal'[q] = journal[q]
          /\ UNCHANGED <<file, inode, version, objects, backups, acked>>
      BY <2>1 DEF OpenJournal, Stored, Leased, TypeInv
    <3>2. \A q \in Process :
            /\ \/ at'[q] \in {"idle", "look"}
               \/ at'[q] = at[q] /\ local'[q] = local[q] /\ journal'[q] = journal[q]
            /\ tail'[q] \in {tail[q], NoTail}
      BY <3>1
    <3> QED
      BY <3>1, <3>2, QuietFile
  <2>2. CASE RefuseAppend(p)
    <3>1. /\ at[p] = "idle" /\ at' = at /\ local' = local /\ tail' = tail
          /\ \A q \in Process \ {p} : journal'[q] = journal[q]
          /\ UNCHANGED <<file, inode, version, objects, backups, acked>>
      BY <2>2 DEF RefuseAppend, Stored, Leased, TypeInv
    <3>2. \A q \in Process :
            /\ \/ at'[q] \in {"idle", "look"}
               \/ at'[q] = at[q] /\ local'[q] = local[q] /\ journal'[q] = journal[q]
            /\ tail'[q] \in {tail[q], NoTail}
      BY <3>1
    <3> QED
      BY <3>1, <3>2, QuietFile
  <2>3. CASE AppendFails(p)
    <3>1. /\ at'[p] = "idle" /\ tail' = tail
          /\ \A q \in Process \ {p} :
               at'[q] = at[q] /\ local'[q] = local[q] /\ journal'[q] = journal[q]
          /\ UNCHANGED <<file, inode, version, objects, backups, acked>>
      BY <2>3 DEF AppendFails, EndAppend, Goto, Stored, TypeInv
    <3>2. \A q \in Process :
            /\ \/ at'[q] \in {"idle", "look"}
               \/ at'[q] = at[q] /\ local'[q] = local[q] /\ journal'[q] = journal[q]
            /\ tail'[q] \in {tail[q], NoTail}
      BY <3>1
    <3> QED
      BY <3>1, <3>2, QuietFile
  <2> QED
    BY <1>1, <2>1, <2>2, <2>3, BeginAppendFile, PutPayloadFile, WritePartFile, WriteRestFile,
       SyncFile DEF AppendStep
<1>2. ASSUME NEW p \in Process, RepairStep(p) PROVE overrun' \/ FileInv'
  <2>1. CASE StartRepair(p)
    <3>1. /\ at'[p] = "look" /\ tail' = tail
          /\ \A q \in Process \ {p} :
               at'[q] = at[q] /\ local'[q] = local[q] /\ journal'[q] = journal[q]
          /\ UNCHANGED <<file, inode, version, objects, backups, acked>>
      BY <2>1 DEF StartRepair, Goto, Stored, TypeInv
    <3>2. \A q \in Process :
            /\ \/ at'[q] \in {"idle", "look"}
               \/ at'[q] = at[q] /\ local'[q] = local[q] /\ journal'[q] = journal[q]
            /\ tail'[q] \in {tail[q], NoTail}
      BY <3>1
    <3> QED
      BY <3>1, <3>2, QuietFile
  <2>2. CASE LeaveFile(p) \/ RemoveLeftover(p) \/ RepairFails(p)
    <3>1. /\ at'[p] = "idle" /\ tail' = tail
          /\ \A q \in Process \ {p} :
               at'[q] = at[q] /\ local'[q] = local[q] /\ journal'[q] = journal[q]
          /\ UNCHANGED <<file, inode, version, objects, backups, acked>>
      BY <2>2 DEF LeaveFile, RemoveLeftover, RepairFails, EndRepair, EndAppend, Goto, Stored, TypeInv
    <3>2. \A q \in Process :
            /\ \/ at'[q] \in {"idle", "look"}
               \/ at'[q] = at[q] /\ local'[q] = local[q] /\ journal'[q] = journal[q]
            /\ tail'[q] \in {tail[q], NoTail}
      BY <3>1
    <3> QED
      BY <3>1, <3>2, QuietFile
  <2>3. CASE Replace(p)
    BY <2>3, ReplaceFile DEF Replace
  <2> QED
    BY <1>2, <2>1, <2>2, <2>3, CopyFile DEF RepairStep
<1>3. ASSUME NEW p \in Process, TakeLease(p) \/ DropLease(p) PROVE FileInv'
  <2>1. /\ at' = at /\ journal' = journal
        /\ \A q \in Process : tail'[q] \in {tail[q], NoTail}
        /\ UNCHANGED <<file, inode, version, objects, backups, acked>>
    BY <1>3 DEF TakeLease, DropLease, Stored, TypeInv
  <2>2. \A q \in Process \ {p} : local'[q] = local[q]
    BY <1>3 DEF TakeLease, DropLease, TypeInv
  <2>3. \/ local'[p] = local[p]
        \/ at[p] \in RepairPoint /\ local'[p].lost
        \/ at[p] = "idle"
    BY <1>3 DEF TakeLease, DropLease, TypeInv, Local
  <2> QED
    BY <2>1, <2>2, <2>3, QuietFile
<1>4. ASSUME NEW p \in Process, Crash(p) PROVE FileInv'
  <2>1. /\ at'[p] = "idle"
        /\ \A q \in Process \ {p} :
             at'[q] = at[q] /\ local'[q] = local[q] /\ journal'[q] = journal[q]
        /\ \A q \in Process : tail'[q] \in {tail[q], NoTail}
        /\ UNCHANGED <<file, inode, version, objects, backups, acked>>
    BY <1>4 DEF Crash, Goto, TypeInv
  <2> QED
    BY <2>1, QuietFile
<1>5. CASE UNCHANGED vars
  <2>1. UNCHANGED <<file, inode, version, objects, backups, acked, at, local, journal, tail>>
    BY <1>5 DEF vars
  <2> QED
    BY <2>1, QuietFile
<1> QED
  BY <1>1, <1>2, <1>3, <1>4, <1>5 DEF Next

\* History is not forgotten.
LEMMA OverrunStays ==
  ASSUME TypeInv, [Next]_vars, overrun
  PROVE  overrun'
BY DEF Next, vars, TakeLease, DropLease, Crash, AppendStep, RepairStep, OpenJournal, BeginAppend,
       RefuseAppend, PutPayload, WritePart, WriteRest, Sync, AppendFails, StartRepair, LeaveFile,
       ReadTorn, SaveBackup, CopyPrefix, RemoveLeftover, Replace, RepairFails

IInv == TypeInv /\ OwnerInv /\ ThreadInv /\ (overrun \/ FileInv)

\* The four together are inductive.
LEMMA FileSafe == Spec => []IInv
<1>1. Init => IInv
  <2> SUFFICES ASSUME Init PROVE IInv
    OBVIOUS
  <2>1. TypeInv
    BY FileTypeInit
  <2>2. OwnerInv /\ ThreadInv
    BY DEF Init, OwnerInv, ThreadInv, NoLocal
  <2>3. FileInv
    BY DEF Init, FileInv, LinesInv, CacheInv, AppendInv, RepairInv, AckedInv, NoTail
  <2> QED
    BY <2>1, <2>2, <2>3 DEF IInv
<1>2. IInv /\ [Next]_vars => IInv'
  <2> SUFFICES ASSUME IInv, [Next]_vars PROVE IInv'
    OBVIOUS
  <2>1. TypeInv'
    <3>1. CASE UNCHANGED vars
      BY <3>1 DEF IInv, TypeInv, vars
    <3> QED
      BY <3>1, AppendTypes, RepairTypes, LeaseStepTypes DEF IInv, Next
  <2>2. OwnerInv' /\ ThreadInv'
    BY OwnerStep, ThreadStep DEF IInv
  <2>3. overrun' \/ FileInv'
    BY FileStep, OverrunStays DEF IInv
  <2> QED
    BY <2>1, <2>2, <2>3 DEF IInv
<1> QED
  BY <1>1, <1>2, PTL DEF Spec

-------------------------------------------------------------------------------
(* The theorems.                                                           *)

\* The file is valid but for a torn last line, until a lost repair replaces it.
THEOREM TailAloneIsTorn == Spec => []OnlyTailIsTorn
<1>1. IInv => OnlyTailIsTorn
  <2> SUFFICES ASSUME IInv, ~overrun PROVE OnlyTailIsTorn
    BY DEF OnlyTailIsTorn
  <2>1. /\ file \in Seq(LineType) /\ Len(file) \in Nat
        /\ \A i \in 1..Len(file) : /\ file[i].seq = i
                                   /\ file[i].large => file[i].event \in objects
                                   /\ i < Len(file) => file[i].whole
    BY DEF IInv, TypeInv, FileInv, LinesInv
  <2>2. CASE ~Torn
    BY <2>1, <2>2 DEF OnlyTailIsTorn, Valid, Torn
  <2>3. CASE Torn
    <3>1. Len(file) > 0
      BY <2>1, <2>3 DEF Torn
    <3>2. /\ Len(Prefix(file)) = Len(file) - 1
          /\ \A i \in 1..(Len(file) - 1) : Prefix(file)[i] = file[i]
      BY <2>1, <3>1, PrefixLines
    <3>3. \A i \in 1..(Len(file) - 1) : i \in 1..Len(file) /\ i < Len(file)
      BY <2>1
    <3>4. Valid(Prefix(file))
      BY <2>1, <3>2, <3>3 DEF Valid
    <3> QED
      BY <2>3, <3>4 DEF OnlyTailIsTorn
  <2> QED
    BY <2>2, <2>3
<1> QED
  BY <1>1, FileSafe, PTL

\* An event whose append has returned stays in the file, until a lost repair replaces it.
THEOREM NothingAcknowledgedIsLost == Spec => []AcknowledgedStays
<1>1. IInv => AcknowledgedStays
  BY DEF IInv, FileInv, AckedInv, AcknowledgedStays
<1> QED
  BY <1>1, FileSafe, PTL

\* Nothing leaves the file before a backup holds it, until a lost repair replaces it.
THEOREM ErasedIsBackedUp == Spec => NothingIsErased
<1> DEFINE Kept == overrun' \/
      \A e \in EventsOf(file) \ EventsOf(file') : \E b \in backups : e \in EventsOf(b)
<1>1. IInv /\ [Next]_vars => [Kept]_vars
  <2> SUFFICES ASSUME IInv, Next, ~overrun' PROVE Kept
    OBVIOUS
  <2>0. ~overrun /\ FileInv
    BY OverrunStays DEF IInv
  <2>1. CASE file' = file
    BY <2>1
  <2>2. ASSUME NEW p \in Process, WritePart(p) PROVE Kept
    <3>1. PICK line : file' = Append(file, line)
      BY <2>2 DEF WritePart
    <3>2. file \in Seq(LineType)
      BY DEF IInv, TypeInv
    <3>3. /\ 1..Len(file) \subseteq 1..Len(file')
          /\ \A i \in 1..Len(file) : file'[i] = file[i]
      BY <3>1, <3>2
    <3>4. EventsOf(file) \subseteq EventsOf(file')
      BY <3>3 DEF EventsOf
    <3> QED
      BY <3>4
  <2>3. ASSUME NEW p \in Process, WriteRest(p) PROVE Kept
    <3>1. file \in Seq(LineType) /\ Len(file) > 0 /\ local[p].inode = inode
      BY <2>0, <2>3 DEF IInv, TypeInv, FileInv, AppendInv, WriteRest
    <3>2. file' = [file EXCEPT ![Len(file)].whole = TRUE]
      BY <2>3, <3>1 DEF WriteRest
    <3>3. Len(file') = Len(file)
      BY <3>1, <3>2, MarkWhole
    <3>4. file'[Len(file)] = [file[Len(file)] EXCEPT !.whole = TRUE]
      BY <3>1, <3>2, MarkWhole
    <3>5. \A i \in 1..(Len(file) - 1) : file'[i] = file[i]
      BY <3>1, <3>2, MarkWhole
    <3>6. file[Len(file)] \in LineType
      BY <3>1
    <3>7. file'[Len(file)].event = file[Len(file)].event
      BY <3>4, <3>6 DEF LineType
    <3>8. \A i \in 1..Len(file) : file'[i].event = file[i].event
      <4>1. \A i \in 1..Len(file) : i = Len(file) \/ i \in 1..(Len(file) - 1)
        BY <3>1
      <4> QED
        BY <3>5, <3>7, <4>1
    <3>9. EventsOf(file) = EventsOf(file')
      BY <3>3, <3>8 DEF EventsOf
    <3> QED
      BY <3>9
  <2>4. ASSUME NEW p \in Process, Replace(p) PROVE Kept
    <3>1. local[p].raw = file /\ local[p].raw \in backups
      BY <2>0, <2>4 DEF IInv, FileInv, RepairInv, Replace
    <3> QED
      BY <3>1
  <2> QED
    BY <2>1, <2>2, <2>3, <2>4
       DEF Next, TakeLease, DropLease, Crash, AppendStep, RepairStep, OpenJournal, BeginAppend,
           RefuseAppend, PutPayload, Sync, AppendFails, StartRepair, LeaveFile, ReadTorn, SaveBackup,
           CopyPrefix, RemoveLeftover, RepairFails, Stored
<1>2. NothingIsErased <=> [][Kept]_vars
  BY DEF NothingIsErased
<1> HIDE DEF Kept
<1> QED
  BY <1>1, <1>2, FileSafe, PTL DEF Spec
===============================================================================
