----------------------- MODULE ContextCompactionProofs -------------------------
(***************************************************************************)
(* What every request shows of a session, however long the session and     *)
(* however often its history is summarised, lost or resumed.               *)
(*                                                                         *)
(* A log only grows, so each result is about the event a step adds         *)
(* (Fits) and what the compaction under way knows of the log (JobInv); a   *)
(* request is right because of what all logs satisfy when it is sent, and  *)
(* nothing is written while the model answers it.                          *)
(***************************************************************************)
EXTENDS ContextCompaction, WellFoundedInduction, FiniteSetTheorems, TLAPS

Kinds == {"user", "assistant", "result", "revoked", "prepared", "committed", "failed", "ended"}

Entry == [kind : Kinds, turn : Nat, of : Nat, flag : BOOLEAN, covers : SUBSET Nat]

\* Of, Conversation and Withdrawn of any log.
At(l, kind) == {i \in DOMAIN l : l[i].kind = kind}

Talk(l) == At(l, "user") \cup At(l, "assistant") \cup At(l, "result")

TakenBack(l) == {l[i].of : i \in At(l, "revoked")}

\* The calls up to a position have their results there.
Whole(l, n) ==
  \A c \in At(l, "assistant") :
    c <= n /\ l[c].flag => \E r \in At(l, "result") : l[r].of = c /\ r <= n

\* A summary has the conversation up to a position.
Covering(l, n, covers) == \A i \in Talk(l) : i <= n => i \in covers \/ i \in TakenBack(l)

Paired(l) ==
  /\ \A i \in At(l, "result") :
       l[i].of \in At(l, "assistant") /\ l[l[i].of].flag /\ l[i].of < i
  /\ \A i, j \in At(l, "result") : l[i].of = l[j].of => i = j

Retracted(l) == \A i \in At(l, "revoked") : l[i].of \in At(l, "user")

Sound(l, parent, k) ==
  /\ l[k].of < k
  /\ Whole(l, l[k].of)
  /\ Covering(l, l[k].of, l[k].covers)
  /\ parent => 0 \in l[k].covers

Attempts(l) == \A i, j \in At(l, "failed") : i < j /\ l[i].of = l[j].of => l[j].flag

\* What holds of every log; parent: the session continues another one.
LogInv(l, parent) ==
  /\ l \in Seq(Entry)
  /\ Paired(l)
  /\ Retracted(l)
  /\ \A k \in At(l, "committed") : Sound(l, parent, k)
  /\ Attempts(l)

\* What an event must satisfy to be added to such a log.
Fits(l, parent, e) ==
  /\ e.kind = "result" =>
       e.of \in At(l, "assistant") /\ l[e.of].flag /\ \A r \in At(l, "result") : l[r].of # e.of
  /\ e.kind = "revoked" => e.of \in At(l, "user")
  /\ e.kind = "committed" =>
       /\ e.of <= Len(l) /\ Whole(l, e.of) /\ Covering(l, e.of, e.covers)
       /\ parent => 0 \in e.covers
  /\ e.kind = "failed" => e.flag \/ \A i \in At(l, "failed") : l[i].of # e.of

\* What the compaction under way knows.
JobInv ==
  phase = "summarizing" =>
    /\ job.through = Through(Checkpoint)
    /\ job.cutoff \in 0..Len(log)
    /\ job.manual \in BOOLEAN
    /\ Whole(log, job.cutoff)
    /\ ~job.manual => \A i \in At(log, "failed") : log[i].of # job.cutoff

TypeInv ==
  /\ recovered \in BOOLEAN /\ pending \in BOOLEAN /\ service.requested \in BOOLEAN
  /\ service = [requested |-> service.requested, rejected |-> service.rejected]

\* The request that is answered shows what it has to.
Complete == StatementsKept /\ NothingForgotten

Halves ==
  phase = "stream" => \A i \in Of("result") : i \in sent.messages <=> log[i].of \in sent.messages

\* While a tool runs, its call has no result.
BatchInv == phase = "batch" => Unanswered # {}

CompactionInv == TypeInv /\ LogInv(log, recovered) /\ JobInv /\ BatchInv

-------------------------------------------------------------------------------
(* Logs and appended events.                                               *)

LEMMA AppendAt ==
  ASSUME NEW l \in Seq(Entry), NEW e \in Entry
  PROVE  /\ Append(l, e) \in Seq(Entry)
         /\ Len(l) \in Nat /\ Len(Append(l, e)) = Len(l) + 1
         /\ Append(l, e)[Len(l) + 1] = e
         /\ \A i \in 1..Len(l) : Append(l, e)[i] = l[i]
         /\ \A kind : At(l, kind) \subseteq 1..Len(l)
         /\ \A kind : At(Append(l, e), kind) =
              IF e.kind = kind THEN At(l, kind) \cup {Len(l) + 1} ELSE At(l, kind)
<1> DEFINE new == Append(l, e)
<1>1. /\ new \in Seq(Entry) /\ Len(l) \in Nat /\ Len(new) = Len(l) + 1
      /\ DOMAIN l = 1..Len(l) /\ DOMAIN new = 1..(Len(l) + 1)
      /\ new[Len(l) + 1] = e /\ \A i \in 1..Len(l) : new[i] = l[i]
  OBVIOUS
<1> HIDE DEF new
<1>2. \A kind : At(l, kind) \subseteq 1..Len(l)
  BY <1>1 DEF At
<1>3. ASSUME NEW kind
      PROVE  At(new, kind) = IF e.kind = kind THEN At(l, kind) \cup {Len(l) + 1} ELSE At(l, kind)
  BY <1>1 DEF At
<1> QED
  BY <1>1, <1>2, <1>3 DEF new

\* The fields of an event of a log.
LEMMA EntryIs ==
  ASSUME NEW l \in Seq(Entry), NEW i \in 1..Len(l)
  PROVE  /\ l[i].kind \in Kinds /\ l[i].turn \in Nat /\ l[i].of \in Nat /\ l[i].flag \in BOOLEAN
         /\ l[i].covers \subseteq Nat
<1>1. l[i] \in Entry
  OBVIOUS
<1> QED
  BY <1>1 DEF Entry

\* What is whole and covered stays so.
LEMMA WholeKept ==
  ASSUME NEW l \in Seq(Entry), NEW e \in Entry, NEW n \in 0..Len(l), Whole(l, n)
  PROVE  Whole(Append(l, e), n)
<1> DEFINE new == Append(l, e)
<1>1. /\ Len(l) \in Nat /\ \A i \in 1..Len(l) : new[i] = l[i]
      /\ \A kind : /\ At(l, kind) \subseteq 1..Len(l) /\ At(l, kind) \subseteq At(new, kind)
                   /\ At(new, kind) \subseteq At(l, kind) \cup {Len(l) + 1}
  BY AppendAt
<1> HIDE DEF new
<1>2. ASSUME NEW c \in At(new, "assistant"), c <= n, new[c].flag
      PROVE  \E r \in At(new, "result") : new[r].of = c /\ r <= n
  <2>1. c \in At(l, "assistant") /\ l[c].flag
    BY <1>1, <1>2
  <2>2. PICK r \in At(l, "result") : l[r].of = c /\ r <= n
    BY <1>2, <2>1 DEF Whole
  <2>3. r \in At(new, "result") /\ new[r] = l[r]
    BY <1>1
  <2> QED
    BY <2>2, <2>3
<1> QED
  BY <1>2 DEF Whole, new

LEMMA CoveringKept ==
  ASSUME NEW l \in Seq(Entry), NEW e \in Entry, NEW n \in 0..Len(l), NEW covers,
         Covering(l, n, covers)
  PROVE  Covering(Append(l, e), n, covers)
<1> DEFINE new == Append(l, e)
<1>1. /\ Len(l) \in Nat /\ \A i \in 1..Len(l) : new[i] = l[i]
      /\ \A kind : /\ At(l, kind) \subseteq 1..Len(l) /\ At(l, kind) \subseteq At(new, kind)
                   /\ At(new, kind) \subseteq At(l, kind) \cup {Len(l) + 1}
  BY AppendAt
<1> HIDE DEF new
<1>2. TakenBack(l) \subseteq TakenBack(new)
  <2>1. ASSUME NEW i \in At(l, "revoked") PROVE i \in At(new, "revoked") /\ new[i] = l[i]
    BY <1>1
  <2> QED
    BY <2>1 DEF TakenBack
<1>3. ASSUME NEW i \in Talk(new), i <= n PROVE i \in covers \/ i \in TakenBack(new)
  <2>1. i # Len(l) + 1
    BY <1>1, <1>3
  <2>2. i \in Talk(l)
    BY <1>1, <2>1 DEF Talk
  <2> QED
    BY <1>2, <1>3, <2>2 DEF Covering
<1> QED
  BY <1>3 DEF Covering, new

\* An event that fits keeps the log right.
LEMMA AppendFits ==
  ASSUME NEW l, NEW parent, NEW e \in Entry, LogInv(l, parent), Fits(l, parent, e)
  PROVE  LogInv(Append(l, e), parent)
<1> DEFINE new == Append(l, e)
           n == Len(l)
<1>0. l \in Seq(Entry)
  BY DEF LogInv
<1>1. /\ new \in Seq(Entry)
      /\ n \in Nat /\ new[n + 1] = e /\ \A i \in 1..n : new[i] = l[i]
      /\ \A kind : /\ At(l, kind) \subseteq 1..n
                   /\ At(new, kind) = IF e.kind = kind THEN At(l, kind) \cup {n + 1} ELSE At(l, kind)
  BY <1>0, AppendAt
<1>2. \A m \in 0..n : Whole(l, m) => Whole(new, m)
  BY <1>0, WholeKept
<1>3. \A m \in 0..n : \A covers : Covering(l, m, covers) => Covering(new, m, covers)
  BY <1>0, CoveringKept
<1>4. \A i \in 1..n : l[i].of \in Nat
  BY <1>0, EntryIs
<1>5. e.of \in Nat
  BY DEF Entry
<1> HIDE DEF new, n
<1>6. Paired(new)
  <2>1. \A kind : \A i \in At(new, kind) : (i \in At(l, kind) /\ new[i] = l[i])
                                           \/ (i = n + 1 /\ e.kind = kind)
    BY <1>1
  <2>2. Paired(l)
    BY DEF LogInv
  <2>3. ASSUME NEW i \in At(new, "result")
        PROVE  new[i].of \in At(new, "assistant") /\ new[new[i].of].flag /\ new[i].of < i
    <3>1. CASE i \in At(l, "result")
      BY <1>1, <2>2, <3>1 DEF Paired
    <3>2. CASE i = n + 1 /\ e.kind = "result"
      BY <1>1, <3>2 DEF Fits
    <3> QED
      BY <2>1, <3>1, <3>2
  <2>4. ASSUME NEW i \in At(new, "result"), NEW j \in At(new, "result"), new[i].of = new[j].of
        PROVE  i = j
    BY <1>1, <2>1, <2>2, <2>4 DEF Paired, Fits
  <2> QED
    BY <2>3, <2>4 DEF Paired
<1>7. Retracted(new)
  BY <1>1 DEF LogInv, Retracted, Fits
<1>8. ASSUME NEW k \in At(new, "committed") PROVE Sound(new, parent, k)
  <2>1. CASE k \in At(l, "committed")
    <3>1. Sound(l, parent, k) /\ k \in 1..n /\ new[k] = l[k]
      BY <1>1, <2>1 DEF LogInv
    <3>2. l[k].of \in 0..n
      BY <1>1, <1>4, <3>1 DEF Sound
    <3> QED
      BY <1>2, <1>3, <3>1, <3>2 DEF Sound
  <2>2. CASE k = n + 1 /\ e.kind = "committed"
    <3>1. /\ e.of \in 0..n /\ Whole(l, e.of) /\ Covering(l, e.of, e.covers)
          /\ (parent => 0 \in e.covers)
      BY <1>1, <1>5, <2>2 DEF Fits, n
    <3>2. e.of < k
      BY <1>1, <2>2, <3>1
    <3> QED
      BY <1>1, <1>2, <1>3, <2>2, <3>1, <3>2 DEF Sound
  <2> QED
    BY <1>1, <2>1, <2>2
<1>9. Attempts(new)
  <2>1. ASSUME NEW i \in At(new, "failed"), NEW j \in At(new, "failed"), i < j,
               new[i].of = new[j].of
        PROVE  new[j].flag
    <3>1. i \in At(l, "failed") /\ new[i] = l[i]
      BY <1>1, <2>1
    <3>2. CASE j \in At(l, "failed")
      BY <1>1, <2>1, <3>1, <3>2 DEF LogInv, Attempts
    <3>3. CASE j = n + 1 /\ e.kind = "failed"
      BY <1>1, <2>1, <3>1, <3>3 DEF Fits
    <3> QED
      BY <1>1, <3>2, <3>3
  <2> QED
    BY <2>1 DEF Attempts
<1> QED
  BY <1>1, <1>6, <1>7, <1>8, <1>9 DEF LogInv, new

\* Two sequences of events, put together.
LEMMA Joined ==
  ASSUME NEW l \in Seq(Entry), NEW e \in Entry, NEW f \in Entry
  PROVE  /\ l \o <<>> = l /\ l \o <<e>> = Append(l, e)
         /\ l \o (<<>> \o <<e>>) = Append(l, e)
         /\ l \o (<<e>> \o <<f>>) = Append(Append(l, e), f)
         /\ l \o <<e, f>> = Append(Append(l, e), f)
         /\ (l \o <<e>>) \o <<>> = Append(l, e)
         /\ (l \o <<e>>) \o <<f>> = Append(Append(l, e), f)
OBVIOUS

\* The events that fit any log.
Plain == {"user", "assistant", "prepared", "ended"}

LEMMA PlainFits ==
  ASSUME NEW l, NEW parent, NEW e \in Entry, e.kind \in Plain
  PROVE  Fits(l, parent, e)
BY DEF Fits, Plain

\* A nonempty set of bounded naturals has a maximum, so Max is one of its elements.
LEMMA MaxIsElement ==
  ASSUME NEW n \in Nat, NEW S, S \subseteq 0..n, S # {}
  PROVE  Max(S) \in S /\ \A x \in S : Max(S) >= x
<1> DEFINE gaps == {n - x : x \in S}
<1>1. \A x \in S : x \in Nat /\ n - x \in Nat
  OBVIOUS
<1>2. gaps \subseteq Nat /\ gaps # {}
  BY <1>1
<1>3. \E d \in gaps : \A g \in gaps : ~ (<<g, d>> \in OpToRel(<, Nat))
  BY <1>2, NatLessThanWellFounded, WFMin
<1>4. PICK d \in gaps : \A g \in gaps : ~ (g < d)
  BY <1>2, <1>3 DEF OpToRel
<1>5. PICK m \in S : d = n - m
  OBVIOUS
<1>6. \A x \in S : m >= x
  <2> SUFFICES ASSUME NEW x \in S PROVE m >= x
    OBVIOUS
  <2>1. n - x \in gaps
    OBVIOUS
  <2>2. ~ (n - x < n - m)
    BY <1>4, <1>5, <2>1
  <2> QED
    BY <1>1, <2>2
<1> QED
  BY <1>5, <1>6 DEF Max

-------------------------------------------------------------------------------
(* What the service reads in a right log.                                  *)

LEMMA Reads ==
  ASSUME LogInv(log, recovered)
  PROVE  /\ log \in Seq(Entry) /\ Len(log) \in Nat
         /\ \A kind : Of(kind) = At(log, kind) /\ Of(kind) \subseteq 1..Len(log)
         /\ Conversation = Talk(log) /\ Withdrawn = TakenBack(log)
         /\ Withdrawn \subseteq Of("user") /\ Live \subseteq Of("user")
         /\ LastTurn \in Nat
         /\ Cutoff \in 0..Len(log) /\ \A i \in Conversation : i <= Cutoff
         /\ Checkpoint \in {0} \cup Of("committed")
         /\ Unanswered \subseteq Of("assistant")
         /\ \A S \in SUBSET Unanswered : S # {} => Max(S) \in S
<1>1. log \in Seq(Entry) /\ Len(log) \in Nat /\ DOMAIN log = 1..Len(log)
  BY DEF LogInv
<1>2. \A kind : Of(kind) = At(log, kind) /\ Of(kind) \subseteq 1..Len(log)
  BY <1>1 DEF Of, At
<1>3. Conversation = Talk(log) /\ Withdrawn = TakenBack(log)
  BY <1>2 DEF Conversation, Talk, Withdrawn, TakenBack
<1>4. Withdrawn \subseteq Of("user")
  BY <1>2 DEF LogInv, Retracted, Withdrawn
<1>5. LastTurn \in Nat
  <2>1. CASE log = <<>>
    BY <2>1 DEF LastTurn
  <2>2. CASE log # <<>>
    <3>1. Len(log) \in 1..Len(log)
      BY <1>1, <2>2
    <3> QED
      BY <1>1, <2>2, <3>1, EntryIs DEF LastTurn
  <2> QED
    BY <2>1, <2>2
<1>6. Cutoff \in 0..Len(log) /\ \A i \in Conversation : i <= Cutoff
  <2>1. {0} \cup Conversation \subseteq 0..Len(log)
    BY <1>1, <1>2 DEF Conversation
  <2>2. /\ Max({0} \cup Conversation) \in {0} \cup Conversation
        /\ \A x \in {0} \cup Conversation : Max({0} \cup Conversation) >= x
    BY <1>1, <2>1, MaxIsElement
  <2> QED
    BY <2>1, <2>2 DEF Cutoff
<1>7. Checkpoint \in {0} \cup Of("committed")
  <2>1. {0} \cup (Of("committed") \ lost) \subseteq 0..Len(log)
    BY <1>1, <1>2
  <2>2. Max({0} \cup (Of("committed") \ lost)) \in {0} \cup (Of("committed") \ lost)
    BY <1>1, <2>1, MaxIsElement
  <2> QED
    BY <2>2 DEF Checkpoint
<1>8. Unanswered \subseteq Of("assistant")
  BY DEF Unanswered
<1>9. ASSUME NEW S \in SUBSET Unanswered, S # {} PROVE Max(S) \in S
  <2>1. S \subseteq 0..Len(log)
    BY <1>1, <1>2, <1>8
  <2> QED
    BY <1>1, <1>9, <2>1, MaxIsElement
<1> QED
  BY <1>1, <1>2, <1>3, <1>4, <1>5, <1>6, <1>7, <1>8, <1>9 DEF Live

\* The statement a request shows when its tail is empty is a live one.
LEMMA FallbackIs ==
  ASSUME LogInv(log, recovered), NEW through
  PROVE  Fallback(through) \subseteq Live
<1>1. Live \subseteq 0..Len(log) /\ Len(log) \in Nat
  BY Reads
<1>2. Live # {} => Max(Live) \in Live
  BY <1>1, MaxIsElement
<1> QED
  BY <1>2 DEF Fallback

\* One event, or two, that fit.
LEMMA OneMore ==
  ASSUME LogInv(log, recovered), NEW e \in Entry, Fits(log, recovered, e), log' = Append(log, e)
  PROVE  LogInv(log', recovered)
BY AppendFits

LEMMA TwoMore ==
  ASSUME LogInv(log, recovered), NEW e \in Entry, Fits(log, recovered, e),
         NEW f \in Entry, Fits(Append(log, e), recovered, f), log' = Append(Append(log, e), f)
  PROVE  LogInv(log', recovered)
<1>1. LogInv(Append(log, e), recovered)
  BY AppendFits
<1> QED
  BY <1>1, AppendFits

\* The result of a call that has none fits.
LEMMA AnswerFits ==
  ASSUME LogInv(log, recovered), NEW turn \in Nat, NEW c \in Unanswered
  PROVE  Result(turn, c) \in Entry /\ Fits(log, recovered, Result(turn, c))
<1>1. c \in Nat /\ c \in At(log, "assistant") /\ log[c].flag /\ \A r \in At(log, "result") : log[r].of # c
  BY Reads DEF Unanswered
<1>2. Result(turn, c) \in Entry /\ Result(turn, c).kind = "result" /\ Result(turn, c).of = c
  BY <1>1 DEF Result, Event, Entry, Kinds
<1> QED
  BY <1>1, <1>2 DEF Fits

\* The other events the turn writes fit any log.
LEMMA PlainEvents ==
  ASSUME NEW turn \in Nat
  PROVE  /\ User(turn) \in Entry /\ Prepared(turn) \in Entry
         /\ User(turn).kind = "user" /\ Prepared(turn).kind = "prepared"
         /\ \A b \in BOOLEAN : /\ Assistant(turn, b) \in Entry /\ Ended(turn, b) \in Entry
                               /\ Assistant(turn, b).kind = "assistant"
                               /\ Ended(turn, b).kind = "ended"
         /\ \A l, parent : /\ Fits(l, parent, User(turn)) /\ Fits(l, parent, Prepared(turn))
                           /\ \A b \in BOOLEAN : /\ Fits(l, parent, Assistant(turn, b))
                                                 /\ Fits(l, parent, Ended(turn, b))
<1>1. /\ User(turn) \in Entry /\ Prepared(turn) \in Entry
      /\ User(turn).kind = "user" /\ Prepared(turn).kind = "prepared"
      /\ \A b \in BOOLEAN : /\ Assistant(turn, b) \in Entry /\ Ended(turn, b) \in Entry
                            /\ Assistant(turn, b).kind = "assistant"
                            /\ Ended(turn, b).kind = "ended"
  BY DEF User, Prepared, Assistant, Ended, Event, Entry, Kinds
<1> QED
  BY <1>1, PlainFits DEF Plain

-------------------------------------------------------------------------------
(* What the steps write keeps the log right.                               *)

\* The turn fails: an open call is answered and the end is written.
LEMMA FailLog ==
  ASSUME LogInv(log, recovered), Fail(LastTurn)
  PROVE  LogInv(log', recovered)
<1>1. log \in Seq(Entry) /\ LastTurn \in Nat /\ (Unanswered # {} => Max(Unanswered) \in Unanswered)
  BY Reads
<1> DEFINE turn == LastTurn
           end  == Ended(turn, FALSE)
<1>2. end \in Entry /\ \A l, parent : Fits(l, parent, end)
  BY <1>1, PlainEvents
<1>3. CASE Closed \/ phase # "batch"
  <2>1. log' = log \o (<<>> \o <<end>>)
    BY <1>3 DEF Fail, EndWith
  <2>2. log' = Append(log, end)
    BY <1>1, <1>2, <2>1, Joined
  <2> QED
    BY <1>2, <2>2, OneMore
<1>4. CASE ~(Closed \/ phase # "batch")
  <2> DEFINE answer == Result(turn, Max(Unanswered))
  <2>1. Max(Unanswered) \in Unanswered
    BY <1>1, <1>4 DEF Closed
  <2>2. answer \in Entry /\ Fits(log, recovered, answer)
    BY <1>1, <2>1, AnswerFits
  <2>3. log' = log \o (<<answer>> \o <<end>>)
    BY <1>4 DEF Fail, EndWith
  <2>4. log' = Append(Append(log, answer), end)
    BY <1>1, <1>2, <2>2, <2>3, Joined
  <2> QED
    BY <1>2, <2>2, <2>4, TwoMore
<1> QED
  BY <1>3, <1>4

\* The user's statement, and one that it takes back.
LEMMA SendLog ==
  ASSUME LogInv(log, recovered), Send
  PROVE  LogInv(log', recovered)
<1>1. log \in Seq(Entry) /\ Of("user") = At(log, "user") /\ Of("user") \subseteq 1..Len(log)
      /\ Len(log) \in Nat
  BY Reads
<1>2. Cardinality(Turns) + 1 \in Nat
  <2>1. IsFiniteSet(1..Len(log))
    BY <1>1, FS_Interval
  <2>2. IsFiniteSet(Of("user"))
    BY <1>1, <2>1, FS_Subset
  <2>3. IsFiniteSet(Turns)
    <3> DEFINE f == [i \in Of("user") |-> log[i].turn]
    <3>1. f \in Surjection(Of("user"), Turns)
      BY DEF Surjection, Turns
    <3> HIDE DEF f
    <3> QED
      BY <2>2, <3>1, FS_Surjection
  <2> QED
    BY <2>3, FS_CardinalityType
<1>3. PICK turn \in Nat, which \in {0} \cup Of("user") :
        log' = log \o <<User(turn)>> \o (IF which = 0 THEN <<>> ELSE <<Revoked(turn, which)>>)
  BY <1>2 DEF Send
<1>4. User(turn) \in Entry /\ User(turn).kind = "user" /\ Fits(log, recovered, User(turn))
  BY PlainEvents
<1>5. CASE which = 0
  <2>1. log' = Append(log, User(turn))
    BY <1>1, <1>3, <1>4, <1>5, Joined
  <2> QED
    BY <1>4, <2>1, OneMore
<1>6. CASE which # 0
  <2>1. which \in At(log, "user") /\ which \in Nat
    BY <1>1, <1>6
  <2>2. /\ Revoked(turn, which) \in Entry /\ Revoked(turn, which).kind = "revoked"
        /\ Revoked(turn, which).of = which
    BY <2>1 DEF Revoked, Event, Entry, Kinds
  <2>3. log' = Append(Append(log, User(turn)), Revoked(turn, which))
    BY <1>1, <1>3, <1>4, <1>6, <2>2, Joined
  <2>4. which \in At(Append(log, User(turn)), "user")
    BY <1>1, <1>4, <2>1, AppendAt
  <2>5. Fits(Append(log, User(turn)), recovered, Revoked(turn, which))
    BY <2>2, <2>4 DEF Fits
  <2> QED
    BY <1>4, <2>2, <2>3, <2>5, TwoMore
<1> QED
  BY <1>5, <1>6

\* A resume answers the open call of an interrupted turn and ends it.
LEMMA ResumeLog ==
  ASSUME LogInv(log, recovered), Resume
  PROVE  LogInv(log', recovered)
<1>1. /\ log \in Seq(Entry) /\ LastTurn \in Nat /\ Len(log) \in Nat
      /\ \A S \in SUBSET Unanswered : S # {} => Max(S) \in S
      /\ Unanswered \subseteq 1..Len(log)
  BY Reads
<1> DEFINE end     == Ended(LastTurn, FALSE)
           open    == {i \in Unanswered : log[i].turn \in OpenTurns}
           call    == Max(open)
           answer  == Result(log[call].turn, call)
           answers == IF open = {} THEN <<>> ELSE <<answer>>
<1>2. log' = log \o (IF OpenTurns = {} THEN <<>> ELSE answers \o <<end>>)
  BY DEF Resume
<1>3. end \in Entry /\ \A l, parent : Fits(l, parent, end)
  BY <1>1, PlainEvents
<1>4. CASE OpenTurns = {}
  <2>1. log' = log
    BY <1>1, <1>2, <1>3, <1>4, Joined
  <2> QED
    BY <2>1
<1>5. CASE OpenTurns # {} /\ open = {}
  <2>1. log' = log \o (<<>> \o <<end>>)
    BY <1>2, <1>5
  <2>2. log' = Append(log, end)
    BY <1>1, <1>3, <2>1, Joined
  <2> QED
    BY <1>3, <2>2, OneMore
<1>6. CASE OpenTurns # {} /\ open # {}
  <2>1. call \in Unanswered /\ log[call].turn \in Nat
    BY <1>1, <1>6, EntryIs
  <2>2. answer \in Entry /\ Fits(log, recovered, answer)
    BY <2>1, AnswerFits
  <2>3. log' = log \o (<<answer>> \o <<end>>)
    BY <1>2, <1>6
  <2>4. log' = Append(Append(log, answer), end)
    BY <1>1, <1>3, <2>2, <2>3, Joined
  <2> QED
    BY <1>3, <2>2, <2>4, TwoMore
<1> QED
  BY <1>4, <1>5, <1>6

\* The summary has what the one before had and what has been said since.
LEMMA CommitLog ==
  ASSUME CompactionInv, Commit
  PROVE  LogInv(log', recovered)
<1>1. LogInv(log, recovered) /\ phase = "summarizing" /\ recovered \in BOOLEAN
  BY DEF CompactionInv, TypeInv, Commit
<1>2. /\ log \in Seq(Entry) /\ Len(log) \in Nat /\ LastTurn \in Nat
      /\ \A kind : Of(kind) = At(log, kind) /\ Of(kind) \subseteq 1..Len(log)
      /\ Conversation = Talk(log) /\ Withdrawn = TakenBack(log)
      /\ Checkpoint \in {0} \cup Of("committed")
  BY <1>1, Reads
<1>3. /\ job.through = Through(Checkpoint) /\ job.cutoff \in 0..Len(log)
      /\ Whole(log, job.cutoff)
  BY <1>1 DEF CompactionInv, JobInv
<1>4. Conversation \subseteq 1..Len(log) /\ Conversation \subseteq Nat
  BY <1>2 DEF Conversation
<1>5. Covers(Checkpoint) \subseteq Nat /\ (recovered /\ job.through # 0 => 0 \in Covers(Checkpoint))
  <2>1. CASE Checkpoint = 0
    BY <1>3, <2>1 DEF Through, Covers
  <2>2. CASE Checkpoint # 0
    <3>1. Sound(log, recovered, Checkpoint) /\ Checkpoint \in 1..Len(log)
      BY <1>1, <1>2, <2>2 DEF LogInv
    <3> QED
      BY <1>2, <2>2, <3>1, EntryIs DEF Sound, Covers
  <2> QED
    BY <2>1, <2>2
<1>6. NewCovers \in SUBSET Nat /\ (recovered => 0 \in NewCovers)
  <2> DEFINE fresh  == {i \in Conversation : job.through < i /\ i <= job.cutoff} \ Withdrawn
             parent == IF recovered /\ job.through = 0 THEN {0} ELSE {}
  <2>1. fresh \subseteq Nat
    BY <1>4
  <2>2. parent \subseteq Nat /\ (recovered /\ job.through = 0 => 0 \in parent)
    OBVIOUS
  <2>3. NewCovers = Covers(Checkpoint) \cup fresh \cup parent
    BY DEF NewCovers
  <2> HIDE DEF fresh, parent
  <2> QED
    BY <1>5, <2>1, <2>2, <2>3
<1>7. Covering(log, job.cutoff, NewCovers)
  <2>1. ASSUME NEW i \in Talk(log), i <= job.cutoff PROVE i \in NewCovers \/ i \in TakenBack(log)
    <3>1. i \in Conversation /\ i \in 1..Len(log)
      BY <1>2, <1>4, <2>1
    <3>2. job.through \in Nat
      <4>1. CASE Checkpoint = 0
        BY <1>3, <4>1 DEF Through
      <4>2. CASE Checkpoint # 0
        <5>1. Checkpoint \in 1..Len(log)
          BY <1>2, <4>2
        <5> QED
          BY <1>2, <1>3, <4>2, <5>1, EntryIs DEF Through
      <4> QED
        BY <4>1, <4>2
    <3>3. CASE job.through < i
      BY <1>2, <2>1, <3>1, <3>3 DEF NewCovers
    <3>4. CASE ~(job.through < i)
      <4>1. Checkpoint # 0 /\ i <= log[Checkpoint].of
        BY <1>3, <3>1, <3>2, <3>4 DEF Through
      <4>2. Covering(log, log[Checkpoint].of, log[Checkpoint].covers)
        BY <1>1, <1>2, <4>1 DEF LogInv, Sound
      <4>3. i \in Covers(Checkpoint) \/ i \in TakenBack(log)
        BY <2>1, <4>1, <4>2 DEF Covering, Covers
      <4> QED
        BY <4>3 DEF NewCovers
    <3> QED
      BY <3>3, <3>4
  <2> QED
    BY <2>1 DEF Covering
<1> DEFINE e == Committed(LastTurn, job.cutoff, NewCovers)
<1>8. e \in Entry /\ e.kind = "committed" /\ e.of = job.cutoff /\ e.covers = NewCovers
  BY <1>2, <1>3, <1>6 DEF Committed, Event, Entry, Kinds
<1>9. Fits(log, recovered, e)
  BY <1>3, <1>6, <1>7, <1>8 DEF Fits
<1>10. log' = Append(log, e)
  BY DEF Commit
<1> QED
  BY <1>1, <1>8, <1>9, <1>10, OneMore

\* A cutoff is recorded as failed once, or at the user's wish.
LEMMA FailedLog ==
  ASSUME CompactionInv, FailCompaction
  PROVE  LogInv(log', recovered)
<1>1. LogInv(log, recovered) /\ phase = "summarizing"
  BY DEF CompactionInv, FailCompaction
<1>2. LastTurn \in Nat /\ Len(log) \in Nat
  BY <1>1, Reads
<1>3. /\ job.cutoff \in 0..Len(log) /\ job.manual \in BOOLEAN
      /\ ~job.manual => \A i \in At(log, "failed") : log[i].of # job.cutoff
  BY <1>1 DEF CompactionInv, JobInv
<1> DEFINE e == Failed(LastTurn, job.cutoff, job.manual)
<1>4. e \in Entry /\ e.kind = "failed" /\ e.of = job.cutoff /\ e.flag = job.manual
  BY <1>2, <1>3 DEF Failed, Event, Entry, Kinds
<1>5. Fits(log, recovered, e)
  BY <1>3, <1>4 DEF Fits
<1>6. log' = Append(log, e)
  BY DEF FailCompaction
<1> QED
  BY <1>1, <1>4, <1>5, <1>6, OneMore

\* Every step keeps the log right.
LEMMA LogStep ==
  ASSUME CompactionInv, [Next]_vars
  PROVE  LogInv(log', recovered') /\ recovered' = recovered
<1>1. LogInv(log, recovered)
  BY DEF CompactionInv
<1>2. recovered' = recovered
  BY DEF Next, vars, Service, Loop, RefuseOpenBatch, Refuse, StartCompaction, NoCompaction, Summarize,
         Commit, FailCompaction, ReportCompaction, RefuseRequest, SendRequest, EnterLoop, Answer,
         CallTool, ToolReturns, RejectWindow, RepairCitations, StreamFails, Send, CompactNow,
         QueueCompaction, AbandonBatch, Cancel, Stop, Resume, Fail, EndWith
<1> SUFFICES LogInv(log', recovered)
  BY <1>2
<1>3. LastTurn \in Nat /\ log \in Seq(Entry) /\ (Unanswered # {} => Max(Unanswered) \in Unanswered)
  BY <1>1, Reads
<1>4. CASE log' = log
  BY <1>1, <1>4
<1>5. ASSUME NEW events, EndWith(events),
             events \in {<<>>, <<Ended(LastTurn, FALSE)>>,
                        <<Assistant(LastTurn, FALSE), Ended(LastTurn, TRUE)>>}
      PROVE  LogInv(log', recovered)
  <2>1. log' = log \o events
    BY <1>5 DEF EndWith
  <2>2. CASE events = <<>>
    <3>1. log' = log
      BY <1>3, <2>1, <2>2
    <3> QED
      BY <1>1, <3>1
  <2>3. CASE events = <<Ended(LastTurn, FALSE)>>
    <3> DEFINE e == Ended(LastTurn, FALSE)
    <3>1. e \in Entry /\ Fits(log, recovered, e)
      BY <1>3, PlainEvents
    <3>2. log' = Append(log, e)
      BY <1>3, <2>1, <2>3, <3>1, Joined
    <3> QED
      BY <1>1, <3>1, <3>2, OneMore
  <2>4. CASE events = <<Assistant(LastTurn, FALSE), Ended(LastTurn, TRUE)>>
    <3> DEFINE e == Assistant(LastTurn, FALSE)
               f == Ended(LastTurn, TRUE)
    <3>1. /\ e \in Entry /\ Fits(log, recovered, e)
          /\ f \in Entry /\ Fits(Append(log, e), recovered, f)
      BY <1>3, PlainEvents
    <3>2. log' = Append(Append(log, e), f)
      BY <1>3, <2>1, <2>4, <3>1, Joined
    <3> QED
      BY <1>1, <3>1, <3>2, TwoMore
  <2> QED
    BY <1>5, <2>2, <2>3, <2>4
<1>6. CASE Summarize \/ SendRequest \/ CallTool
  <2>1. PICK e \in {Prepared(LastTurn), Assistant(LastTurn, TRUE)} : log' = Append(log, e)
    BY <1>6 DEF Summarize, SendRequest, CallTool
  <2>2. e \in Entry /\ Fits(log, recovered, e)
    BY <1>3, <2>1, PlainEvents
  <2> QED
    BY <1>1, <2>1, <2>2, OneMore
<1>8. CASE ToolReturns
  <2>1. Max(Unanswered) \in Unanswered
    BY <1>3, <1>8 DEF ToolReturns, CompactionInv, BatchInv
  <2>2. Result(LastTurn, Max(Unanswered)) \in Entry
        /\ Fits(log, recovered, Result(LastTurn, Max(Unanswered)))
    BY <1>1, <1>3, <2>1, AnswerFits
  <2> QED
    BY <1>1, <1>8, <2>2, OneMore DEF ToolReturns
<1>9. CASE Fail(LastTurn)
  BY <1>1, <1>9, FailLog
<1>10. \/ log' = log
       \/ \E events : EndWith(events) /\ events \in {<<>>, <<Ended(LastTurn, FALSE)>>,
                                    <<Assistant(LastTurn, FALSE), Ended(LastTurn, TRUE)>>}
       \/ Summarize \/ SendRequest \/ CallTool \/ ToolReturns \/ Fail(LastTurn)
       \/ Send \/ Resume \/ Commit \/ FailCompaction
  BY DEF Next, vars, Service, Loop, RefuseOpenBatch, Refuse, StartCompaction, NoCompaction,
         ReportCompaction, RefuseRequest, EnterLoop, Answer, RejectWindow, RepairCitations,
         StreamFails, CompactNow, QueueCompaction, AbandonBatch, Cancel, Stop
<1> QED
  BY <1>1, <1>2, <1>4, <1>5, <1>6, <1>8, <1>9, <1>10, SendLog, ResumeLog, CommitLog, FailedLog

-------------------------------------------------------------------------------
(* What the compaction under way knows.                                    *)

\* An archived request changes nothing of what the service reads.
LEMMA Archived ==
  ASSUME LogInv(log, recovered), log' = Append(log, Prepared(LastTurn))
  PROVE  /\ \A kind : kind # "prepared" => At(log', kind) = At(log, kind)
         /\ \A i \in 1..Len(log) : log'[i] = log[i]
         /\ Len(log') = Len(log) + 1
         /\ Conversation' = Conversation /\ Withdrawn' = Withdrawn /\ Live' = Live
         /\ UNCHANGED lost => Checkpoint' = Checkpoint
         /\ \A c \in {0} \cup Of("committed") : Through(c)' = Through(c) /\ Covers(c)' = Covers(c)
<1>1. log \in Seq(Entry) /\ LastTurn \in Nat /\ \A kind : Of(kind) = At(log, kind) /\ Of(kind) \subseteq 1..Len(log)
  BY Reads
<1>2. Prepared(LastTurn) \in Entry /\ Prepared(LastTurn).kind = "prepared"
  BY <1>1, PlainEvents
<1>3. /\ \A kind : kind # "prepared" => At(log', kind) = At(log, kind)
      /\ \A i \in 1..Len(log) : log'[i] = log[i]
      /\ Len(log') = Len(log) + 1
  BY <1>1, <1>2, AppendAt
<1>4. \A kind : Of(kind)' = At(log', kind)
  BY DEF Of, At
<1>5. /\ Of("user")' = Of("user") /\ Of("assistant")' = Of("assistant") /\ Of("result")' = Of("result")
      /\ Of("revoked")' = Of("revoked") /\ Of("committed")' = Of("committed")
  BY <1>1, <1>3, <1>4
<1>6. Conversation' = Conversation
  BY <1>5 DEF Conversation
<1>7. Withdrawn' = Withdrawn
  <2>1. \A i \in Of("revoked") : log'[i] = log[i]
    BY <1>1, <1>3
  <2> QED
    BY <1>5, <2>1 DEF Withdrawn
<1>8. Live' = Live
  BY <1>5, <1>7 DEF Live
<1>9. UNCHANGED lost => Checkpoint' = Checkpoint
  BY <1>5 DEF Checkpoint
<1>10. ASSUME NEW c \in {0} \cup Of("committed") PROVE Through(c)' = Through(c) /\ Covers(c)' = Covers(c)
  <2>1. c # 0 => log'[c] = log[c]
    BY <1>1, <1>3, <1>10
  <2> QED
    BY <2>1 DEF Through, Covers
<1> QED
  BY <1>3, <1>6, <1>7, <1>8, <1>9, <1>10

\* When no call waits, all calls up to the cutoff are whole.
LEMMA ClosedIsWhole ==
  ASSUME LogInv(log, recovered), Closed
  PROVE  Whole(log, Cutoff)
<1>1. ASSUME NEW c \in At(log, "assistant"), log[c].flag
      PROVE  \E r \in At(log, "result") : log[r].of = c /\ r <= Cutoff
  <2>1. c \in {i \in Of("assistant") : log[i].flag}
    BY <1>1, Reads
  <2>2. PICK r \in Of("result") : log[r].of = c
    BY <2>1 DEF Closed, Unanswered
  <2>3. r \in Conversation /\ r \in At(log, "result")
    BY <2>2, Reads DEF Conversation
  <2> QED
    BY <2>2, <2>3, Reads
<1> QED
  BY <1>1 DEF Whole

\* The steps that are within a compaction, and those that keep its phase.
LEMMA JobStep ==
  ASSUME CompactionInv, [Next]_vars
  PROVE  JobInv'
<1>1. LogInv(log, recovered) /\ JobInv /\ service.requested \in BOOLEAN
  BY DEF CompactionInv, TypeInv
<1>2. CASE UNCHANGED <<phase, job, log, lost>>
  BY <1>1, <1>2 DEF JobInv, Checkpoint, Through, Of
<1>3. CASE StartCompaction
  <2>1. /\ job' = [through |-> Through(Checkpoint), cutoff |-> Cutoff,
                   manual |-> service.requested, calls |-> 0]
        /\ UNCHANGED <<log, lost>> /\ Closed /\ (service.requested \/ ~HasFailed)
    BY <1>3 DEF StartCompaction
  <2>2. /\ job'.through = Through(Checkpoint) /\ job'.cutoff = Cutoff
        /\ job'.manual = service.requested
    BY <2>1
  <2>3. Through(Checkpoint)' = Through(Checkpoint)
    BY <2>1 DEF Checkpoint, Through, Of
  <2>4. Cutoff \in 0..Len(log) /\ Whole(log, Cutoff)
    BY <1>1, <2>1, Reads, ClosedIsWhole
  <2>5. ~service.requested => \A i \in At(log, "failed") : log[i].of # Cutoff
    BY <1>1, <2>1, Reads DEF HasFailed
  <2> QED
    BY <1>1, <2>1, <2>2, <2>3, <2>4, <2>5 DEF JobInv
<1>4. CASE Summarize
  <2>1. /\ phase = "summarizing" /\ phase' = phase /\ UNCHANGED lost
        /\ log' = Append(log, Prepared(LastTurn))
        /\ job' = [job EXCEPT !.calls = 1]
    BY <1>4 DEF Summarize
  <2>2. job'.through = job.through /\ job'.cutoff = job.cutoff /\ job'.manual = job.manual
    BY <2>1
  <2>3. /\ \A kind : kind # "prepared" => At(log', kind) = At(log, kind)
        /\ \A i \in 1..Len(log) : log'[i] = log[i]
        /\ Len(log') = Len(log) + 1 /\ Checkpoint' = Checkpoint
        /\ \A c \in {0} \cup Of("committed") : Through(c)' = Through(c)
    BY <1>1, <2>1, Archived
  <2>4. PICK c \in {0} \cup Of("committed") : c = Checkpoint
    BY <1>1, Reads
  <2>5. Through(Checkpoint)' = Through(Checkpoint)
    BY <2>3, <2>4 DEF Through
  <2>6. /\ log \in Seq(Entry) /\ Len(log) \in Nat /\ LastTurn \in Nat
        /\ \A kind : At(log, kind) \subseteq 1..Len(log)
    BY <1>1, Reads
  <2>7. /\ job.through = Through(Checkpoint) /\ job.cutoff \in 0..Len(log)
        /\ job.manual \in BOOLEAN /\ Whole(log, job.cutoff)
        /\ ~job.manual => \A i \in At(log, "failed") : log[i].of # job.cutoff
    BY <1>1, <2>1 DEF JobInv
  <2>8. Whole(log', job.cutoff)
    BY <2>1, <2>6, <2>7, PlainEvents, WholeKept
  <2>9. ~job.manual => \A i \in At(log', "failed") : log'[i].of # job.cutoff
    BY <2>3, <2>6, <2>7
  <2>10. job.cutoff \in 0..Len(log')
    BY <2>3, <2>6, <2>7
  <2> QED
    BY <2>2, <2>5, <2>7, <2>8, <2>9, <2>10 DEF JobInv
<1>5. CASE phase' # "summarizing"
  BY <1>5 DEF JobInv
<1> QED
  BY <1>2, <1>3, <1>4, <1>5 DEF Next, vars, Service, Loop, RefuseOpenBatch, Refuse, NoCompaction,
     Commit, FailCompaction, ReportCompaction, RefuseRequest, SendRequest, EnterLoop, Answer,
     CallTool, ToolReturns, RejectWindow, RepairCitations, StreamFails, Send, CompactNow,
     QueueCompaction, AbandonBatch, Cancel, Stop, Resume, Fail, EndWith

\* A call that has just been asked for has no result.
LEMMA BatchStep ==
  ASSUME CompactionInv, [Next]_vars
  PROVE  BatchInv'
<1>1. LogInv(log, recovered) /\ BatchInv
  BY DEF CompactionInv
<1>2. CASE UNCHANGED <<phase, log>>
  BY <1>1, <1>2 DEF BatchInv, Unanswered, Of
<1>3. CASE CallTool
  <2> DEFINE e == Assistant(LastTurn, TRUE)
             n == Len(log) + 1
  <2>1. /\ log \in Seq(Entry) /\ Len(log) \in Nat /\ LastTurn \in Nat
        /\ \A kind : At(log, kind) \subseteq 1..Len(log)
    BY <1>1, Reads
  <2>2. e \in Entry /\ e.kind = "assistant" /\ e.flag
    BY <2>1, PlainEvents DEF Assistant, Event
  <2>3. log' = Append(log, e)
    BY <1>3 DEF CallTool
  <2> HIDE DEF e
  <2>4. /\ n \in At(log', "assistant") /\ log'[n] = e /\ At(log', "result") = At(log, "result")
        /\ \A i \in 1..Len(log) : log'[i] = log[i]
    BY <2>1, <2>2, <2>3, AppendAt
  <2>5. ASSUME NEW r \in At(log', "result") PROVE log'[r].of # n
    <3>1. r \in At(log, "result") /\ log'[r] = log[r] /\ r \in 1..Len(log)
      BY <2>1, <2>4
    <3>2. log[r].of \in 1..Len(log)
      BY <1>1, <2>1, <3>1 DEF LogInv, Paired
    <3> QED
      BY <2>1, <3>1, <3>2
  <2>6. n \in Unanswered'
    BY <2>2, <2>4, <2>5 DEF Unanswered, Of, At
  <2> QED
    BY <2>6 DEF BatchInv
<1>4. CASE phase' # "batch"
  BY <1>4 DEF BatchInv
<1> QED
  BY <1>2, <1>3, <1>4 DEF Next, vars, Service, Loop, RefuseOpenBatch, Refuse, StartCompaction,
     NoCompaction, Summarize,
     Commit, FailCompaction, ReportCompaction, RefuseRequest, SendRequest, EnterLoop, Answer,
     ToolReturns, RejectWindow, RepairCitations, StreamFails, Send, CompactNow,
     QueueCompaction, AbandonBatch, Cancel, Stop, Resume, Fail, EndWith

\* The service and the flags keep their types.
LEMMA TypeStep ==
  ASSUME TypeInv, [Next]_vars
  PROVE  TypeInv'
<1>1. recovered' = recovered /\ pending' \in {pending, TRUE, FALSE}
  BY DEF Next, vars, Service, Loop, RefuseOpenBatch, Refuse, StartCompaction,
     NoCompaction, Summarize,
     Commit, FailCompaction, ReportCompaction, RefuseRequest, SendRequest, EnterLoop, Answer,
     CallTool, ToolReturns, RejectWindow, RepairCitations, StreamFails, Send, CompactNow,
     QueueCompaction, AbandonBatch, Cancel, Stop, Resume, Fail, EndWith
<1>2. \/ service' = service
      \/ service' \in {FreshService(pending), FreshService(TRUE), FreshService(FALSE)}
      \/ service' \in {[service EXCEPT !.requested = TRUE], [service EXCEPT !.requested = FALSE]}
      \/ service' = [requested |-> TRUE, rejected |-> sent]
  BY DEF Next, vars, Service, Loop, RefuseOpenBatch, Refuse, StartCompaction,
     NoCompaction, Summarize,
     Commit, FailCompaction, ReportCompaction, RefuseRequest, SendRequest, EnterLoop, Answer,
     CallTool, ToolReturns, RejectWindow, RepairCitations, StreamFails, Send, CompactNow,
     QueueCompaction, AbandonBatch, Cancel, Stop, Resume, Fail, EndWith
<1>3. PICK b \in BOOLEAN : \E x : service' = [requested |-> b, rejected |-> x]
  <2>1. service = [requested |-> service.requested, rejected |-> service.rejected]
        /\ service.requested \in BOOLEAN /\ pending \in BOOLEAN
    BY DEF TypeInv
  <2>2. \A b : [service EXCEPT !.requested = b] = [requested |-> b, rejected |-> service.rejected]
    BY <2>1
  <2>3. \A b : FreshService(b) = [requested |-> b, rejected |-> NoRequest]
    BY DEF FreshService
  <2>4. CASE service' = service
    BY <2>1, <2>4
  <2>5. CASE service' \in {FreshService(pending), FreshService(TRUE), FreshService(FALSE)}
    BY <2>1, <2>3, <2>5
  <2>6. CASE service' \in {[service EXCEPT !.requested = TRUE], [service EXCEPT !.requested = FALSE]}
    BY <2>2, <2>6
  <2> QED
    BY <1>2, <2>4, <2>5, <2>6
<1>4. PICK x : service' = [requested |-> b, rejected |-> x]
  BY <1>3
<1> QED
  BY <1>1, <1>4 DEF TypeInv

-------------------------------------------------------------------------------
(* What a request shows.                                                   *)

\* The two forms of a request, in one.
LEMMA RequestFields ==
  /\ Request.checkpoint = Checkpoint
  /\ Checkpoint = 0 => Request.messages = TailOf(0) /\ Request.protected = {}
  /\ Checkpoint # 0 =>
       /\ Request.messages = TailOf(Through(Checkpoint)) \cup Fallback(Through(Checkpoint))
       /\ Request.protected = Protected(Through(Checkpoint))
<1>1. CASE Checkpoint = 0
  <2>1. Project(Checkpoint) = [NoRequest EXCEPT !.messages = TailOf(0), !.withdrawn = Withdrawn]
    BY <1>1 DEF Project
  <2> QED
    BY <1>1, <2>1 DEF Request, NoRequest
<1>2. CASE Checkpoint # 0
  <2>1. Project(Checkpoint) = Summarized(Through(Checkpoint), Checkpoint)
    BY <1>2 DEF Project
  <2> QED
    BY <1>2, <2>1 DEF Request, Summarized
<1> QED
  BY <1>1, <1>2

\* The tail begins after the newest readable checkpoint, which is sound.
LEMMA TailStart ==
  ASSUME LogInv(log, recovered)
  PROVE  /\ Through(Checkpoint) \in Nat
         /\ Checkpoint = 0 => Through(Checkpoint) = 0
         /\ Checkpoint # 0 =>
              /\ Whole(log, Through(Checkpoint))
              /\ Covering(log, Through(Checkpoint), Covers(Checkpoint))
              /\ recovered => 0 \in Covers(Checkpoint)
<1>1. /\ log \in Seq(Entry) /\ Checkpoint \in {0} \cup At(log, "committed")
      /\ At(log, "committed") \subseteq 1..Len(log)
  BY Reads
<1>2. CASE Checkpoint = 0
  BY <1>2 DEF Through
<1>3. CASE Checkpoint # 0
  <2>1. Sound(log, recovered, Checkpoint) /\ log[Checkpoint].of \in Nat
    BY <1>1, <1>3, EntryIs DEF LogInv
  <2> QED
    BY <1>3, <2>1 DEF Sound, Through, Covers
<1> QED
  BY <1>2, <1>3

\* A request states each live statement once, and shows or has summarised the rest.
LEMMA RequestIsComplete ==
  ASSUME LogInv(log, recovered)
  PROVE  /\ Live \subseteq Request.messages \cup Request.protected
         /\ Request.messages \cap Request.protected = {}
         /\ (Request.messages \cup Request.protected) \cap Withdrawn = {}
         /\ (Conversation \ Withdrawn) \subseteq Request.messages \cup Covers(Request.checkpoint)
         /\ recovered => ShowsParent(Request) \/ 0 \in Covers(Request.checkpoint)
<1> DEFINE through == Through(Checkpoint)
           fallback == Fallback(through)
           m == Request.messages
           p == Request.protected
<1>1. /\ Live \subseteq Conversation /\ Conversation \subseteq 1..Len(log) /\ Len(log) \in Nat
      /\ Conversation = Talk(log) /\ Withdrawn = TakenBack(log) /\ Live \cap Withdrawn = {}
  BY Reads DEF Conversation, Live
<1>2. through \in Nat /\ fallback \subseteq Live
  BY TailStart, FallbackIs
<1>3. Request.checkpoint = Checkpoint
  BY RequestFields
<1>4. \A i : i \in TailOf(through) <=> i \in Conversation /\ i > through /\ i \notin Withdrawn
  BY DEF TailOf
<1>5. \A i : i \in Protected(through) <=> i \in Live /\ i <= through /\ i \notin fallback
  BY DEF Protected
<1>6. CASE Checkpoint = 0
  <2>1. through = 0 /\ m = TailOf(through) /\ p = {}
    BY <1>6, RequestFields, TailStart
  <2> HIDE DEF m, p, through, fallback
  <2>2. Live \subseteq m /\ m \cap Withdrawn = {} /\ (Conversation \ Withdrawn) \subseteq m
    BY <1>1, <1>4, <2>1
  <2>3. recovered => ShowsParent(Request)
    BY <1>3, <1>6 DEF ShowsParent
  <2> QED
    BY <2>1, <2>2, <2>3 DEF m, p
<1>7. CASE Checkpoint # 0
  <2>1. m = TailOf(through) \cup fallback /\ p = Protected(through)
    BY <1>7, RequestFields
  <2>2. Covering(log, through, Covers(Checkpoint)) /\ (recovered => 0 \in Covers(Checkpoint))
    BY <1>7, TailStart
  <2> HIDE DEF m, p, through, fallback
  <2>3. /\ \A i : i \in m <=> (i \in Conversation /\ i > through /\ i \notin Withdrawn) \/ i \in fallback
        /\ \A i : i \in p <=> i \in Live /\ i <= through /\ i \notin fallback
    BY <1>4, <1>5, <2>1
  <2>4. \A i \in Conversation : ~(i > through) => i <= through
    BY <1>1, <1>2
  <2>5. Live \subseteq m \cup p
    BY <1>1, <2>3, <2>4
  <2>6. m \cap p = {}
    BY <1>1, <1>2, <2>3
  <2>7. (m \cup p) \cap Withdrawn = {}
    BY <1>1, <1>2, <2>3
  <2>8. (Conversation \ Withdrawn) \subseteq m \cup Covers(Checkpoint)
    BY <1>1, <2>2, <2>3, <2>4 DEF Covering
  <2> QED
    BY <1>3, <2>2, <2>5, <2>6, <2>7, <2>8 DEF m, p
<1> QED
  BY <1>6, <1>7

\* A request shows a call with its result, or neither.
LEMMA RequestIsPaired ==
  ASSUME LogInv(log, recovered), NEW i \in Of("result")
  PROVE  i \in Request.messages <=> log[i].of \in Request.messages
<1> DEFINE through == Through(Checkpoint)
           c == log[i].of
<1>1. /\ c \in Of("assistant") /\ log[c].flag /\ c < i /\ c \in Nat /\ i \in Nat /\ c > 0
      /\ \A r \in At(log, "result") : log[r].of = c => r = i
  BY Reads DEF LogInv, Paired
<1>2. i \in Conversation /\ c \in Conversation
  BY <1>1 DEF Conversation
<1>3. i \notin Of("user") /\ c \notin Of("user")
  BY <1>1 DEF Of
<1>4. i \notin Withdrawn /\ c \notin Withdrawn /\ i \notin Fallback(through) /\ c \notin Fallback(through)
  BY <1>3, Reads, FallbackIs
<1>5. through \in Nat
  BY TailStart
<1>6. (i \in Request.messages <=> i > through) /\ (c \in Request.messages <=> c > through)
  <2>1. CASE Checkpoint = 0
    BY <1>2, <1>4, <2>1, RequestFields, TailStart DEF TailOf
  <2>2. CASE Checkpoint # 0
    BY <1>2, <1>4, <2>2, RequestFields DEF TailOf
  <2> QED
    BY <2>1, <2>2
<1>7. ASSUME i > through PROVE c > through
  <2> SUFFICES ASSUME c <= through PROVE FALSE
    BY <1>1, <1>5
  <2>1. Whole(log, through)
    BY <1>1, TailStart
  <2>2. PICK r \in At(log, "result") : log[r].of = c /\ r <= through
    BY <1>1, <2>1, Reads DEF Whole
  <2> QED
    BY <1>1, <1>5, <1>7, <2>2
<1> QED
  BY <1>1, <1>5, <1>6, <1>7

\* Nothing is written while the model answers.
LEMMA SentStep ==
  ASSUME CompactionInv, Complete, Halves, [Next]_vars
  PROVE  Complete' /\ Halves'
<1>1. LogInv(log, recovered)
  BY DEF CompactionInv
<1>2. CASE UNCHANGED <<phase, log, sent, recovered>>
  BY <1>2 DEF Complete, StatementsKept, NothingForgotten, Halves, Live, Conversation, Withdrawn,
              Covers, ShowsParent, Of
<1>3. CASE SendRequest
  <2>1. sent' = Request /\ log' = Append(log, Prepared(LastTurn)) /\ UNCHANGED <<recovered, lost>>
    BY <1>3 DEF SendRequest
  <2>2. /\ Conversation' = Conversation /\ Withdrawn' = Withdrawn /\ Live' = Live
        /\ \A c \in {0} \cup Of("committed") : Covers(c)' = Covers(c)
        /\ At(log', "result") = At(log, "result") /\ \A i \in 1..Len(log) : log'[i] = log[i]
    BY <1>1, <2>1, Archived
  <2>3. PICK c \in {0} \cup Of("committed") : c = Checkpoint
    BY <1>1, Reads
  <2>4. sent'.checkpoint = c
    BY <2>1, <2>3, RequestFields
  <2>5. Covers(sent.checkpoint)' = Covers(Request.checkpoint)
    BY <2>1, <2>2, <2>3, <2>4 DEF Covers
  <2>6. StatementsKept'
    BY <1>1, <2>1, <2>2, RequestIsComplete DEF StatementsKept
  <2>7. NothingForgotten'
    BY <1>1, <2>1, <2>2, <2>5, RequestIsComplete DEF NothingForgotten, ShowsParent
  <2>8. Of("result")' = Of("result") /\ \A i \in Of("result") : log'[i] = log[i]
    BY <1>1, <2>2, Reads DEF Of, At
  <2>9. Halves'
    <3>1. \A i \in Of("result") : i \in Request.messages <=> log[i].of \in Request.messages
      BY <1>1, RequestIsPaired
    <3>2. \A i \in Of("result")' : i \in sent'.messages <=> log'[i].of \in sent'.messages
      <4> SUFFICES ASSUME NEW i \in Of("result")'
                   PROVE  i \in sent'.messages <=> log'[i].of \in sent'.messages
        OBVIOUS
      <4>1. i \in Of("result")
        BY <2>8
      <4>2. log'[i] = log[i] /\ (i \in Request.messages <=> log[i].of \in Request.messages)
        BY <2>8, <3>1, <4>1
      <4> QED
        BY <2>1, <4>2
    <3> QED
      BY <3>2 DEF Halves
  <2> QED
    BY <2>6, <2>7, <2>9 DEF Complete
<1>4. CASE phase' # "stream"
  BY <1>4 DEF Complete, StatementsKept, NothingForgotten, Halves
<1> QED
  BY <1>2, <1>3, <1>4 DEF Next, vars, Service, Loop, RefuseOpenBatch, Refuse, StartCompaction,
     NoCompaction, Summarize,
     Commit, FailCompaction, ReportCompaction, RefuseRequest, EnterLoop, Answer,
     CallTool, ToolReturns, RejectWindow, RepairCitations, StreamFails, Send, CompactNow,
     QueueCompaction, AbandonBatch, Cancel, Stop, Resume, Fail, EndWith

LEMMA CompactionInit == Init => CompactionInv /\ Complete /\ Halves
<1> SUFFICES ASSUME Init PROVE CompactionInv /\ Complete /\ Halves
  OBVIOUS
<1>1. \A kind : At(log, kind) = {}
  BY DEF Init, At
<1>2. log \in Seq(Entry)
  BY DEF Init
<1>3. LogInv(log, recovered)
  BY <1>1, <1>2 DEF LogInv, Paired, Retracted, Attempts
<1> QED
  BY <1>3 DEF Init, CompactionInv, TypeInv, JobInv, BatchInv, Complete, StatementsKept,
              NothingForgotten, Halves, FreshService

LEMMA CompactionStep ==
  CompactionInv /\ Complete /\ Halves /\ [Next]_vars => (CompactionInv /\ Complete /\ Halves)'
<1> SUFFICES ASSUME CompactionInv, Complete, Halves, [Next]_vars
             PROVE  (CompactionInv /\ Complete /\ Halves)'
  OBVIOUS
<1>1. LogInv(log', recovered') /\ JobInv' /\ BatchInv' /\ TypeInv'
  BY LogStep, JobStep, BatchStep, TypeStep DEF CompactionInv
<1> QED
  BY <1>1, SentStep DEF CompactionInv

\* Every request states each of the user's live statements exactly once and word for word,
\* and no withdrawn one, whatever has been summarised, lost, resumed or asked for.
THEOREM StatementsAreKept == Spec => []StatementsKept
<1>1. Complete => StatementsKept
  BY DEF Complete
<1> QED
  BY <1>1, CompactionInit, CompactionStep, PTL DEF Spec

\* What a request does not show of the conversation, the summary it starts from was made
\* from, and the same for the parent of a recovery session.
THEOREM NothingIsForgotten == Spec => []NothingForgotten
<1>1. Complete => NothingForgotten
  BY DEF Complete
<1> QED
  BY <1>1, CompactionInit, CompactionStep, PTL DEF Spec

\* No request shows half of a tool call and no checkpoint is inside a batch.
THEOREM PairsAreWhole == Spec => []PairsWhole
<1>1. ASSUME CompactionInv, Halves PROVE PairsWhole
  <2>1. LogInv(log, recovered)
    BY <1>1 DEF CompactionInv
  <2>2. \A kind : Of(kind) = At(log, kind)
    BY <2>1, Reads
  <2> QED
    BY <1>1, <2>1, <2>2 DEF PairsWhole, Halves, LogInv, Sound, Whole
<1> QED
  BY <1>1, CompactionInit, CompactionStep, PTL DEF Spec

\* A compaction that failed is not tried again at the same position unasked.
THEOREM FailuresAreNotRepeated == Spec => []TriesOnce
<1>1. ASSUME CompactionInv PROVE TriesOnce
  <2>1. LogInv(log, recovered)
    BY <1>1 DEF CompactionInv
  <2>2. Of("failed") = At(log, "failed")
    BY <2>1, Reads
  <2> QED
    BY <2>1, <2>2 DEF TriesOnce, LogInv, Attempts
<1> QED
  BY <1>1, CompactionInit, CompactionStep, PTL DEF Spec

===============================================================================
