------------------------ MODULE PlayIngestionProofs ------------------------
(***************************************************************************)
(* Proofs about PlayIngestion, for every broadcast, set of jobs, window    *)
(* and bound.                                                              *)
(***************************************************************************)
EXTENDS PlayIngestion, SequenceTheorems, TLAPS

-----------------------------------------------------------------------------
(* What the sources show is a sequence of events.                          *)

LEMMA ObservedType ==
  ASSUME TypeOK, NEW p \in Plays, NEW known \in BOOLEAN, NEW r \in RunIds
  PROVE  Observed(p, known, r) \in Event
  <1>1. Start[p] \in Nat /\ now \in Nat
    BY IngestionAssumption DEF TypeOK
  <1>2. SourceId[p] \in SourceIds /\ Fingerprint[p] \in Fingerprints
    BY DEF SourceIds, Fingerprints
  <1>3. QED
    BY <1>1, <1>2 DEF Observed, Event

LEMMA SingletonSeq ==
  ASSUME NEW S, NEW e \in S
  PROVE  <<e>> \in Seq(S)
  OBVIOUS

LEMMA FunctionIsSeq ==
  ASSUME NEW S, NEW n \in Nat, NEW f \in [1..n -> S]
  PROVE  f \in Seq(S)
  BY SeqDef

LEMMA FeedType ==
  ASSUME TypeOK, NEW j \in Jobs, NEW r \in RunIds
  PROVE  Feed(j, r) \in Seq(Event)
  <1>1. onAir \in Plays /\ StartKnown[onAir] \in BOOLEAN
    BY IngestionAssumption DEF TypeOK
  <1>2. CASE Kind[j] = "now_playing"
    <2>1. Observed(onAir, StartKnown[onAir], r) \in Event
      BY <1>1, ObservedType
    <2>2. NowPlaying(r) \in Seq(Event)
      BY <2>1, SingletonSeq DEF NowPlaying
    <2>3. QED
      BY <1>2, <2>2 DEF Feed
  <1>3. CASE Kind[j] = "live_row"
    <2>1. Observed(onAir, FALSE, r) \in Event
      BY <1>1, ObservedType
    <2>2. LiveRow(r) \in Seq(Event)
      BY <2>1, SingletonSeq DEF LiveRow
    <2>3. QED
      BY <1>3, <2>2 DEF Feed
  <1>4. CASE Kind[j] = "recently_played"
    <2> DEFINE n == IF onAir < ListLength THEN onAir ELSE ListLength
               nth(i) == onAir - i + 1
               s == [i \in 1..n |-> Observed(nth(i), StartKnown[nth(i)], r)]
    <2>1. n \in Nat
      BY <1>1, IngestionAssumption DEF Plays
    <2>2. ASSUME NEW i \in 1..n
          PROVE  Observed(nth(i), StartKnown[nth(i)], r) \in Event
      <3>1. nth(i) \in Plays
        BY <1>1, IngestionAssumption DEF Plays
      <3>2. StartKnown[nth(i)] \in BOOLEAN
        BY <3>1, IngestionAssumption
      <3>3. QED
        BY <3>1, <3>2, ObservedType
    <2>3. s \in [1..n -> Event]
      BY <2>2
    <2> HIDE DEF n, s
    <2>4. s \in Seq(Event)
      BY <2>1, <2>3, FunctionIsSeq
    <2>5. QED
      BY <1>4, <2>4 DEF Feed, RecentlyPlayed, n, s
  <1>5. QED
    BY <1>2, <1>3, <1>4, IngestionAssumption DEF Kinds

LEMMA ResultOfType ==
  ASSUME NEW status \in Statuses, NEW payload \in BOOLEAN,
         NEW noTrack \in BOOLEAN, NEW events \in Seq(Event)
  PROVE  ResultOf(status, payload, noTrack, events) \in Result
  BY DEF ResultOf, Result

LEMMA ResultsType ==
  ASSUME TypeOK, NEW j \in Jobs, NEW r \in RunIds
  PROVE  Results(j, r) \subseteq Result
  <1>1. Feed(j, r) \in Seq(Event) /\ <<>> \in Seq(Event)
    BY FeedType
  <1>2. /\ ResultOf("failed", FALSE, FALSE, <<>>) \in Result
        /\ ResultOf("failed", TRUE, FALSE, <<>>) \in Result
        /\ ResultOf("completed", TRUE, TRUE, <<>>) \in Result
        /\ ResultOf("completed", TRUE, FALSE, Feed(j, r)) \in Result
        /\ ResultOf("no_content", TRUE, FALSE, <<>>) \in Result
    BY <1>1, ResultOfType DEF Statuses
  <1>3. QED
    BY <1>2 DEF Results

LEMMA NoResultType == NoResult \in Result
  BY DEF NoResult, ResultOf, Result, Statuses

-----------------------------------------------------------------------------
(* The inductive invariant.                                                *)

\* Where the handlers are.
ControlInv ==
  \A j \in Jobs :
    /\ pc[j] # "idle" => started[j] > 0
    /\ pc[j] \in {"fingerprint", "insert"} => queue[j] # <<>>

\* Run ids are new when they are used.
RunInv ==
  /\ \A c \in runs : c.id[2] <= started[c.id[1]]
  /\ \A j \in Jobs : pc[j] # "idle" => \A c \in runs : c.id # RunId(j)
  /\ \A j \in Jobs : \A r \in staged[j] : pc[j] # "idle" /\ r.run = RunId(j)

\* Every row there is, committed or not.
Written == rows \cup UNION {staged[j] : j \in Jobs}

\* The unique index holds over all of them, not only the committed ones.
KeyInv ==
  \A r1, r2 \in Written : Key(r1.event) = Key(r2.event) => r1 = r2

\* A handler has all of what it collected: still to do, or covered by the
\* rows it sees.
AuditInv ==
  \A j \in Jobs :
    /\ \A i \in DOMAIN queue[j] : queue[j][i] \in Range(result[j].events)
    /\ \A r \in staged[j] : r.event \in Range(result[j].events)
    /\ \A e \in Range(result[j].events) :
         (\E i \in DOMAIN queue[j] : queue[j][i] = e) \/ Covers(Visible(j), e)

IInv == TypeOK /\ ControlInv /\ RunInv /\ KeyInv /\ AuditInv /\ RunsAccounted

-----------------------------------------------------------------------------
(* Sequences, and what the shared parts of the actions do.                 *)

LEMMA HeadTail ==
  ASSUME NEW S, NEW s \in Seq(S), s # <<>>
  PROVE  /\ Head(s) \in S
         /\ Tail(s) \in Seq(S)
         /\ \A k \in DOMAIN Tail(s) : \E i \in DOMAIN s : s[i] = Tail(s)[k]
         /\ \A i \in DOMAIN s :
              s[i] = Head(s) \/ \E k \in DOMAIN Tail(s) : Tail(s)[k] = s[i]
  <1>1. /\ Head(s) \in S /\ Tail(s) \in Seq(S)
        /\ Len(s) \in Nat \ {0} /\ Len(Tail(s)) = Len(s) - 1
        /\ DOMAIN s = 1..Len(s) /\ DOMAIN Tail(s) = 1..(Len(s) - 1)
        /\ Head(s) = s[1]
        /\ \A k \in 1..(Len(s) - 1) : Tail(s)[k] = s[k + 1]
    BY HeadTailProperties, EmptySeq, LenProperties
  <1>2. \A k \in DOMAIN Tail(s) : k + 1 \in DOMAIN s /\ s[k + 1] = Tail(s)[k]
    BY <1>1
  <1>3. ASSUME NEW i \in DOMAIN s, s[i] # Head(s)
        PROVE  i - 1 \in DOMAIN Tail(s) /\ Tail(s)[i - 1] = s[i]
    BY <1>1, <1>3
  <1>4. QED
    BY <1>1, <1>2, <1>3

LEMMA NewRunId ==
  ASSUME TypeOK, NEW j \in Jobs, started[j] < MaxRuns
  PROVE  <<j, started[j] + 1>> \in RunIds
  BY IngestionAssumption DEF TypeOK, RunIds

LEMMA RunIdType ==
  ASSUME TypeOK, NEW j \in Jobs, started[j] > 0
  PROVE  RunId(j) \in RunIds
  BY IngestionAssumption DEF TypeOK, RunId, RunIds

LEMMA LeaveType ==
  ASSUME TypeOK, NEW j \in Jobs, Leave(j)
  PROVE  /\ pc' \in [Jobs -> {"idle", "begin", "next", "fingerprint", "insert"}]
         /\ result' \in [Jobs -> Result]
         /\ queue' \in [Jobs -> Seq(Event)]
         /\ staged' \in [Jobs -> SUBSET Row]
         /\ \A k \in Jobs \ {j} : /\ pc'[k] = pc[k]
                                  /\ result'[k] = result[k]
                                  /\ queue'[k] = queue[k]
                                  /\ staged'[k] = staged[k]
         /\ pc'[j] = "idle" /\ result'[j] = NoResult
         /\ queue'[j] = <<>> /\ staged'[j] = {}
  <1>1. NoResult \in Result /\ <<>> \in Seq(Event)
    BY NoResultType
  <1>2. QED
    BY <1>1 DEF Leave, Goto, TypeOK

-----------------------------------------------------------------------------
(* TypeOK and ControlInv.                                                  *)

LEMMA TypeInit == Init => TypeOK /\ ControlInv
  <1> SUFFICES ASSUME Init PROVE TypeOK /\ ControlInv
    OBVIOUS
  <1>1. NoResult \in Result /\ <<>> \in Seq(Event)
    BY NoResultType
  <1>2. 1 \in Plays
    BY IngestionAssumption DEF Plays
  <1>3. 0 \in 0..MaxRuns
    BY IngestionAssumption
  <1>4. TypeOK
    BY <1>1, <1>2, <1>3 DEF Init, TypeOK
  <1>5. ControlInv
    BY DEF Init, ControlInv
  <1>6. QED
    BY <1>4, <1>5

LEMMA TypeStep ==
  TypeOK /\ ControlInv /\ [Next]_vars => TypeOK' /\ ControlInv'
  <1> SUFFICES ASSUME TypeOK, ControlInv, [Next]_vars
               PROVE  TypeOK' /\ ControlInv'
    OBVIOUS
  <1>1. CASE Tick
    <2>1. now' \in Nat /\ onAir' \in Plays
      BY <1>1, IngestionAssumption DEF Tick, TypeOK, Plays
    <2>2. QED
      BY <1>1, <2>1 DEF Tick, TypeOK, ControlInv
  <1>2. ASSUME NEW j \in Jobs, Collect(j) PROVE TypeOK' /\ ControlInv'
    <2>1. PICK res \in Results(j, <<j, started[j] + 1>>) :
            /\ result' = [result EXCEPT ![j] = res]
            /\ queue' = [queue EXCEPT ![j] = res.events]
      BY <1>2 DEF Collect
    <2>2. res \in Result /\ res.events \in Seq(Event)
      BY <1>2, <2>1, ResultsType, NewRunId DEF Collect, Result
    <2>3. started' \in [Jobs -> 0..MaxRuns] /\ started'[j] > 0
          /\ \A k \in Jobs \ {j} : started'[k] = started[k]
      BY <1>2, IngestionAssumption DEF Collect, TypeOK
    <2>4. TypeOK'
      BY <1>2, <2>1, <2>2, <2>3 DEF Collect, Goto, TypeOK
    <2>5. ControlInv'
      BY <1>2, <2>1, <2>3 DEF Collect, Goto, TypeOK, ControlInv
    <2>6. QED
      BY <2>4, <2>5
  <1>3. ASSUME NEW j \in Jobs, SaveRun(j) PROVE TypeOK' /\ ControlInv'
    BY <1>3 DEF SaveRun, Goto, TypeOK, ControlInv
  <1>4. ASSUME NEW j \in Jobs, CheckSourceEventId(j)
        PROVE  TypeOK' /\ ControlInv'
    <2>1. Tail(queue[j]) \in Seq(Event)
      BY <1>4, HeadTail DEF CheckSourceEventId, TypeOK
    <2>2. TypeOK'
      BY <1>4, <2>1 DEF CheckSourceEventId, DropHead, Goto, TypeOK
    <2>3. ControlInv'
      BY <1>4 DEF CheckSourceEventId, DropHead, Goto, TypeOK, ControlInv
    <2>4. QED
      BY <2>2, <2>3
  <1>5. ASSUME NEW j \in Jobs, CheckFingerprint(j)
        PROVE  TypeOK' /\ ControlInv'
    <2>1. queue[j] # <<>>
      BY <1>5 DEF CheckFingerprint, ControlInv
    <2>2. Tail(queue[j]) \in Seq(Event)
      BY <2>1, HeadTail DEF TypeOK
    <2>3. TypeOK'
      BY <1>5, <2>2 DEF CheckFingerprint, DropHead, Goto, TypeOK
    <2>4. ControlInv'
      BY <1>5, <2>1 DEF CheckFingerprint, DropHead, Goto, TypeOK, ControlInv
    <2>5. QED
      BY <2>3, <2>4
  <1>6. ASSUME NEW j \in Jobs, Insert(j) PROVE TypeOK' /\ ControlInv'
    <2>1. queue[j] # <<>> /\ started[j] > 0
      BY <1>6 DEF Insert, ControlInv
    <2>2. Head(queue[j]) \in Event /\ Tail(queue[j]) \in Seq(Event)
      BY <2>1, HeadTail DEF TypeOK
    <2>3. [run |-> RunId(j), event |-> Head(queue[j])] \in Row
      BY <2>1, <2>2, RunIdType DEF Row
    <2>4. TypeOK'
      BY <1>6, <2>2, <2>3 DEF Insert, DropHead, Goto, TypeOK
    <2>5. ControlInv'
      BY <1>6 DEF Insert, DropHead, Goto, TypeOK, ControlInv
    <2>6. QED
      BY <2>4, <2>5
  <1>7. ASSUME NEW j \in Jobs, InsertConflict(j) \/ PersistFails(j)
        PROVE  TypeOK' /\ ControlInv'
    <2>1. Leave(j) /\ UNCHANGED <<now, onAir, started, rows, runs>>
      BY <1>7 DEF InsertConflict, PersistFails
    <2>2. TypeOK'
      BY <2>1, LeaveType DEF TypeOK
    <2>3. ControlInv'
      BY <2>1, LeaveType DEF ControlInv
    <2>4. QED
      BY <2>2, <2>3
  <1>8. ASSUME NEW j \in Jobs, Commit(j) PROVE TypeOK' /\ ControlInv'
    <2>1. Leave(j) /\ UNCHANGED <<now, onAir, started>>
      BY <1>8 DEF Commit
    <2>2. CommittedRun(j) \in [id : RunIds, result : Result]
      BY <1>8, RunIdType DEF Commit, CommittedRun, ControlInv, TypeOK
    <2>3. rows' \subseteq Row /\ runs' \subseteq [id : RunIds, result : Result]
      BY <1>8, <2>2 DEF Commit, TypeOK
    <2>4. TypeOK'
      BY <2>1, <2>3, LeaveType DEF TypeOK
    <2>5. ControlInv'
      BY <2>1, LeaveType DEF ControlInv
    <2>6. QED
      BY <2>4, <2>5
  <1>9. CASE Restart
    <2>1. NoResult \in Result /\ <<>> \in Seq(Event)
      BY NoResultType
    <2>2. QED
      BY <1>9, <2>1 DEF Restart, TypeOK, ControlInv
  <1>10. CASE Finished \/ UNCHANGED vars
    BY <1>10 DEF Finished, vars, TypeOK, ControlInv
  <1>11. QED
    BY <1>1, <1>2, <1>3, <1>4, <1>5, <1>6, <1>7, <1>8, <1>9, <1>10
       DEF Next, Persist

\* Every variable keeps its type: in particular the loop never takes the
\* next event of an exhausted result, and every row has a real run id.
THEOREM TypeCorrect == Spec => []TypeOK
  <1>1. TypeOK /\ ControlInv /\ [Next]_vars => (TypeOK /\ ControlInv)'
    BY TypeStep
  <1>2. QED
    BY TypeInit, <1>1, PTL DEF Spec

-----------------------------------------------------------------------------
(* RunInv: run ids are used once.                                          *)

LEMMA RunStep ==
  TypeOK /\ ControlInv /\ RunInv /\ [Next]_vars => RunInv'
  <1> SUFFICES ASSUME TypeOK, ControlInv, RunInv, [Next]_vars
               PROVE  RunInv'
    OBVIOUS
  <1>1. CASE Tick \/ Finished \/ UNCHANGED vars
    BY <1>1 DEF Tick, Finished, vars, RunInv, RunId
  <1>2. ASSUME NEW j \in Jobs, Collect(j) PROVE RunInv'
    <2>1. /\ runs' = runs /\ staged' = staged
          /\ \A k \in Jobs \ {j} : /\ pc'[k] = pc[k]
                                   /\ started'[k] = started[k]
          /\ pc[j] = "idle" /\ started'[j] = started[j] + 1
      BY <1>2 DEF Collect, Goto, TypeOK
    <2>2. \A k \in Jobs : started[k] \in Nat
      BY IngestionAssumption DEF TypeOK
    <2>3. \A c \in runs : c.id[1] \in Jobs /\ c.id[2] \in Nat
      BY DEF TypeOK, RunIds
    <2>4. \A c \in runs : c.id[2] <= started'[c.id[1]]
      BY <2>1, <2>2, <2>3 DEF RunInv
    <2>5. \A c \in runs : c.id # RunId(j)'
      BY <2>1, <2>2, <2>3 DEF RunInv, RunId
    <2>6. \A k \in Jobs \ {j} : RunId(k)' = RunId(k)
      BY <2>1 DEF RunId
    <2>7. staged[j] = {}
      BY <2>1 DEF RunInv
    <2>8. QED
      BY <2>1, <2>4, <2>5, <2>6, <2>7 DEF RunInv
  <1>3. ASSUME NEW j \in Jobs,
               SaveRun(j) \/ CheckSourceEventId(j) \/ CheckFingerprint(j)
        PROVE  RunInv'
    <2>1. /\ runs' = runs /\ staged' = staged /\ started' = started
          /\ \A k \in Jobs : pc'[k] # "idle" <=> pc[k] # "idle"
      BY <1>3 DEF SaveRun, CheckSourceEventId, CheckFingerprint, Goto, TypeOK
    <2>2. QED
      BY <2>1 DEF RunInv, RunId
  <1>4. ASSUME NEW j \in Jobs, Insert(j) PROVE RunInv'
    <2>1. /\ runs' = runs /\ started' = started
          /\ \A k \in Jobs : pc'[k] # "idle" <=> pc[k] # "idle"
      BY <1>4 DEF Insert, Goto, TypeOK
    <2>2. /\ pc[j] # "idle"
          /\ \A k \in Jobs : \A r \in staged'[k] :
               r \in staged[k] \/ (k = j /\ r.run = RunId(j))
      BY <1>4 DEF Insert, TypeOK
    <2>3. QED
      BY <2>1, <2>2 DEF RunInv, RunId
  <1>5. ASSUME NEW j \in Jobs, InsertConflict(j) \/ PersistFails(j)
        PROVE  RunInv'
    <2>1. Leave(j) /\ runs' = runs /\ started' = started
      BY <1>5 DEF InsertConflict, PersistFails
    <2>2. QED
      BY <2>1, LeaveType DEF RunInv, RunId
  <1>6. ASSUME NEW j \in Jobs, Commit(j) PROVE RunInv'
    <2>1. /\ Leave(j) /\ started' = started
          /\ runs' = runs \cup {CommittedRun(j)} /\ pc[j] # "idle"
      BY <1>6 DEF Commit
    <2>2. started[j] \in Nat
      BY IngestionAssumption DEF TypeOK
    <2>3. \A c \in runs' : c.id[2] <= started'[c.id[1]]
      BY <2>1, <2>2 DEF RunInv, CommittedRun, RunId
    <2>4. ASSUME NEW k \in Jobs, pc'[k] # "idle", NEW c \in runs'
          PROVE  c.id # RunId(k)'
      <3>1. k # j /\ pc[k] # "idle" /\ RunId(k)' = RunId(k)
        BY <2>1, <2>4, LeaveType DEF RunId
      <3>2. CASE c \in runs
        BY <3>1, <3>2 DEF RunInv
      <3>3. CASE c = CommittedRun(j)
        BY <3>1, <3>3 DEF CommittedRun, RunId
      <3>4. QED
        BY <2>1, <2>4, <3>2, <3>3
    <2>5. \A k \in Jobs : \A r \in staged'[k] :
            pc'[k] # "idle" /\ r.run = RunId(k)'
      BY <2>1, LeaveType DEF RunInv, RunId
    <2>6. QED
      BY <2>3, <2>4, <2>5 DEF RunInv
  <1>7. CASE Restart
    BY <1>7 DEF Restart, RunInv, RunId
  <1>8. QED
    BY <1>1, <1>2, <1>3, <1>4, <1>5, <1>6, <1>7 DEF Next, Persist

-----------------------------------------------------------------------------
(* KeyInv: the index holds over committed and uncommitted rows together.   *)

LEMMA WrittenShrinks ==
  ASSUME KeyInv, Written' \subseteq Written
  PROVE  KeyInv'
  BY DEF KeyInv, Key

LEMMA LeaveWritten ==
  ASSUME TypeOK, NEW j \in Jobs, Leave(j), rows' \subseteq rows \cup staged[j]
  PROVE  Written' \subseteq Written
  <1>1. \A k \in Jobs : staged'[k] \subseteq staged[k]
    BY LeaveType
  <1>2. QED
    BY <1>1 DEF Written

LEMMA KeyStep == TypeOK /\ KeyInv /\ [Next]_vars => KeyInv'
  <1> SUFFICES ASSUME TypeOK, KeyInv, [Next]_vars
               PROVE  KeyInv'
    OBVIOUS
  <1>1. CASE rows' = rows /\ staged' = staged
    BY <1>1, WrittenShrinks DEF Written
  <1>2. ASSUME NEW j \in Jobs, Insert(j) PROVE KeyInv'
    <2> DEFINE e == Head(queue[j])
               new == [run |-> RunId(j), event |-> e]
    <2>1. Written' \subseteq Written \cup {new}
      BY <1>2 DEF Insert, Written, TypeOK
    <2>2. \A r \in Written : Key(r.event) # Key(e)
      BY <1>2 DEF Insert, HasKey, Visible, Written
    <2>3. new.event = e
      OBVIOUS
    <2> HIDE DEF e, new
    <2>4. ASSUME NEW r1 \in Written', NEW r2 \in Written',
                 Key(r1.event) = Key(r2.event)
          PROVE  r1 = r2
      BY <2>1, <2>2, <2>3, <2>4 DEF KeyInv
    <2>5. QED
      BY <2>4 DEF KeyInv, Key
  <1>3. ASSUME NEW j \in Jobs, InsertConflict(j) \/ PersistFails(j)
        PROVE  KeyInv'
    <2>1. Leave(j) /\ rows' = rows
      BY <1>3 DEF InsertConflict, PersistFails
    <2>2. Written' \subseteq Written
      BY <2>1, LeaveWritten
    <2>3. QED
      BY <2>2, WrittenShrinks
  <1>4. ASSUME NEW j \in Jobs, Commit(j) PROVE KeyInv'
    <2>1. Leave(j) /\ rows' = rows \cup staged[j]
      BY <1>4 DEF Commit
    <2>2. Written' \subseteq Written
      BY <2>1, LeaveWritten
    <2>3. QED
      BY <2>2, WrittenShrinks
  <1>5. CASE Restart
    <2>1. Written' \subseteq Written
      BY <1>5 DEF Restart, Written
    <2>2. QED
      BY <2>1, WrittenShrinks
  <1>6. QED
    BY <1>1, <1>2, <1>3, <1>4, <1>5
       DEF Next, Persist, Tick, Collect, SaveRun, CheckSourceEventId,
           CheckFingerprint, Finished, vars

-----------------------------------------------------------------------------
(* AuditInv and RunsAccounted: nothing a run collected gets lost in it.    *)

LEMMA CoversMore ==
  ASSUME NEW R, NEW S, R \subseteq S, NEW e, Covers(R, e)
  PROVE  Covers(S, e)
  BY DEF Covers

\* One job's part of AuditInv.
Audit(j) ==
  /\ \A i \in DOMAIN queue[j] : queue[j][i] \in Range(result[j].events)
  /\ \A r \in staged[j] : r.event \in Range(result[j].events)
  /\ \A e \in Range(result[j].events) :
       (\E i \in DOMAIN queue[j] : queue[j][i] = e) \/ Covers(Visible(j), e)

LEMMA AuditKept ==
  ASSUME NEW k \in Jobs, Audit(k), queue'[k] = queue[k],
         result'[k] = result[k], staged'[k] = staged[k], rows \subseteq rows'
  PROVE  Audit(k)'
  <1>1. Visible(k) \subseteq Visible(k)'
    BY DEF Visible
  <1>2. QED
    BY <1>1, CoversMore DEF Audit, Range

LEMMA AuditEmpty ==
  ASSUME NEW k \in Jobs, queue'[k] = <<>>, result'[k] = NoResult,
         staged'[k] = {}
  PROVE  Audit(k)'
  <1>1. result'[k].events = <<>>
    BY DEF NoResult, ResultOf
  <1>2. DOMAIN queue'[k] = {} /\ Range(result'[k].events) = {}
    BY <1>1 DEF Range
  <1>3. QED
    BY <1>2 DEF Audit, Range

\* The head of the queue is covered, or becomes a row: the rest is kept.
LEMMA AuditDrop ==
  ASSUME TypeOK, NEW j \in Jobs, Audit(j), queue[j] # <<>>, DropHead(j),
         result' = result, rows' = rows, staged[j] \subseteq staged'[j],
         \A r \in staged'[j] : r \in staged[j] \/ r.event = Head(queue[j]),
         Covers(Visible(j)', Head(queue[j]))
  PROVE  Audit(j)'
  <1> DEFINE q == queue[j]
  <1>1. q \in Seq(Event) /\ q # <<>> /\ queue'[j] = Tail(q)
    BY DEF DropHead, TypeOK
  <1>2. Head(q) \in Range(result[j].events)
    <2>1. 1 \in DOMAIN q /\ q[1] = Head(q)
      BY <1>1, EmptySeq, LenProperties
    <2>2. QED
      BY <2>1 DEF Audit
  <1>3. \A i \in DOMAIN queue'[j] :
          queue'[j][i] \in Range(result[j].events)
    BY <1>1, HeadTail DEF Audit
  <1>4. \A r \in staged'[j] : r.event \in Range(result[j].events)
    BY <1>2 DEF Audit
  <1>5. Visible(j) \subseteq Visible(j)'
    BY DEF Visible
  <1>6. ASSUME NEW e \in Range(result[j].events)
        PROVE  (\E i \in DOMAIN queue'[j] : queue'[j][i] = e)
               \/ Covers(Visible(j)', e)
    <2>1. CASE Covers(Visible(j), e)
      BY <2>1, <1>5, CoversMore
    <2>2. CASE \E i \in DOMAIN q : q[i] = e
      BY <2>2, <1>1, HeadTail
    <2>3. QED
      BY <2>1, <2>2 DEF Audit
  <1>7. QED
    BY <1>3, <1>4, <1>6 DEF Audit, Range

LEMMA AuditStep ==
  TypeOK /\ ControlInv /\ RunInv /\ AuditInv /\ [Next]_vars => AuditInv'
  <1> SUFFICES ASSUME TypeOK, ControlInv, RunInv, AuditInv, [Next]_vars
               PROVE  AuditInv'
    OBVIOUS
  <1>a. \A k \in Jobs : Audit(k)
    BY DEF AuditInv, Audit
  <1>b. SUFFICES \A k \in Jobs : Audit(k)'
    BY DEF AuditInv, Audit
  <1>1. CASE Tick \/ Finished \/ UNCHANGED vars
    <2>1. UNCHANGED <<queue, result, staged, rows>>
      BY <1>1 DEF Tick, Finished, vars
    <2>2. QED
      BY <2>1, <1>a, AuditKept
  <1>2. ASSUME NEW j \in Jobs, Collect(j) PROVE \A k \in Jobs : Audit(k)'
    <2>1. PICK res \in Results(j, <<j, started[j] + 1>>) :
            /\ result' = [result EXCEPT ![j] = res]
            /\ queue' = [queue EXCEPT ![j] = res.events]
      BY <1>2 DEF Collect
    <2>2. /\ staged' = staged /\ rows' = rows
          /\ result'[j].events = queue'[j]
          /\ \A k \in Jobs \ {j} : queue'[k] = queue[k] /\ result'[k] = result[k]
      BY <1>2, <2>1 DEF Collect, TypeOK
    <2>3. \A k \in Jobs \ {j} : Audit(k)'
      BY <2>2, <1>a, AuditKept
    <2>4. staged[j] = {}
      BY <1>2 DEF Collect, RunInv
    <2>5. Audit(j)'
      BY <2>2, <2>4 DEF Audit, Range
    <2>6. QED
      BY <2>3, <2>5
  <1>3. ASSUME NEW j \in Jobs, SaveRun(j) PROVE \A k \in Jobs : Audit(k)'
    BY <1>3, <1>a, AuditKept DEF SaveRun
  <1>4. ASSUME NEW j \in Jobs, CheckSourceEventId(j) \/ CheckFingerprint(j)
        PROVE  \A k \in Jobs : Audit(k)'
    <2>1. /\ UNCHANGED <<result, staged, rows>> /\ queue[j] # <<>>
          /\ Visible(j)' = Visible(j)
      BY <1>4 DEF CheckSourceEventId, CheckFingerprint, ControlInv, Visible
    <2>2. CASE queue' = queue
      BY <2>1, <2>2, <1>a, AuditKept
    <2>3. CASE DropHead(j) /\ Covers(Visible(j), Head(queue[j]))
      <3>1. Audit(j)'
        BY <2>1, <2>3, <1>a, AuditDrop
      <3>2. \A k \in Jobs \ {j} : queue'[k] = queue[k]
        BY <2>3 DEF DropHead, TypeOK
      <3>3. QED
        BY <2>1, <3>1, <3>2, <1>a, AuditKept
    <2>4. QED
      BY <1>4, <2>2, <2>3
         DEF CheckSourceEventId, CheckFingerprint, ExistsBySourceEventId,
             ExistsByFingerprint, Covers
  <1>5. ASSUME NEW j \in Jobs, Insert(j) PROVE \A k \in Jobs : Audit(k)'
    <2> DEFINE new == [run |-> RunId(j), event |-> Head(queue[j])]
    <2>1. /\ result' = result /\ rows' = rows /\ DropHead(j) /\ queue[j] # <<>>
          /\ staged'[j] = staged[j] \cup {new}
          /\ \A k \in Jobs \ {j} : staged'[k] = staged[k] /\ queue'[k] = queue[k]
      BY <1>5 DEF Insert, DropHead, ControlInv, TypeOK
    <2>2. new \in Visible(j)' /\ new.event = Head(queue[j])
      BY <2>1 DEF Visible
    <2>3. Covers(Visible(j)', Head(queue[j]))
      BY <2>2 DEF Covers
    <2>4. Audit(j)'
      BY <2>1, <2>2, <2>3, <1>a, AuditDrop
    <2>5. QED
      BY <2>1, <2>4, <1>a, AuditKept
  <1>6. ASSUME NEW j \in Jobs, InsertConflict(j) \/ PersistFails(j) \/ Commit(j)
        PROVE  \A k \in Jobs : Audit(k)'
    <2>1. Leave(j) /\ rows \subseteq rows'
      BY <1>6 DEF InsertConflict, PersistFails, Commit
    <2>2. Audit(j)'
      BY <2>1, LeaveType, AuditEmpty
    <2>3. \A k \in Jobs \ {j} : Audit(k)'
      BY <2>1, <1>a, LeaveType, AuditKept
    <2>4. QED
      BY <2>2, <2>3
  <1>7. CASE Restart
    BY <1>7, AuditEmpty DEF Restart
  <1>8. QED
    BY <1>1, <1>2, <1>3, <1>4, <1>5, <1>6, <1>7 DEF Next, Persist

\* A commit shows what the handler saw, and its queue is empty.
LEMMA AccountStep ==
  TypeOK /\ RunInv /\ AuditInv /\ RunsAccounted /\ [Next]_vars
    => RunsAccounted'
  <1> SUFFICES ASSUME TypeOK, RunInv, AuditInv, RunsAccounted, [Next]_vars
               PROVE  RunsAccounted'
    OBVIOUS
  <1>1. CASE rows' = rows /\ runs' = runs
    BY <1>1 DEF RunsAccounted, Covers, Range
  <1>2. ASSUME NEW j \in Jobs, Commit(j) PROVE RunsAccounted'
    <2>1. /\ queue[j] = <<>> /\ rows' = Visible(j) /\ pc[j] # "idle"
          /\ runs' = runs \cup {CommittedRun(j)}
      BY <1>2 DEF Commit, Visible
    <2>2. ASSUME NEW e \in Range(result[j].events) PROVE Covers(rows', e)
      <3>1. DOMAIN queue[j] = {}
        BY <2>1
      <3>2. QED
        BY <2>1, <3>1 DEF AuditInv
    <2>3. ASSUME NEW c \in runs', NEW e \in Range(c.result.events)
          PROVE  Covers(rows', e)
      <3>1. CASE c \in runs
        <4>1. Covers(rows, e)
          BY <3>1, <2>3 DEF RunsAccounted
        <4>2. rows \subseteq rows'
          BY <2>1 DEF Visible
        <4>3. QED
          BY <4>1, <4>2, CoversMore
      <3>2. CASE c = CommittedRun(j)
        BY <3>2, <2>2, <2>3 DEF CommittedRun
      <3>3. QED
        BY <2>1, <3>1, <3>2
    <2>4. ASSUME NEW r \in rows'
          PROVE  \E c \in runs' : c.id = r.run /\ r.event \in Range(c.result.events)
      <3>1. CASE r \in rows
        BY <3>1, <2>1 DEF RunsAccounted
      <3>2. CASE r \in staged[j]
        <4>1. r.run = RunId(j) /\ r.event \in Range(result[j].events)
          BY <3>2 DEF RunInv, AuditInv
        <4>2. /\ CommittedRun(j).id = RunId(j)
              /\ CommittedRun(j).result = result[j]
              /\ CommittedRun(j) \in runs'
          BY <2>1 DEF CommittedRun
        <4>3. QED
          BY <4>1, <4>2
      <3>3. QED
        BY <2>1, <3>1, <3>2 DEF Visible
    <2>5. QED
      BY <2>3, <2>4 DEF RunsAccounted, Covers, Range
  <1>3. CASE Tick \/ Restart \/ Finished \/ UNCHANGED vars
    BY <1>1, <1>3 DEF Tick, Restart, Finished, vars
  <1>4. ASSUME NEW j \in Jobs,
               Collect(j) \/ SaveRun(j) \/ CheckSourceEventId(j)
               \/ CheckFingerprint(j) \/ Insert(j)
               \/ InsertConflict(j) \/ PersistFails(j)
        PROVE  rows' = rows /\ runs' = runs
    BY <1>4 DEF Collect, SaveRun, CheckSourceEventId, CheckFingerprint, Insert,
                InsertConflict, PersistFails
  <1>5. QED
    BY <1>1, <1>2, <1>3, <1>4 DEF Next, Persist

-----------------------------------------------------------------------------
(* The inductive invariant holds.                                          *)

LEMMA InvInit == Init => IInv
  <1> SUFFICES ASSUME Init PROVE IInv
    OBVIOUS
  <1>1. TypeOK /\ ControlInv
    BY TypeInit
  <1>2. RunInv /\ KeyInv /\ RunsAccounted
    BY DEF Init, RunInv, KeyInv, Written, RunsAccounted
  <1>3. ASSUME NEW j \in Jobs PROVE Audit(j)
    <2>1. queue[j] = <<>> /\ staged[j] = {} /\ result[j].events = <<>>
      BY DEF Init, NoResult, ResultOf
    <2>2. DOMAIN queue[j] = {} /\ Range(result[j].events) = {}
      BY <2>1 DEF Range
    <2>3. QED
      BY <2>1, <2>2 DEF Audit
  <1>4. AuditInv
    BY <1>3 DEF AuditInv, Audit
  <1>5. QED
    BY <1>1, <1>2, <1>4 DEF IInv

LEMMA InvStep == IInv /\ [Next]_vars => IInv'
  BY TypeStep, RunStep, KeyStep, AuditStep, AccountStep DEF IInv

\* A run is never recorded without what it collected, and no row is left by
\* a run that is not recorded: for every number of jobs, every interleaving,
\* rollback and restart.
THEOREM RunsAreAccounted == Spec => []RunsAccounted
  <1>1. IInv => RunsAccounted
    BY DEF IInv
  <1>2. QED
    BY InvInit, InvStep, <1>1, PTL DEF Spec

-----------------------------------------------------------------------------
(* Sources that report when a play started: the jobs of the iHeart         *)
(* stations.  Then the index tells plays apart, and no play is stored      *)
(* twice.                                                                  *)

ReportedStarts ==
  /\ \A p \in Plays : StartKnown[p] = TRUE
  /\ \A j \in Jobs : Kind[j] # "live_row"

\* The key of e is determined by its play.
Exact(e) == /\ e.fp = Fingerprint[e.play]
            /\ e.at = Start[e.play]
            /\ e.stamp = NoRun

ExactInv ==
  /\ \A r \in Written : Exact(r.event)
  /\ \A j \in Jobs : \A i \in DOMAIN queue[j] : Exact(queue[j][i])

LEMMA ObservedExact ==
  ASSUME NEW p \in Plays, NEW r, ReportedStarts
  PROVE  Exact(Observed(p, StartKnown[p], r))
  BY DEF ReportedStarts, Exact, Observed

LEMMA FeedExact ==
  ASSUME TypeOK, ReportedStarts, NEW j \in Jobs, NEW r \in RunIds
  PROVE  \A i \in DOMAIN Feed(j, r) : Exact(Feed(j, r)[i])
  <1>1. CASE Kind[j] = "now_playing"
    <2>1. Exact(Observed(onAir, StartKnown[onAir], r))
      BY ObservedExact DEF TypeOK
    <2>2. Feed(j, r) = <<Observed(onAir, StartKnown[onAir], r)>>
      BY <1>1 DEF Feed, NowPlaying
    <2> HIDE DEF Exact
    <2>3. QED
      BY <2>1, <2>2
  <1>2. CASE Kind[j] = "recently_played"
    <2> DEFINE n == IF onAir < ListLength THEN onAir ELSE ListLength
               nth(i) == onAir - i + 1
               s == [i \in 1..n |-> Observed(nth(i), StartKnown[nth(i)], r)]
    <2>1. ASSUME NEW i \in 1..n PROVE Exact(Observed(nth(i), StartKnown[nth(i)], r))
      <3>1. nth(i) \in Plays
        BY IngestionAssumption DEF TypeOK, Plays
      <3> HIDE DEF nth
      <3>2. QED
        BY <3>1, ObservedExact
    <2>2. Feed(j, r) = s
      BY <1>2 DEF Feed, RecentlyPlayed
    <2>3. QED
      BY <2>1, <2>2
  <1>3. QED
    BY <1>1, <1>2, IngestionAssumption DEF Kinds, ReportedStarts

LEMMA ExactStep ==
  TypeOK /\ ControlInv /\ ExactInv /\ ReportedStarts /\ [Next]_vars
    => ExactInv'
  <1> SUFFICES ASSUME TypeOK, ControlInv, ExactInv, ReportedStarts, [Next]_vars
               PROVE  ExactInv'
    OBVIOUS
  <1> USE DEF ExactInv
  <1>1. CASE Tick \/ Finished \/ UNCHANGED vars
    BY <1>1 DEF Tick, Finished, vars, Written, Exact
  <1>2. ASSUME NEW j \in Jobs, Collect(j) PROVE ExactInv'
    <2>1. PICK res \in Results(j, <<j, started[j] + 1>>) :
            queue' = [queue EXCEPT ![j] = res.events]
      BY <1>2 DEF Collect
    <2>2. \A i \in DOMAIN res.events : Exact(res.events[i])
      <3>1. \A i \in DOMAIN Feed(j, <<j, started[j] + 1>>) :
              Exact(Feed(j, <<j, started[j] + 1>>)[i])
        BY <1>2, NewRunId, FeedExact DEF Collect
      <3>2. res.events = <<>> \/ res.events = Feed(j, <<j, started[j] + 1>>)
        BY <2>1 DEF Results, ResultOf
      <3>3. QED
        BY <3>1, <3>2
    <2>3. Written' = Written
      BY <1>2 DEF Collect, Written
    <2>4. QED
      BY <2>1, <2>2, <2>3 DEF TypeOK, Exact
  <1>3. ASSUME NEW j \in Jobs, SaveRun(j) PROVE ExactInv'
    BY <1>3 DEF SaveRun, Written, Exact
  <1>4. ASSUME NEW j \in Jobs, DropHead(j), queue[j] # <<>>
        PROVE  \A k \in Jobs : \A i \in DOMAIN queue'[k] : Exact(queue'[k][i])
    <2>1. queue'[j] = Tail(queue[j])
          /\ \A k \in Jobs \ {j} : queue'[k] = queue[k]
      BY <1>4 DEF DropHead, TypeOK
    <2>2. \A k \in DOMAIN Tail(queue[j]) :
            \E i \in DOMAIN queue[j] : queue[j][i] = Tail(queue[j])[k]
      BY <1>4, HeadTail DEF TypeOK
    <2>3. \A i \in DOMAIN queue'[j] : Exact(queue'[j][i])
      BY <2>1, <2>2 DEF Exact
    <2>4. QED
      BY <2>1, <2>3
  <1>5. ASSUME NEW j \in Jobs, CheckSourceEventId(j) \/ CheckFingerprint(j)
        PROVE  ExactInv'
    <2>1. Written' = Written /\ queue[j] # <<>>
      BY <1>5 DEF CheckSourceEventId, CheckFingerprint, ControlInv, Written
    <2>2. queue' = queue \/ DropHead(j)
      BY <1>5 DEF CheckSourceEventId, CheckFingerprint
    <2>3. QED
      BY <2>1, <2>2, <1>4 DEF Exact
  <1>6. ASSUME NEW j \in Jobs, Insert(j) PROVE ExactInv'
    <2>1. queue[j] # <<>> /\ DropHead(j)
      BY <1>6 DEF Insert, ControlInv
    <2>2. Exact(Head(queue[j]))
      <3>1. 1 \in DOMAIN queue[j] /\ queue[j][1] = Head(queue[j])
        BY <2>1, EmptySeq, LenProperties DEF TypeOK
      <3>2. QED
        BY <3>1 DEF Exact
    <2>3. \A r \in Written' : r \in Written \/ r.event = Head(queue[j])
      BY <1>6 DEF Insert, Written, TypeOK
    <2>4. QED
      BY <2>1, <2>2, <2>3, <1>4 DEF Exact
  <1>7. ASSUME NEW j \in Jobs, InsertConflict(j) \/ PersistFails(j) \/ Commit(j)
        PROVE  ExactInv'
    <2>1. Leave(j) /\ rows' \subseteq rows \cup staged[j]
      BY <1>7 DEF InsertConflict, PersistFails, Commit
    <2>2. Written' \subseteq Written
      BY <2>1, LeaveWritten
    <2>3. \A k \in Jobs : \A i \in DOMAIN queue'[k] :
            i \in DOMAIN queue[k] /\ queue'[k][i] = queue[k][i]
      <3>1. DOMAIN queue'[j] = {}
        BY <2>1, LeaveType
      <3>2. QED
        BY <2>1, <3>1, LeaveType
    <2>4. QED
      BY <2>2, <2>3 DEF Exact
  <1>8. CASE Restart
    <2>1. Written' \subseteq Written
      BY <1>8 DEF Restart, Written
    <2>2. QED
      BY <1>8, <2>1 DEF Restart, Exact
  <1>9. QED
    BY <1>1, <1>2, <1>3, <1>5, <1>6, <1>7, <1>8 DEF Next, Persist

LEMMA ExactCorrect == ReportedStarts => (Spec => [](IInv /\ ExactInv))
  <1> SUFFICES ASSUME ReportedStarts PROVE Spec => [](IInv /\ ExactInv)
    OBVIOUS
  <1>1. Init => IInv /\ ExactInv
    BY InvInit DEF Init, ExactInv, Written
  <1>2. IInv /\ ExactInv /\ [Next]_vars => (IInv /\ ExactInv)'
    BY InvStep, ExactStep DEF IInv
  <1>3. QED
    BY <1>1, <1>2, PTL DEF Spec

\* Two rows of one play have one key.
LEMMA ExactKeys ==
  ASSUME KeyInv, ExactInv, NEW r1 \in Written, NEW r2 \in Written,
         r1.event.play = r2.event.play
  PROVE  r1 = r2
  BY DEF KeyInv, ExactInv, Exact, Key

\* Where the sources report the start of a play, the unique index makes what
\* the two racing duplicate checks cannot: a play has at most one row,
\* whatever number of jobs observe it, in any order.
THEOREM PlaysStoredOnce == ReportedStarts => (Spec => []EachPlayOnce)
  <1> SUFFICES ASSUME ReportedStarts PROVE Spec => []EachPlayOnce
    OBVIOUS
  <1>1. IInv /\ ExactInv => EachPlayOnce
    <2>1. rows \subseteq Written
      BY DEF Written
    <2>2. QED
      BY <2>1, ExactKeys DEF IInv, EachPlayOnce
  <1>2. QED
    BY ExactCorrect, <1>1, PTL

-----------------------------------------------------------------------------
(* The refinement of PlayLog.                                              *)

\* A commit is the abstract RecordRun.
LEMMA CommitRecords ==
  ASSUME IInv, ExactInv, NEW j \in Jobs, Commit(j)
  PROVE  Log!RecordRun(RunId(j), {r.event.play : r \in staged[j]})
  <1>1. /\ rows' = rows \cup staged[j] /\ runs' = runs \cup {CommittedRun(j)}
        /\ pc[j] # "idle" /\ CommittedRun(j).id = RunId(j)
    BY DEF Commit, CommittedRun
  <1>2. RunId(j) \notin {c.id : c \in runs}
    BY <1>1 DEF IInv, RunInv
  <1>3. \A r \in staged[j] : r.run = RunId(j)
    BY DEF IInv, RunInv
  <1>4. ASSUME NEW r1 \in staged[j], NEW r2 \in rows,
               r1.event.play = r2.event.play
        PROVE  FALSE
    <2>1. r1 = r2
      BY <1>4, ExactKeys DEF Written, IInv
    <2>2. \E c \in runs : c.id = r2.run
      BY DEF IInv, RunsAccounted
    <2>3. QED
      BY <2>1, <2>2, <1>2, <1>3
  <1>5. {c.id : c \in runs'} = {c.id : c \in runs} \cup {RunId(j)}
    BY <1>1
  <1>6. {[run |-> r.run, play |-> r.event.play] : r \in rows'}
          = {[run |-> r.run, play |-> r.event.play] : r \in rows}
            \cup {[run |-> RunId(j), play |-> p] :
                    p \in {r.event.play : r \in staged[j]}}
    BY <1>1, <1>3
  <1>7. \A p \in {r.event.play : r \in staged[j]} : ~Log!Logged(p)
    BY <1>4 DEF Log!Logged
  <1>8. QED
    BY <1>2, <1>5, <1>6, <1>7 DEF Log!RecordRun

\* The database as its readers see it is a log of plays: whatever the awaited
\* statements of concurrent transactions do in between, each run appears in
\* one step, with rows for plays that had none.
THEOREM Implementation == ReportedStarts => (Spec => ImplementsPlayLog)
  <1> SUFFICES ASSUME ReportedStarts PROVE Spec => ImplementsPlayLog
    OBVIOUS
  <1>1. Init => Log!Init
    BY DEF Init, Log!Init
  <1>2. IInv /\ ExactInv /\ [Next]_vars => [Log!Next]_(Log!logVars)
    <2> SUFFICES ASSUME IInv, ExactInv, [Next]_vars
                 PROVE  [Log!Next]_(Log!logVars)
      OBVIOUS
    <2>1. ASSUME NEW j \in Jobs, Commit(j) PROVE Log!Next
      <3>1. RunId(j) \in RunIds
        BY <2>1, RunIdType DEF Commit, IInv, ControlInv
      <3>2. {r.event.play : r \in staged[j]} \in SUBSET Plays
        BY DEF IInv, TypeOK, Row, Event
      <3>3. Log!RecordRun(RunId(j), {r.event.play : r \in staged[j]})
        BY <2>1, CommitRecords
      <3>4. QED
        BY <3>1, <3>2, <3>3 DEF Log!Next, Log!RecordRun
    <2>2. CASE rows' = rows /\ runs' = runs
      BY <2>2 DEF Log!logVars
    <2>3. CASE Tick \/ Restart \/ Finished \/ UNCHANGED vars
      BY <2>2, <2>3 DEF Tick, Restart, Finished, vars
    <2>4. ASSUME NEW j \in Jobs,
                 Collect(j) \/ SaveRun(j) \/ CheckSourceEventId(j)
                 \/ CheckFingerprint(j) \/ Insert(j)
                 \/ InsertConflict(j) \/ PersistFails(j)
          PROVE  rows' = rows /\ runs' = runs
      BY <2>4 DEF Collect, SaveRun, CheckSourceEventId, CheckFingerprint,
                  Insert, InsertConflict, PersistFails
    <2>5. QED
      BY <2>1, <2>2, <2>3, <2>4 DEF Next, Persist
  <1>3. QED
    BY ExactCorrect, <1>1, <1>2, PTL DEF Spec, ImplementsPlayLog, Log!Spec
=============================================================================
