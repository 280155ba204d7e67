--------------------------- MODULE PlayIngestion ---------------------------
(***************************************************************************)
(* How the play events of one station reach the play_events table:         *)
(* collector jobs of the scheduler fetch what the station's sources show   *)
(* and hand each result to _persist_result, which stores it in one         *)
(* database transaction.  The transaction is a series of awaited           *)
(* statements, so the jobs interleave between any two of them; it runs     *)
(* under READ COMMITTED, so a statement sees the rows committed so far and *)
(* the rows its own transaction flushed, never another one's.              *)
(*                                                                         *)
(* Every duplicate check and the unique index are keyed by station_id:     *)
(* stations do not interact here, and one is modelled.                     *)
(***************************************************************************)
EXTENDS Integers, Sequences, Functions

CONSTANTS
  Jobs,         \* collector jobs that write plays of this station
  Kind,         \* Kind[j]: the shape of what job j collects
  ListLength,   \* most plays the recently-played endpoint lists
  NumPlays,     \* length of the broadcast
  Fingerprint,  \* Fingerprint[p]: hash of play p's normalised artist and title
  SourceId,     \* SourceId[p]: the id the sources give play p
  NoId,         \* a source gives no id
  Start,        \* Start[p]: when play p goes on air
  StartKnown,   \* StartKnown[p]: the iHeart sources report Start[p]
  Window,       \* the fingerprint check's window (1800 s in the code)
  MaxTime,      \* bound on the clock
  MaxRuns       \* bound on the runs of one job

Plays == 1..NumPlays
Kinds == {"now_playing", "recently_played", "live_row"}
RunIds == Jobs \X (1..MaxRuns)
NoRun == <<>>

ASSUME IngestionAssumption ==
  /\ Kind \in [Jobs -> Kinds]
  /\ ListLength \in Nat \ {0}
  /\ NumPlays \in Nat \ {0}
  /\ Start \in [Plays -> Nat]
  /\ Start[1] = 0
  /\ \A p, q \in Plays : p < q => Start[p] < Start[q]
  /\ StartKnown \in [Plays -> BOOLEAN]
  /\ Window \in Nat
  /\ MaxTime \in Nat
  /\ MaxRuns \in Nat

\* The domains of Fingerprint and SourceId, and NoId among the ids.
ASSUME IdentityAssumption ==
  /\ DOMAIN Fingerprint = Plays
  /\ DOMAIN SourceId = Plays

Fingerprints == {Fingerprint[p] : p \in Plays}
SourceIds == {SourceId[p] : p \in Plays} \cup {NoId}

VARIABLES
  now,      \* the clock
  onAir,    \* the play being broadcast
  pc,       \* where each job is in its handler
  started,  \* runs each job has started
  result,   \* the CollectorResult each job is storing
  queue,    \* its play events not yet handled by the loop
  staged,   \* rows its open transaction has flushed
  rows,     \* the committed play_events
  runs      \* the committed collector_runs, each with its whole result

vars == <<now, onAir, pc, started, result, queue, staged, rows, runs>>
airVars == <<now, onAir>>
dbVars == <<rows, runs>>

-----------------------------------------------------------------------------
(* Data: events, rows, results.                                            *)

\* A play event.  `play' is the broadcast play it was observed from (not a
\* column).  `stamp' tells two readings of the clock in one tick apart: it
\* is the run that read the clock for played_at, NoRun when `at' is the
\* start the source reported.
Event == [play : Plays, sid : SourceIds, fp : Fingerprints, at : Nat,
          stamp : RunIds \cup {NoRun}]
Row == [run : RunIds, event : Event]

\* The columns of the partial unique index.
Key(e) == <<e.fp, e.at, e.stamp>>

Statuses == {"failed", "no_content", "completed"}
Result == [status : Statuses, payload : BOOLEAN, noTrack : BOOLEAN,
           events : Seq(Event)]
ResultOf(status, payload, noTrack, events) ==
  [status |-> status, payload |-> payload, noTrack |-> noTrack,
   events |-> events]
NoResult == ResultOf("failed", FALSE, FALSE, <<>>)

\* Mutation: a run is given the id of the run before it.
PreviousRunId(j) == <<j, started[j] - 1>>

RunId(j) == <<j, started[j]>>

-----------------------------------------------------------------------------
(* What a job's source shows when it is fetched by run r.                  *)

Observed(p, known, r) ==
  [play |-> p, sid |-> SourceId[p], fp |-> Fingerprint[p],
   at |-> IF known THEN Start[p] ELSE now,
   stamp |-> IF known THEN NoRun ELSE r]

\* iHeart currentTrack: startTime, or the clock where it is absent.
NowPlaying(r) == <<Observed(onAir, StartKnown[onAir], r)>>

\* iHeart recentlyPlayed: the last plays, the newest first.
RecentlyPlayed(r) ==
  LET n == IF onAir < ListLength THEN onAir ELSE ListLength
      nth(i) == onAir - i + 1
  IN  [i \in 1..n |-> Observed(nth(i), StartKnown[nth(i)], r)]

\* The Live row of an Online Radio Box page: always stamped with the clock.
LiveRow(r) == <<Observed(onAir, FALSE, r)>>

Feed(j, r) ==
  CASE Kind[j] = "now_playing" -> NowPlaying(r)
    [] Kind[j] = "recently_played" -> RecentlyPlayed(r)
    [] Kind[j] = "live_row" -> LiveRow(r)

\* The results BaseCollector.run returns: fetch failed; parse failed; HTTP
\* 204; a list in which no entry has both artist and title; play events.
Results(j, r) ==
  {ResultOf("failed", FALSE, FALSE, <<>>),
   ResultOf("failed", TRUE, FALSE, <<>>),
   ResultOf("completed", TRUE, TRUE, <<>>),
   ResultOf("completed", TRUE, FALSE, Feed(j, r))}
  \cup (IF Kind[j] = "recently_played"
        THEN {ResultOf("no_content", TRUE, FALSE, <<>>)} ELSE {})

-----------------------------------------------------------------------------
Init ==
  /\ now = 0
  /\ onAir = 1
  /\ pc = [j \in Jobs |-> "idle"]
  /\ started = [j \in Jobs |-> 0]
  /\ result = [j \in Jobs |-> NoResult]
  /\ queue = [j \in Jobs |-> <<>>]
  /\ staged = [j \in Jobs |-> {}]
  /\ rows = {}
  /\ runs = {}

\* Time passes; the next play starts when its time has come.
Tick ==
  /\ now < MaxTime
  /\ now' = now + 1
  /\ onAir' = IF onAir < NumPlays /\ Start[onAir + 1] <= now + 1
              THEN onAir + 1 ELSE onAir
  /\ UNCHANGED <<pc, started, result, queue, staged, rows, runs>>

Goto(j, label) == pc' = [pc EXCEPT ![j] = label]
DropHead(j) == queue' = [queue EXCEPT ![j] = Tail(@)]

\* The trigger fires and the collector runs.  max_instances = 1: a job in
\* its handler is not started again.
Collect(j) ==
  /\ pc[j] = "idle"
  /\ started[j] < MaxRuns
  /\ started' = [started EXCEPT ![j] = @ + 1]
  /\ \E res \in Results(j, <<j, started[j] + 1>>) :
       /\ result' = [result EXCEPT ![j] = res]
       /\ queue' = [queue EXCEPT ![j] = res.events]
  /\ Goto(j, "begin")
  /\ UNCHANGED <<now, onAir, staged, rows, runs>>

\* The transaction opens: the run row and the payload row are flushed.
\* Nobody else sees them before the commit.
SaveRun(j) ==
  /\ pc[j] = "begin"
  /\ Goto(j, "next")
  /\ UNCHANGED <<now, onAir, started, result, queue, staged, rows, runs>>

Visible(j) == rows \cup staged[j]

ExistsBySourceEventId(j, e) == \E r \in Visible(j) : r.event.sid = e.sid

\* Mutation: the song is not looked at.
ExistsAnySong(j, e) == \E r \in Visible(j) : r.event.at >= now - Window

ExistsByFingerprint(j, e) ==
  \E r \in Visible(j) : /\ r.event.fp = e.fp
                        /\ r.event.at >= now - Window

\* The next event of the loop: skipped if its source id is already stored.
CheckSourceEventId(j) ==
  /\ pc[j] = "next"
  /\ queue[j] # <<>>
  /\ LET e == Head(queue[j])
     IN  IF e.sid # NoId /\ ExistsBySourceEventId(j, e)
         THEN DropHead(j) /\ UNCHANGED pc
         ELSE Goto(j, "fingerprint") /\ UNCHANGED queue
  /\ UNCHANGED <<now, onAir, started, result, staged, rows, runs>>

\* Then skipped if the song is stored with a play in the window before now.
CheckFingerprint(j) ==
  /\ pc[j] = "fingerprint"
  /\ IF ExistsByFingerprint(j, Head(queue[j]))
     THEN DropHead(j) /\ Goto(j, "next")
     ELSE Goto(j, "insert") /\ UNCHANGED queue
  /\ UNCHANGED <<now, onAir, started, result, staged, rows, runs>>

\* Mutation: there is no unique index.
HasKeyNever(R, e) == FALSE

HasKey(R, e) == \E r \in R : Key(r.event) = Key(e)

\* The flushed INSERT: it waits while another open transaction holds the
\* same index key.
Insert(j) ==
  LET e == Head(queue[j]) IN
  /\ pc[j] = "insert"
  /\ ~HasKey(Visible(j), e)
  /\ \A k \in Jobs \ {j} : ~HasKey(staged[k], e)
  /\ staged' = [staged EXCEPT ![j] = @ \cup {[run |-> RunId(j), event |-> e]}]
  /\ DropHead(j)
  /\ Goto(j, "next")
  /\ UNCHANGED <<now, onAir, started, result, rows, runs>>

\* Mutation: the handler ends and its transaction is left open.
LeaveWithoutRollback(j) ==
  /\ Goto(j, "idle")
  /\ result' = [result EXCEPT ![j] = NoResult]
  /\ queue' = [queue EXCEPT ![j] = <<>>]
  /\ UNCHANGED staged

\* Job j's handler is over and its transaction gone.
Leave(j) ==
  /\ Goto(j, "idle")
  /\ result' = [result EXCEPT ![j] = NoResult]
  /\ queue' = [queue EXCEPT ![j] = <<>>]
  /\ staged' = [staged EXCEPT ![j] = {}]

\* The INSERT meets the key in a visible row: IntegrityError.  It is caught
\* and logged, and the session rolls back everything of this run.
InsertConflict(j) ==
  /\ pc[j] = "insert"
  /\ HasKey(Visible(j), Head(queue[j]))
  /\ Leave(j)
  /\ UNCHANGED <<now, onAir, started, rows, runs>>

\* Any other database error of the transaction, swallowed the same way.
PersistFails(j) ==
  /\ pc[j] # "idle"
  /\ Leave(j)
  /\ UNCHANGED <<now, onAir, started, rows, runs>>

CommittedRun(j) == [id |-> RunId(j), result |-> result[j]]

\* No event is left: the no-track events are flushed, the session commits.
Commit(j) ==
  /\ pc[j] = "next"
  /\ queue[j] = <<>>
  /\ rows' = rows \cup staged[j]
  /\ runs' = runs \cup {CommittedRun(j)}
  /\ Leave(j)
  /\ UNCHANGED <<now, onAir, started>>

\* The process dies and is restarted: the jobs start afresh, the server
\* rolls the open transactions back.
Restart ==
  /\ \E j \in Jobs : pc[j] # "idle"
  /\ pc' = [j \in Jobs |-> "idle"]
  /\ result' = [j \in Jobs |-> NoResult]
  /\ queue' = [j \in Jobs |-> <<>>]
  /\ staged' = [j \in Jobs |-> {}]
  /\ UNCHANGED <<now, onAir, started, rows, runs>>

\* The statements of one job's transaction, each of which answers.
Persist(j) ==
  \/ SaveRun(j)
  \/ CheckSourceEventId(j)
  \/ CheckFingerprint(j)
  \/ Insert(j)
  \/ InsertConflict(j)
  \/ Commit(j)

\* The bounds of the model are reached and every job is idle.
Finished ==
  /\ now = MaxTime
  /\ \A j \in Jobs : pc[j] = "idle" /\ started[j] = MaxRuns
  /\ UNCHANGED vars

Next ==
  \/ Tick
  \/ \E j \in Jobs : Collect(j) \/ Persist(j) \/ PersistFails(j)
  \/ Restart
  \/ Finished

Spec == Init /\ [][Next]_vars

\* The event loop and the database serve every statement that can go on.
FairSpec == Spec /\ \A j \in Jobs : WF_vars(Persist(j))

-----------------------------------------------------------------------------
TypeOK ==
  /\ now \in Nat
  /\ onAir \in Plays
  /\ pc \in [Jobs -> {"idle", "begin", "next", "fingerprint", "insert"}]
  /\ started \in [Jobs -> 0..MaxRuns]
  /\ result \in [Jobs -> Result]
  /\ queue \in [Jobs -> Seq(Event)]
  /\ staged \in [Jobs -> SUBSET Row]
  /\ rows \subseteq Row
  /\ runs \subseteq [id : RunIds, result : Result]

\* However the runs of the jobs interleave, crash or are delayed, a play of
\* the broadcast has at most one row.  The duplicate checks of
\* _persist_result alone do not give it (two runs may both miss the row):
\* it takes the unique index too, and only where the sources report when
\* the play started.
EachPlayOnce ==
  \A r1, r2 \in rows : r1.event.play = r2.event.play => r1 = r2

\* Some row of R has the source id or the song of event e.
Covers(R, e) == \E r \in R : \/ e.sid # NoId /\ r.event.sid = e.sid
                             \/ r.event.fp = e.fp

\* A run is recorded together with what it collected: every play event of a
\* committed run is found in the table by its source id or its song, and
\* every row belongs to a committed run that did collect it.
RunsAccounted ==
  /\ \A c \in runs : \A e \in Range(c.result.events) : Covers(rows, e)
  /\ \A r \in rows : \E c \in runs :
       c.id = r.run /\ r.event \in Range(c.result.events)

Near(t1, t2) == t1 - t2 \in -Window..Window

\* The migration that adds the index says of the duplicate guard: "A
\* legitimate replay hours/days later has a different played_at and is
\* unaffected".  So an event of a committed run is left out only for a row
\* of the same play, or one of the same song that close in time.
ReplaysUnaffected ==
  \A c \in runs : \A e \in Range(c.result.events) :
    \E r \in rows : \/ r.event.play = e.play
                    \/ r.event.fp = e.fp /\ Near(r.event.at, e.at)

\* A handler that has begun comes to its end: no job waits on the index for
\* ever or turns in its loop.  (With max_instances = 1 a job that did would
\* never be started again.)
JobsFinish == \A j \in Jobs : pc[j] # "idle" ~> pc[j] = "idle"

-----------------------------------------------------------------------------
(* The table and the runs implement PlayLog.                               *)

Log == INSTANCE PlayLog
         WITH log <- {[run |-> r.run, play |-> r.event.play] : r \in rows},
              recorded <- {c.id : c \in runs}

\* Every step of the interleaved transactions is one RecordRun of PlayLog or
\* none: rows become visible with their run, all together, and never for a
\* play that is already logged.
ImplementsPlayLog == Log!Spec
=============================================================================
