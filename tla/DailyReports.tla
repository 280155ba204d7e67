--------------------------- MODULE DailyReports ----------------------------
(***************************************************************************)
(* The report of one station and day, and those who write it: the nightly  *)
(* job and the requests that generate or download it.  Each reads the      *)
(* day's plays in one session and upserts the report in another; plays of  *)
(* the day go on coming in (diaries, imports, backfill).  Statements are   *)
(* steps, transactions run at READ COMMITTED, and what is flushed is seen  *)
(* by others once it is committed.                                         *)
(***************************************************************************)
EXTENDS Integers, FiniteSets, FiniteSetsExt

CONSTANTS
  Writers,  \* who writes reports
  Kind,     \* Kind[w]: the nightly job, a generate or a download request
  MaxPlays, \* bound on the plays of the day
  MaxTurns, \* bound on the turns of a writer
  None

ASSUME ReportsAssumption ==
  /\ Kind \in [Writers -> {"nightly", "generate", "download"}]
  /\ MaxPlays \in Nat
  /\ MaxTurns \in Nat

\* A ranking is known by the number of plays it is made of; ids are drawn
\* once, by a writer in a turn.
Rankings == 1..MaxPlays
Ids == Writers \X (1..MaxTurns)
Report == [id : Ids, plays : Rankings, corrected : BOOLEAN]
Version == [id : Ids, report : Ids, number : Nat \ {0}, rows : Rankings]
Export == [turn : Ids, version : Nat \ {0}, plays : Rankings]

VARIABLES
  plays,    \* the plays of the day in the database
  reports,  \* the committed daily_reports of the station and day
  versions, \* the committed report_versions
  pc,       \* where each writer is
  turn,     \* turns a writer has begun
  events,   \* the plays it has fetched
  found,    \* the report it has found, as it was
  version,  \* its version number
  exports,  \* what has been answered: generate's summaries, the CSV files
  shown     \* what the reports have shown, once committed

vars == <<plays, reports, versions, pc, turn, events, found, version,
          exports, shown>>
tables == <<reports, versions, shown>>

Init ==
  /\ plays = 0
  /\ reports = {}
  /\ versions = {}
  /\ pc = [w \in Writers |-> "idle"]
  /\ turn = [w \in Writers |-> 0]
  /\ events = [w \in Writers |-> 0]
  /\ found = [w \in Writers |-> None]
  /\ version = [w \in Writers |-> 1]
  /\ exports = {}
  /\ shown = {}

Id(w) == <<w, turn[w]>>
Goto(w, label) == pc' = [pc EXCEPT ![w] = label]

\* A play of the day is stored.
Play ==
  /\ plays < MaxPlays
  /\ plays' = plays + 1
  /\ UNCHANGED <<tables, pc, turn, events, found, version, exports>>

\* The job's hour has come, or a request arrives.
Begin(w) ==
  /\ pc[w] = "idle"
  /\ turn[w] < MaxTurns
  /\ turn' = [turn EXCEPT ![w] = @ + 1]
  /\ version' = [version EXCEPT ![w] = 1]
  /\ Goto(w, "fetch")
  /\ UNCHANGED <<plays, tables, events, found, exports>>

\* The day's plays, in a session of their own; a day without any is skipped
\* by the job and a 404 to a request.
Fetch(w) ==
  /\ pc[w] = "fetch"
  /\ events' = [events EXCEPT ![w] = plays]
  /\ Goto(w, IF plays = 0 THEN "idle" ELSE "select")
  /\ UNCHANGED <<plays, tables, turn, found, version, exports>>

\* get_for_station_date: some row of the station and day, if there is one.
Found(w, report) == IF reports = {} THEN report = None ELSE report \in reports

Select(w) ==
  /\ pc[w] = "select"
  /\ \E report \in reports \cup {None} :
       /\ Found(w, report)
       /\ found' = [found EXCEPT ![w] = report]
  /\ Goto(w, IF found'[w] = None THEN "insert" ELSE "latest")
  /\ UNCHANGED <<plays, tables, turn, events, version, exports>>

\* The INSERT of a first report is flushed.
Insert(w) ==
  /\ pc[w] = "insert"
  /\ Goto(w, "commit")
  /\ UNCHANGED <<plays, tables, turn, events, found, version, exports>>

Numbers(w) == {v.number : v \in {u \in versions : u.report = found[w].id}}

\* Mutation: numbering starts at zero.
LatestFromZero(w) == IF Numbers(w) = {} THEN 0 ELSE Max(Numbers(w))

\* _get_latest_version: the highest number archived, 1 if there is none.
Latest(w) == IF Numbers(w) = {} THEN 1 ELSE Max(Numbers(w))

ReadLatest(w) ==
  /\ pc[w] = "latest"
  /\ version' = [version EXCEPT ![w] = Latest(w) + 1]
  /\ Goto(w, "update")
  /\ UNCHANGED <<plays, tables, turn, events, found, exports>>

\* Mutation: a report counts as corrected when its ranking has changed.
CorrectedIfChanged(w) == events[w] # found[w].plays

\* is_corrected, whatever has changed.
Corrected(w) == TRUE

\* The columns that differ from the ones read are in the UPDATE; there is
\* none when the report was corrected before, to the same version and ranking.
Updates(w) ==
  /\ found[w] # None
  /\ events[w] # found[w].plays \/ Corrected(w) # found[w].corrected

\* Mutation: the row stays locked after a failure.
LockedAfterFailure(w) ==
  \E u \in Writers \ {w} :
    /\ pc[u] \in {"commit", "idle"}
    /\ Updates(u)
    /\ found[u].id = found[w].id

\* Another transaction holds the row w is about to update.
Locked(w) ==
  \E u \in Writers \ {w} :
    /\ pc[u] = "commit"
    /\ Updates(u)
    /\ found[u].id = found[w].id

\* The version's INSERT and the report's UPDATE are flushed.
Update(w) ==
  /\ pc[w] = "update"
  /\ Updates(w) => ~Locked(w)
  /\ Goto(w, "commit")
  /\ UNCHANGED <<plays, tables, turn, events, found, version, exports>>

\* The row after w's UPDATE.
Updated(w, r) ==
  [r EXCEPT !.plays = IF events[w] # found[w].plays THEN events[w] ELSE @,
            !.corrected = IF Corrected(w) # found[w].corrected
                          THEN Corrected(w) ELSE @]

ReportsOf(w) ==
  IF found[w] = None
  THEN reports \cup {[id |-> Id(w), plays |-> events[w], corrected |-> FALSE]}
  ELSE {IF r.id = found[w].id THEN Updated(w, r) ELSE r : r \in reports}

\* The ranking that is archived is the new one, under the old number.
VersionsOf(w) ==
  IF found[w] = None THEN versions
  ELSE versions \cup {[id |-> Id(w), report |-> found[w].id,
                       number |-> version[w] - 1, rows |-> events[w]]}

Exported(w, number) ==
  exports \cup {[turn |-> Id(w), version |-> number, plays |-> events[w]]}

Commit(w) ==
  /\ pc[w] = "commit"
  /\ reports' = ReportsOf(w)
  /\ versions' = VersionsOf(w)
  /\ shown' = shown \cup {[report |-> r.id, plays |-> r.plays] : r \in reports'}
  /\ exports' = IF Kind[w] = "nightly" THEN exports ELSE Exported(w, version[w])
  /\ Goto(w, "idle")
  /\ UNCHANGED <<plays, turn, events, found, version>>

\* Mutation: generate answers whatever became of its upsert.
AnswersOnFailureAny(w) == Kind[w] # "nightly"

\* download_report passes over the failure and sends the file.
AnswersOnFailure(w) == Kind[w] = "download"

\* The version a failed upsert leaves behind: its own if it had returned.
VersionSoFar(w) == IF pc[w] = "commit" THEN version[w] ELSE 1

\* A statement fails and the session rolls back: the job logs it, generate
\* answers 503, as both do when the plays cannot be fetched.
Fail(w) ==
  /\ pc[w] # "idle"
  /\ exports' = IF pc[w] # "fetch" /\ AnswersOnFailure(w)
                THEN Exported(w, VersionSoFar(w)) ELSE exports
  /\ Goto(w, "idle")
  /\ UNCHANGED <<plays, tables, turn, events, found, version>>

\* The process ends: open transactions are rolled back.
Restart ==
  /\ \E w \in Writers : pc[w] # "idle"
  /\ pc' = [w \in Writers |-> "idle"]
  /\ UNCHANGED <<plays, tables, turn, events, found, version, exports>>

Serve(w) ==
  Fetch(w) \/ Select(w) \/ Insert(w) \/ ReadLatest(w) \/ Update(w) \/ Commit(w)

Done ==
  /\ \A w \in Writers : pc[w] = "idle" /\ turn[w] = MaxTurns
  /\ plays = MaxPlays
  /\ UNCHANGED vars

Next ==
  \/ Play
  \/ \E w \in Writers : Begin(w) \/ Serve(w) \/ Fail(w)
  \/ Restart
  \/ Done

Spec == Init /\ [][Next]_vars

\* The event loop and the database serve what is enabled.
FairSpec == Spec /\ \A w \in Writers : WF_vars(Serve(w))

-----------------------------------------------------------------------------
TypeOK ==
  /\ plays \in 0..MaxPlays
  /\ reports \subseteq Report
  /\ versions \subseteq Version
  /\ pc \in [Writers -> {"idle", "fetch", "select", "insert", "latest",
                         "update", "commit"}]
  /\ turn \in [Writers -> 0..MaxTurns]
  /\ events \in [Writers -> 0..MaxPlays]
  /\ found \in [Writers -> Report \cup {None}]
  /\ version \in [Writers -> Nat \ {0}]
  /\ exports \subseteq Export
  /\ shown \subseteq [report : Ids, plays : Rankings]

\* The two tables agree: a report says it is corrected exactly when versions
\* of it are archived, whichever writers meet, fail or are cut off.
CorrectedIffVersioned ==
  \A r \in reports : r.corrected <=> \E v \in versions : v.report = r.id

\* A summary of generate is never of a report that is not there: the turn
\* that was answered has inserted a report or archived a version, with the
\* ranking it answered.
GenerateBacked ==
  \A e \in exports : Kind[e.turn[1]] = "generate" =>
    \/ e.version = 1 /\ \E r \in reports : r.id = e.turn
    \/ \E v \in versions :
         v.id = e.turn /\ v.number = e.version - 1 /\ v.rows = e.plays

\* Every turn ends, also one that waits for the report's row.
TurnsEnd == \A w \in Writers : pc[w] # "idle" ~> pc[w] = "idle"

\* csv_exporter: "The previous version is never deleted - the full correction
\* history is preserved": a ranking the report has shown is its present one
\* or among its versions.
HistoryKept ==
  \A s \in shown :
    \/ \E r \in reports : r.id = s.report /\ r.plays = s.plays
    \/ \E v \in versions : v.report = s.report /\ v.rows = s.plays
=============================================================================
