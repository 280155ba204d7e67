---------------------------- MODULE NightlyCycle ----------------------------
(***************************************************************************)
(* The daily jobs of the scheduler, across the time zones they serve: the  *)
(* diaries of Nova (a day of Sydney) and of KIIS-FM 102.7 (a day of Los    *)
(* Angeles), the reconciliation of the last 25 hours, and the reports of   *)
(* the UTC day before.  The triggers live in the process: a job starts     *)
(* late when the event loop was stalled, is dropped when it is later than  *)
(* its grace, and one whose hour passes while the process is down is not   *)
(* made up for.                                                            *)
(*                                                                         *)
(* A play is one hour of one station's broadcast, named by the hour.  The  *)
(* interval jobs store it in that hour, or a batch does so later.          *)
(***************************************************************************)
EXTENDS Integers

CONSTANTS
  SydneyOffsets,  \* hours Sydney may be ahead of UTC: 10, 11
  PacificOffsets, \* hours Los Angeles may be ahead: -8, -7
  Late,           \* the event loop may stall, so that jobs start late
  MaxFaults,      \* bound on crashes, stalls and failures of a job or a poll
  MaxDown,        \* bound on the hours the process stays down
  Behind,         \* hours that the list of the recently played reaches back
  MaxHour         \* bound on the clock

ASSUME CycleAssumption ==
  /\ SydneyOffsets \subseteq 10..11
  /\ PacificOffsets \subseteq -8..-7
  /\ Late \in BOOLEAN
  /\ MaxFaults \in Nat
  /\ MaxDown \in Nat
  /\ Behind \in Nat
  /\ MaxHour \in Nat

Diaries == {"nova", "kiis1027"}
Polled == {"kiis"}
Stations == Diaries \cup Polled
Jobs == Diaries \cup {"reconcile", "report"}

\* Mutation: the Nova diary is read before Sydney's day is over.
AtNoon == 12

NovaHour == 16

PacificHour == 9

ReconcileHour == 17

ReportHour == 18

Hour == [nova |-> NovaHour, kiis1027 |-> PacificHour,
         reconcile |-> ReconcileHour, report |-> ReportHour]

Grace == 1  \* misfire_grace_time, 3600 s

\* Mutation: the reconciliation looks back a day.
OneDay == 24

Reach == 25

Day(h) == h \div 24
UtcDay(d) == 24 * d .. 24 * d + 23
Hours == -24..MaxHour
Never == -1

VARIABLES
  now,        \* the clock, in hours
  offset,     \* offset[s]: hours the diary's zone is ahead of UTC
  up,         \* the process runs
  down,       \* hours it has been down
  faults,     \* faults so far
  due,        \* due[j]: the hour job j was triggered for, or Never
  running,    \* the jobs that have started
  left,       \* stations the running reconciliation or report has to visit
  seen,       \* seen[s]: plays the open reconciliation has looked at
  stored,     \* stored[s]: the plays in play_events
  came,       \* came[s][h]: the hour at which play h of a polled s was stored
  inspected,  \* inspected[s]: plays some committed reconciliation looked at
  finished,   \* <<j, day>>: the runs of jobs that came to their end
  reports     \* the reports the nightly job made

vars == <<now, offset, up, down, faults, due, running, left, seen,
          stored, came, inspected, finished, reports>>
clockVars == <<now, offset, up, down>>
storedVars == <<stored, came>>
dbVars == <<storedVars, inspected, reports>>

Report == [station : Stations, day : Int, plays : SUBSET Hours]
NothingSeen == [s \in Stations |-> {}]

Init ==
  /\ now = 0
  /\ offset \in [nova : SydneyOffsets, kiis1027 : PacificOffsets]
  /\ up = TRUE
  /\ down = 0
  /\ faults = 0
  /\ due = [j \in Jobs |-> Never]
  /\ running = {}
  /\ left = [j \in Jobs |-> {}]
  /\ seen = NothingSeen
  /\ stored = [s \in Stations |-> {}]
  /\ came = [s \in Polled |-> [h \in Hours |-> Never]]
  /\ inspected = [s \in Stations |-> {}]
  /\ finished = {}
  /\ reports = {}

Fault == faults < MaxFaults /\ faults' = faults + 1

\* The jobs whose cron trigger fires at hour h.
Fires(h) == {j \in Jobs : Hour[j] = h % 24}

\* Mutation: a job is due at its next trigger.
TriggerNext == due' = [j \in Jobs |-> IF j \in Fires(now + 1) THEN now + 25
                                      ELSE due[j]]

Trigger == due' = [j \in Jobs |-> IF j \in Fires(now + 1) THEN now + 1
                                  ELSE due[j]]

\* Some plays of station s are stored now.
Store(s, plays) ==
  /\ stored' = [stored EXCEPT ![s] = @ \cup plays]
  /\ came' = [came EXCEPT ![s] = [h \in Hours |-> IF h \in plays THEN now ELSE @[h]]]

\* The five-minute job: what a polled station plays this hour is stored.
Poll == \E s \in Polled : Store(s, {now})

\* It fails, or the play is not yet in the feed when it is last read.
PollMisses == Fault /\ UNCHANGED storedVars

\* An hour passes.  A job takes less than that.
Tick ==
  /\ now < MaxHour
  /\ up
  /\ running = {}
  /\ \A j \in Jobs : due[j] = Never
  /\ now' = now + 1
  /\ Trigger
  /\ (Poll /\ UNCHANGED faults) \/ PollMisses
  /\ UNCHANGED <<offset, up, down, running, left, seen, inspected, finished,
                 reports>>

Overdue(j) == due[j] # Never /\ due[j] < now

\* An hour in which the event loop does not get to the jobs that are due; the
\* polls go on, or not.  However long, a stall is one fault; it lasts two
\* hours at most.
Stall ==
  /\ Late
  /\ now < MaxHour
  /\ up
  /\ running = {}
  /\ \E j \in Jobs : due[j] # Never
  /\ \A j \in Jobs : due[j] # Never => now - due[j] <= Grace
  /\ IF \E j \in Jobs : Overdue(j) THEN UNCHANGED faults ELSE Fault
  /\ now' = now + 1
  /\ Trigger
  /\ Poll \/ UNCHANGED storedVars
  /\ UNCHANGED <<offset, up, down, running, left, seen, inspected, finished,
                 reports>>

Missing(s) == {h \in 0..now - 1 : now - Behind <= h} \ stored[s]

\* The hourly batch, or a poll that reads an earlier start: plays of the hours
\* before are stored, as far back as the list goes.
Batch(s) ==
  /\ up
  /\ Missing(s) # {}
  /\ Store(s, Missing(s))
  /\ UNCHANGED <<clockVars, faults, due, running, left, seen, inspected,
                 finished, reports>>

\* The process dies: the triggers and the jobs under way are gone.
Crash ==
  /\ up
  /\ Fault
  /\ up' = FALSE
  /\ down' = 0
  /\ due' = [j \in Jobs |-> Never]
  /\ running' = {}
  /\ left' = [j \in Jobs |-> {}]
  /\ seen' = NothingSeen
  /\ UNCHANGED <<now, offset, finished, dbVars>>

\* An hour of which nothing is polled and nothing triggered.
DownTick ==
  /\ ~up
  /\ down < MaxDown
  /\ now < MaxHour
  /\ now' = now + 1
  /\ down' = down + 1
  /\ UNCHANGED <<offset, up, faults, due, running, left, seen, finished,
                 dbVars>>

\* The next trigger of a job is computed from now.
Boot ==
  /\ ~up
  /\ up' = TRUE
  /\ UNCHANGED <<now, offset, down, faults, due, running, left, seen,
                 finished, dbVars>>

-----------------------------------------------------------------------------
(* The scheduler and its jobs.                                             *)

\* The executor starts a job that is due, unless it is later than its grace.
Start(j) ==
  /\ due[j] # Never
  /\ now - due[j] <= Grace
  /\ due' = [due EXCEPT ![j] = Never]
  /\ running' = running \cup {j}
  /\ left' = [left EXCEPT ![j] = Stations]
  /\ seen' = IF j = "reconcile" THEN NothingSeen ELSE seen
  /\ UNCHANGED <<clockVars, faults, finished, dbVars>>

\* Mutation: a job that is later than its grace stays due.
NeverMisses(j) ==
  /\ due[j] # Never
  /\ now - due[j] > Grace
  /\ UNCHANGED vars

Misfire(j) ==
  /\ due[j] # Never
  /\ now - due[j] > Grace
  /\ due' = [due EXCEPT ![j] = Never]
  /\ UNCHANGED <<clockVars, faults, running, left, seen, finished, dbVars>>

\* The job is over, as the one of this day's trigger.
End(j) ==
  /\ running' = running \ {j}
  /\ left' = [left EXCEPT ![j] = {}]

Done(j) == End(j) /\ finished' = finished \cup {<<j, Day(now)>>}

\* The exception of a job is logged: nothing of its transaction remains.
JobFails(j) ==
  /\ j \in running
  /\ j # "report"
  /\ Fault
  /\ End(j)
  /\ UNCHANGED <<clockVars, due, seen, finished, dbVars>>

\* The Nova collector asks for the UTC date it is created on, the KIIS-FM
\* one for the day before.
DiaryDate(s) == IF s = "nova" THEN Day(now) ELSE Day(now) - 1

\* The diary of local day d, as far as that day has come.
DiaryOf(s, d) == {h \in Hours : (h + offset[s]) \div 24 = d /\ h < now}

CollectDiary(s) ==
  /\ s \in running
  /\ stored' = [stored EXCEPT ![s] = @ \cup DiaryOf(s, DiaryDate(s))]
  /\ Done(s)
  /\ UNCHANGED <<clockVars, faults, due, seen, came, inspected, reports>>

\* list_for_station over the last hours, for the next station of the loop.
Inspect(s) ==
  /\ "reconcile" \in running
  /\ s \in left["reconcile"]
  /\ seen' = [seen EXCEPT ![s] =
                {h \in stored[s] : now - Reach <= h /\ h < now}]
  /\ left' = [left EXCEPT !["reconcile"] = @ \ {s}]
  /\ UNCHANGED <<clockVars, faults, due, running, finished, dbVars>>

\* The items of the stations and the summary are committed.
CommitReconciliation ==
  /\ "reconcile" \in running
  /\ left["reconcile"] = {}
  /\ inspected' = [s \in Stations |-> inspected[s] \cup seen[s]]
  /\ Done("reconcile")
  /\ UNCHANGED <<clockVars, faults, due, seen, storedVars, reports>>

ReportDate == Day(now) - 1

DayPlays(s) == stored[s] \cap UtcDay(ReportDate)

\* A station's plays are read and its report is written; no plays, no report.
MakeReport(s) ==
  /\ "report" \in running
  /\ s \in left["report"]
  /\ left' = [left EXCEPT !["report"] = @ \ {s}]
  /\ reports' = IF DayPlays(s) = {} THEN reports
                ELSE reports \cup {[station |-> s, day |-> ReportDate,
                                    plays |-> DayPlays(s)]}
  /\ UNCHANGED <<clockVars, faults, due, running, seen, storedVars, inspected,
                 finished>>

\* A station that fails is logged, and the loop goes on.
ReportFails(s) ==
  /\ "report" \in running
  /\ s \in left["report"]
  /\ Fault
  /\ left' = [left EXCEPT !["report"] = @ \ {s}]
  /\ UNCHANGED <<clockVars, due, running, seen, finished, dbVars>>

EndReports ==
  /\ "report" \in running
  /\ left["report"] = {}
  /\ Done("report")
  /\ UNCHANGED <<clockVars, faults, due, seen, dbVars>>

Work(j) ==
  \/ Start(j)
  \/ Misfire(j)
  \/ j \in Diaries /\ CollectDiary(j)
  \/ j = "reconcile" /\ (CommitReconciliation \/ \E s \in Stations : Inspect(s))
  \/ j = "report" /\ (EndReports \/ \E s \in Stations : MakeReport(s))

\* The bound on the clock is reached and nothing is left to do.
Finished ==
  /\ now = MaxHour
  /\ running = {}
  /\ \A j \in Jobs : due[j] = Never
  /\ UNCHANGED vars

Next ==
  \/ Tick
  \/ Stall
  \/ Crash
  \/ DownTick
  \/ Boot
  \/ \E j \in Jobs : Work(j) \/ JobFails(j)
  \/ \E s \in Stations : ReportFails(s)
  \/ \E s \in Polled : Batch(s)
  \/ Finished

Spec == Init /\ [][Next]_vars

\* The event loop gets to every job that is due or has started.
FairSpec == Spec /\ \A j \in Jobs : WF_vars(Work(j))

-----------------------------------------------------------------------------
CycleTypeOK ==
  /\ now \in 0..MaxHour
  /\ offset \in [nova : SydneyOffsets, kiis1027 : PacificOffsets]
  /\ up \in BOOLEAN
  /\ down \in 0..MaxDown
  /\ faults \in 0..MaxFaults
  /\ due \in [Jobs -> Hours]
  /\ running \subseteq Jobs
  /\ left \in [Jobs -> SUBSET Stations]
  /\ seen \in [Stations -> SUBSET Hours]
  /\ stored \in [Stations -> SUBSET Hours]
  /\ came \in [Polled -> [Hours -> Hours]]
  /\ inspected \in [Stations -> SUBSET Hours]
  /\ finished \subseteq Jobs \X Int
  /\ reports \subseteq Report

\* The UTC date of the job that collects the diary an hour is in: Nova's on
\* the date of Sydney's day, KIIS-FM's on the next.
CollectedOn(s, h) ==
  (h + offset[s]) \div 24 + (IF s = "nova" THEN 0 ELSE 1)

\* A UTC day is made of parts of two local days, and the hours of the jobs
\* are chosen so that both diaries are in when the day is reported, whatever
\* the season: the report of a diary station lacks a play of its day only if
\* the job that was to bring it did not run to its end.
ReportsComplete ==
  \A r \in reports : r.station \in Diaries =>
    \A h \in UtcDay(r.day) \ r.plays :
      <<r.station, CollectedOn(r.station, h)>> \notin finished

\* The reconciliation's 25 hours are one more than a day so that a run that
\* starts within its grace leaves no gap to the hour of the run before: a run
\* that came to its end has looked at every play of a polled station in the
\* twenty-four hours up to 17:00 of its day that was stored by then.  A play
\* that is stored after 17:00 is the next run's, in whose window it lies only
\* if it is not much older and that run is not late as well.
NoGapBetweenNights ==
  \A d \in 0..Day(MaxHour) :
    <<"reconcile", d>> \in finished =>
      \A s \in Polled :
        {h \in stored[s] : came[s][h] < 24 * d + ReconcileHour}
            \cap (24 * (d - 1) + ReconcileHour .. 24 * d + ReconcileHour - 1)
          \subseteq inspected[s]

\* A job that was triggered ends: it runs to its end, fails, is dropped as
\* too late, or dies with the process.
TriggersEnd ==
  \A j \in Jobs : (due[j] # Never \/ j \in running) ~>
                    (due[j] = Never /\ j \notin running)

\* The report job is said to run "after nightly reconciliation (17:00 UTC)
\* so dedup is current": the plays it counts have been reconciled.
DedupCurrent ==
  \A r \in reports : r.plays \subseteq inspected[r.station]
=============================================================================
