--------------------------- MODULE CapitalMonitor ---------------------------
(***************************************************************************)
(* The job that polls Capital FM counts its failures in a row and pauses   *)
(* itself at the threshold.  The counter and the pause live in the         *)
(* process: nothing but a restart resumes the job.                         *)
(***************************************************************************)
EXTENDS Integers, Sequences

CONSTANTS
  Threshold,   \* _FAILURE_THRESHOLD, 5 in the code
  MaxRestarts  \* bound on the restarts

ASSUME MonitorAssumption ==
  /\ Threshold \in Nat \ {0}
  /\ MaxRestarts \in Nat

VARIABLES
  failures,  \* _CAPITAL_FAILURES
  paused,    \* the scheduler has paused the job
  job,       \* where the job is
  recent,    \* outcomes of the process's last polls, up to Threshold of them
  lost,      \* polls that failed since one did not, in any process; counted to
             \* one more than there can be
  restarts,  \* restarts so far
  dead       \* the source is gone for good

monitorVars == <<failures, paused, job, recent, lost, restarts, dead>>

MonitorInit ==
  /\ failures = 0
  /\ paused = FALSE
  /\ job = "idle"
  /\ recent = <<>>
  /\ lost = 0
  /\ restarts = 0
  /\ dead = FALSE

SourceDies ==
  /\ ~dead
  /\ dead' = TRUE
  /\ UNCHANGED <<failures, paused, job, recent, lost, restarts>>

\* The trigger fires; one instance of the job runs at a time.
StartPoll ==
  /\ job = "idle"
  /\ ~paused
  /\ job' = "collecting"
  /\ UNCHANGED <<failures, paused, recent, lost, restarts, dead>>

Note(result) ==
  /\ recent' = LET all == Append(recent, result)
               IN  IF Len(all) > Threshold THEN Tail(all) ELSE all
  /\ lost' = IF result = "ok" THEN 0
             ELSE IF lost > Threshold * (MaxRestarts + 1) THEN lost ELSE lost + 1

\* Mutation: a poll that is not a failure leaves the count.
KeepCount == failures

ResetCount == 0

\* run() returns a run that is not FAILED: success, partial or no track.
PollSucceeds ==
  /\ job = "collecting"
  /\ ~dead
  /\ failures' = ResetCount
  /\ job' = "persisting"
  /\ Note("ok")
  /\ UNCHANGED <<paused, restarts, dead>>

\* run() returns a run that is FAILED.
PollFailed ==
  /\ job = "collecting"
  /\ failures' = failures + 1
  /\ job' = "persisting"
  /\ Note("failed")
  /\ UNCHANGED <<paused, restarts, dead>>

\* Mutation: only runs that return as failed are counted.
CountReturned == failures

CountRaised == failures + 1

\* run() raises: there is nothing to store.
PollRaises ==
  /\ job = "collecting"
  /\ failures' = CountRaised
  /\ job' = "checking"
  /\ Note("failed")
  /\ UNCHANGED <<paused, restarts, dead>>

\* _persist_result returns, whether it stored the result or logged an error.
PersistReturns ==
  /\ job = "persisting"
  /\ job' = "checking"
  /\ UNCHANGED <<failures, paused, recent, lost, restarts, dead>>

\* Mutation: the job is paused one failure later.
PastThreshold == failures > Threshold

AtThreshold == failures >= Threshold

CheckThreshold ==
  /\ job = "checking"
  /\ job' = "idle"
  /\ paused' = (paused \/ AtThreshold)
  /\ UNCHANGED <<failures, recent, lost, restarts, dead>>

\* The module is loaded and the scheduler built anew.
MonitorRestart ==
  /\ restarts < MaxRestarts
  /\ restarts' = restarts + 1
  /\ failures' = 0
  /\ paused' = FALSE
  /\ job' = "idle"
  /\ recent' = <<>>
  /\ UNCHANGED <<lost, dead>>

PollStep ==
  \/ StartPoll
  \/ PollSucceeds
  \/ PollFailed
  \/ PollRaises
  \/ PersistReturns
  \/ CheckThreshold

\* The job is paused and stays so.
PausedForGood ==
  /\ paused
  /\ job = "idle"
  /\ UNCHANGED monitorVars

MonitorNext ==
  \/ SourceDies
  \/ PollStep
  \/ MonitorRestart
  \/ PausedForGood

MonitorSpec == MonitorInit /\ [][MonitorNext]_monitorVars

\* The interval trigger fires again and again, and a poll ends.
FairMonitorSpec == MonitorSpec /\ WF_monitorVars(PollStep)

-----------------------------------------------------------------------------
MonitorTypeOK ==
  /\ failures \in 0..Threshold
  /\ paused \in BOOLEAN
  /\ job \in {"idle", "collecting", "persisting", "checking"}
  /\ recent \in Seq({"ok", "failed"})
  /\ lost \in Nat
  /\ restarts \in 0..MaxRestarts
  /\ dead \in BOOLEAN

\* Between two polls the job is paused exactly if the last five polls of this
\* process have all failed, returned or raised: one that did not fail starts
\* the count again.
PausedAfterThreshold ==
  job = "idle" =>
    (paused <=> /\ Len(recent) = Threshold
                /\ \A n \in 1..Threshold : recent[n] = "failed")

\* A restart forgets the count and the pause, and nothing else does: a source
\* that is down is polled five times per process at most.
DeadPollsBounded == lost <= Threshold * (restarts + 1)

\* A source that is gone for good ends with its job paused, however the
\* failures come and however often the process was restarted before.
DeadSourcePaused == dead ~> []paused
=============================================================================
