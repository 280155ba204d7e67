--------------------------- MODULE CollectorRuns ---------------------------
(***************************************************************************)
(* The life of collector runs up to their record: BaseCollector.run        *)
(* fetches, writes the raw payload to a file under a directory of the day, *)
(* and parses; the job that runs it hands the result over to be stored.    *)
(* Beside the jobs, the prune tool removes old payload files and the       *)
(* directories it finds empty, in a process of its own.                    *)
(*                                                                         *)
(* Storing a result is one step here; PlayIngestion has its statements.    *)
(***************************************************************************)
EXTENDS Integers, FiniteSets

CONSTANTS
  Jobs,       \* scheduler jobs
  Loop,       \* Loop[j]: collectors job j runs, one after the other
  Retention,  \* RAW_PAYLOAD_RETENTION_DAYS
  DiskFaults, \* writing and unlinking may fail
  MaxDay,     \* bound on the days
  MaxRuns     \* bound on the runs of one job

ASSUME CollectorAssumption ==
  /\ Loop \in [Jobs -> Nat \ {0}]
  /\ Retention \in Nat \ {0}
  /\ DiskFaults \in BOOLEAN
  /\ MaxDay \in Nat
  /\ MaxRuns \in Nat

Days == 0..MaxDay
RunIds == Jobs \X (1..MaxRuns)

VARIABLES
  today,   \* the day
  dirs,    \* the date directories there are
  files,   \* the payload files
  pc,      \* where each job is
  nth,     \* which of its collectors it is running
  count,   \* runs each job has started
  path,    \* the directory of the current run's storage path
  result,  \* the current run's outcome
  runs,    \* the committed collector_runs, with the mtime of their payload
  tool,    \* where the prune tool is
  cutoff,  \* its cutoff
  todo     \* directories it has still to look at

vars == <<today, dirs, files, pc, nth, count, path, result, runs,
          tool, cutoff, todo>>
diskVars == <<dirs, files>>
jobVars == <<pc, nth, count, path, result>>
toolVars == <<tool, cutoff, todo>>

File == [run : RunIds, dir : Days, mtime : Days, whole : BOOLEAN]
NoPayload == -1
Statuses == {"failed", "no_content", "completed"}
Outcome == [status : Statuses, payload : Days \cup {NoPayload}]
Failed == [status |-> "failed", payload |-> NoPayload]

Init ==
  /\ today = 0
  /\ dirs = {}
  /\ files = {}
  /\ pc = [j \in Jobs |-> "idle"]
  /\ nth = [j \in Jobs |-> 1]
  /\ count = [j \in Jobs |-> 0]
  /\ path = [j \in Jobs |-> 0]
  /\ result = [j \in Jobs |-> Failed]
  /\ runs = {}
  /\ tool = "idle"
  /\ cutoff = 0
  /\ todo = {}

\* Mutation: a run is given the id of the run before it.
PreviousRunId(j) == <<j, count[j] - 1>>

RunId(j) == <<j, count[j]>>

Goto(j, label) == pc' = [pc EXCEPT ![j] = label]

\* The day changes.  A payload of some kilobytes is written in less than a
\* day: a file is not still open when a second midnight comes.
Midnight ==
  /\ today < MaxDay
  /\ \A j \in Jobs : pc[j] = "write" =>
       \E f \in files : f.run = RunId(j) /\ f.mtime = today
  /\ today' = today + 1
  /\ UNCHANGED <<dirs, files, jobVars, runs, toolVars>>

-----------------------------------------------------------------------------
(* BaseCollector.run and the loop around it.                               *)

\* The job is started and runs the first of its collectors.
Start(j) ==
  /\ pc[j] \in {"idle", "escaped"}
  /\ count[j] < MaxRuns
  /\ count' = [count EXCEPT ![j] = @ + 1]
  /\ nth' = [nth EXCEPT ![j] = 1]
  /\ result' = [result EXCEPT ![j] = Failed]
  /\ Goto(j, "fetch")
  /\ UNCHANGED <<today, diskVars, path, runs, toolVars>>

\* fetch_raw raises: the run fails, without a payload.
FetchFails(j) ==
  /\ pc[j] = "fetch"
  /\ Goto(j, "persist")
  /\ UNCHANGED <<today, diskVars, nth, count, path, result, runs, toolVars>>

\* The bytes are there: RAW_STORED is set, the path names today.
Fetch(j) ==
  /\ pc[j] = "fetch"
  /\ path' = [path EXCEPT ![j] = today]
  /\ Goto(j, "mkdir")
  /\ UNCHANGED <<today, diskVars, nth, count, result, runs, toolVars>>

MakeDirectory(j) ==
  /\ pc[j] = "mkdir"
  /\ dirs' = dirs \cup {path[j]}
  /\ Goto(j, "open")
  /\ UNCHANGED <<today, files, nth, count, path, result, runs, toolVars>>

NewFile(j) == [run |-> RunId(j), dir |-> path[j], mtime |-> today,
               whole |-> FALSE]

OpenFile(j) ==
  /\ pc[j] = "open"
  /\ path[j] \in dirs
  /\ files' = files \cup {NewFile(j)}
  /\ Goto(j, "write")
  /\ UNCHANGED <<today, dirs, nth, count, path, result, runs, toolVars>>

\* The write ends; the payload is hashed.
WriteFile(j) ==
  /\ pc[j] = "write"
  /\ files' = {IF f.run = RunId(j)
               THEN [f EXCEPT !.whole = TRUE, !.mtime = today] ELSE f : f \in files}
  /\ result' = [result EXCEPT ![j] = [status |-> "failed", payload |-> today]]
  /\ Goto(j, "parse")
  /\ UNCHANGED <<today, dirs, nth, count, path, runs, toolVars>>

\* An OSError of the write: _store_payload is called outside the try blocks,
\* so it leaves run() and the job, whatever the job had still to do.  The
\* scheduler logs it.
Escape(j) ==
  /\ \/ pc[j] \in {"mkdir", "open", "write"} /\ DiskFaults
     \/ pc[j] = "open" /\ path[j] \notin dirs
  /\ Goto(j, "escaped")
  /\ UNCHANGED <<today, diskVars, nth, count, path, result, runs, toolVars>>

\* parse() raises (the run fails and keeps its payload), or returns events,
\* or none.
Parse(j) ==
  /\ pc[j] = "parse"
  /\ \E status \in Statuses :
       result' = [result EXCEPT ![j].status = status]
  /\ Goto(j, "persist")
  /\ UNCHANGED <<today, diskVars, nth, count, path, runs, toolVars>>

LoopDone(j) == nth[j] = Loop[j]

\* The result is stored, or the transaction fails and is swallowed; the job
\* goes on with its next collector.
Persist(j) ==
  /\ pc[j] = "persist"
  /\ \/ runs' = runs \cup {[id |-> RunId(j), result |-> result[j]]}
     \/ UNCHANGED runs
  /\ result' = [result EXCEPT ![j] = Failed]
  /\ \/ LoopDone(j) /\ Goto(j, "idle") /\ UNCHANGED <<nth, count>>
     \/ /\ ~LoopDone(j)
        /\ count[j] < MaxRuns
        /\ count' = [count EXCEPT ![j] = @ + 1]
        /\ nth' = [nth EXCEPT ![j] = @ + 1]
        /\ Goto(j, "fetch")
  /\ UNCHANGED <<today, diskVars, path, toolVars>>

\* The process dies, or shuts down and cancels its jobs.
Restart ==
  /\ \E j \in Jobs : pc[j] # "idle"
  /\ pc' = [j \in Jobs |-> "idle"]
  /\ result' = [j \in Jobs |-> Failed]
  /\ UNCHANGED <<today, diskVars, nth, count, path, runs, toolVars>>

-----------------------------------------------------------------------------
(* The prune tool.                                                         *)

StartPrune ==
  /\ tool = "idle"
  /\ tool' = "files"
  /\ cutoff' = today - Retention
  /\ UNCHANGED <<today, diskVars, jobVars, runs, todo>>

\* Mutation: a file of the retention's last day counts as old.
OldOnTheDay(f) == f.mtime <= cutoff

\* Mutation: the tool looks for the files the database knows.
OldAndRecorded(f) == f.mtime < cutoff /\ \E c \in runs : c.id = f.run

Old(f) == f.mtime < cutoff

Unlink ==
  /\ tool = "files"
  /\ \E f \in files : Old(f) /\ files' = files \ {f}
  /\ UNCHANGED <<today, dirs, jobVars, runs, toolVars>>

\* The scan has been through (what it could not unlink, it skipped); the
\* directories are listed.
ListDirectories ==
  /\ tool = "files"
  /\ DiskFaults \/ ~\E f \in files : Old(f)
  /\ tool' = "dirs"
  /\ todo' = dirs
  /\ UNCHANGED <<today, diskVars, jobVars, runs, cutoff>>

Empty(d) == ~\E f \in files : f.dir = d

\* An empty directory is removed: of whatever day, today's too.
RemoveIfEmpty ==
  /\ tool = "dirs"
  /\ \E d \in todo :
       /\ dirs' = IF Empty(d) THEN dirs \ {d} ELSE dirs
       /\ todo' = todo \ {d}
  /\ UNCHANGED <<today, files, jobVars, runs, tool, cutoff>>

EndPrune ==
  /\ tool = "dirs"
  /\ todo = {}
  /\ tool' = "idle"
  /\ UNCHANGED <<today, diskVars, jobVars, runs, cutoff, todo>>

Prune ==
  \/ StartPrune
  \/ Unlink
  \/ ListDirectories
  \/ RemoveIfEmpty
  \/ EndPrune

-----------------------------------------------------------------------------
Work(j) ==
  \/ FetchFails(j) \/ Fetch(j)
  \/ MakeDirectory(j) \/ OpenFile(j) \/ WriteFile(j) \/ Escape(j)
  \/ Parse(j) \/ Persist(j)

Next ==
  \/ Midnight
  \/ \E j \in Jobs : Start(j) \/ Work(j)
  \/ Restart
  \/ Prune

Spec == Init /\ [][Next]_vars

\* Cron runs the tool again and again, and the tool runs to its end.  As
\* long as it finds old files, it does not fail to remove one every time.
FairSpec == Spec /\ WF_vars(Prune) /\ SF_vars(Unlink)

-----------------------------------------------------------------------------
TypeOK ==
  /\ today \in Days
  /\ dirs \subseteq Days
  /\ files \subseteq File
  /\ pc \in [Jobs -> {"idle", "fetch", "mkdir", "open", "write", "parse",
                      "persist", "escaped"}]
  /\ nth \in [Jobs -> Nat]
  /\ \A j \in Jobs : nth[j] \in 1..Loop[j]
  /\ count \in [Jobs -> 0..MaxRuns]
  /\ path \in [Jobs -> Days]
  /\ result \in [Jobs -> Outcome]
  /\ runs \subseteq [id : RunIds, result : Outcome]
  /\ tool \in {"idle", "files", "dirs"}
  /\ cutoff \in Int
  /\ todo \subseteq Days

\* "A collector must never report success unless the raw payload is stored
\* and hashed": a recorded run that did not fail has a payload, and every
\* recorded payload is on disk, whole, until its retention is over - with
\* the tool at work, runs that span midnight and restarts in between.
PayloadsBacked ==
  \A c \in runs :
    /\ c.result.status # "failed" => c.result.payload # NoPayload
    /\ c.result.payload # NoPayload =>
         \/ c.result.payload + Retention < today
         \/ \E f \in files : f.run = c.id /\ f.whole

\* The volume does not grow for ever: a file past its retention goes, also
\* one that a crash or a failed transaction left without a database row.
StaleFilesGo ==
  \A r \in RunIds, d \in Days :
    (d + Retention < today /\ \E f \in files : f.run = r /\ f.mtime = d)
      ~> ~(\E f \in files : f.run = r /\ f.mtime = d)
=============================================================================
