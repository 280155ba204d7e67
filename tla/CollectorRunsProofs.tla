------------------------ MODULE CollectorRunsProofs ------------------------
(***************************************************************************)
(* Theorems about CollectorRuns, for any number of jobs, collectors and    *)
(* days and any retention: its type invariant, and that recorded payloads  *)
(* are on disk.                                                            *)
(***************************************************************************)
EXTENDS CollectorRuns, TLAPS

Labels == {"idle", "fetch", "mkdir", "open", "write", "parse", "persist",
           "escaped"}

\* A run is under way.
Busy(j) == pc[j] \in Labels \ {"idle", "escaped"}

\* The payload of day d that run r has written is there, or it is due.
Kept(r, d) ==
  \/ d + Retention < today
  \/ \E f \in files : f.run = r /\ f.whole /\ f.mtime = d

\* Run ids are used once.
IdInv ==
  \A c \in runs : /\ c.id[2] <= count[c.id[1]]
                  /\ Busy(c.id[1]) => c.id[2] < count[c.id[1]]

\* What a job knows of its payload, and what it has on disk.  A file that is
\* still being written is too young to be pruned.
JobOK(j) ==
  /\ Busy(j) => count[j] >= 1
  /\ pc[j] \in {"fetch", "mkdir", "open", "write"} => result[j] = Failed
  /\ pc[j] = "write" =>
       \E f \in files : f.run = RunId(j) /\ f.mtime + 1 >= today
  /\ pc[j] = "parse" => result[j].payload # NoPayload
  /\ pc[j] = "persist" /\ result[j].status # "failed" =>
       result[j].payload # NoPayload
  /\ pc[j] \in {"parse", "persist"} /\ result[j].payload # NoPayload =>
       Kept(RunId(j), result[j].payload)

JobInv == \A j \in Jobs : JobOK(j)

\* What the tool takes to be old is due.
ToolInv == tool # "idle" => cutoff <= today - Retention

\* PayloadsBacked by a file that is as old as the record has it.
RunsInv ==
  \A c \in runs :
    /\ c.result.status # "failed" => c.result.payload # NoPayload
    /\ c.result.payload # NoPayload => Kept(c.id, c.result.payload)

IInv ==
  /\ TypeOK
  /\ IdInv
  /\ JobInv
  /\ ToolInv
  /\ RunsInv

-----------------------------------------------------------------------------
\* The first record of a run and the outcomes are of the type.
LEMMA FailedType == Failed \in Outcome
BY DEF Failed, Outcome, Statuses, NoPayload

LEMMA RunIdType ==
  ASSUME TypeOK, NEW j \in Jobs, count[j] >= 1
  PROVE  RunId(j) \in RunIds
BY CollectorAssumption DEF TypeOK, RunId, RunIds

LEMMA InvInit == Init => IInv
<1> SUFFICES ASSUME Init
             PROVE  IInv
  OBVIOUS
<1>1. TypeOK
  <2>1. \A j \in Jobs : 1 \in 1..Loop[j]
    BY CollectorAssumption
  <2>2. 0 \in Days
    BY CollectorAssumption DEF Days
  <2> QED
    BY <2>1, <2>2, CollectorAssumption, FailedType DEF Init, TypeOK
<1>2. IdInv /\ ToolInv /\ RunsInv
  BY DEF Init, IdInv, ToolInv, RunsInv
<1>3. JobInv
  BY DEF Init, JobInv, JobOK, Busy
<1> QED
  BY <1>1, <1>2, <1>3 DEF IInv

LEMMA TypeStep == TypeOK /\ JobInv /\ [Next]_vars => TypeOK'
<1> SUFFICES ASSUME TypeOK, JobInv, [Next]_vars
             PROVE  TypeOK'
  OBVIOUS
<1> USE DEF TypeOK, Goto, diskVars, jobVars, toolVars
<1>1. CASE Midnight
  BY <1>1, CollectorAssumption DEF Midnight, Days
<1>2. ASSUME NEW j \in Jobs, Start(j)
      PROVE  TypeOK'
  <2>1. \A i \in Jobs : Loop[i] \in Nat /\ Loop[i] >= 1
    BY CollectorAssumption
  <2>2. /\ nth' \in [Jobs -> Nat]
        /\ \A i \in Jobs : nth'[i] \in 1..Loop[i]
    BY <1>2, <2>1 DEF Start
  <2>3. count' \in [Jobs -> 0..MaxRuns]
    BY <1>2, CollectorAssumption DEF Start
  <2> QED
    BY <1>2, <2>2, <2>3, FailedType DEF Start
<1>3. ASSUME NEW j \in Jobs, FetchFails(j)
      PROVE  TypeOK'
  BY <1>3 DEF FetchFails
<1>4. ASSUME NEW j \in Jobs, Fetch(j)
      PROVE  TypeOK'
  BY <1>4 DEF Fetch
<1>5. ASSUME NEW j \in Jobs, MakeDirectory(j)
      PROVE  TypeOK'
  BY <1>5 DEF MakeDirectory
<1>6. ASSUME NEW j \in Jobs, OpenFile(j)
      PROVE  TypeOK'
  <2>1. RunId(j) \in RunIds
    BY <1>6, RunIdType DEF OpenFile, JobInv, JobOK, Busy, Labels
  <2>2. NewFile(j) \in File
    BY <2>1 DEF NewFile, File
  <2> QED
    BY <1>6, <2>2 DEF OpenFile
<1>7. ASSUME NEW j \in Jobs, WriteFile(j)
      PROVE  TypeOK'
  <2>1. \A f \in files : [f EXCEPT !.whole = TRUE, !.mtime = today] \in File
    BY DEF File
  <2>2. files' \subseteq File
    BY <1>7, <2>1 DEF WriteFile
  <2>3. [status |-> "failed", payload |-> today] \in Outcome
    BY DEF Outcome, Statuses
  <2> QED
    BY <1>7, <2>2, <2>3 DEF WriteFile
<1>8. ASSUME NEW j \in Jobs, Escape(j)
      PROVE  TypeOK'
  BY <1>8 DEF Escape
<1>9. ASSUME NEW j \in Jobs, Parse(j)
      PROVE  TypeOK'
  BY <1>9 DEF Parse, Outcome
<1>10. ASSUME NEW j \in Jobs, Persist(j)
      PROVE  TypeOK'
  <2>1. runs' \subseteq [id : RunIds, result : Outcome]
    BY <1>10, RunIdType DEF Persist, JobInv, JobOK, Busy, Labels
  <2>2. /\ nth' \in [Jobs -> Nat]
        /\ \A i \in Jobs : nth'[i] \in 1..Loop[i]
    <3>1. \A i \in Jobs : Loop[i] \in Nat
      BY CollectorAssumption
    <3>2. CASE UNCHANGED nth
      BY <3>2
    <3>3. CASE ~LoopDone(j) /\ nth' = [nth EXCEPT ![j] = @ + 1]
      <4>1. nth[j] + 1 \in 1..Loop[j]
        BY <3>1, <3>3 DEF LoopDone
      <4> QED
        BY <3>3, <4>1
    <3> QED
      BY <1>10, <3>2, <3>3 DEF Persist
  <2>3. count' \in [Jobs -> 0..MaxRuns]
    BY <1>10, CollectorAssumption DEF Persist
  <2> QED
    BY <1>10, <2>1, <2>2, <2>3, FailedType DEF Persist
<1>11. CASE Restart
  BY <1>11, FailedType DEF Restart
<1>12. CASE StartPrune
  BY <1>12, CollectorAssumption DEF StartPrune, Days
<1>13. CASE Unlink
  BY <1>13 DEF Unlink
<1>14. CASE ListDirectories
  BY <1>14 DEF ListDirectories
<1>15. CASE RemoveIfEmpty
  BY <1>15 DEF RemoveIfEmpty
<1>16. CASE EndPrune
  BY <1>16 DEF EndPrune
<1>17. CASE UNCHANGED vars
  BY <1>17 DEF vars
<1> QED
  BY <1>1, <1>2, <1>3, <1>4, <1>5, <1>6, <1>7, <1>8, <1>9, <1>10,
     <1>11, <1>12, <1>13, <1>14, <1>15, <1>16, <1>17
     DEF Next, Work, Prune

-----------------------------------------------------------------------------
(* Steps that leave alone what a conjunct speaks of keep it.               *)

LEMMA IdStep == TypeOK /\ IdInv /\ [Next]_vars => IdInv'
<1> SUFFICES ASSUME TypeOK, IdInv, [Next]_vars
             PROVE  IdInv'
  OBVIOUS
<1> USE DEF Goto, Busy, Labels
<1>1. /\ \A c \in runs : c.id[1] \in Jobs /\ c.id[2] \in Nat
      /\ count \in [Jobs -> Nat]
      /\ pc \in [Jobs -> Labels]
  BY CollectorAssumption DEF TypeOK, RunIds
<1>2. ASSUME UNCHANGED <<runs, count>>,
             \A j \in Jobs : Busy(j)' => Busy(j)
      PROVE  IdInv'
  BY <1>1, <1>2 DEF IdInv
<1>3. ASSUME NEW j \in Jobs, Start(j)
      PROVE  IdInv'
  BY <1>1, <1>3 DEF Start, IdInv
<1>4. ASSUME NEW j \in Jobs, Persist(j)
      PROVE  IdInv'
  <2>1. /\ Busy(j)
        /\ pc' \in [Jobs -> Labels]
        /\ \A c \in runs' : c \in runs \/ c.id = RunId(j)
        /\ \A i \in Jobs \ {j} : pc'[i] = pc[i] /\ count'[i] = count[i]
        /\ \/ count'[j] = count[j] /\ pc'[j] = "idle"
           \/ count'[j] = count[j] + 1
    BY <1>1, <1>4 DEF Persist
  <2>2. RunId(j)[1] = j /\ RunId(j)[2] = count[j]
    BY DEF RunId
  <2> QED
    BY <1>1, <2>1, <2>2 DEF IdInv
<1>5. ASSUME NEW j \in Jobs,
             \/ FetchFails(j) \/ Fetch(j) \/ MakeDirectory(j) \/ OpenFile(j)
             \/ WriteFile(j) \/ Escape(j) \/ Parse(j)
      PROVE  IdInv'
  <2>1. Busy(j) /\ \A i \in Jobs \ {j} : pc'[i] = pc[i]
    BY <1>1, <1>5 DEF FetchFails, Fetch, MakeDirectory, OpenFile, WriteFile,
                      Escape, Parse
  <2> QED
    BY <1>2, <1>5, <2>1 DEF FetchFails, Fetch, MakeDirectory, OpenFile,
                            WriteFile, Escape, Parse
<1>6. CASE Restart
  BY <1>2, <1>6 DEF Restart
<1>7. CASE Midnight \/ Prune \/ UNCHANGED vars
  BY <1>2, <1>7 DEF Midnight, Prune, StartPrune, Unlink, ListDirectories,
                    RemoveIfEmpty, EndPrune, vars, jobVars
<1> QED
  BY <1>3, <1>4, <1>5, <1>6, <1>7 DEF Next, Work

LEMMA ToolStep == TypeOK /\ ToolInv /\ [Next]_vars => ToolInv'
<1> SUFFICES ASSUME TypeOK, ToolInv, [Next]_vars
             PROVE  ToolInv'
  OBVIOUS
<1>1. today \in Int /\ cutoff \in Int /\ Retention \in Int
  BY CollectorAssumption DEF TypeOK, Days
<1>2. CASE UNCHANGED <<today, toolVars>>
  BY <1>2 DEF ToolInv, toolVars
<1>3. CASE Midnight
  BY <1>1, <1>3 DEF Midnight, ToolInv, toolVars
<1>4. CASE Prune
  BY <1>1, <1>4 DEF Prune, StartPrune, Unlink, ListDirectories, RemoveIfEmpty,
                    EndPrune, ToolInv, toolVars
<1> QED
  BY <1>2, <1>3, <1>4
     DEF Next, Work, Start, FetchFails, Fetch, MakeDirectory, OpenFile,
         WriteFile, Escape, Parse, Persist, Restart, vars, toolVars

-----------------------------------------------------------------------------
(* The files of other runs.                                                *)

\* A file stays, unless it is due or its own run is writing it.
LEMMA FileStays ==
  ASSUME TypeOK, ToolInv, [Next]_vars, NEW f \in files,
         ~\E j \in Jobs : WriteFile(j) /\ f.run = RunId(j)
  PROVE  f \in files' \/ (today' = today /\ f.mtime + Retention < today)
<1>1. /\ today \in Int /\ cutoff \in Int /\ Retention \in Int
      /\ f.mtime \in Int
  BY CollectorAssumption DEF TypeOK, Days, File
<1>2. CASE UNCHANGED files
  BY <1>2
<1>3. ASSUME NEW j \in Jobs, OpenFile(j)
      PROVE  f \in files'
  BY <1>3 DEF OpenFile
<1>4. ASSUME NEW j \in Jobs, WriteFile(j)
      PROVE  f \in files'
  <2>1. f.run # RunId(j)
    BY <1>4
  <2> QED
    BY <1>4, <2>1 DEF WriteFile
<1>5. CASE Unlink
  BY <1>1, <1>5 DEF Unlink, Old, ToolInv
<1> QED
  BY <1>2, <1>3, <1>4, <1>5
     DEF Next, Work, Prune, Midnight, Start, FetchFails, Fetch, MakeDirectory,
         Escape, Parse, Persist, Restart, StartPrune, ListDirectories,
         RemoveIfEmpty, EndPrune, vars, diskVars

LEMMA DayPasses ==
  ASSUME TypeOK, [Next]_vars
  PROVE  today' = today \/ (Midnight /\ today' = today + 1)
BY DEF Next, Work, Prune, Midnight, Start, FetchFails, Fetch, MakeDirectory,
       OpenFile, WriteFile, Escape, Parse, Persist, Restart, StartPrune, Unlink,
       ListDirectories, RemoveIfEmpty, EndPrune, vars

\* A payload that is kept stays so, but for what its own run writes.
LEMMA KeptStays ==
  ASSUME TypeOK, ToolInv, [Next]_vars, NEW r, NEW d \in Days, Kept(r, d),
         ~\E j \in Jobs : WriteFile(j) /\ r = RunId(j)
  PROVE  Kept(r, d)'
<1>1. today \in Int /\ today' \in Int /\ today' >= today /\ Retention \in Int
  BY CollectorAssumption, DayPasses DEF TypeOK, Days
<1>2. CASE d + Retention < today
  BY <1>1, <1>2 DEF Kept, Days
<1>3. ASSUME NEW f \in files, f.run = r, f.whole, f.mtime = d
      PROVE  Kept(r, d)'
  <2>1. f \in files' \/ (today' = today /\ d + Retention < today)
    BY <1>3, FileStays
  <2> QED
    BY <1>3, <2>1 DEF Kept
<1> QED
  BY <1>2, <1>3 DEF Kept

\* A step that is not the job's own keeps what its job knows.
LEMMA JobKept ==
  ASSUME TypeOK, JobInv, ToolInv, [Next]_vars, NEW j \in Jobs, ~WriteFile(j),
         pc'[j] = pc[j], result'[j] = result[j], count'[j] = count[j]
  PROVE  JobOK(j)'
<1>1. RunId(j)' = RunId(j)
  BY DEF RunId
<1>2. \A i \in Jobs \ {j} : RunId(i) # RunId(j)
  BY DEF RunId
<1>3. ~\E i \in Jobs : WriteFile(i) /\ RunId(j) = RunId(i)
  BY <1>2
<1>4. ASSUME pc[j] = "write"
      PROVE  \E f \in files' : f.run = RunId(j) /\ f.mtime + 1 >= today'
  <2>1. /\ today \in Int /\ Retention \in Int /\ Retention >= 1
        /\ \A f \in files : f.mtime \in Int
    BY CollectorAssumption DEF TypeOK, Days, File
  <2>2. PICK f \in files : f.run = RunId(j) /\ f.mtime + 1 >= today
    BY <1>4 DEF JobInv, JobOK
  <2>3. CASE Midnight
    BY <1>4, <2>1, <2>3 DEF Midnight, diskVars
  <2>4. CASE today' = today
    <3>1. f \in files'
      BY <1>3, <2>1, <2>2, FileStays
    <3> QED
      BY <2>2, <2>4, <3>1
  <2> QED
    BY <2>3, <2>4, DayPasses
<1>5. ASSUME pc[j] \in {"parse", "persist"}, result[j].payload # NoPayload
      PROVE  Kept(RunId(j), result[j].payload)'
  <2>1. PICK r \in RunIds, d \in Days : r = RunId(j) /\ d = result[j].payload
    BY <1>5, RunIdType DEF TypeOK, Outcome, JobInv, JobOK, Busy, Labels
  <2>2. Kept(r, d)
    BY <1>5, <2>1 DEF JobInv, JobOK
  <2>3. Kept(r, d)'
    BY <1>3, <2>1, <2>2, KeptStays
  <2> QED
    BY <1>1, <2>1, <2>3 DEF Kept
<1> QED
  BY <1>1, <1>4, <1>5 DEF JobInv, JobOK, Busy

-----------------------------------------------------------------------------
\* The file that is written is there when it ends.
LEMMA Written ==
  ASSUME TypeOK, JobInv, NEW j \in Jobs, WriteFile(j)
  PROVE  \E f \in files' : f.run = RunId(j) /\ f.whole /\ f.mtime = today
<1>1. PICK f \in files : f.run = RunId(j)
  BY DEF WriteFile, JobInv, JobOK
<1>2. [f EXCEPT !.whole = TRUE, !.mtime = today] \in files'
  BY <1>1, Zenon DEF WriteFile
<1> DEFINE half == [f EXCEPT !.whole = TRUE]
<1>3. half \in File /\ half.run = f.run /\ half.whole
  BY DEF TypeOK, File
<1>4. [f EXCEPT !.whole = TRUE, !.mtime = today] = [half EXCEPT !.mtime = today]
  OBVIOUS
<1> HIDE DEF half
<1>5. /\ [half EXCEPT !.mtime = today].run = half.run
      /\ [half EXCEPT !.mtime = today].whole = half.whole
      /\ [half EXCEPT !.mtime = today].mtime = today
  BY <1>3 DEF File
<1> QED
  BY <1>1, <1>2, <1>3, <1>4, <1>5

LEMMA JobStep == TypeOK /\ JobInv /\ ToolInv /\ [Next]_vars => JobInv'
<1> SUFFICES ASSUME TypeOK, JobInv, ToolInv, [Next]_vars,
                    NEW i \in Jobs
             PROVE  JobOK(i)'
  BY DEF JobInv
<1>1. /\ pc \in [Jobs -> Labels]
      /\ count \in [Jobs -> Nat]
      /\ result \in [Jobs -> Outcome]
  BY CollectorAssumption DEF TypeOK, Labels
<1>2. /\ today \in Int /\ Retention \in Int
      /\ JobOK(i)
  BY CollectorAssumption DEF TypeOK, Days, JobInv
<1> USE DEF Goto, Busy, Labels
<1>3. ASSUME NEW j \in Jobs, i # j, Start(j) \/ Work(j)
      PROVE  JobOK(i)'
  <2>1. pc'[i] = pc[i] /\ result'[i] = result[i] /\ count'[i] = count[i]
    BY <1>1, <1>3 DEF Work, Start, FetchFails, Fetch, MakeDirectory, OpenFile,
                      WriteFile, Escape, Parse, Persist
  <2>2. ~WriteFile(i)
    BY <1>1, <1>3
       DEF Work, Start, FetchFails, Fetch, MakeDirectory, OpenFile,
           WriteFile, Escape, Parse, Persist
  <2> QED
    BY <2>1, <2>2, JobKept
<1>4. CASE Start(i)
  BY <1>1, <1>4 DEF Start, JobOK
<1>5. CASE FetchFails(i)
  BY <1>1, <1>2, <1>5 DEF FetchFails, JobOK, Failed
<1>6. CASE Fetch(i) \/ MakeDirectory(i)
  BY <1>1, <1>2, <1>6 DEF Fetch, MakeDirectory, JobOK
<1>7. CASE OpenFile(i)
  <2>1. /\ NewFile(i) \in files'
        /\ NewFile(i).run = RunId(i)
        /\ NewFile(i).mtime = today
        /\ today' = today
        /\ RunId(i)' = RunId(i)
    BY <1>7 DEF OpenFile, NewFile, RunId
  <2>2. \E f \in files' : f.run = RunId(i)' /\ f.mtime + 1 >= today'
    BY <1>2, <2>1
  <2> QED
    BY <1>1, <1>2, <1>7, <2>2 DEF OpenFile, JobOK
<1>8. CASE WriteFile(i)
  <2>1. /\ result'[i] = [status |-> "failed", payload |-> today]
        /\ pc'[i] = "parse"
        /\ today \in Days
        /\ today' = today
        /\ count' = count
        /\ count[i] >= 1
        /\ RunId(i)' = RunId(i)
    BY <1>1, <1>2, <1>8 DEF WriteFile, RunId, TypeOK, JobOK
  <2>2. today # NoPayload
    BY <2>1 DEF Days, NoPayload
  <2>3. Kept(RunId(i), today)'
    BY <1>8, <2>1, Written DEF Kept
  <2>4. Kept(RunId(i), result[i].payload)'
    BY <2>1, <2>3 DEF Kept
  <2> QED
    BY <2>1, <2>2, <2>4 DEF JobOK
<1>9. CASE Escape(i)
  BY <1>1, <1>2, <1>9 DEF Escape, JobOK
<1>10. CASE Parse(i)
  <2>1. /\ result'[i].payload = result[i].payload
        /\ pc'[i] = "persist"
        /\ UNCHANGED <<today, files, count>>
        /\ RunId(i)' = RunId(i)
    BY <1>1, <1>10 DEF Parse, RunId, Outcome, diskVars
  <2> QED
    BY <1>2, <1>10, <2>1 DEF JobOK, Parse, Kept
<1>11. CASE Persist(i)
  <2>1. /\ result'[i] = Failed
        /\ pc'[i] \in {"idle", "fetch"}
        /\ count'[i] >= 1
    BY <1>1, <1>2, <1>11 DEF Persist, JobOK
  <2> QED
    BY <2>1 DEF JobOK
<1>12. CASE Restart
  BY <1>1, <1>12 DEF Restart, JobOK
<1>13. CASE Midnight \/ Prune \/ UNCHANGED vars
  <2>1. UNCHANGED <<pc, result, count>>
    BY <1>13 DEF Midnight, Prune, StartPrune, Unlink, ListDirectories,
                 RemoveIfEmpty, EndPrune, vars, jobVars
  <2>2. ~WriteFile(i)
    BY <1>1, <2>1 DEF WriteFile
  <2> QED
    BY <2>1, <2>2, JobKept
<1> QED
  BY <1>3, <1>4, <1>5, <1>6, <1>7, <1>8, <1>9, <1>10, <1>11, <1>12, <1>13
     DEF Next, Work

LEMMA RunsStep == IInv /\ [Next]_vars => RunsInv'
<1> SUFFICES ASSUME IInv, [Next]_vars
             PROVE  RunsInv'
  OBVIOUS
<1> USE DEF IInv
<1>1. ASSUME NEW c \in runs
      PROVE  /\ c.result.status # "failed" => c.result.payload # NoPayload
             /\ c.result.payload # NoPayload => Kept(c.id, c.result.payload)'
  <2>1. ~\E j \in Jobs : WriteFile(j) /\ c.id = RunId(j)
    <3> SUFFICES ASSUME NEW j \in Jobs, WriteFile(j), c.id = RunId(j)
                 PROVE  FALSE
      OBVIOUS
    <3>1. c.id[1] = j /\ c.id[2] = count[j] /\ count[j] \in Nat
      BY CollectorAssumption DEF RunId, TypeOK
    <3>2. Busy(j)
      BY DEF WriteFile, Busy, Labels
    <3> QED
      BY <3>1, <3>2 DEF IdInv
  <2>2. c.result.payload \in Days \cup {NoPayload}
    BY DEF TypeOK, Outcome
  <2> QED
    BY <2>1, <2>2, KeptStays DEF RunsInv
<1>2. CASE UNCHANGED runs
  BY <1>1, <1>2 DEF RunsInv
<1>3. ASSUME NEW j \in Jobs, Persist(j)
      PROVE  RunsInv'
  <2>1. /\ pc[j] = "persist"
        /\ UNCHANGED <<today, files>>
        /\ runs' \subseteq runs \cup {[id |-> RunId(j), result |-> result[j]]}
    BY <1>3 DEF Persist, diskVars
  <2>2. /\ result[j].status # "failed" => result[j].payload # NoPayload
        /\ result[j].payload # NoPayload => Kept(RunId(j), result[j].payload)
    BY <2>1 DEF JobInv, JobOK
  <2> QED
    BY <1>1, <2>1, <2>2 DEF RunsInv, Kept
<1> QED
  BY <1>2, <1>3
     DEF Next, Work, Prune, Midnight, Start, FetchFails, Fetch, MakeDirectory,
         OpenFile, WriteFile, Escape, Parse, Restart, StartPrune, Unlink,
         ListDirectories, RemoveIfEmpty, EndPrune, vars

LEMMA Invariance == Spec => []IInv
<1>1. IInv /\ [Next]_vars => IInv'
  BY TypeStep, IdStep, JobStep, ToolStep, RunsStep DEF IInv
<1> QED
  BY InvInit, <1>1, PTL DEF Spec

-----------------------------------------------------------------------------
\* Every variable keeps its type.
THEOREM TypeCorrect == Spec => []TypeOK
<1>1. IInv => TypeOK
  BY DEF IInv
<1> QED
  BY Invariance, <1>1, PTL

\* A recorded run that did not fail has a payload, and every recorded payload
\* is on disk, whole, until its retention is over: for any number of jobs and
\* collectors beside the prune tool, whatever fails and whenever the process
\* dies.
THEOREM PayloadsAreBacked == Spec => []PayloadsBacked
<1>1. IInv => PayloadsBacked
  BY DEF IInv, RunsInv, Kept, PayloadsBacked
<1> QED
  BY Invariance, <1>1, PTL
=============================================================================
