------------------------- MODULE NightlyCycleProofs -------------------------
(***************************************************************************)
(* A job runs in the hour of its trigger or in the next, and no time       *)
(* passes while it runs.  What a night's job has brought or looked at then *)
(* follows from the hours and the offsets alone.                           *)
(***************************************************************************)
EXTENDS NightlyCycle, TLAPS

\* A due job was triggered at its hour, a running one at most one hour ago.
TimeInv ==
  /\ \A j \in Jobs : due[j] # Never => due[j] <= now /\ due[j] % 24 = Hour[j]
  /\ \A j \in running : now % 24 \in {Hour[j], Hour[j] + 1}

\* What a polled station stored lies in the past, and the run under way and
\* those that came to their end have seen what was stored by then of the day
\* before.
PolledInv ==
  /\ \A s \in Polled : \A h \in stored[s] : h < now
  /\ "reconcile" \in running =>
       \A s \in Polled \ left["reconcile"] : \A h \in stored[s] :
         now - Reach <= h /\ came[s][h] < now => h \in seen[s]
  /\ \A d \in Int : <<"reconcile", d>> \in finished =>
       /\ 24 * d + 17 <= now
       /\ \A s \in Polled : \A h \in stored[s] :
            h \in 24 * d - 7 .. 24 * d + 16 /\ came[s][h] < 24 * d + 17 =>
              h \in inspected[s]

\* A diary job that came to its end has brought the whole local day.
DiaryInv ==
  \A s \in Diaries : \A h \in Hours :
    <<s, CollectedOn(s, h)>> \in finished => h \in stored[s]

\* A report is made after the hours of the diary jobs of its night.
ReportInv == \A r \in reports : 24 * (r.day + 1) + 18 <= now

\* While the process is down nothing is due and nothing runs.
DownInv == ~up => running = {} /\ \A j \in Jobs : due[j] = Never

CycleInv ==
  CycleTypeOK /\ TimeInv /\ DownInv /\ PolledInv /\ DiaryInv /\ ReportInv /\ ReportsComplete

-----------------------------------------------------------------------------
(* Days and hours.                                                         *)

LEMMA DayHour ==
  ASSUME NEW n \in Int
  PROVE  /\ Day(n) \in Int /\ n % 24 \in 0..23
         /\ n = 24 * Day(n) + (n % 24)
BY DEF Day

LEMMA DayOf ==
  ASSUME NEW n \in Int, NEW d \in Int
  PROVE  n \div 24 = d <=> 24 * d <= n /\ n <= 24 * d + 23
OBVIOUS

\* The hour after one that is Hour[j].
LEMMA NextHour ==
  ASSUME NEW n \in Int, NEW m \in Int, n % 24 \in 0..18, m = n \/ m = n + 1
  PROVE  m % 24 \in {n % 24, (n % 24) + 1}
OBVIOUS

LEMMA JobHours ==
  /\ Hour["nova"] = 16 /\ Hour["kiis1027"] = 9
  /\ Hour["reconcile"] = 17 /\ Hour["report"] = 18
  /\ \A j \in Jobs : Hour[j] \in 0..18
BY DEF Hour, NovaHour, PacificHour, ReconcileHour, ReportHour, Jobs, Diaries

\* The offsets of the diary stations, in either season.
LEMMA Offsets ==
  ASSUME CycleTypeOK
  PROVE  /\ offset["nova"] \in 10..11
         /\ offset["kiis1027"] \in -8..-7
         /\ \A s \in Diaries : offset[s] \in Int
<1>1. offset["nova"] \in SydneyOffsets /\ offset["kiis1027"] \in PacificOffsets
  BY DEF CycleTypeOK
<1>2. offset["nova"] \in 10..11 /\ offset["kiis1027"] \in -8..-7
  BY <1>1, CycleAssumption
<1> QED
  BY <1>2 DEF Diaries

\* The job that collects the hour h of the broadcast.
LEMMA CollectedBounds ==
  ASSUME CycleTypeOK, NEW s \in Diaries, NEW h \in Int, NEW d \in Int
  PROVE  /\ CollectedOn(s, h) \in Int
         /\ s = "nova" /\ CollectedOn(s, h) = d => 24 * d - 11 <= h /\ h <= 24 * d + 13
         /\ s = "kiis1027" /\ CollectedOn(s, h) = d => 24 * d - 17 <= h /\ h <= 24 * d + 7
         /\ h \in UtcDay(d) => CollectedOn(s, h) <= d + 1
<1>1. /\ offset["nova"] \in 10..11
      /\ offset["kiis1027"] \in -8..-7
  BY Offsets
<1>2. CASE s = "nova"
  <2>1. CollectedOn(s, h) = (h + offset["nova"]) \div 24
    BY <1>1, <1>2 DEF CollectedOn
  <2> QED
    BY <1>1, <1>2, <2>1, DayOf DEF UtcDay
<1>3. CASE s = "kiis1027"
  <2>1. CollectedOn(s, h) = ((h + offset["kiis1027"]) \div 24) + 1
    BY <1>1, <1>3 DEF CollectedOn
  <2> QED
    BY <1>1, <1>3, <2>1, DayOf DEF UtcDay
<1> QED
  BY <1>2, <1>3 DEF Diaries

-----------------------------------------------------------------------------
LEMMA InitInv == Init => CycleInv
<1> SUFFICES ASSUME Init PROVE CycleInv
  OBVIOUS
<1> USE CycleAssumption DEF Init
<1>1. Hours \subseteq Int /\ Never \in Hours
  BY DEF Hours, Never
<1>2. due \in [Jobs -> Hours] /\ \A j \in Jobs : due[j] = Never
  BY <1>1
<1>3. /\ left \in [Jobs -> SUBSET Stations]
      /\ seen \in [Stations -> SUBSET Hours]
      /\ stored \in [Stations -> SUBSET Hours]
      /\ inspected \in [Stations -> SUBSET Hours]
  BY DEF NothingSeen
<1>4. up \in BOOLEAN
  BY Zenon
<1>41. came \in [Polled -> [Hours -> Hours]]
  BY <1>1
<1>5. CycleTypeOK
  BY <1>2, <1>3, <1>4, <1>41 DEF CycleTypeOK
<1>6. TimeInv /\ DownInv
  BY <1>2 DEF TimeInv, DownInv
<1>7. PolledInv
  BY DEF PolledInv, Stations
<1>8. DiaryInv /\ ReportInv /\ ReportsComplete
  BY DEF DiaryInv, ReportInv, ReportsComplete
<1> QED
  BY <1>5, <1>6, <1>7, <1>8 DEF CycleInv

\* Plays of a polled station that are stored now, none of them before.
LEMMA StoreKeeps ==
  ASSUME CycleInv, NEW s \in Polled, NEW plays \in SUBSET Hours, Store(s, plays),
         plays \cap stored[s] = {}
  PROVE  /\ stored' \in [Stations -> SUBSET Hours]
         /\ came' \in [Polled -> [Hours -> Hours]]
         /\ \A t \in Stations \ Polled : stored'[t] = stored[t]
         /\ \A t \in Polled : \A h \in stored'[t] :
              \/ h \in stored[t] /\ came'[t][h] = came[t][h]
              \/ h \in plays /\ came'[t][h] = now
<1> USE CycleAssumption
<1>0. now \in 0..MaxHour
  BY DEF CycleInv, CycleTypeOK
<1>1. /\ now \in Hours /\ s \in Stations
      /\ stored \in [Stations -> SUBSET Hours]
      /\ came \in [Polled -> [Hours -> Hours]]
  <2>1. now \in Hours
    BY <1>0 DEF Hours
  <2> QED
    BY <2>1 DEF CycleInv, CycleTypeOK, Stations
<1> DEFINE new == [h \in Hours |-> IF h \in plays THEN now ELSE came[s][h]]
<1>2. /\ stored' = [stored EXCEPT ![s] = stored[s] \cup plays]
      /\ came' = [came EXCEPT ![s] = new]
  BY DEF Store
<1>3. /\ new \in [Hours -> Hours]
      /\ \A h \in Hours : new[h] = IF h \in plays THEN now ELSE came[s][h]
  BY <1>1
<1> HIDE DEF new
<1>4. stored' \in [Stations -> SUBSET Hours] /\ came' \in [Polled -> [Hours -> Hours]]
  BY <1>1, <1>2, <1>3
<1>5. ASSUME NEW t \in Polled, NEW h \in stored'[t]
      PROVE  \/ h \in stored[t] /\ came'[t][h] = came[t][h]
             \/ h \in plays /\ came'[t][h] = now
  <2>1. CASE t = s
    BY <1>1, <1>2, <1>3, <1>4, <2>1
  <2>2. CASE t # s
    BY <1>1, <1>2, <2>2 DEF Stations
  <2> QED
    BY <2>1, <2>2
<1> QED
  BY <1>1, <1>2, <1>4, <1>5

\* An hour passes, with nothing running.
LEMMA HourPasses ==
  ASSUME CycleInv, running = {}, now < MaxHour, now' = now + 1,
         faults' \in 0..MaxFaults, down' \in 0..MaxDown,
         (Trigger /\ up) \/ due' = due, Poll \/ UNCHANGED storedVars,
         UNCHANGED <<offset, up, running, left, seen, inspected, finished, reports>>
  PROVE  CycleInv'
<1> USE CycleAssumption
<1>1. now \in 0..MaxHour /\ now' \in 0..MaxHour
  BY DEF CycleInv, CycleTypeOK
<1>2. now \in Hours /\ now' \in Hours
  BY <1>1 DEF Hours
<1>3. due' \in [Jobs -> Hours]
  BY <1>2 DEF CycleInv, CycleTypeOK, Trigger
<1>4. /\ stored' \in [Stations -> SUBSET Hours]
      /\ came' \in [Polled -> [Hours -> Hours]]
      /\ \A s \in Diaries : stored'[s] = stored[s]
      /\ \A s \in Polled : \A h \in stored'[s] :
           \/ h \in stored[s] /\ came'[s][h] = came[s][h]
           \/ h = now /\ came'[s][h] = now
  <2>1. CASE Poll
    <3>1. PICK s \in Polled : Store(s, {now})
      BY <2>1 DEF Poll
    <3>2. {now} \cap stored[s] = {}
      BY <1>1, <3>1 DEF CycleInv, PolledInv
    <3>3. {now} \in SUBSET Hours /\ Diaries = Stations \ Polled
      BY <1>2 DEF Diaries, Polled, Stations
    <3> QED
      BY <3>1, <3>2, <3>3, StoreKeeps
  <2>2. CASE UNCHANGED storedVars
    BY <2>2 DEF storedVars, CycleInv, CycleTypeOK
  <2> QED
    BY <2>1, <2>2
<1>5. CycleTypeOK'
  BY <1>1, <1>3, <1>4 DEF CycleInv, CycleTypeOK
<1>6. TimeInv'
  <2>1. ASSUME NEW j \in Jobs, due'[j] # Never
        PROVE  due'[j] <= now' /\ due'[j] % 24 = Hour[j]
    <3>1. due'[j] = due[j] \/ (due'[j] = now + 1 /\ Hour[j] = (now + 1) % 24)
      BY DEF Trigger, Fires, CycleInv, CycleTypeOK
    <3>2. due[j] \in Int
      BY DEF CycleInv, CycleTypeOK, Hours
    <3>3. due[j] # Never => due[j] <= now /\ due[j] % 24 = Hour[j]
      BY DEF CycleInv, TimeInv
    <3> QED
      BY <1>1, <2>1, <3>1, <3>2, <3>3
  <2> QED
    BY <2>1 DEF TimeInv
<1>9. PolledInv'
  <2>1. \A s \in Polled : \A h \in stored'[s] : h \in Int /\ h < now'
    BY <1>1, <1>4 DEF CycleInv, PolledInv, Hours, Stations
  <2>2. ASSUME NEW d \in Int, <<"reconcile", d>> \in finished
        PROVE  /\ 24 * d + 17 <= now'
               /\ \A s \in Polled : \A h \in stored'[s] :
                    h \in 24 * d - 7 .. 24 * d + 16 /\ came'[s][h] < 24 * d + 17 =>
                      h \in inspected[s]
    <3>1. /\ 24 * d + 17 <= now
          /\ \A s \in Polled : \A h \in stored[s] :
               h \in 24 * d - 7 .. 24 * d + 16 /\ came[s][h] < 24 * d + 17 =>
                 h \in inspected[s]
      BY <2>2 DEF CycleInv, PolledInv
    <3> QED
      BY <1>1, <1>4, <3>1
  <2> QED
    BY <2>1, <2>2 DEF PolledInv
<1>10. DiaryInv'
  BY <1>4 DEF CycleInv, DiaryInv, CollectedOn
<1>11. ReportInv'
  BY <1>1 DEF CycleInv, ReportInv, CycleTypeOK, Report
<1>12. ReportsComplete'
  BY DEF CycleInv, ReportsComplete, CollectedOn
<1>13. DownInv'
  BY DEF CycleInv, DownInv
<1> QED
  BY <1>5, <1>6, <1>9, <1>10, <1>11, <1>12, <1>13 DEF CycleInv

\* A step without time, of a job that starts, is dropped or fails.
LEMMA Switched ==
  ASSUME CycleInv, UNCHANGED <<now, offset, storedVars, inspected, finished, reports>>,
         up' \in BOOLEAN, down' \in 0..MaxDown, faults' \in 0..MaxFaults,
         due' \in [Jobs -> Hours], \A j \in Jobs : due'[j] \in {due[j], Never},
         running' \subseteq Jobs,
         \A j \in running' \ running : now % 24 \in {Hour[j], Hour[j] + 1},
         left' \in [Jobs -> SUBSET Stations],
         seen' \in [Stations -> SUBSET Hours],
         "reconcile" \in running' =>
           \/ left'["reconcile"] = Stations
           \/ "reconcile" \in running /\ UNCHANGED <<seen, left>>
           \/ "reconcile" \in running /\ seen' = seen /\ left'["reconcile"] = left["reconcile"],
         ~up' => running' = {} /\ \A j \in Jobs : due'[j] = Never
  PROVE  CycleInv'
<1>1. CycleTypeOK'
  BY DEF CycleInv, CycleTypeOK, storedVars
<1>2. TimeInv'
  BY DEF CycleInv, TimeInv
<1>3. DownInv'
  BY DEF DownInv
<1>4. PolledInv'
  <2>1. "reconcile" \in running' =>
          \A s \in Polled \ left'["reconcile"] : \A h \in stored[s] :
            now - Reach <= h /\ came[s][h] < now => h \in seen'[s]
    BY DEF CycleInv, PolledInv, Stations
  <2> QED
    BY <2>1 DEF CycleInv, PolledInv, storedVars
<1>5. DiaryInv' /\ ReportInv' /\ ReportsComplete'
  BY DEF CycleInv, DiaryInv, ReportInv, ReportsComplete, CollectedOn, storedVars
<1> QED
  BY <1>1, <1>2, <1>3, <1>4, <1>5 DEF CycleInv

\* The hour of a job that starts.
LEMMA StartHour ==
  ASSUME CycleInv, NEW j \in Jobs, due[j] # Never, now - due[j] <= Grace
  PROVE  now % 24 \in {Hour[j], Hour[j] + 1}
<1>1. due[j] \in Int /\ now \in Int /\ due[j] <= now /\ due[j] % 24 = Hour[j]
  BY DEF CycleInv, CycleTypeOK, TimeInv, Hours
<1>2. now = due[j] \/ now = due[j] + 1
  BY <1>1 DEF Grace
<1>3. due[j] % 24 \in 0..18
  BY <1>1, JobHours
<1> QED
  BY <1>1, <1>2, <1>3, NextHour

LEMMA StartInv ==
  ASSUME CycleInv, NEW j \in Jobs, Start(j)
  PROVE  CycleInv'
<1>1. /\ UNCHANGED <<now, offset, up, down, faults, storedVars, inspected, finished, reports>>
      /\ due' = [due EXCEPT ![j] = Never]
      /\ running' = running \cup {j}
      /\ left' = [left EXCEPT ![j] = Stations]
      /\ seen' = IF j = "reconcile" THEN NothingSeen ELSE seen
      /\ due[j] # Never /\ now - due[j] <= Grace
  BY DEF Start, clockVars, dbVars, storedVars
<1>2. Never \in Hours
  BY CycleAssumption DEF Never, Hours
<1>3. due' \in [Jobs -> Hours] /\ \A k \in Jobs : due'[k] \in {due[k], Never}
  BY <1>1, <1>2 DEF CycleInv, CycleTypeOK
<1>4. left' \in [Jobs -> SUBSET Stations] /\ seen' \in [Stations -> SUBSET Hours]
  BY <1>1 DEF CycleInv, CycleTypeOK, NothingSeen
<1>5. up
  BY <1>1 DEF CycleInv, DownInv
<1>6. now % 24 \in {Hour[j], Hour[j] + 1}
  BY <1>1, StartHour
<1>7. "reconcile" \in running' =>
        \/ left'["reconcile"] = Stations
        \/ "reconcile" \in running /\ seen' = seen /\ left'["reconcile"] = left["reconcile"]
  BY <1>1 DEF CycleInv, CycleTypeOK, Jobs
<1>8. /\ up' \in BOOLEAN /\ up' /\ down' \in 0..MaxDown /\ faults' \in 0..MaxFaults
      /\ running' \subseteq Jobs
      /\ \A k \in running' \ running : now % 24 \in {Hour[k], Hour[k] + 1}
  BY <1>1, <1>5, <1>6 DEF CycleInv, CycleTypeOK
<1> QED
  BY <1>1, <1>3, <1>4, <1>7, <1>8, Switched

LEMMA MisfireInv ==
  ASSUME CycleInv, NEW j \in Jobs, Misfire(j)
  PROVE  CycleInv'
<1>1. /\ UNCHANGED <<now, offset, up, down, faults, running, left, seen, storedVars,
                      inspected, finished, reports>>
      /\ due' = [due EXCEPT ![j] = Never]
  BY DEF Misfire, clockVars, dbVars, storedVars
<1>2. Never \in Hours
  BY CycleAssumption DEF Never, Hours
<1>3. /\ due' \in [Jobs -> Hours] /\ \A k \in Jobs : due'[k] \in {due[k], Never}
      /\ ~up => running = {} /\ \A k \in Jobs : due'[k] = Never
  BY <1>1, <1>2 DEF CycleInv, CycleTypeOK, DownInv
<1>4. /\ up' \in BOOLEAN /\ down' \in 0..MaxDown /\ faults' \in 0..MaxFaults
      /\ running' \subseteq Jobs /\ left' \in [Jobs -> SUBSET Stations]
      /\ seen' \in [Stations -> SUBSET Hours]
  BY <1>1 DEF CycleInv, CycleTypeOK
<1> QED
  BY <1>1, <1>3, <1>4, Switched

LEMMA FailsInv ==
  ASSUME CycleInv, NEW j \in Jobs, JobFails(j)
  PROVE  CycleInv'
<1>1. /\ UNCHANGED <<now, offset, up, down, due, seen, storedVars, inspected, finished,
                      reports>>
      /\ j \in running
      /\ running' = running \ {j}
      /\ left' = [left EXCEPT ![j] = {}]
      /\ faults < MaxFaults /\ faults' = faults + 1
  BY DEF JobFails, End, Fault, clockVars, dbVars, storedVars
<1>2. /\ left' \in [Jobs -> SUBSET Stations]
      /\ \A k \in Jobs : k # j => left'[k] = left[k]
  BY <1>1 DEF CycleInv, CycleTypeOK
<1>3. /\ up' \in BOOLEAN /\ down' \in 0..MaxDown /\ faults' \in 0..MaxFaults
      /\ running' \subseteq Jobs /\ due' \in [Jobs -> Hours]
      /\ seen' \in [Stations -> SUBSET Hours]
  BY <1>1, CycleAssumption DEF CycleInv, CycleTypeOK
<1>4. "reconcile" \in running' =>
        "reconcile" \in running /\ seen' = seen /\ left'["reconcile"] = left["reconcile"]
  BY <1>1, <1>2 DEF Jobs
<1>5. ~up' => running' = {} /\ \A k \in Jobs : due'[k] = Never
  BY <1>1 DEF CycleInv, DownInv
<1> QED
  BY <1>1, <1>2, <1>3, <1>4, <1>5, Switched

LEMMA ClockInv ==
  ASSUME CycleInv, Tick \/ Stall \/ DownTick \/ Boot \/ Crash
  PROVE  CycleInv'
<1> USE CycleAssumption
<1>1. ASSUME Tick \/ Stall PROVE CycleInv'
  <2>1. /\ running = {} /\ now < MaxHour /\ now' = now + 1 /\ Trigger /\ up
        /\ Poll \/ UNCHANGED storedVars
        /\ UNCHANGED <<offset, up, down, running, left, seen, inspected, finished, reports>>
        /\ faults' = faults \/ Fault
    BY <1>1 DEF Tick, Stall, PollMisses
  <2>2. faults' \in 0..MaxFaults /\ down' \in 0..MaxDown
    BY <2>1 DEF Fault, CycleInv, CycleTypeOK
  <2> QED
    BY <2>1, <2>2, HourPasses
<1>2. ASSUME DownTick PROVE CycleInv'
  <2>1. /\ ~up /\ now < MaxHour /\ now' = now + 1 /\ down < MaxDown /\ down' = down + 1
        /\ UNCHANGED <<offset, up, faults, due, running, left, seen, finished,
                       storedVars, inspected, reports>>
    BY <1>2 DEF DownTick, dbVars, storedVars
  <2>2. running = {} /\ faults' \in 0..MaxFaults /\ down' \in 0..MaxDown
       
    BY <2>1 DEF CycleInv, CycleTypeOK, DownInv
  <2> QED
    BY <2>1, <2>2, HourPasses
<1>3. ASSUME Boot PROVE CycleInv'
  <2>1. /\ up' /\ up' \in BOOLEAN
        /\ UNCHANGED <<now, offset, down, faults, due, running, left, seen, finished,
                       storedVars, inspected, reports>>
    BY <1>3, Zenon DEF Boot, dbVars, storedVars
  <2>2. /\ down' \in 0..MaxDown /\ faults' \in 0..MaxFaults /\ running' \subseteq Jobs
        /\ due' \in [Jobs -> Hours] /\ left' \in [Jobs -> SUBSET Stations]
        /\ seen' \in [Stations -> SUBSET Hours]
    BY <2>1 DEF CycleInv, CycleTypeOK
  <2> QED
    BY <2>1, <2>2, Switched
<1>4. ASSUME Crash PROVE CycleInv'
  <2>1. ~up' /\ up' \in BOOLEAN
    BY <1>4, Zenon DEF Crash
  <2>2. /\ down' = 0 /\ running' = {} /\ due' = [j \in Jobs |-> Never]
        /\ left' = [j \in Jobs |-> {}] /\ seen' = NothingSeen
        /\ faults < MaxFaults /\ faults' = faults + 1
        /\ UNCHANGED <<now, offset, finished, storedVars, inspected, reports>>
    BY <1>4 DEF Crash, Fault, dbVars, storedVars
  <2>3. Never \in Hours
    BY DEF Never, Hours
  <2>4. /\ due' \in [Jobs -> Hours] /\ \A j \in Jobs : due'[j] = Never
        /\ left' \in [Jobs -> SUBSET Stations]
        /\ seen' \in [Stations -> SUBSET Hours]
    BY <2>2, <2>3 DEF NothingSeen
  <2>5. down' \in 0..MaxDown /\ faults' \in 0..MaxFaults
    BY <2>2 DEF CycleInv, CycleTypeOK
  <2> QED
    BY <2>1, <2>2, <2>4, <2>5, Switched
<1> QED
  BY <1>1, <1>2, <1>3, <1>4

\* What the job of the date that collects an hour brings contains the hour.
LEMMA DiaryIsComplete ==
  ASSUME CycleInv, NEW s \in Diaries, s \in running, NEW h \in Hours,
         CollectedOn(s, h) = Day(now)
  PROVE  h \in DiaryOf(s, DiaryDate(s))
<1>1. now \in Int /\ h \in Int /\ now % 24 \in {Hour[s], Hour[s] + 1}
  BY CycleAssumption DEF CycleInv, CycleTypeOK, TimeInv, Hours
<1>2. Day(now) \in Int /\ now = 24 * Day(now) + (now % 24)
  BY <1>1, DayHour
<1>3. /\ offset["nova"] \in 10..11
      /\ offset["kiis1027"] \in -8..-7
  BY Offsets DEF CycleInv
<1>4. CASE s = "nova"
  <2>1. now >= 24 * Day(now) + 16
    BY <1>1, <1>2, <1>4, JobHours
  <2>2. h <= 24 * Day(now) + 13
    BY <1>1, <1>2, <1>4, CollectedBounds DEF CycleInv
  <2>3. (h + offset[s]) \div 24 = DiaryDate(s)
    BY <1>1, <1>3, <1>4 DEF CollectedOn, DiaryDate
  <2> QED
    BY <1>1, <1>2, <2>1, <2>2, <2>3 DEF DiaryOf
<1>5. CASE s = "kiis1027"
  <2>1. now >= 24 * Day(now) + 9
    BY <1>1, <1>2, <1>5, JobHours
  <2>2. h <= 24 * Day(now) + 7
    BY <1>1, <1>2, <1>5, CollectedBounds DEF CycleInv
  <2>3. (h + offset[s]) \div 24 = DiaryDate(s)
    BY <1>1, <1>2, <1>3, <1>5 DEF CollectedOn, DiaryDate
  <2> QED
    BY <1>1, <1>2, <2>1, <2>2, <2>3 DEF DiaryOf
<1> QED
  BY <1>4, <1>5 DEF Diaries

LEMMA DiaryJobInv ==
  ASSUME CycleInv, NEW s \in Diaries, CollectDiary(s)
  PROVE  CycleInv'
<1> USE CycleAssumption
<1> DEFINE brought == DiaryOf(s, DiaryDate(s))
<1>1. /\ s \in running
      /\ stored' = [stored EXCEPT ![s] = stored[s] \cup brought]
      /\ running' = running \ {s}
      /\ left' = [left EXCEPT ![s] = {}]
      /\ finished' = finished \cup {<<s, Day(now)>>}
      /\ UNCHANGED <<now, offset, up, down, faults, due, seen, came, inspected, reports>>
  BY DEF CollectDiary, Done, End, clockVars, storedVars
<1>2. brought \subseteq Hours /\ \A h \in Hours : CollectedOn(s, h) = Day(now) => h \in brought
  BY <1>1, DiaryIsComplete DEF DiaryOf
<1> HIDE DEF brought
<1>3. now \in Int /\ Day(now) \in Int /\ now = 24 * Day(now) + (now % 24)
      /\ now % 24 \in {Hour[s], Hour[s] + 1}
  <2>1. now \in Int /\ now % 24 \in {Hour[s], Hour[s] + 1}
    BY <1>1 DEF CycleInv, CycleTypeOK, TimeInv
  <2> QED
    BY <2>1, DayHour
<1>4. s \in Stations /\ s \in Jobs /\ s \notin Polled /\ s # "reconcile"
  BY DEF Diaries, Stations, Polled, Jobs
<1>5. CycleTypeOK'
  <2>1. /\ stored' \in [Stations -> SUBSET Hours]
        /\ left' \in [Jobs -> SUBSET Stations]
        /\ finished' \subseteq Jobs \X Int
    BY <1>1, <1>2, <1>3, <1>4 DEF CycleInv, CycleTypeOK
  <2> QED
    BY <1>1, <2>1 DEF CycleInv, CycleTypeOK
<1>6. TimeInv' /\ DownInv'
  BY <1>1 DEF CycleInv, TimeInv, DownInv
<1>7. /\ \A t \in Stations \ {s} : stored'[t] = stored[t]
      /\ stored'[s] = stored[s] \cup brought
      /\ left'["reconcile"] = left["reconcile"]
  BY <1>1, <1>4 DEF CycleInv, CycleTypeOK, Jobs
<1>8. PolledInv'
  <2>1. \A t \in Polled : stored'[t] = stored[t]
    BY <1>4, <1>7 DEF Stations
  <2>2. \A d \in Int : <<"reconcile", d>> \in finished' => <<"reconcile", d>> \in finished
    BY <1>1, <1>4
  <2>3. "reconcile" \in running' => "reconcile" \in running
    BY <1>1
  <2> QED
    BY <1>1, <1>7, <2>1, <2>2, <2>3 DEF CycleInv, PolledInv
<1>9. DiaryInv'
  <2>1. ASSUME NEW t \in Diaries, NEW h \in Hours, <<t, CollectedOn(t, h)>> \in finished'
        PROVE  h \in stored'[t]
    <3>1. CASE <<t, CollectedOn(t, h)>> \in finished
      BY <1>7, <3>1 DEF CycleInv, DiaryInv, Stations
    <3>2. CASE <<t, CollectedOn(t, h)>> = <<s, Day(now)>>
      BY <1>2, <1>7, <3>2
    <3> QED
      BY <1>1, <2>1, <3>1, <3>2
  <2> QED
    BY <1>1, <2>1 DEF DiaryInv, CollectedOn
<1>10. ReportInv'
  BY <1>1 DEF CycleInv, ReportInv
<1>11. ReportsComplete'
  <2>1. ASSUME NEW r \in reports, r.station \in Diaries, NEW h \in UtcDay(r.day) \ r.plays,
               <<r.station, CollectedOn(r.station, h)>> \in finished'
        PROVE  FALSE
    <3>1. <<r.station, CollectedOn(r.station, h)>> \notin finished
      BY <2>1 DEF CycleInv, ReportsComplete
    <3>2. r.station = s /\ CollectedOn(s, h) = Day(now)
      BY <1>1, <2>1, <3>1
    <3>3. r.day \in Int /\ h \in Int /\ 24 * (r.day + 1) + 18 <= now
      BY DEF CycleInv, CycleTypeOK, Report, ReportInv, UtcDay
    <3>4. Day(now) <= r.day + 1
      BY <3>2, <3>3, CollectedBounds DEF CycleInv
    <3>5. now <= 24 * Day(now) + 17
      BY <1>3, JobHours DEF Diaries
    <3> QED
      BY <1>3, <3>3, <3>4, <3>5
  <2> QED
    BY <1>1, <2>1 DEF ReportsComplete, CollectedOn
<1> QED
  BY <1>5, <1>6, <1>8, <1>9, <1>10, <1>11 DEF CycleInv

LEMMA InspectInv ==
  ASSUME CycleInv, NEW s \in Stations, Inspect(s)
  PROVE  CycleInv'
<1> USE CycleAssumption
<1> DEFINE looked == {h \in stored[s] : now - Reach <= h /\ h < now}
<1>1. /\ "reconcile" \in running /\ s \in left["reconcile"]
      /\ seen' = [seen EXCEPT ![s] = looked]
      /\ left' = [left EXCEPT !["reconcile"] = left["reconcile"] \ {s}]
      /\ UNCHANGED <<now, offset, up, down, faults, due, running, finished, stored,
                     came, inspected, reports>>
  BY DEF Inspect, clockVars, dbVars, storedVars
<1>2. /\ looked \subseteq stored[s]
      /\ \A h \in stored[s] : now - Reach <= h /\ h < now => h \in looked
  OBVIOUS
<1> HIDE DEF looked
<1>3. "reconcile" \in Jobs
  BY DEF Jobs
<1>4. CycleTypeOK'
  <2>1. seen' \in [Stations -> SUBSET Hours] /\ left' \in [Jobs -> SUBSET Stations]
    BY <1>1, <1>2, <1>3 DEF CycleInv, CycleTypeOK
  <2> QED
    BY <1>1, <2>1 DEF CycleInv, CycleTypeOK
<1>5. TimeInv' /\ DownInv' /\ DiaryInv' /\ ReportInv' /\ ReportsComplete'
  BY <1>1 DEF CycleInv, TimeInv, DownInv, DiaryInv, ReportInv, ReportsComplete, CollectedOn
<1>6. PolledInv'
  <2>1. ASSUME NEW t \in Polled \ left'["reconcile"], NEW h \in stored[t],
               now - Reach <= h, came[t][h] < now
        PROVE  h \in seen'[t]
    <3>1. CASE t = s
      <4>1. h < now
        BY DEF CycleInv, PolledInv
      <4> QED
        BY <1>1, <1>2, <2>1, <3>1, <4>1 DEF CycleInv, CycleTypeOK
    <3>2. CASE t # s
      <4>1. t \notin left["reconcile"] /\ seen'[t] = seen[t]
        BY <1>1, <1>3, <2>1, <3>2 DEF CycleInv, CycleTypeOK, Stations
      <4> QED
        BY <1>1, <2>1, <4>1 DEF CycleInv, PolledInv
    <3> QED
      BY <3>1, <3>2
  <2> QED
    BY <1>1, <2>1 DEF CycleInv, PolledInv
<1> QED
  BY <1>4, <1>5, <1>6 DEF CycleInv

LEMMA CommitInv ==
  ASSUME CycleInv, CommitReconciliation
  PROVE  CycleInv'
<1> USE CycleAssumption
<1>1. /\ "reconcile" \in running /\ left["reconcile"] = {}
      /\ inspected' = [s \in Stations |-> inspected[s] \cup seen[s]]
      /\ running' = running \ {"reconcile"}
      /\ left' = [left EXCEPT !["reconcile"] = {}]
      /\ finished' = finished \cup {<<"reconcile", Day(now)>>}
      /\ UNCHANGED <<now, offset, up, down, faults, due, seen, stored, came, reports>>
  BY DEF CommitReconciliation, Done, End, clockVars, storedVars
<1>2. now \in Int /\ now % 24 \in {17, 18}
  BY <1>1, JobHours DEF CycleInv, CycleTypeOK, TimeInv
<1>3. Day(now) \in Int /\ now = 24 * Day(now) + (now % 24)
  BY <1>2, DayHour
<1>4. "reconcile" \in Jobs /\ "reconcile" \notin Diaries
  BY DEF Jobs, Diaries
<1>5. CycleTypeOK'
  <2>1. /\ inspected' \in [Stations -> SUBSET Hours]
        /\ left' \in [Jobs -> SUBSET Stations]
        /\ finished' \subseteq Jobs \X Int
    BY <1>1, <1>3, <1>4 DEF CycleInv, CycleTypeOK
  <2> QED
    BY <1>1, <2>1 DEF CycleInv, CycleTypeOK
<1>6. TimeInv' /\ DownInv' /\ ReportInv'
  BY <1>1 DEF CycleInv, TimeInv, DownInv, ReportInv
<1>7. \A s \in Diaries : \A d : <<s, d>> \in finished' => <<s, d>> \in finished
  BY <1>1, <1>4
<1>8. DiaryInv' /\ ReportsComplete'
  BY <1>1, <1>7 DEF CycleInv, DiaryInv, ReportsComplete, CollectedOn
<1>9. PolledInv'
  <2>1. ASSUME NEW d \in Int, <<"reconcile", d>> \in finished'
        PROVE  /\ 24 * d + 17 <= now
               /\ \A s \in Polled : \A h \in stored[s] :
                    h \in 24 * d - 7 .. 24 * d + 16 /\ came[s][h] < 24 * d + 17 =>
                      h \in inspected'[s]
    <3>1. CASE <<"reconcile", d>> \in finished
      BY <1>1, <3>1 DEF CycleInv, PolledInv, Stations
    <3>2. CASE d = Day(now)
      <4>1. \A s \in Polled : \A h \in stored[s] :
              now - Reach <= h /\ came[s][h] < now => h \in inspected'[s]
        BY <1>1 DEF CycleInv, PolledInv, Stations
      <4>2. \A h \in Int : h \in 24 * d - 7 .. 24 * d + 16 => now - Reach <= h
        BY <1>2, <1>3, <3>2 DEF Reach
      <4>3. \A s \in Polled : \A h \in stored[s] : h \in Int /\ came[s][h] \in Int
        BY DEF CycleInv, CycleTypeOK, Stations, Hours
      <4> QED
        BY <1>2, <1>3, <3>2, <4>1, <4>2, <4>3
    <3> QED
      BY <1>1, <2>1, <3>1, <3>2
  <2> QED
    BY <1>1, <2>1 DEF CycleInv, PolledInv
<1> QED
  BY <1>5, <1>6, <1>8, <1>9 DEF CycleInv

LEMMA MakeReportInv ==
  ASSUME CycleInv, NEW s \in Stations, MakeReport(s)
  PROVE  CycleInv'
<1> USE CycleAssumption
<1> DEFINE new == [station |-> s, day |-> ReportDate, plays |-> DayPlays(s)]
<1>1. /\ "report" \in running /\ s \in left["report"]
      /\ left' = [left EXCEPT !["report"] = left["report"] \ {s}]
      /\ reports' \in {reports, reports \cup {new}}
      /\ UNCHANGED <<now, offset, up, down, faults, due, running, seen, stored,
                     came, inspected, finished>>
  BY DEF MakeReport, clockVars, storedVars
<1>2. now \in 0..MaxHour /\ now % 24 \in {18, 19}
  BY <1>1, JobHours DEF CycleInv, CycleTypeOK, TimeInv
<1>3. /\ Day(now) \in Int /\ now = 24 * Day(now) + (now % 24)
      /\ ReportDate = Day(now) - 1
  BY <1>2, DayHour DEF ReportDate
<1>4. new \in Report
  BY <1>3 DEF Report, DayPlays, CycleInv, CycleTypeOK
<1>5. /\ left' \in [Jobs -> SUBSET Stations]
      /\ left'["reconcile"] = left["reconcile"]
  BY <1>1 DEF CycleInv, CycleTypeOK, Jobs
<1>6. CycleTypeOK'
  BY <1>1, <1>4, <1>5 DEF CycleInv, CycleTypeOK
<1>7. TimeInv' /\ DownInv' /\ DiaryInv'
  BY <1>1 DEF CycleInv, TimeInv, DownInv, DiaryInv, CollectedOn
<1>8. PolledInv'
  BY <1>1, <1>5 DEF CycleInv, PolledInv
<1>9. ReportInv'
  BY <1>1, <1>2, <1>3 DEF CycleInv, ReportInv
<1>10. ReportsComplete'
  <2>1. ASSUME s \in Diaries, NEW h \in UtcDay(new.day) \ new.plays,
               <<s, CollectedOn(s, h)>> \in finished
        PROVE  FALSE
    <3>1. h \in Hours
      BY <1>2, <1>3 DEF UtcDay, Hours
    <3>2. h \in stored[s]
      BY <2>1, <3>1 DEF CycleInv, DiaryInv
    <3> QED
      BY <2>1, <3>2 DEF DayPlays
  <2>2. \A r \in reports' : r.station \in Diaries =>
          \A h \in UtcDay(r.day) \ r.plays :
            <<r.station, CollectedOn(r.station, h)>> \notin finished
    BY <1>1, <2>1 DEF CycleInv, ReportsComplete
  <2> QED
    BY <1>1, <2>2 DEF ReportsComplete, CollectedOn
<1> QED
  BY <1>6, <1>7, <1>8, <1>9, <1>10 DEF CycleInv

\* The report job passes over a station, or ends.
LEMMA ReportJobInv ==
  ASSUME CycleInv, (\E s \in Stations : ReportFails(s)) \/ EndReports
  PROVE  CycleInv'
<1> USE CycleAssumption
<1>1. /\ running' \in {running, running \ {"report"}}
      /\ \E rest \in SUBSET Stations : left' = [left EXCEPT !["report"] = rest]
      /\ finished' \in {finished, finished \cup {<<"report", Day(now)>>}}
      /\ faults' = faults \/ Fault
      /\ UNCHANGED <<now, offset, up, down, due, seen, stored, came, inspected, reports>>
  <2>1. left["report"] \subseteq Stations
    BY DEF CycleInv, CycleTypeOK, Jobs
  <2> QED
    BY <2>1 DEF ReportFails, EndReports, Done, End, clockVars, dbVars, storedVars
<1>2. now \in Int /\ Day(now) \in Int
  BY DayHour DEF CycleInv, CycleTypeOK
<1>3. /\ left' \in [Jobs -> SUBSET Stations]
      /\ left'["reconcile"] = left["reconcile"]
  BY <1>1 DEF CycleInv, CycleTypeOK, Jobs
<1>4. faults' \in 0..MaxFaults
  BY <1>1 DEF Fault, CycleInv, CycleTypeOK
<1>5. finished' \subseteq Jobs \X Int
  BY <1>1, <1>2 DEF CycleInv, CycleTypeOK, Jobs
<1>6. CycleTypeOK'
  BY <1>1, <1>3, <1>4, <1>5 DEF CycleInv, CycleTypeOK
<1>7. TimeInv' /\ DownInv' /\ ReportInv'
  BY <1>1 DEF CycleInv, TimeInv, DownInv, ReportInv
<1>8. \A j \in Jobs \ {"report"} : \A d : <<j, d>> \in finished' => <<j, d>> \in finished
  BY <1>1
<1>9. DiaryInv' /\ ReportsComplete'
  <2>1. \A s \in Diaries : \A d : <<s, d>> \in finished' => <<s, d>> \in finished
    BY <1>8 DEF Jobs, Diaries
  <2> QED
    BY <1>1, <2>1 DEF CycleInv, DiaryInv, ReportsComplete, CollectedOn
<1>10. PolledInv'
  <2>1. \A d : <<"reconcile", d>> \in finished' => <<"reconcile", d>> \in finished
    BY <1>8 DEF Jobs
  <2>2. "reconcile" \in running' => "reconcile" \in running
    BY <1>1
  <2> QED
    BY <1>1, <1>3, <2>1, <2>2 DEF CycleInv, PolledInv
<1> QED
  BY <1>6, <1>7, <1>9, <1>10 DEF CycleInv

\* A batch stores in this hour what lies before it.
LEMMA BatchInv ==
  ASSUME CycleInv, NEW s \in Polled, Batch(s)
  PROVE  CycleInv'
<1> USE CycleAssumption
<1>1. /\ Store(s, Missing(s))
      /\ UNCHANGED <<now, offset, up, down, faults, due, running, left, seen,
                      inspected, finished, reports>>
  BY DEF Batch, clockVars
<1>2. /\ now \in 0..MaxHour
      /\ Missing(s) \in SUBSET Hours /\ Missing(s) \cap stored[s] = {}
      /\ \A h \in Missing(s) : h < now
  <2>1. now \in 0..MaxHour
    BY DEF CycleInv, CycleTypeOK
  <2> QED
    BY <2>1 DEF Missing, Hours
<1>3. /\ stored' \in [Stations -> SUBSET Hours]
      /\ came' \in [Polled -> [Hours -> Hours]]
      /\ \A t \in Diaries : stored'[t] = stored[t]
      /\ \A t \in Polled : \A h \in stored'[t] :
           \/ h \in stored[t] /\ came'[t][h] = came[t][h]
           \/ h \in Missing(s) /\ came'[t][h] = now
  <2>1. Diaries = Stations \ Polled
    BY DEF Diaries, Polled, Stations
  <2> QED
    BY <1>1, <1>2, <2>1, StoreKeeps
<1>4. CycleTypeOK'
  BY <1>1, <1>3 DEF CycleInv, CycleTypeOK
<1>5. TimeInv' /\ DownInv' /\ ReportInv' /\ ReportsComplete' /\ DiaryInv'
  BY <1>1, <1>3 DEF CycleInv, TimeInv, DownInv, ReportInv, ReportsComplete, DiaryInv, CollectedOn
<1>6. PolledInv'
  <2>1. \A t \in Polled : \A h \in stored'[t] : h < now
    BY <1>2, <1>3 DEF CycleInv, PolledInv
  <2>2. "reconcile" \in running =>
          \A t \in Polled \ left["reconcile"] : \A h \in stored'[t] :
            now - Reach <= h /\ came'[t][h] < now => h \in seen[t]
    BY <1>2, <1>3 DEF CycleInv, PolledInv
  <2>3. \A d \in Int : <<"reconcile", d>> \in finished =>
          /\ 24 * d + 17 <= now
          /\ \A t \in Polled : \A h \in stored'[t] :
               h \in 24 * d - 7 .. 24 * d + 16 /\ came'[t][h] < 24 * d + 17 =>
                 h \in inspected[t]
    BY <1>2, <1>3 DEF CycleInv, PolledInv
  <2> QED
    BY <1>1, <2>1, <2>2, <2>3 DEF PolledInv
<1> QED
  BY <1>4, <1>5, <1>6 DEF CycleInv

LEMMA StutterInv == CycleInv /\ UNCHANGED vars => CycleInv'
<1> SUFFICES ASSUME CycleInv, UNCHANGED vars PROVE CycleInv'
  OBVIOUS
<1> USE DEF vars
<1>1. CycleTypeOK' /\ TimeInv' /\ DownInv'
  BY DEF CycleInv, CycleTypeOK, TimeInv, DownInv
<1>2. PolledInv'
  BY DEF CycleInv, PolledInv
<1>3. DiaryInv' /\ ReportInv' /\ ReportsComplete'
  BY DEF CycleInv, DiaryInv, ReportInv, ReportsComplete, CollectedOn
<1> QED
  BY <1>1, <1>2, <1>3 DEF CycleInv

LEMMA Invariance == Spec => []CycleInv
<1>1. CycleInv /\ [Next]_vars => CycleInv'
  <2> SUFFICES ASSUME CycleInv, [Next]_vars PROVE CycleInv'
    OBVIOUS
  <2>1. ASSUME NEW j \in Jobs, Work(j) PROVE CycleInv'
    BY <2>1, StartInv, MisfireInv, DiaryJobInv, InspectInv, CommitInv, MakeReportInv,
       ReportJobInv
    DEF Work
  <2>2. ASSUME NEW j \in Jobs, JobFails(j) PROVE CycleInv'
    BY <2>2, FailsInv
  <2>3. ASSUME Finished \/ UNCHANGED vars PROVE CycleInv'
    BY <2>3, StutterInv DEF Finished
  <2> QED
    BY <2>1, <2>2, <2>3, ClockInv, ReportJobInv, BatchInv DEF Next
<1> QED
  BY <1>1, InitInv, PTL DEF Spec

-----------------------------------------------------------------------------
\* Every variable keeps its type, for any bounds.
THEOREM CycleTypeCorrect == Spec => []CycleTypeOK
<1>1. CycleInv => CycleTypeOK
  BY DEF CycleInv
<1> QED
  BY <1>1, Invariance, PTL

\* In every season a report of a diary station has all plays of its UTC day
\* that the jobs which came to their end were to bring.
THEOREM ReportsAreComplete == Spec => []ReportsComplete
<1>1. CycleInv => ReportsComplete
  BY DEF CycleInv
<1> QED
  BY <1>1, Invariance, PTL

\* A reconciliation that came to its end, however late it began, has passed
\* over no play of a polled station since the hour of the run before that was
\* stored by the hour of this one.
THEOREM NoNightGap == Spec => []NoGapBetweenNights
<1>1. CycleInv => NoGapBetweenNights
  <2> SUFFICES ASSUME CycleInv, NEW d \in 0..Day(MaxHour),
                      <<"reconcile", d>> \in finished,
                      NEW s \in Polled,
                      NEW h \in stored[s],
                      came[s][h] < 24 * d + ReconcileHour,
                      h \in 24 * (d - 1) + ReconcileHour .. 24 * d + ReconcileHour - 1
               PROVE  h \in inspected[s]
    BY DEF NoGapBetweenNights
  <2>1. d \in Int /\ h \in 24 * d - 7 .. 24 * d + 16 /\ came[s][h] < 24 * d + 17
    BY DEF ReconcileHour
  <2> QED
    BY <2>1 DEF CycleInv, PolledInv
<1> QED
  BY <1>1, Invariance, PTL
=============================================================================
