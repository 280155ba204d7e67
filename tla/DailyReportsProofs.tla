------------------------- MODULE DailyReportsProofs -------------------------
(***************************************************************************)
(* Theorems about DailyReports, for any number of writers, plays and       *)
(* turns: its type invariant, that corrections and versions agree, that    *)
(* generate answers what it has stored, and where the numbering stops.     *)
(***************************************************************************)
EXTENDS DailyReports, TLAPS

\* A writer in its turn: what it has fetched, found and numbered so far.
TurnInv ==
  \A w \in Writers :
    /\ pc[w] # "idle" => turn[w] >= 1
    /\ pc[w] \notin {"idle", "fetch"} => events[w] >= 1
    /\ pc[w] \in {"fetch", "select", "insert"} => version[w] = 1
    /\ pc[w] = "insert" => found[w] = None
    /\ pc[w] \in {"latest", "update"} => found[w] # None
    /\ pc[w] = "update" => version[w] = 2
    /\ pc[w] = "commit" => version[w] = IF found[w] = None THEN 1 ELSE 2

\* Every version is archived under number 1, as the number that is read is
\* the one archived and the report's own is kept nowhere.
NumberInv == \A v \in versions : v.number = 1

\* Ids are drawn once, an id says whether its report is corrected, and
\* versions are of reports.
IdInv ==
  /\ \A q, r \in reports : q.id = r.id => q.corrected = r.corrected
  /\ \A r \in reports :
       /\ r.id[2] <= turn[r.id[1]]
       /\ pc[r.id[1]] # "idle" => r.id[2] < turn[r.id[1]]
  /\ \A v \in versions : \E r \in reports : r.id = v.report

\* What a writer has found is still there, and no less corrected.
FoundInv ==
  \A w \in Writers : found[w] # None =>
    /\ \E r \in reports : r.id = found[w].id
    /\ \A r \in reports : r.id = found[w].id /\ found[w].corrected => r.corrected

IInv ==
  /\ TypeOK
  /\ TurnInv
  /\ NumberInv
  /\ IdInv
  /\ FoundInv
  /\ CorrectedIffVersioned
  /\ GenerateBacked

-----------------------------------------------------------------------------
(* The numbering.                                                          *)

LEMMA LatestIsOne ==
  ASSUME NumberInv, NEW w \in Writers
  PROVE  Latest(w) = 1
<1>1. CASE Numbers(w) = {}
  BY <1>1 DEF Latest
<1>2. CASE Numbers(w) # {}
  <2>1. Numbers(w) = {1}
    BY <1>2 DEF Numbers, NumberInv
  <2>2. Max({1}) = 1
    BY DEF Max
  <2> QED
    BY <1>2, <2>1, <2>2 DEF Latest
<1> QED
  BY <1>1, <1>2

\* The id of a turn that has begun is an id.
LEMMA IdType ==
  ASSUME TypeOK, TurnInv, NEW w \in Writers, pc[w] # "idle"
  PROVE  /\ Id(w) \in Ids
         /\ Id(w)[1] = w
         /\ Id(w)[2] = turn[w]
<1>1. turn[w] \in 1..MaxTurns
  BY ReportsAssumption DEF TypeOK, TurnInv
<1> QED
  BY <1>1 DEF Id, Ids

\* What an update does to the row it finds, and to no other column.
LEMMA UpdatedType ==
  ASSUME NEW w \in Writers, NEW r \in Report, events[w] \in Rankings
  PROVE  /\ Updated(w, r) \in Report
         /\ Updated(w, r).id = r.id
         /\ found[w].corrected = TRUE => Updated(w, r).corrected = r.corrected
         /\ found[w].corrected = FALSE => Updated(w, r).corrected = TRUE
<1> DEFINE P == IF events[w] # found[w].plays THEN events[w] ELSE r.plays
           C == IF Corrected(w) # found[w].corrected THEN TRUE ELSE r.corrected
<1>1. Updated(w, r) = [r EXCEPT !.plays = P, !.corrected = C]
  BY Zenon DEF Updated, Corrected
<1>2. P \in Rankings
  BY DEF Report
<1>3. C \in BOOLEAN
  BY DEF Report
<1>4. /\ found[w].corrected = TRUE => C = r.corrected
      /\ found[w].corrected = FALSE => C = TRUE
  BY DEF Corrected
<1> HIDE DEF P, C
<1>5. Updated(w, r) = [id |-> r.id, plays |-> P, corrected |-> C]
  BY <1>1 DEF Report
<1> QED
  BY <1>2, <1>3, <1>4, <1>5 DEF Report

-----------------------------------------------------------------------------
(* Every step that is not a commit leaves the tables alone.                *)

LEMMA TablesChange ==
  ASSUME [Next]_vars
  PROVE  \/ \E w \in Writers : Commit(w)
         \/ UNCHANGED tables
BY DEF Next, Serve, Done, vars, tables, Play, Begin, Fetch, Select, Insert,
       ReadLatest, Update, Fail, Restart

LEMMA InvInit == Init => IInv
BY ReportsAssumption
   DEF Init, IInv, TypeOK, TurnInv, NumberInv, IdInv, FoundInv,
       CorrectedIffVersioned, GenerateBacked

LEMMA TurnStep == TypeOK /\ TurnInv /\ NumberInv /\ [Next]_vars => TurnInv'
<1> SUFFICES ASSUME TypeOK, TurnInv, NumberInv, [Next]_vars
             PROVE  TurnInv'
  OBVIOUS
<1> USE DEF TypeOK, TurnInv, Goto
<1>1. CASE Play
  BY <1>1 DEF Play
<1>2. ASSUME NEW w \in Writers, Begin(w)
      PROVE  TurnInv'
  BY <1>2 DEF Begin
<1>3. ASSUME NEW w \in Writers, Fetch(w)
      PROVE  TurnInv'
  BY <1>3 DEF Fetch
<1>4. ASSUME NEW w \in Writers, Select(w)
      PROVE  TurnInv'
  BY <1>4 DEF Select
<1>5. ASSUME NEW w \in Writers, Insert(w)
      PROVE  TurnInv'
  BY <1>5 DEF Insert
<1>6. ASSUME NEW w \in Writers, ReadLatest(w)
      PROVE  TurnInv'
  BY <1>6, LatestIsOne DEF ReadLatest
<1>7. ASSUME NEW w \in Writers, Update(w)
      PROVE  TurnInv'
  BY <1>7 DEF Update
<1>8. ASSUME NEW w \in Writers, Commit(w)
      PROVE  TurnInv'
  BY <1>8 DEF Commit
<1>9. ASSUME NEW w \in Writers, Fail(w)
      PROVE  TurnInv'
  BY <1>9 DEF Fail
<1>10. CASE Restart
  BY <1>10 DEF Restart
<1>11. CASE UNCHANGED vars
  BY <1>11 DEF vars, tables
<1> QED
  BY <1>1, <1>2, <1>3, <1>4, <1>5, <1>6,
     <1>7, <1>8, <1>9, <1>10, <1>11
     DEF Next, Serve, Done

LEMMA TypeStep == TypeOK /\ TurnInv /\ NumberInv /\ [Next]_vars => TypeOK'
<1> SUFFICES ASSUME TypeOK, TurnInv, NumberInv, [Next]_vars
             PROVE  TypeOK'
  OBVIOUS
<1> USE DEF TypeOK, Goto, tables
<1>1. CASE Play
  BY <1>1, ReportsAssumption DEF Play
<1>2. ASSUME NEW w \in Writers, Begin(w)
      PROVE  TypeOK'
  BY <1>2, ReportsAssumption DEF Begin
<1>3. ASSUME NEW w \in Writers, Fetch(w)
      PROVE  TypeOK'
  BY <1>3 DEF Fetch
<1>4. ASSUME NEW w \in Writers, Select(w)
      PROVE  TypeOK'
  BY <1>4 DEF Select
<1>5. ASSUME NEW w \in Writers, Insert(w)
      PROVE  TypeOK'
  BY <1>5 DEF Insert
<1>6. ASSUME NEW w \in Writers, ReadLatest(w)
      PROVE  TypeOK'
  BY <1>6, LatestIsOne DEF ReadLatest
<1>7. ASSUME NEW w \in Writers, Update(w)
      PROVE  TypeOK'
  BY <1>7 DEF Update
<1>8. ASSUME NEW w \in Writers, Commit(w)
      PROVE  TypeOK'
  <2>1. /\ pc[w] = "commit"
        /\ events[w] \in Rankings
        /\ Id(w) \in Ids
        /\ found[w] # None => found[w] \in Report /\ version[w] = 2
        /\ version[w] \in {1, 2}
    BY <1>8, IdType DEF Commit, TurnInv, Rankings
  <2>2. reports' \subseteq Report
    <3>1. CASE found[w] = None
      <4>1. reports' = reports
              \cup {[id |-> Id(w), plays |-> events[w], corrected |-> FALSE]}
        BY <1>8, <3>1 DEF Commit, ReportsOf
      <4>2. [id |-> Id(w), plays |-> events[w], corrected |-> FALSE] \in Report
        BY <2>1 DEF Report
      <4> QED
        BY <4>1, <4>2
    <3>2. ASSUME NEW r \in reports, found[w] # None
          PROVE  Updated(w, r) \in Report
      <4>1. r \in Report /\ events[w] \in Rankings
        BY <2>1
      <4> QED
        BY <4>1, UpdatedType
    <3>3. CASE found[w] # None
      <4>1. reports' =
              {IF r.id = found[w].id THEN Updated(w, r) ELSE r : r \in reports}
        BY <1>8, <3>3 DEF Commit, ReportsOf
      <4>2. reports \subseteq Report
        OBVIOUS
      <4>3. \A r \in reports : Updated(w, r) \in Report
        BY <3>2, <3>3
      <4> HIDE DEF TypeOK
      <4> QED
        BY <4>1, <4>2, <4>3
    <3> QED
      BY <3>1, <3>3
  <2>3. versions' \subseteq Version
    BY <1>8, <2>1 DEF Commit, VersionsOf, Version, Report
  <2>4. shown' \subseteq [report : Ids, plays : Rankings]
    BY <1>8, <2>2 DEF Commit, Report
  <2>5. exports' \subseteq Export
    BY <1>8, <2>1 DEF Commit, Exported, Export
  <2> QED
    BY <1>8, <2>2, <2>3, <2>4, <2>5 DEF Commit
<1>9. ASSUME NEW w \in Writers, Fail(w)
      PROVE  TypeOK'
  <2>1. exports' \subseteq Export
    <3>1. CASE pc[w] # "fetch"
      <4>1. /\ events[w] \in Rankings
            /\ Id(w) \in Ids
            /\ VersionSoFar(w) \in {1, 2}
        BY <1>9, <3>1, IdType DEF Fail, TurnInv, Rankings, VersionSoFar
      <4> QED
        BY <1>9, <4>1 DEF Fail, Exported, Export
    <3>2. CASE pc[w] = "fetch"
      BY <1>9, <3>2 DEF Fail
    <3> QED
      BY <3>1, <3>2
  <2> QED
    BY <1>9, <2>1 DEF Fail
<1>10. CASE Restart
  BY <1>10 DEF Restart
<1>11. CASE UNCHANGED vars
  BY <1>11 DEF vars
<1> QED
  BY <1>1, <1>2, <1>3, <1>4, <1>5, <1>6,
     <1>7, <1>8, <1>9, <1>10, <1>11
     DEF Next, Serve, Done

-----------------------------------------------------------------------------
(* What a commit does to the tables, a line for each table and case.       *)

LEMMA CommitEffect ==
  ASSUME IInv, NEW w \in Writers, Commit(w)
  PROVE  /\ found[w] = None =>
              /\ reports' = reports \cup
                   {[id |-> Id(w), plays |-> events[w], corrected |-> FALSE]}
              /\ versions' = versions
         /\ found[w] # None =>
              /\ \A r \in reports : \E s \in reports' :
                   s.id = r.id
              /\ \A s \in reports' : \E r \in reports :
                   /\ s.id = r.id
                   /\ IF r.id = found[w].id THEN s.corrected = TRUE
                      ELSE s.corrected = r.corrected
              /\ versions' = versions \cup
                   {[id |-> Id(w), report |-> found[w].id,
                     number |-> 1, rows |-> events[w]]}
<1>1. /\ pc[w] = "commit"
      /\ events[w] \in Rankings
      /\ reports \subseteq Report
      /\ found[w] # None => found[w] \in Report /\ version[w] = 2
  BY DEF IInv, TypeOK, TurnInv, Commit, Rankings
<1>2. CASE found[w] = None
  BY <1>2 DEF Commit, ReportsOf, VersionsOf
<1>3. CASE found[w] # None
  <2>1. reports' =
          {IF r.id = found[w].id THEN Updated(w, r) ELSE r : r \in reports}
    BY <1>3 DEF Commit, ReportsOf
  <2>2. \A r \in reports :
          /\ Updated(w, r).id = r.id
          /\ r.id = found[w].id => Updated(w, r).corrected = TRUE
    <3> SUFFICES ASSUME NEW r \in reports
                 PROVE  /\ Updated(w, r).id = r.id
                        /\ r.id = found[w].id => Updated(w, r).corrected = TRUE
      OBVIOUS
    <3>1. r \in Report
      BY <1>1
    <3>2. found[w].corrected \in BOOLEAN /\ r.corrected \in BOOLEAN
      BY <1>1, <1>3, <3>1 DEF Report
    <3>3. r.id = found[w].id /\ found[w].corrected => r.corrected
      BY <1>3 DEF IInv, FoundInv
    <3> QED
      BY <1>1, <3>1, <3>2, <3>3, UpdatedType
  <2>3. versions' = versions \cup
          {[id |-> Id(w), report |-> found[w].id,
            number |-> 1, rows |-> events[w]]}
    BY <1>1, <1>3 DEF Commit, VersionsOf
  <2> QED
    BY <1>3, <2>1, <2>2, <2>3
<1> QED
  BY <1>2, <1>3

LEMMA NumberStep == IInv /\ [Next]_vars => NumberInv'
<1> SUFFICES ASSUME IInv, [Next]_vars
             PROVE  NumberInv'
  OBVIOUS
<1>1. ASSUME NEW w \in Writers, Commit(w)
      PROVE  NumberInv'
  <2>1. CASE found[w] = None
    BY <1>1, <2>1, CommitEffect DEF IInv, NumberInv
  <2>2. CASE found[w] # None
    <3>1. versions' = versions \cup
            {[id |-> Id(w), report |-> found[w].id,
              number |-> 1, rows |-> events[w]]}
      BY <1>1, <2>2, CommitEffect
    <3> QED
      BY <3>1 DEF IInv, NumberInv
  <2> QED
    BY <2>1, <2>2
<1>2. CASE UNCHANGED tables
  BY <1>2 DEF IInv, NumberInv, tables
<1> QED
  BY <1>1, <1>2, TablesChange

LEMMA IdStep == IInv /\ [Next]_vars => IdInv'
<1> SUFFICES ASSUME IInv, [Next]_vars
             PROVE  IdInv'
  OBVIOUS
<1> USE DEF IInv, Goto
<1>1. \A r \in reports : r.id \in Ids /\ r.id[1] \in Writers /\ r.id[2] \in Nat
  BY DEF TypeOK, Report, Ids
<1>2. turn \in [Writers -> Nat] /\ DOMAIN pc = Writers
  BY ReportsAssumption DEF TypeOK
<1>3. ASSUME NEW w \in Writers, Commit(w)
      PROVE  IdInv'
  <2>1. /\ pc[w] = "commit"
        /\ pc' = [pc EXCEPT ![w] = "idle"]
        /\ turn' = turn
        /\ Id(w)[1] = w /\ Id(w)[2] = turn[w]
    BY <1>3, IdType DEF Commit
  <2>2. CASE found[w] = None
    <3>1. /\ reports' = reports \cup
               {[id |-> Id(w), plays |-> events[w], corrected |-> FALSE]}
          /\ versions' = versions
      BY <1>3, <2>2, CommitEffect
    <3>2. \A r \in reports : r.id # Id(w)
      BY <1>1, <1>2, <2>1 DEF IdInv
    <3>3. ASSUME NEW q \in reports', NEW r \in reports', q.id = r.id
          PROVE  q.corrected = r.corrected
      <4> DEFINE first ==
            [id |-> Id(w), plays |-> events[w], corrected |-> FALSE]
      <4>1. first.id = Id(w)
        OBVIOUS
      <4>2. reports' = reports \cup {first}
        BY <3>1
      <4> HIDE DEF first
      <4> QED
        BY <3>2, <3>3, <4>1, <4>2 DEF IdInv
    <3> QED
      BY <1>1, <1>2, <2>1, <3>1, <3>3 DEF IdInv
  <2>3. CASE found[w] # None
    <3>1. /\ \A r \in reports : \E s \in reports' : s.id = r.id
          /\ \A s \in reports' : \E r \in reports :
               /\ s.id = r.id
               /\ IF r.id = found[w].id THEN s.corrected = TRUE
                  ELSE s.corrected = r.corrected
          /\ versions' = versions \cup
               {[id |-> Id(w), report |-> found[w].id,
                 number |-> 1, rows |-> events[w]]}
      BY <1>3, <2>3, CommitEffect
    <3>2. \E r \in reports : r.id = found[w].id
      BY <2>3 DEF FoundInv
    <3>3. \A v \in versions' : \E s \in reports' : s.id = v.report
      BY <3>1, <3>2 DEF IdInv
    <3>4. ASSUME NEW q \in reports', NEW s \in reports', q.id = s.id
          PROVE  q.corrected = s.corrected
      <4>1. PICK r \in reports :
              /\ q.id = r.id
              /\ IF r.id = found[w].id THEN q.corrected = TRUE
                 ELSE q.corrected = r.corrected
        BY <3>1
      <4>2. PICK t \in reports :
              /\ s.id = t.id
              /\ IF t.id = found[w].id THEN s.corrected = TRUE
                 ELSE s.corrected = t.corrected
        BY <3>1
      <4>3. r.corrected = t.corrected
        BY <3>4, <4>1, <4>2 DEF IdInv
      <4> QED
        BY <3>4, <4>1, <4>2, <4>3
    <3> QED
      BY <1>1, <1>2, <2>1, <3>1, <3>3, <3>4 DEF IdInv
  <2> QED
    BY <2>2, <2>3
<1>4. ASSUME NEW w \in Writers, Begin(w)
      PROVE  IdInv'
  BY <1>1, <1>2, <1>4 DEF Begin, IdInv, tables
<1>5. ASSUME UNCHANGED <<reports, versions, turn>>,
             \A w \in Writers : pc'[w] # "idle" => pc[w] # "idle"
      PROVE  IdInv'
  BY <1>1, <1>5 DEF IdInv
<1>6. CASE Play
  BY <1>5, <1>6 DEF Play, tables
<1>7. ASSUME NEW w \in Writers,
             Fetch(w) \/ Select(w) \/ Insert(w) \/ ReadLatest(w)
             \/ Update(w) \/ Fail(w)
      PROVE  IdInv'
  BY <1>2, <1>5, <1>7
     DEF Fetch, Select, Insert, ReadLatest, Update, Fail, tables
<1>8. CASE Restart
  BY <1>5, <1>8 DEF Restart, tables
<1>9. CASE UNCHANGED vars
  BY <1>5, <1>9 DEF vars
<1> QED
  BY <1>3, <1>4, <1>6, <1>7, <1>8, <1>9 DEF Next, Serve, Done

LEMMA FoundStep == IInv /\ [Next]_vars => FoundInv'
<1> SUFFICES ASSUME IInv, [Next]_vars
             PROVE  FoundInv'
  OBVIOUS
<1> USE DEF IInv
<1>1. ASSUME NEW w \in Writers, Commit(w)
      PROVE  FoundInv'
  <2>1. found' = found
    BY <1>1 DEF Commit
  <2>2. \A u \in Writers, r \in reports :
          found[u] # None => r.id \in Ids /\ found[u].corrected \in BOOLEAN
    BY DEF TypeOK, Report
  <2>3. \A r \in reports : \E s \in reports' : s.id = r.id
    BY <1>1, CommitEffect
  <2>4. CASE found[w] = None
    <3>1. reports' = reports \cup
            {[id |-> Id(w), plays |-> events[w], corrected |-> FALSE]}
      BY <1>1, <2>4, CommitEffect
    <3>2. \A r \in reports : r.id # Id(w)
      BY <1>1, IdType DEF IdInv, Commit, TypeOK
    <3> QED
      BY <2>1, <3>1, <3>2 DEF FoundInv
  <2>5. CASE found[w] # None
    <3>1. \A s \in reports' : \E r \in reports :
            /\ s.id = r.id
            /\ IF r.id = found[w].id THEN s.corrected = TRUE
               ELSE s.corrected = r.corrected
      BY <1>1, <2>5, CommitEffect
    <3> QED
      BY <2>1, <2>3, <3>1 DEF FoundInv
  <2> QED
    BY <2>4, <2>5
<1>2. ASSUME NEW w \in Writers, Select(w)
      PROVE  FoundInv'
  <2>1. PICK report \in reports \cup {None} :
          /\ Found(w, report)
          /\ found' = [found EXCEPT ![w] = report]
    BY <1>2 DEF Select
  <2>2. reports' = reports
    BY <1>2 DEF Select, tables
  <2> QED
    BY <2>1, <2>2 DEF FoundInv, IdInv, TypeOK
<1>3. ASSUME UNCHANGED <<reports, found>>
      PROVE  FoundInv'
  BY <1>3 DEF FoundInv
<1> QED
  BY <1>1, <1>2, <1>3
     DEF Next, Serve, Done, vars, tables, Play, Begin, Fetch, Insert,
         ReadLatest, Update, Fail, Restart

LEMMA CorrectedStep == IInv /\ [Next]_vars => CorrectedIffVersioned'
<1> SUFFICES ASSUME IInv, [Next]_vars
             PROVE  CorrectedIffVersioned'
  OBVIOUS
<1> USE DEF IInv
<1>1. ASSUME NEW w \in Writers, Commit(w)
      PROVE  CorrectedIffVersioned'
  <2>1. CASE found[w] = None
    <3>1. /\ reports' = reports \cup
               {[id |-> Id(w), plays |-> events[w], corrected |-> FALSE]}
          /\ versions' = versions
      BY <1>1, <2>1, CommitEffect
    <3>2. \A r \in reports : r.id # Id(w)
      BY <1>1, IdType DEF IdInv, Commit, TypeOK
    <3>3. ~\E v \in versions : v.report = Id(w)
      BY <3>2 DEF IdInv
    <3> QED
      BY <3>1, <3>3 DEF CorrectedIffVersioned
  <2>2. CASE found[w] # None
    <3>1. /\ \A s \in reports' : \E r \in reports :
               /\ s.id = r.id
               /\ IF r.id = found[w].id THEN s.corrected = TRUE
                  ELSE s.corrected = r.corrected
          /\ versions' = versions \cup
               {[id |-> Id(w), report |-> found[w].id,
                 number |-> 1, rows |-> events[w]]}
      BY <1>1, <2>2, CommitEffect
    <3>2. ASSUME NEW s \in reports'
          PROVE  s.corrected <=> \E v \in versions' : v.report = s.id
      <4>1. PICK r \in reports :
              /\ s.id = r.id
              /\ IF r.id = found[w].id THEN s.corrected = TRUE
                 ELSE s.corrected = r.corrected
        BY <3>1
      <4>2. (\E v \in versions' : v.report = s.id)
              <=> \/ \E v \in versions : v.report = r.id
                  \/ r.id = found[w].id
        <5> DEFINE archived ==
              [id |-> Id(w), report |-> found[w].id,
               number |-> 1, rows |-> events[w]]
        <5>1. archived.report = found[w].id
          OBVIOUS
        <5>2. versions' = versions \cup {archived}
          BY <3>1
        <5> HIDE DEF archived
        <5> QED
          BY <4>1, <5>1, <5>2
      <4>3. r.corrected <=> \E v \in versions : v.report = r.id
        BY DEF CorrectedIffVersioned
      <4> QED
        BY <4>1, <4>2, <4>3
    <3> QED
      BY <3>2 DEF CorrectedIffVersioned
  <2> QED
    BY <2>1, <2>2
<1>2. CASE UNCHANGED tables
  BY <1>2 DEF CorrectedIffVersioned, tables
<1> QED
  BY <1>1, <1>2, TablesChange

LEMMA GenerateStep == IInv /\ [Next]_vars => GenerateBacked'
<1> SUFFICES ASSUME IInv, [Next]_vars
             PROVE  GenerateBacked'
  OBVIOUS
<1> USE DEF IInv
<1>1. ASSUME NEW w \in Writers, Commit(w)
      PROVE  GenerateBacked'
  <2>1. /\ \A r \in reports : \E s \in reports' : s.id = r.id
        /\ versions \subseteq versions'
    BY <1>1, CommitEffect
  <2>2. \A e \in exports' \ exports :
          /\ e.turn = Id(w)
          /\ e.version = version[w]
          /\ e.plays = events[w]
    BY <1>1 DEF Commit, Exported
  <2>3. version[w] = IF found[w] = None THEN 1 ELSE 2
    BY <1>1 DEF Commit, TurnInv
  <2> DEFINE first == [id |-> Id(w), plays |-> events[w], corrected |-> FALSE]
             archived == [id |-> Id(w), report |-> found[w].id,
                          number |-> 1, rows |-> events[w]]
  <2>4. found[w] = None => \E r \in reports' : r.id = Id(w)
    <3>1. found[w] = None => reports' = reports \cup {first}
      BY <1>1, CommitEffect
    <3>2. first.id = Id(w)
      OBVIOUS
    <3> HIDE DEF first
    <3> QED
      BY <3>1, <3>2
  <2>5. found[w] # None =>
          \E v \in versions' : v.id = Id(w) /\ v.number = 1 /\ v.rows = events[w]
    <3>1. found[w] # None => archived \in versions'
      BY <1>1, CommitEffect
    <3>2. archived.id = Id(w) /\ archived.number = 1 /\ archived.rows = events[w]
      OBVIOUS
    <3> QED
      BY <3>1, <3>2
  <2> QED
    BY <2>1, <2>2, <2>3, <2>4, <2>5 DEF GenerateBacked
<1>2. ASSUME NEW w \in Writers, Fail(w)
      PROVE  GenerateBacked'
  <2>1. \A e \in exports' \ exports : Kind[e.turn[1]] = "download"
    BY <1>2, IdType DEF Fail, Exported, AnswersOnFailure
  <2>2. UNCHANGED tables
    BY <1>2 DEF Fail
  <2> QED
    BY <2>1, <2>2 DEF GenerateBacked, tables
<1>3. ASSUME UNCHANGED <<reports, versions, exports>>
      PROVE  GenerateBacked'
  BY <1>3 DEF GenerateBacked
<1> QED
  BY <1>1, <1>2, <1>3
     DEF Next, Serve, Done, vars, tables, Play, Begin, Fetch, Select, Insert,
         ReadLatest, Update, Restart

LEMMA InvStep == IInv /\ [Next]_vars => IInv'
BY TypeStep, TurnStep, NumberStep, IdStep, FoundStep, CorrectedStep, GenerateStep
   DEF IInv

LEMMA Invariance == Spec => []IInv
BY InvInit, InvStep, PTL DEF Spec

-----------------------------------------------------------------------------
\* Every variable keeps its type.
THEOREM TypeCorrect == Spec => []TypeOK
<1>1. IInv => TypeOK
  BY DEF IInv
<1> QED
  BY Invariance, <1>1, PTL

\* A report is marked as corrected exactly when versions of it are archived,
\* for any number of writers, however they meet, fail or are cut off.
THEOREM CorrectionsAgree == Spec => []CorrectedIffVersioned
<1>1. IInv => CorrectedIffVersioned
  BY DEF IInv
<1> QED
  BY Invariance, <1>1, PTL

\* What generate has answered, it has stored.
THEOREM AnswersAreBacked == Spec => []GenerateBacked
<1>1. IInv => GenerateBacked
  BY DEF IInv
<1> QED
  BY Invariance, <1>1, PTL

\* The numbering stops: however often a report is generated, every version is
\* archived as number 1 - csv_exporter's "incremented version_number" is
\* incremented once.
THEOREM NumberingStops == Spec => []NumberInv
<1>1. IInv => NumberInv
  BY DEF IInv
<1> QED
  BY Invariance, <1>1, PTL
=============================================================================
