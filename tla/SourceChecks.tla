---------------------------- MODULE SourceChecks ----------------------------
(***************************************************************************)
(* Validation of a source on an operator's request: the adapter asks the   *)
(* source, judges the answer and stamps the result, which is committed     *)
(* some time later; requests overlap.  The summary reads the latest result *)
(* and the number of results by two statements.                            *)
(***************************************************************************)
EXTENDS Integers, FiniteSets

CONSTANTS
  Checks,     \* requests that validate the source
  Readers,    \* requests for the summary
  MaxCheckTime \* bound on the clock

ASSUME CheckAssumption == MaxCheckTime \in Nat

\* What a source may show: its track, nothing playing (204), an answer of
\* another form, or no answer; and which of them the iHeart adapter accepts.
Shows == {"track", "silence", "unknown", "nothing"}
Verdict(show) == IF show \in {"track", "silence"} THEN "validated" ELSE "failed"

VARIABLES
  instant, \* datetime.now(), in ticks; two readings differ
  shows,   \* what the source shows now
  check,   \* what each validation is at
  results, \* source_validations, committed
  order,   \* order[c]: how many results were committed before c's
  reader   \* what each summary is at

checkVars == <<instant, shows, check, results, order, reader>>

NotAsked == [pc |-> "idle"]

CheckInit ==
  /\ instant = 0
  /\ shows \in Shows
  /\ check = [c \in Checks |-> NotAsked]
  /\ results = {}
  /\ order = [c \in Checks |-> 0]
  /\ reader = [r \in Readers |-> NotAsked]

SourceChanges ==
  /\ instant < MaxCheckTime
  /\ instant' = instant + 1
  /\ \E show \in Shows \ {shows} : shows' = show
  /\ UNCHANGED <<check, results, order, reader>>

\* POST /sources/{id}/validate: the source is known and has an adapter (404
\* and 422 otherwise); its answer is awaited.
AskSource(c) ==
  /\ check[c].pc = "idle"
  /\ check' = [check EXCEPT ![c] = [pc |-> "asked"]]
  /\ UNCHANGED <<instant, shows, results, order, reader>>

\* The ValidationResult of what the source shows now.
ResultNow(c) == [by |-> c, at |-> instant, verdict |-> Verdict(shows)]

\* The adapter has its answer, or a network error, and returns.
Judge(c) ==
  /\ check[c].pc = "asked"
  /\ instant < MaxCheckTime
  /\ instant' = instant + 1
  /\ check' = [check EXCEPT ![c] = [pc |-> "judged", result |-> ResultNow(c)]]
  /\ UNCHANGED <<shows, results, order, reader>>

\* The result is flushed and the session committed by get_db.
SaveResult(c) ==
  /\ check[c].pc = "judged"
  /\ results' = results \cup {check[c].result}
  /\ order' = [order EXCEPT ![c] = Cardinality(results)]
  /\ check' = [check EXCEPT ![c] = [pc |-> "done"]]
  /\ UNCHANGED <<instant, shows, reader>>

SaveFails(c) ==
  /\ check[c].pc = "judged"
  /\ check' = [check EXCEPT ![c] = [pc |-> "done"]]
  /\ UNCHANGED <<instant, shows, results, order, reader>>

\* Mutation: the latest result is the one that was committed last.
LatestCommitted ==
  {v \in results : \A w \in results : order[w.by] <= order[v.by]}

\* ORDER BY validated_at DESC LIMIT 1
LatestResult == {v \in results : \A w \in results : w.at <= v.at}

ReadLatest(r) ==
  /\ reader[r].pc = "idle"
  /\ reader' = [reader EXCEPT ![r] = [pc |-> "counting", latest |-> LatestResult]]
  /\ UNCHANGED <<instant, shows, check, results, order>>

\* The other results, in a second statement, which sees later commits.
ReadCount(r) ==
  /\ reader[r].pc = "counting"
  /\ reader' = [reader EXCEPT ![r] =
       [pc |-> "told", latest |-> @.latest, total |-> Cardinality(results)]]
  /\ UNCHANGED <<instant, shows, check, results, order>>

\* The clock is at its bound, or every request was answered.
ChecksDone == instant = MaxCheckTime /\ UNCHANGED checkVars

CheckNext ==
  \/ SourceChanges
  \/ \E c \in Checks : AskSource(c) \/ Judge(c) \/ SaveResult(c) \/ SaveFails(c)
  \/ \E r \in Readers : ReadLatest(r) \/ ReadCount(r)
  \/ ChecksDone

CheckSpec == CheckInit /\ [][CheckNext]_checkVars

-----------------------------------------------------------------------------
ChecksTypeOK ==
  /\ instant \in 0..MaxCheckTime
  /\ shows \in Shows
  /\ \A c \in Checks : check[c].pc \in {"idle", "asked", "judged", "done"}
  /\ \A v \in results : v.by \in Checks /\ v.at \in 0..MaxCheckTime
  /\ \A r \in Readers : reader[r].pc \in {"idle", "counting", "told"}

\* However the commits of overlapping validations are ordered, what operators
\* are told never goes back: a summary that begins after another one tells of
\* a look at the source that is as late or later, though an older look may
\* have been committed in between.
SummariesNeverGoBack ==
  [][\A r, q \in Readers :
       (ReadLatest(r) /\ reader[q].pc # "idle") =>
         \A v \in reader[q].latest : \E w \in reader'[r].latest : v.at <= w.at]_checkVars
=============================================================================
