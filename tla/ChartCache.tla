----------------------------- MODULE ChartCache -----------------------------
(***************************************************************************)
(* The cache of the ARIA singles chart: an ingestion asks the site for the *)
(* chart of a week or for the current one, awaits the answer, parses it    *)
(* and writes the cache, keyed by a date; ingestions overlap.              *)
(***************************************************************************)
EXTENDS Integers

CONSTANTS
  Ingests,    \* requests that ingest a chart
  ChartDays   \* the days explored, 1..ChartDays

ASSUME ChartAssumption == ChartDays \in Nat \ {0}

Days == 1..ChartDays
Current == 0  \* the page without a date

VARIABLES
  today,   \* date.today()
  ingest,  \* what each request is at, and the page it has asked for
  cache    \* _chart_cache: from dates to charts, each named by its page

chartVars == <<today, ingest, cache>>

Pages == Days \cup {Current}
Waiting(d) == [pc |-> "asked", page |-> d]
NoIngest == [pc |-> "idle"]
EndedIngest == [pc |-> "done"]

ChartInit ==
  /\ today = 1
  /\ ingest = [r \in Ingests |-> NoIngest]
  /\ cache = <<>>

ChartMidnight ==
  /\ today < ChartDays
  /\ today' = today + 1
  /\ UNCHANGED <<ingest, cache>>

\* The site is asked for the chart of a week-ending date, or the current one.
Ask(r, d) ==
  /\ ingest[r].pc = "idle"
  /\ ingest' = [ingest EXCEPT ![r] = Waiting(d)]
  /\ UNCHANGED <<today, cache>>

Put(date, chart) == [d \in DOMAIN cache \cup {date} |-> IF d = date THEN chart ELSE cache[d]]

\* The date asked for, else the day on which the current chart is parsed.
ChartDate(page) == IF page = Current THEN today ELSE page

\* The page is read, parsed, and put into the cache without a pause.
Cache(r) ==
  /\ ingest[r].pc = "asked"
  /\ LET page == ingest[r].page IN cache' = Put(ChartDate(page), page)
  /\ ingest' = [ingest EXCEPT ![r] = EndedIngest]
  /\ UNCHANGED today

\* Another status, unknown markup, a chart without entries (422) or no
\* answer (503).
IngestFails(r) ==
  /\ ingest[r].pc = "asked"
  /\ ingest' = [ingest EXCEPT ![r] = EndedIngest]
  /\ UNCHANGED <<today, cache>>

ChartRestart ==
  /\ cache # <<>>
  /\ cache' = <<>>
  /\ ingest' = [r \in Ingests |-> IF ingest[r].pc = "asked" THEN EndedIngest ELSE ingest[r]]
  /\ UNCHANGED today

\* The bound is reached and every request was answered.
ChartsDone ==
  /\ today = ChartDays
  /\ \A r \in Ingests : ingest[r].pc = "done"
  /\ UNCHANGED chartVars

ChartNext ==
  \/ ChartMidnight
  \/ \E r \in Ingests :
       \/ \E d \in Pages : Ask(r, d)
       \/ Cache(r)
       \/ IngestFails(r)
  \/ ChartRestart
  \/ ChartsDone

ChartSpec == ChartInit /\ [][ChartNext]_chartVars

-----------------------------------------------------------------------------
ChartTypeOK ==
  /\ today \in Days
  /\ ingest \in [Ingests -> {NoIngest, EndedIngest} \cup {Waiting(d) : d \in Pages}]
  /\ DOMAIN cache \subseteq Days
  /\ \A d \in DOMAIN cache : cache[d] \in Pages
=============================================================================
