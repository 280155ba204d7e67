# TLA+ verification of RMIAS (prof_radio_mind)

RMIAS is a FastAPI service with an APScheduler in the same event loop. Jobs
fetch what radio stations play, keep the raw bytes on disk, store runs and plays
in PostgreSQL; the API builds reports, a review queue, charts and playlists from
them. This directory holds TLA+ modules of its stateful parts, TLC
configurations that check them on small instances, and TLAPS proofs of the
theorems that matter most. Paths are relative to `src/`; "scheduler" is
`app/infrastructure/scheduler/scheduler.py`.

- [1 Inventory](#1-inventory) - the parts, their state, what makes them hard
- [2 Modules](#2-modules) - which module is which code
- [3 Runs](#3-runs) - what is checked, bounds, fairness
- [4 Findings](#4-findings) - where code and its own documents disagree
- [5 Proofs](#5-proofs)
- [6 Not modelled](#6-not-modelled) and [7 Plan](#7-plan)

## 1 Inventory

| Part | State | Operations | Hard because | Correct means |
|---|---|---|---|---|
| Play ingestion: scheduler `_persist_result`, repositories, unique index | open sessions; `play_events`, `collector_runs`, `raw_payloads`, `no_track_events` | a poll every 5 or 15 minutes and an hourly batch each store one result in one transaction | checks and insert are separate awaited statements; jobs and a command line tool overlap; any error rolls all back silently | a play has one row; a recorded run is recorded with all it collected; replays are logged |
| Collector lifecycle: `collectors/base.py` | the run, its payload file | fetch, write file, parse | each step can fail; a run may span midnight; a crash leaves a file without a row | success only with a stored payload; one failure does not stop others |
| Prune tool: `tools/prune_raw_payloads.py` | directories and files | unlink old files, rmdir empty directories | a process of its own beside the writers | what is due stays, what is old goes |
| Collectors and parsers: Heart, BBC, Online Radio Box, chart, diaries | none (per run) | bytes to events | British times of day put to a UTC date, items without a time or an id, lists longer than the window of the duplicate check, feeds of one station that share that window | a time is wrong only by the zone and the date; a play has two rows only where its source gives no id |
| Nightly cycle: scheduler 218-289, 378-477, the diary jobs | triggers in memory | diaries at 09:00 and 16:00, reconcile at 17:00, report at 18:00 UTC | two local days and a UTC day, batches that store a play after its hour, misfires, jobs lost with the process | a report has what the jobs that ended were to bring; a reconciliation reads all of its day that is stored by then |
| Review queue: `routes/review.py` | `review_items` | resolve, dismiss, escalate; filed by the reconciliation | check, then write, in READ COMMITTED | closed once, refusals honest |
| Daily reports: `routes/reports.py`, `daily_report_repo.py` | `daily_reports`, `report_versions` | generate, download, nightly job | look-then-insert; plays read in one session, report written in another; swallowed failures | one report a day, versions count up, history kept |
| Capital monitor: scheduler 159-215 | a counter, the job's pause | count failures, pause at five | restart forgets both; a run fails by returning or by raising | paused after five in a row, and only then |
| Rate limiter: `core/rate_limiter.py` | buckets of time stamps | `is_allowed` | runs in a thread pool without a lock | at most `max_requests` in any window |
| Webhooks: `application/webhooks/service.py` | subscriptions in memory | deliver with three attempts | duplicates after timeouts; unsubscribe while waiting | at most three attempts, `fire_event` returns |
| Backfill, CSV import | plays, review items | parse, classify, store all or none | rows refer to runs; rows that repeat rejected rows | all or nothing, every song once |
| Charts cache: `routes/charts.py` | a dictionary of dates | ingest, read | overlapping fetches, weeks in any order, midnight during one | what is called the latest is the last one ingested (it is not, section 4) |
| Playlist, rotation | recommendations in memory | analyse, approve | repeated analyses, a look back of any length | a song is added once, by a week's spins (neither holds, section 4) |
| Source validation | `source_validations` (append only) | save, latest | commit order is not the order of the looks | what is told never goes back |
| Seeder: `application/seeder.py` | `stations`, `sources` | look, then insert, at every start | two starts at once, a late database | all seeds there, no start waits for ever |
| Proof of play, ranking, confidence, fingerprints | none | queries and pure functions | rounding | the definition |
| Proxy pool: `http/client.py` | an index | `next_url` | - | round robin |

How they interact. The scheduler's jobs call a collector's `run()` and hand the
`CollectorResult` to `_persist_result`. Reports, reconciliation, rankings and
playlists read `play_events`, which the jobs and (in intent) the backfill write.
The reconciliation files review items, operators close them. The only callbacks
are APScheduler's timers; shared memory is one event loop's (the rate limiter's
thread pool excepted); the database is shared between processes (services that
start together and the command line tools).

## 2 Modules

| Module | Code | Uses |
|---|---|---|
| `PlayLog` | abstract: what storing a result promises | - |
| `PlayIngestion` | `_persist_result` and its repositories | `PlayLog` by refinement |
| `CollectorRuns` | `BaseCollector.run`, the batch loop, the prune tool | - |
| `ReviewQueue` | `routes/review.py`, `review_item_repo.update`, `get_db` | - |
| `DailyReports` | `daily_report_repo.upsert` and its three callers | - |
| `NightlyCycle` | the cron jobs: diaries, reconciliation, reports, triggers | - |
| `FeedPolls` | the parsers and polls of Heart, BBC, Online Radio Box, top songs | - |
| `CapitalMonitor` | `job_collect_capital_now_playing`, the failure counter and the pause | - |
| `RateLimiter` | `InMemoryRateLimiter.is_allowed` in the thread pool | - |
| `Webhooks` | `WebhookStore`, `fire_event`, `_deliver` and the routes | - |
| `Imports` | `routes/backfill.py`, `routes/imports.py`, the CSV importers | - |
| `ChartCache` | `routes/charts.py`, the ARIA collector | - |
| `PlaylistDesk` | `rotation_engine.py`, `routes/playlist.py` | - |
| `SourceChecks` | `routes/sources.py`, the validation adapters and repository | - |
| `Seeder` | `seed_database` and the lifespan that calls it | - |
| `ServerParts` | the process: the nine modules from `FeedPolls` to `Seeder` | those nine |
| `...Proofs` | the theorems about the module named | the module named |
| `ServicePartsProofs` | the theorems about `CapitalMonitor`, `Seeder`, `Webhooks`, `ChartCache`, `SourceChecks`, `Imports` | those six |
| `ServerPartsProofs` | the theorems about `PlaylistDesk`, `FeedPolls` and the whole process | `ServerParts`, the two modules of proofs of its other parts |
| `MC...` | constants for TLC | the module named |

The database in all of them: a transaction runs at READ COMMITTED (the engine
sets no isolation level), so a SELECT sees what is committed and what its own
transaction flushed; each awaited statement is a step; an INSERT waits for
another open transaction with the same unique key, an UPDATE for one that wrote
the same row; a failed statement rolls the session back; `Restart` ends every
handler and rolls every transaction back. With `max_instances = 1`
(APScheduler's default) a job in its handler is not started again.

**PlayIngestion.** One station: every duplicate check and the index are keyed by
`station_id`. `rows` and `runs` are the committed tables; per job `pc` is the
statement it is at, `queue` the events the loop has left, `staged` what its
session flushed. `Collect` is `collector.run()` with every shape of result;
`SaveRun`, `CheckSourceEventId`, `CheckFingerprint`, `Insert`, `InsertConflict`,
`PersistFails` and `Commit` are the statements of `_persist_result`. An event
keeps the broadcast play it was read from (not a column) so that properties can
say "the same play"; `stamp` separates two clock readings in one tick, which in
the code differ by microseconds. `Tick` is the clock and the broadcast.

**PlayLog.** The log grows by whole runs, and a logged play is never logged
again. The mapping: `log` is the run and play of each committed row, `recorded`
the ids of the committed runs.

**CollectorRuns.** `Fetch`, `MakeDirectory`, `OpenFile`, `WriteFile`, `Parse`
and `Persist` follow `run()`, `_write` and the batch job; `Escape` is an OSError
of the write, which no try block of `run()` holds. `Persist` is
PlayIngestion's transaction in one step, stored or not. The tool is
`StartPrune` (cutoff), `Unlink`, `ListDirectories`, `RemoveIfEmpty`,
`EndPrune`. The year and month directories are left out: what happens to a day
directory happens to them. Time is in days; `Midnight` assumes that writing one
payload (kilobytes) takes less than a day.

**ReviewQueue.** One item. `Get` is the handler up to its 404 and 409; `Reread`
the second SELECT, in `update()` - nothing holds the first row, so the identity
map has dropped it; `Flush` the UPDATE, which has only the columns that differ
from that read; `Commit` and `Fail` are `get_db`. `Answer` is free to come
before or after the commit: it depends on the FastAPI release, and
`pyproject.toml` (`>=0.115.0`) allows both orders. The free-text notes are left
out.

**DailyReports.** One station and day. `Fetch` is the first session, `Select`
to `Commit` the second. A ranking is known by the number of plays in it.
`Select` takes any report of the day (`limit(1)`, no order). `Update` waits only
if there are columns to update. `Fail` is what each caller makes of a failure:
the job logs it, generate answers 503, download passes and sends its file.

**NightlyCycle.** Time is in hours, a play is one hour of one station. `Tick`
fires the triggers of the next hour, and in it the polled station's play is stored
(`Poll`) or not (`PollMisses`, a fault); `Batch` stores at any moment what of the hours
before is missing, as far back as its list goes (`Behind`), so that a play may
come after a job that would have read it. `came` keeps when a play was stored.
`Start` and `Misfire` are the executor with its grace of an hour, `Stall` an
event loop that gets to nothing for up to two hours, `Crash`, `DownTick` and
`Boot` a process that loses its triggers and jobs. `CollectDiary` stores the
local day of the job's date as far as it has come; `Inspect` and
`CommitReconciliation` are the reconciliation's loop over stations and its
commit, `MakeReport`, `ReportFails` and `EndReports` the report job's. How a
report is written is in `DailyReports`, how a row is stored in `PlayIngestion`.

**FeedPolls.** Each kind of source that a job polls and that is not iHeart's
now-playing feed: `ParsePage` (Heart, with or without ids), `ParseSegments`
(BBC), `ParseLive` (Online Radio Box), `ParseChart` (top songs). A poll is one
step - fetch, parse, and `AddEvent` for each event in order: id check,
fingerprint check against the clock, index, and the rollback of all at the first
conflict. The broadcast items lack names, times (`Untimed`) or ids (`Unnumbered`) as
their source leaves them out; speech is aired too. Heart's page has a British
clock: `ahead` is what it is before UTC, none or the hour of summer, and
`TimeOnPage` puts its time of day to the UTC date of the poll, as
`_parse_time_element` does. The BBC's segment is any one of the listed music,
since the flag may be on any, and is dated now when it has no start. The chart is
stored for KIIS-FM's station, whose plays two other jobs store: `OtherFeed` is
one of those plays, so that the window works across the feeds.
`Aired`, `Music`, `Listed` and `Segments` are what a source shows at a tick;
`NewestFirst` is the order it lists them in. `PageAssumption` says of the
station what the parser takes for granted of it: what the page lists with a time
of day is of today or of yesterday. It cannot be weaker: of a song that was on
air two days ago the time would be wrong by two days.

**CapitalMonitor.** `PollFailed` and `PollRaises` are the two ways a run fails;
`recent` and `lost` (the last outcomes, the failures over all processes) are
what the properties compare the counter with, not variables of the code.

**RateLimiter.** One client. `Arrive` reads the clock; `FilterBucket`,
`StoreBucket`, `Refuse`/`PassLimit` and `AppendStamp` are the statements of
`is_allowed`, in threads, without a lock. `raced` records that two calls met.

**Webhooks.** `FireEvent` starts one delivery per active subscriber; `Post` ends
an attempt in one of four ways (the subscriber may take the event and its answer
be lost), `Retry` is the pause's end. `fire_event` has no caller in the
repository; that something calls it is assumed.

**Imports.** A file is its layout and its rows, a row its song and the form of
its time. Reading classifies all rows; the backfill then saves row by row,
commits with its review item or fails as a whole; the manual import only answers.

**ChartCache.** `Ask` and the answer (`Cache`, `IngestFails`) are two steps, as
an await separates them; requests overlap. A chart is named by the page it was
read from; `Cache` has the parser's date and the write, between which nothing
is awaited.

**PlaylistDesk.** `Analyse` counts the plays of the last days (`Spins`), puts
them to a tier (`Tier`) and stores recommendations to add, since the route passes
no current tiers; `Approve` changes nothing but the recommendation. The order of
the answer is left out.

**SourceChecks.** A look at the source and the insert of its result are two
steps; validations and summaries overlap.

**Seeder.** `LookUp`, `InsertSeed`, `SeedFound`, `SeedConflict` and
`CommitSeeds` are the statements of one start's transaction; two processes start
on one database. `Unseeded` is the lifespan's `except`: the service goes on.

**ServerParts.** The nine parts run in one process and share no state: no step
of one reads or writes what another has. Their product says nothing that each
does not say alone, so `part` chooses one that moves while the others rest;
the properties are those of the parts, over the joint state.

## 3 Runs

`tlc -config <name>.cfg <module>`. "Violation" runs check one statement of the
repository's own documents and find it false of the code (section 4).

| Run | Module | Shows |
|---|---|---|
| `ingest_iheart` | MCPlayIngestion | KIIS-FM, Z100, WKSC: poll and batch overlapping. `EachPlayOnce`, `RunsAccounted`, `ImplementsPlayLog`, `TypeOK` hold, and `JobsFinish`: nobody waits on the index for ever |
| `collect_payloads` | MCCollectorRuns | `PayloadsBacked`, `TypeOK` under disk faults, midnight, restart, prune; `StaleFilesGo`, orphans included |
| `review_queue` | MCReviewQueue | `RefusalsHonest`, `RequestsEnd`, `TypeOK` |
| `report_writers` | MCDailyReports | `CorrectedIffVersioned`, `GenerateBacked`, `TurnsEnd`, `TypeOK` |
| `nightly_cycle` | MCNightlyCycle | `ReportsComplete`: a report lacks a play of a diary only if that diary's job did not end; `NoGapBetweenNights`: a reconciliation that ended has read all of the 24 hours up to 17:00 that was stored by 17:00, batches that come late included; `TriggersEnd`; `CycleTypeOK` |
| `server_parts` | MCServerParts | the nine parts: table below, and `ServerTypeOK` |
| `ingest_batch_replay`, `review_closed_twice`, `report_history`, `nightly_dedup`, `feed_visible`, `backfill_stores` | | violations |

`server_parts` by part:

| Part | Properties |
|---|---|
| feeds | `OffByZoneAndDay`, `SamePlayOneRow`, `ChartStoredDaily`, `RepollAddsOnlyRepeats` |
| limiter | `LimitHeld`, `RefusedOnlyWhenFull` |
| monitor | `PausedAfterThreshold`, `DeadPollsBounded`, `DeadSourcePaused` |
| webhooks | `EndedRightly`, `EventsReturn` |
| charts, desk | the types only: what their documents say of them the code does not keep (section 4) |
| imports | `BackfillAllOrNothing`, `EverySongOnce` |
| checks | `SummariesNeverGoBack` |
| seeder | `SeedsComplete`, `NoCircularWait`, `StartsEnd` |

Some say less than their names. `BackfillAllOrNothing`: as no
backfill's run is ever recorded, the status 200 is reached only by files without
an accepted row (`backfill_stores`), and what the invariant excludes is the other
half: rows or an item of a backfill that failed. `LimitHeld` is conditional on
calls that do not meet: where they do, two threads may put back buckets without
each other's stamps and the limit is exceeded. `PayloadsBacked` and
`StaleFilesGo` say nothing of the stations that a batch does not reach after an
error has left its loop; `CorrectedIffVersioned` is one report's, so that a
second report of the same day (section 4) does not break it; `GenerateBacked` is
of generate, not of download, which sends its file whatever was stored.
`NoGapBetweenNights` is of plays stored by 17:00: one of 16:50 that is stored at
17:10 is the next run's, and if that run begins at 18:00 its 25 hours do not
reach it.

Bounds, and why they suffice.
- Ingestion: three plays - song a, song b, song a again - with a window (1)
  shorter than the distance to the replay, so that a poll can miss a play, the
  batch can overlap it and a replay can come inside and outside the window; two
  runs per job, so that a run meets both a finished and an open transaction;
  the clock goes one or two past the last start. The
  proofs (section 5) lift the results from these bounds.
- Collector runs: one batch of two stations and two runs, hence a whole batch,
  or one that was cut off and a second; retention 1 day, days 0 to 2, so that a
  file is young, on the last day, and over. Jobs share nothing but the
  directories, and the tool is the second party there.
- Review queue: three requests, of which two are alike (one operator twice) and
  one differs; a fourth could only repeat one of them.
- Reports: three writers of one turn (create, correct, correct concurrently) over
  two plays.
- Nightly cycle: 44 hours, so that each job has run twice and a second night
  meets the first; one fault, of each kind and at any hour, and up to two hours
  down, more than the grace; a missed hour is brought in by a list that reaches
  an hour back. Section 5 has the properties for all bounds.
- Feeds: days of four ticks, six items, eight ticks: a page of three items on both
  sides of a midnight, a clock that is a tick ahead or none, a song played again
  inside and outside the window of one tick, with both plays on the page, speech,
  an item without a name, one without a time and two without an id. The chart is
  read on both days, beside the plays of the same broadcast.
- Limiter: two threads, four calls, a limit of two in a window of two ticks.
  Monitor: threshold three, two restarts. Webhooks: two subscribers, one event
  (deliveries of two events share nothing), the code's three attempts. Charts: two
  ingestions of any two pages and one midnight. Desk: four plays of two
  songs over two days, one analysis, and tiers from one and from three spins, so
  that a song is below, on and above a bound. Imports: one request and every file
  of up to two rows (requests share only the table, by rows of their own).
  Checks: two of each. Seeder: two processes, two seeds, two starts each.

Fairness. `FairSpec` (and `Spec` of ReviewQueue) assumes weak fairness of the
served statements of each handler: the event loop runs what is ready, and
PostgreSQL answers a statement that is not blocked. Nothing is assumed of
failures, restarts, the arrival of requests or the broadcast. `StaleFilesGo`
assumes that cron keeps running the tool, as its docstring recommends (weak
fairness of `Prune`), and that a tool which comes back to old files again and
again does not fail to unlink one every time (strong fairness of `Unlink`).
`TriggersEnd` assumes that the event loop gets to a job that is due or running
(`Work`). `DeadSourcePaused` assumes that the interval trigger keeps firing and a
poll ends (requests have timeouts), `EventsReturn` that posts and pauses end
(the pause is bounded in the code; the timeout of a post is httpx's, which bounds
each read and not their sum, so a subscriber that sends a byte now and then could
hold a post longer than the property allows for), `StartsEnd` that an unblocked statement is
answered.

Only runs that reach their bounds may stop, in an explicit step (`Finished`,
`Done`), or parts that need not go on (a paused job, a server that waits for
requests); deadlock is checked everywhere.

## 4 Findings

| Run | What the code does | What the repository says |
|---|---|---|
| `ingest_batch_replay` | the fingerprint window is measured from the clock, not from the event: an hour-old play the poll missed is skipped if the song ran in the last half hour | the batch "Catches short tracks missed by the 5-minute now-playing poll" |
| `review_closed_twice` | two requests read the open item before either commits; both closures are committed, the second over the first | a closed item is refused: `test_resolve_already_resolved_returns_409`, which has one request after the other |
| `report_history` | the new ranking is archived as the old version, the old one is lost | "The previous version is never deleted" |
| `nightly_dedup` | hours that a diary brings in later than the 25 hours before 17:00 are reconciled by no run, and the reports count them | the report job "Runs after nightly reconciliation (17:00 UTC) so dedup is current" |
| `feed_visible` | Heart's page is longer than the window of the duplicate check: an older song passes it, meets the index, and the poll's new songs are rolled back with it | the collector "ingests all track entries visible on the page" |
| `backfill_stores` | every accepted row names a collector run that is in no table, against a foreign key: the answer is 503 | "Bulk-import historical play events for a station from a CSV file" |

Found while modelling, without a run of their own:

- `update()` writes only the columns that differ from the row as it last reread it
  (`review_item_repo.py:66`): a resolve that reread when another resolve of the
  same operator was committed writes nothing but its time stamp, and a dismissal
  committed in between stays, where to resolve is to "Mark as reviewed"
  (`docs/OPERATIONS_RUNBOOK.md:240`).
- A play read from Heart's page on both sides of a UTC midnight has two rows, a
  day apart, where deduplication works "so tracks already captured in a prior
  poll are not double-counted" (`heart_radio.py:4-5`); and in summer a row is
  an hour late, or around midnight 23 hours early or 25 late, where the register
  says "`played_at` will be off by 1 hour during BST"
  (`docs/VALIDATION_REGISTER.md:389`). `SamePlayOneRow` and `OffByZoneAndDay` say
  that nothing else goes wrong.
- A chart song that another feed of the station stored in the last half hour has
  no row of that chart, where the collector "ingests the station's ranked
  most-played songs" (`iheart_top_songs.py:4`); `ChartStoredDaily` says that
  nothing else keeps it out.
- `/aria/latest` answers with the chart of the greatest date, where its docstring
  says "Return the most recently ingested ARIA Singles chart" (`charts.py:98`):
  an older week ingested after a newer one, and the week's chart after one
  under today's date, are not what is answered.
- An approved song is recommended for addition by the next analysis, as no current
  tiers are passed (`playlist.py:97`), where `ADD` is for a "Song not in playlist"
  (`playlist_recommendation.py:20`); and the spins of `lookback_days` days are
  put to the tiers of a week (`playlist.py:84`), where `C` is "10–19
  spins/week".
- A page without ids may show two plays of a song. The later one is held back as
  a repeat while the earlier is in the window, and stored by a later poll that
  shows the very same page once the window has passed: whether a replay is in the
  table depends on how often the page is polled (scheduler 105;
  `RepollAddsOnlyRepeats` says that nothing else is ever added by a repoll).
- Capital's id is the track's (`online_radio_box.py:86-93`): a track once stored is
  never logged again, where migration c4e2a1f9b8d7 says a later replay "is
  unaffected" (scheduler 89).
- One conflicting play rolls back its batch, run and payload included
  (scheduler 121).
- Pruning may remove today's empty directory under a collector; the OSError of
  the write leaves `run()` (`base.py:97`, beside its comment "Does not re-raise")
  and ends the batch.
- A job and a request may both insert the day's report (`daily_report_repo.py:51`),
  and every regeneration after the first has version number 2 - `NumberingStops`
  proves that no other ever comes.
- `backfill.py:3` and `:7` say that its CSV format and validation are those of
  the manual import; they differ in columns, time forms and duplicates.
- The Online Radio Box adapter validates on HTTP 200 alone.
- A start that cannot reach the database is not seeded until the next start.
- A recommendation that a later analysis has superseded can still be approved.
- The manual import stores nothing; the weekly chart's rows are stored as plays;
  a replay of a song within 25 hours is filed as a possible duplicate.
- The confidence level is decided before the score is rounded, so a score shown
  as 0.65 may be LOW (`confidence.py:98-105`, seven of eight plays manual).

## 5 Proofs

Each module's theorems hold for every value of the constants that satisfies its
named assumption. Most only give the constants their types, with bounds, limits
and windows positive and starts increasing. Those that say more:

| Assumption | Says | Because |
|---|---|---|
| `CollectorAssumption` | a job runs at least one collector; the retention is at least a day | the jobs' lists; `--days` |
| `CycleAssumption` | Sydney is 10 or 11 hours ahead, the Pacific coast 7 or 8 behind; nothing of how far a batch reaches back | the zones' data |
| `LimiterAssumption` | the pool's threads are finitely many | the pool has a size |
| `ImportAssumption` | an answer shows at least one reason | 50; with 0 an answer of rejected rows would have none |
| `FeedAssumption` | the window is shorter than a day, and the page's clock is ahead of UTC by less than one | 1800 s; an hour |
| `PageAssumption` | what Heart's page lists with a time is of today or yesterday | a page of few songs of a station that plays music day and night |

| Module | Theorem | Statement |
|---|---|---|
| `PlayIngestionProofs` | `TypeCorrect` | `Spec => []TypeOK` |
| | `RunsAreAccounted` | `Spec => []RunsAccounted` |
| | `PlaysStoredOnce` | `ReportedStarts => (Spec => []EachPlayOnce)` |
| | `Implementation` | `ReportedStarts => (Spec => ImplementsPlayLog)` |
| `CollectorRunsProofs` | `TypeCorrect` | `Spec => []TypeOK` |
| | `PayloadsAreBacked` | `Spec => []PayloadsBacked` |
| `ReviewQueueProofs` | `TypeCorrect` | `Spec => []TypeOK` |
| | `RefusalsAreHonest` | `Spec => []RefusalsHonest` |
| `DailyReportsProofs` | `TypeCorrect` | `Spec => []TypeOK` |
| | `CorrectionsAgree` | `Spec => []CorrectedIffVersioned` |
| | `AnswersAreBacked` | `Spec => []GenerateBacked` |
| | `NumberingStops` | `Spec => []NumberInv` |
| `NightlyCycleProofs` | `CycleTypeCorrect` | `Spec => []CycleTypeOK` |
| | `ReportsAreComplete` | `Spec => []ReportsComplete` |
| | `NoNightGap` | `Spec => []NoGapBetweenNights` |
| `RateLimiterProofs` | `LimiterTypeCorrect` | `LimiterSpec => []LimiterTypeOK` |
| | `LimitIsHeld` | `LimiterSpec => []LimitHeld` |
| | `RefusesRightly` | `LimiterSpec => []RefusedOnlyWhenFull` |
| `ServicePartsProofs` | `MonitorTypeCorrect` | `MonitorSpec => []MonitorTypeOK` |
| | `PausesRightly` | `MonitorSpec => []PausedAfterThreshold` |
| | `DeadPollsAreBounded` | `MonitorSpec => []DeadPollsBounded` |
| | `SeederTypeCorrect` | `SeederSpec => []SeederTypeOK` |
| | `SeedsAreComplete` | `SeederSpec => []SeedsComplete` |
| | `NoDeadlock` | `SeederSpec => []NoCircularWait` |
| | `WebhookTypeCorrect` | `WebhookSpec => []WebhookTypeOK` |
| | `DeliveriesEndRightly` | `WebhookSpec => []EndedRightly` |
| | `ChartTypeCorrect` | `ChartSpec => []ChartTypeOK` |
| | `ChecksTypeCorrect` | `CheckSpec => []ChecksTypeOK` |
| | `SummariesGoForward` | `CheckSpec => SummariesNeverGoBack` |
| | `ImportsTypeCorrect` | `ImportSpec => []ImportsTypeOK` |
| | `BackfillsAreWhole` | `ImportSpec => []BackfillAllOrNothing` |
| | `SongsAreKeptOnce` | `ImportSpec => []EverySongOnce` |
| `ServerPartsProofs` | `DeskTypeCorrect` | `DeskSpec => []DeskTypeOK` |
| | `FeedTypeCorrect` | `FeedSpec => []FeedTypeOK` |
| | `TimesAreOffByZoneAndDay` | `FeedSpec => []OffByZoneAndDay` |
| | `PlaysHaveOneRow` | `FeedSpec => []SamePlayOneRow` |
| | `ChartsAreStoredDaily` | `FeedSpec => []ChartStoredDaily` |
| | `RepollsAddRepeats` | `FeedSpec => RepollAddsOnlyRepeats` |
| | `ServerTypeCorrect` | `ServerSpec => []ServerTypeOK` |

None of the safety properties is inductive as it stands. Every module has an
invariant with `Init => Inv`, `Inv /\ [Next]_vars => Inv'` and the property as one
of its conjuncts or a consequence; the steps are laid out one per action.

**PlayIngestion.** The theorems also use `IdentityAssumption` (each play has a
fingerprint and an id). `ReportedStarts` says that every source reports when a
play started, as iHeart's do. Where it does not (Capital's poll and
`dry_run_capital.py` in a process of its own, say), two rows of one play carry
two clock readings and never meet on the index, so the assumption is needed. The
properties speak of committed tables, and what is committed was staged under
earlier ones. `IInv` adds

- `ControlInv`: a job at a statement about an event has an event;
- `RunInv`: run ids are used once, and staged rows are of the job's own run;
- `KeyInv`: keys are unique over the table and all open transactions - this is
  what the index's waiting and conflict give, and what the two duplicate checks
  cannot, as another transaction's flushed row is invisible to them;
- `AuditInv`: of the events the loop has left behind each is covered by a
  visible row, so the commit owes nothing.

With `ReportedStarts`, `ExactInv` (a row's `played_at` is its play's start) makes
equal plays equal keys, and `KeyInv` gives `EachPlayOnce`. The refinement follows
from it: `Commit` maps to `RecordRun`, every other step to a stutter.

**CollectorRuns.** Between the write and the record only the job knows of the
file, while days pass and the tool runs. `JobInv` says what the job's memory is
worth at each statement - in particular that a file still being written is too
young to be pruned, which is where `Midnight`'s guard and the retention of at
least a day are used; `ToolInv`, that what a running tool takes to be old stays
old; `IdInv`, that a run under way has an id no record has, so that its writing
touches no recorded file; `RunsInv` is `PayloadsBacked` by a file of the day on
record. `FileStays` and `KeptStays` say once for all actions which files go.

**ReviewQueue.** `ClosureInv` ties the row to those who wrote it: a closed item
is closed by a committed request that asked for that status - an UPDATE either
sets its own status or has seen that very status in the row - and nothing reopens
it; a refused request has committed nothing, so the closure is another's.

**DailyReports.** `IdInv`: ids are drawn once, versions are of reports;
`FoundInv`: the report a writer has found is there and no less corrected;
`TurnInv`: what a writer knows at each statement; `NumberInv`: every version is
archived as number 1. The last also gives the version numbers their type (it
bounds the set `Max` is taken of), and is a theorem of its own.

**NightlyCycle.** `TimeInv`: a job that runs was triggered in this hour or in the
one before - time does not pass while it runs - so the clock is known from the
job alone. `DiaryInv`: a diary job that ended has brought its local day whole,
in either season (`CollectedBounds` is the arithmetic of offsets and days).
`ReportInv`: a report is made after the diary jobs of its night, so no later job
can be one that "was to bring" what the report lacks. `PolledInv`: what a polled
station stored lies in the past; a run under way has seen what of its window was
stored before its hour began (`came`), whatever a batch adds beside it; and the
window of a run that starts an hour late still begins at the hour of the run
before. What is stored later is outside of what the theorem says. `HourPasses` and `Switched`
treat the steps of the clock and of the triggers once for all.

**CapitalMonitor.** `CountInv`: the counter is the length of the run of failures
at the end of `recent`; `LostInv` bounds the lost polls by what earlier processes
may have polled and this one has.

**RateLimiter.** `BucketInv` holds however calls race: stamps are not made up, and
what a thread measures is no older than its window plus the tick by which another
thread's clock may lag - this is the tick in `RefusedOnlyWhenFull`. `AloneInv`
adds, without a race, that the bucket misses nothing of the window of the call
under way; a window that ends between two stamps lies within the one of the last.

**Seeder.** `Agrees`: what a start has taken is in the tables or in its own
transaction, and what it holds comes before the seed it is at. So its commit
makes the tables whole, a start that meets a key has met another start's commit
of everything, and of any starts the furthest one waits for none
(`GreatestNatural`).

**Webhooks.** `Counted` relates a delivery's posts, its attempts and its stage:
none but the last was acknowledged, and `attempt` counts the posts.

**ChartCache, PlaylistDesk.** `ChartTypeOK` and `DeskTypeOK` are inductive as
they stand: a date is a day, a tier the greatest of a set of bounds reached
(`TierType`), and an analysis has a number that nothing in the store has. What
else there is to say of these two parts the code does not keep.

**SourceChecks.** `CheckInv` says that a reader's summary is one of the stored
results. Results are only added, and the one it reads next is the latest of a
larger set (`LatestIsLast`).

**Imports.** `ImportInv`: the plays of an upload are in the table only if it was
answered with 200, and until then the rows left and those flushed are the
accepted rows of its file. Of a song's valid rows exactly the first is accepted
(`OneRowOfASong`, by the least index), and accepted rows become as many plays
(`PlaysOfAccepted`). What is committed without an accepted row is the case that
the code reaches today; the theorem covers the other also, for any set of runs
the table knows.

**FeedPolls.** The loop over a poll's events is a recursive function; what holds
before and after each event holds at its end by `InductUpTo`. `DoneTo` says
what the loop has done up to an event: every earlier event is a row, has its id
in the table, or has its song in the window. `FeedInv` says of the table that
each row fits its source (`EventFits`: the time and the id that the parser gives
it), that keys and ids are in it once, that of two rows of a song the later one
was stored when the earlier was out of the window (`Spaced`: what keeps apart the
rows of a play that has no id and no time), and that the page last shown is traced
to rows. The day of a page's time is the poll's (`TimeOnPage`), and
`PageAssumption` puts the play in that day or the one before; the zone moves its
time of day over at most one midnight (`DayByZone`). Hence the zone, and a day
more or less.

**ServerParts.** Each step of the service is a step of one part and a stutter of
the other eight (`EachPartSteps`), so it implements the specification of each
(`EachPartRuns`; this is how `ServerParts` is made and says nothing of the
code), and the types of the parts are those of the service.

Induction. The library's induction theorems take an operator as parameter, which
the provers here cannot be given. Where the proofs need induction over naturals
they use that every set of naturals has a least element (`LeastNatural`, from
the well-foundedness of `<` on naturals): the set of the counterexamples is
empty.

Every invariant and every action property of the runs that pass is stated by a
theorem, `ImplementsPlayLog` included. Only model-checked: the liveness
properties (`JobsFinish`, `StaleFilesGo`, `RequestsEnd`, `TurnsEnd`,
`TriggersEnd`, `DeadSourcePaused`, `EventsReturn`, `StartsEnd`), because
fairness is out of the prover's reach. The violation runs need no proof: each
has its counterexample.

## 6 Not modelled

- Reading HTML and JSON, text normalisation, CSV layout and certificates' wording
  are string work; a parser is modelled by what it makes of a list of items.
- The ranking engine is `Counter.most_common` over the plays of a report, and
  keeps nothing.
- Confidence scores are floating point numbers, which TLC does not have.
- Proof of play keeps nothing: its certificates are counted from the plays of a
  day at each request.
- The proxy pool is a cycle under a lock; a failed request is not tried with
  another proxy, so nothing else depends on it.
- Authentication compares one header per request; read-only routes, telemetry,
  the admin figures and the static console keep no state.
- The storage backend, the ICY reader, MusicBrainz, `correction.py`,
  `apply_movements`, `deduplicator.py` and the website adapter have no caller, and
  the history page of Online Radio Box no job.

The list of `PROJECT.json` has every part with its reason.

## 7 Plan

Done: the modules of section 2 and the theorems of section 5. What is left, by
weight:

1. An abstract specification of the limiter (a window of requests, one step per
   call) that the sequential limiter refines.
2. `NightlyCycle` with the report writers of `DailyReports`: which reading of the
   plays a report keeps when the nightly job and a request overlap.
