----------------------------- MODULE FeedPolls ------------------------------
(***************************************************************************)
(* What the collectors without a station-wide play history make of their   *)
(* sources, poll after poll and over midnight: Heart's page of last played *)
(* songs with times of day on a British clock, the BBC's list of segments, *)
(* the Live row of Online Radio Box, and iHeart's daily chart of top songs *)
(* beside the other feeds of its station.  A poll fetches, parses and      *)
(* stores in one step here: PlayIngestion has the statements of the        *)
(* transaction and their interleavings.                                    *)
(***************************************************************************)
EXTENDS Integers, Sequences, FiniteSets, SequencesExt

CONSTANTS
  Kinds,     \* the kinds of feed explored
  Song,      \* Song[i]: the fingerprint of the i-th broadcast item, or Speech
  Speech,
  Start,     \* Start[i]: when item i goes on air
  Nameless,  \* items the source lists without an artist or a title
  Untimed,   \* items the page or the list gives no readable time
  Unnumbered,\* items the source gives no id
  Zones,     \* ticks the page's clock may be ahead of UTC: none, or an hour
  DayLength, \* ticks of a day
  ListLength,\* most items the page or the list holds
  Window,    \* the fingerprint check's window, 1800 s in the code
  MaxTime    \* bound on the clock

Items == 1..Len(Song)
AllKinds == {"page", "segments", "live", "chart"}
NoItem == 0

ASSUME FeedAssumption ==
  /\ Kinds \subseteq AllKinds
  /\ Len(Song) \in Nat
  /\ Start \in [Items -> Nat]
  /\ \A i, j \in Items : i < j => Start[i] < Start[j]
  /\ DayLength \in Nat \ {0}
  /\ Zones \subseteq 0..DayLength - 1
  /\ ListLength \in Nat \ {0}
  /\ Window \in Nat
  /\ Window < DayLength
  /\ MaxTime \in Nat

Songs == {Song[i] : i \in Items} \ {Speech}
NoId == <<>>

VARIABLES
  feedClock,  \* the clock; the station is polled at most once a tick
  kind,       \* the feed
  withIds,    \* the page or the chart has ids
  ahead,      \* ticks the page's clock is ahead, an hour in British summer
  polled,     \* the tick of the last poll
  shown,      \* what the last parsed poll showed: items and songs, in order
  outcome,    \* what became of the last poll
  rows        \* the committed plays of the station

feedVars == <<feedClock, kind, withIds, ahead, polled, shown, outcome, rows>>
sourceVars == <<kind, withIds, ahead>>

Outcomes == {"none", "failed", "no_track", "stored", "rolled_back"}

\* A play event of the current poll, with the item it stands for (not a column).
Event(i, song, sid, at) ==
  [item |-> i, song |-> song, sid |-> sid, at |-> at, run |-> feedClock]

FeedInit ==
  /\ feedClock = 0
  /\ kind \in Kinds
  /\ withIds \in BOOLEAN
  /\ ahead \in Zones \cup {0}
  /\ kind # "page" => ahead = 0
  /\ polled = -1
  /\ shown = <<>>
  /\ outcome = "none"
  /\ rows = {}

FeedTick ==
  /\ feedClock < MaxTime
  /\ feedClock' = feedClock + 1
  /\ UNCHANGED <<sourceVars, polled, shown, outcome, rows>>

-----------------------------------------------------------------------------
(* The parsers.  Each takes what the source shows now to a result: failed, *)
(* no track, or the play events of the listed items.                       *)

Result(what, events) == [outcome |-> what, events |-> events]
Failed == Result("failed", <<>>)
NoTrack == Result("no_track", <<>>)

Aired(t) == {i \in Items : Start[i] <= t}

Music(t) == {i \in Aired(t) : Song[i] # Speech}

Newest(S) == {i \in S : Cardinality({j \in S : j > i}) < ListLength}

\* The page keeps the newest songs, the list of segments the newest of all.
Listed(t) == Newest(Music(t))
Segments(t) == Newest(Aired(t)) \cap Music(t)

\* The station plays music day and night: what the page lists is of today or
\* of yesterday.
ASSUME PageAssumption ==
  "page" \in Kinds =>
    \A t \in 0..MaxTime : \A i \in Listed(t) \ Untimed :
      t \div DayLength <= Start[i] \div DayLength + 1

\* Some items as they are listed, the newest first.
NewestFirst(S) ==
  CHOOSE all \in SetToSeqs(S) : \A m, n \in DOMAIN all : m < n => all[m] > all[n]

Id(i, id) == IF i \in Unnumbered THEN NoId ELSE id

\* Mutation: HH:MM is an offset from now.
BackFromNow(i) == feedClock - (Start[i] % DayLength)

\* HH:MM of the page, by its clock, is put to the UTC day of the poll; now
\* where there is none.
TimeOnPage(i) ==
  IF i \in Untimed THEN feedClock
  ELSE DayLength * (feedClock \div DayLength) + ((Start[i] + ahead) % DayLength)

\* Heart: every listed song that has both names; none, and it is no track.
ParsePage ==
  LET named == NewestFirst(Listed(feedClock) \ Nameless)
      event(i) == Event(i, Song[i],
                        IF withIds THEN Id(i, <<"track", Song[i]>>) ELSE NoId,
                        TimeOnPage(i))
  IN  IF Listed(feedClock) \ Nameless = {} THEN NoTrack
      ELSE Result("stored", [n \in DOMAIN named |-> event(named[n])])

\* BBC: one segment that is music, with its start, or now where it has none.
\* Without both names it is no track.
Segment(i) ==
  IF i \in Nameless THEN NoTrack
  ELSE Result("stored", <<Event(i, Song[i], Id(i, <<"segment", i>>),
                                IF i \in Untimed THEN feedClock ELSE Start[i])>>)

\* The one flagged as playing, whichever that is, else the first of the list.
ParseSegments ==
  IF Segments(feedClock) = {} THEN {NoTrack}
  ELSE {Segment(i) : i \in Segments(feedClock)}

\* Online Radio Box: the Live row, stamped with the clock.  Without both
\* names it is an error; without a Live row, no track.
ParseLive ==
  LET i == Max(Aired(feedClock)) IN
  IF Aired(feedClock) = {} \/ Song[i] = Speech THEN NoTrack
  ELSE IF i \in Nameless THEN Failed
  ELSE Result("stored", <<Event(i, Song[i], Id(i, <<"track", Song[i]>>), feedClock)>>)

\* Mutation: the date is left out of the id.
RankWithoutDate(r) == <<"rank", r>>

RankId(r) == <<"rank", r, feedClock \div DayLength>>

\* Top songs: the id is the source's, else named after position and day; the
\* time is that of the poll.
ParseChart(chart) ==
  LET event(r) == Event(NoItem, chart[r],
                        IF withIds THEN <<"track", chart[r]>> ELSE RankId(r),
                        feedClock)
  IN  IF chart = <<>> THEN NoTrack
      ELSE Result("stored", [r \in DOMAIN chart |-> event(r)])

Charts == {<<>>} \cup {<<x>> : x \in Songs}
          \cup {p \in Songs \X Songs : p[1] # p[2]}

Parsed ==
  CASE kind = "page" -> {ParsePage}
    [] kind = "segments" -> ParseSegments
    [] kind = "live" -> {ParseLive}
    [] kind = "chart" -> {ParseChart(c) : c \in Charts}

-----------------------------------------------------------------------------
(* _persist_result: the events one after the other, in one transaction.    *)

\* Mutation: the ids are not compared.
NeverKnown(R, e) == FALSE

KnownId(R, e) == e.sid # NoId /\ \E r \in R : r.sid = e.sid

InWindow(R, e) ==
  \E r \in R : r.song = e.song /\ r.at >= feedClock - Window

\* Mutation: there is no unique index.
NeverTaken(R, e) == FALSE

KeyTaken(R, e) == \E r \in R : r.song = e.song /\ r.at = e.at

\* The rows after event e; one conflict on the index ends the transaction.
AddEvent(acc, e) ==
  IF ~acc.ok \/ KnownId(acc.rows, e) \/ InWindow(acc.rows, e) THEN acc
  ELSE IF KeyTaken(acc.rows, e) THEN [ok |-> FALSE, rows |-> acc.rows]
  ELSE [ok |-> TRUE, rows |-> acc.rows \cup {e}]

Stored(events) ==
  LET acc[n \in 0..Len(events)] ==
        IF n = 0 THEN [ok |-> TRUE, rows |-> rows]
        ELSE AddEvent(acc[n - 1], events[n])
  IN  acc[Len(events)]

RowsAfter(acc) == IF acc.ok THEN acc.rows ELSE rows

Shown(events) == [n \in DOMAIN events |-> <<events[n].item, events[n].song>>]

\* The chart is polled daily, at midnight UTC; the others at any time.
PollTime ==
  /\ polled < feedClock
  /\ kind = "chart" => feedClock % DayLength = 0

\* The source answers and the parser knows the answer.
Poll ==
  /\ PollTime
  /\ polled' = feedClock
  /\ \E res \in Parsed :
       LET acc == Stored(res.events) IN
       /\ outcome' = IF res.outcome = "stored" /\ ~acc.ok THEN "rolled_back"
                     ELSE res.outcome
       /\ shown' = Shown(res.events)
       /\ rows' = RowsAfter(acc)
  /\ UNCHANGED <<feedClock, sourceVars>>

\* HTTP 204, a list without songs: the run stores a no-track event.
PollSilent ==
  /\ PollTime
  /\ polled' = feedClock
  /\ outcome' = "no_track"
  /\ UNCHANGED <<feedClock, sourceVars, shown, rows>>

\* No answer, or one the parser does not know: the run is stored as failed.
PollFails ==
  /\ PollTime
  /\ polled' = feedClock
  /\ outcome' = "failed"
  /\ UNCHANGED <<feedClock, sourceVars, shown, rows>>

\* The station of the chart has the now-playing and recently-played feeds too:
\* a play they list is stored, with an id of its own and the start they give.
OtherFeed ==
  /\ kind = "chart"
  /\ \E i \in Listed(feedClock) :
       LET acc == Stored(<<Event(i, Song[i], <<"play", i>>, Start[i])>>) IN
       rows' = RowsAfter(acc)
  /\ UNCHANGED <<feedClock, sourceVars, polled, shown, outcome>>

FeedDone == feedClock = MaxTime /\ UNCHANGED feedVars

FeedNext ==
  \/ FeedTick
  \/ Poll
  \/ PollSilent
  \/ PollFails
  \/ OtherFeed
  \/ FeedDone

FeedSpec == FeedInit /\ [][FeedNext]_feedVars

-----------------------------------------------------------------------------
FeedTypeOK ==
  /\ feedClock \in 0..MaxTime
  /\ kind \in Kinds
  /\ withIds \in BOOLEAN
  /\ ahead \in Zones \cup {0}
  /\ polled \in -1..MaxTime
  /\ shown \in Seq((Items \cup {NoItem}) \X Songs)
  /\ outcome \in Outcomes
  /\ \A r \in rows : /\ r.item \in Items \cup {NoItem} /\ r.song \in Songs
                     /\ r.at \in Nat /\ r.run \in 0..feedClock

\* The source gives the item a time, the page one without its date.
Timed(i) == kind \in {"page", "segments"} /\ i \notin Untimed

\* The page has British times of day and no date, and the poll's UTC date is
\* put to them.  Across the midnights of both clocks the time of a row is off
\* by what the page's clock is ahead, and by a day at most: later where the
\* play was read after midnight, earlier where it was on after midnight in
\* Britain and before it in UTC.  A segment's time is exact, and what has no
\* time is dated by the poll that stored it, at or after its start.
OffByZoneAndDay ==
  \A r \in rows : r.item # NoItem /\ kind # "chart" =>
    IF Timed(r.item)
    THEN r.at - Start[r.item] \in (IF kind = "page" THEN {ahead - DayLength, ahead, ahead + DayLength}
                                  ELSE {0})
    ELSE r.at = r.run /\ r.at >= Start[r.item]

SameDay(t, u) == t \div DayLength = u \div DayLength

\* A source that gives times may be polled again and again: of the plays that
\* the poll before it on the same day showed too, a poll stores only those
\* which that poll took for another play of the song, one that was in the
\* window then and is no longer.
RepollAddsOnlyRepeats ==
  [][(/\ Poll
      /\ kind \in {"page", "segments"}
      /\ shown' = shown
      /\ \A n \in DOMAIN shown : shown[n][1] \notin Untimed
      /\ SameDay(feedClock, polled)
      /\ outcome = "stored")
     => \A r \in rows' \ rows : \E q \in rows :
          /\ q.song = r.song /\ q.at # r.at
          /\ q.at >= polled - Window /\ q.at < feedClock - Window]_feedVars

\* Seen in poll after poll a play has more rows than one only where the source
\* gives it no id: the page, read on both sides of a midnight, two that are a
\* day apart; a source that gives no time, one for each time that it shows the
\* play longer than the window after it was stored.
SamePlayOneRow ==
  \A r, q \in rows : kind # "chart" /\ r.item = q.item /\ r # q =>
    /\ r.sid = NoId
    /\ IF Timed(r.item)
       THEN kind = "page" /\ r.at - q.at \in {DayLength, -DayLength}
       ELSE r.at - q.at \notin -Window..Window

\* The date is in the id of a chart row that the source gives no id, so that
\* a chart "deduplicates within a single day's worth of polls" and no
\* further.  What else keeps a song of the chart from its row is a play of it
\* in the window, whichever feed of the station that came from.
ChartStoredDaily ==
  kind = "chart" /\ ~withIds /\ outcome = "stored" =>
    \A n \in DOMAIN shown :
      \E r \in rows : r.song = shown[n][2] /\ r.at >= polled - Window

\* The Heart collector "ingests all track entries visible on the page": a
\* poll that was read leaves every play it showed in the table.
VisibleIngested ==
  outcome \in {"stored", "rolled_back"} =>
    \A n \in DOMAIN shown : \E r \in rows : r.item = shown[n][1]
=============================================================================
