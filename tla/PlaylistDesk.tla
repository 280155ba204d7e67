---------------------------- MODULE PlaylistDesk ----------------------------
(***************************************************************************)
(* The rotation tiers that are recommended for a station from the spins of *)
(* its songs in the last days, kept in memory until an operator approves   *)
(* them.                                                                   *)
(***************************************************************************)
EXTENDS Integers, Sequences, FiniteSetsExt

CONSTANTS
  Tunes,       \* songs, by artist and title
  Operators,   \* who approves
  Lookbacks,   \* days an analysis may be asked to read, 7 by default
  TierFrom,    \* TierFrom[k]: least spins for the k-th tier, 1, 10, 20, 35 in the code
  MaxPlays,    \* bound on the plays
  MaxAnalyses, \* bound on the analyses
  MaxDay       \* bound on the days

ASSUME DeskAssumption ==
  /\ Lookbacks \subseteq Nat
  /\ TierFrom \in Seq(Nat \ {0})
  /\ MaxPlays \in Nat /\ MaxAnalyses \in Nat /\ MaxDay \in Nat

NoOne == "none"
Retired == 0

VARIABLES
  day,      \* the day
  played,   \* the plays, as <<song, day>>
  analyses, \* analyses so far
  store     \* _recommendation_store

deskVars == <<day, played, analyses, store>>

\* Every analysis draws new ids: one is known by the analysis and the song.
Recommendation ==
  [no : 1..MaxAnalyses, tune : Tunes, spins : Nat, tier : 0..Len(TierFrom),
   by : Operators \cup {NoOne}]

DeskInit ==
  /\ day = 0
  /\ played = <<>>
  /\ analyses = 0
  /\ store = {}

NextDay ==
  /\ day < MaxDay
  /\ day' = day + 1
  /\ UNCHANGED <<played, analyses, store>>

SongPlayed(s) ==
  /\ Len(played) < MaxPlays
  /\ played' = Append(played, <<s, day>>)
  /\ UNCHANGED <<day, analyses, store>>

-----------------------------------------------------------------------------
\* The plays of song s in the last days, counted at the end of today.
Spins(s, days) ==
  Cardinality({n \in DOMAIN played : played[n][1] = s /\ played[n][2] > day - days})

\* classify_tier, the tiers by their rank: the highest whose bound is reached.
Tier(spins) ==
  LET reached == {k \in DOMAIN TierFrom : spins >= TierFrom[k]}
  IN  IF reached = {} THEN Retired ELSE Max(reached)

\* build_recommendations: the route knows no current tiers, so every song that
\* was played and is not retired is to be added.
Recommendations(days) ==
  {[no |-> analyses + 1, tune |-> s, spins |-> Spins(s, days),
    tier |-> Tier(Spins(s, days)), by |-> NoOne] :
      s \in {t \in Tunes : Spins(t, days) > 0 /\ Tier(Spins(t, days)) # Retired}}

\* New recommendations beside those of earlier analyses.
Analyse(days) ==
  /\ analyses < MaxAnalyses
  /\ analyses' = analyses + 1
  /\ store' = store \cup Recommendations(days)
  /\ UNCHANGED <<day, played>>

\* 404 for an unknown id and 409 for an approved one, which change nothing.
Approve(rec, who) ==
  /\ rec.by = NoOne
  /\ store' = (store \ {rec}) \cup {[rec EXCEPT !.by = who]}
  /\ UNCHANGED <<day, played, analyses>>

DeskRestart ==
  /\ store # {}
  /\ store' = {}
  /\ UNCHANGED <<day, played, analyses>>

\* The bounds are reached and nothing is left to approve.
DeskDone ==
  /\ day = MaxDay
  /\ Len(played) = MaxPlays
  /\ analyses = MaxAnalyses
  /\ \A rec \in store : rec.by # NoOne
  /\ UNCHANGED deskVars

DeskNext ==
  \/ NextDay
  \/ \E s \in Tunes : SongPlayed(s)
  \/ \E days \in Lookbacks : Analyse(days)
  \/ \E rec \in store, who \in Operators : Approve(rec, who)
  \/ DeskRestart
  \/ DeskDone

DeskSpec == DeskInit /\ [][DeskNext]_deskVars

-----------------------------------------------------------------------------
DeskTypeOK ==
  /\ day \in 0..MaxDay
  /\ played \in Seq(Tunes \X (0..MaxDay))
  /\ analyses \in 0..MaxAnalyses
  /\ store \subseteq Recommendation
  /\ \A e \in store : e.no <= analyses
  /\ \A e, f \in store : e.no = f.no /\ e.tune = f.tune => e = f
=============================================================================
