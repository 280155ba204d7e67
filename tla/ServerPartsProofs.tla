------------------------- MODULE ServerPartsProofs --------------------------
(***************************************************************************)
(* The theorems of the playlist desk and of the feeds, and those of        *)
(* ServerParts: a behaviour of the service is a behaviour of each of its   *)
(* parts, so that what is proved of a part alone holds in the service.     *)
(***************************************************************************)
EXTENDS ServerParts, RateLimiterProofs, ServicePartsProofs

-----------------------------------------------------------------------------
(* Sorted finite sets: R orders the elements of S, as a set of pairs.      *)

StrictOrder(S, R) ==
  /\ \A x \in S : <<x, x>> \notin R
  /\ \A x, y, z \in S : <<x, y>> \in R /\ <<y, z>> \in R => <<x, z>> \in R

TotalOn(S, R) == \A x, y \in S : x # y => <<x, y>> \in R \/ <<y, x>> \in R

SortedBy(R, f) == \A m, n \in DOMAIN f : m < n => <<f[m], f[n]>> \in R

\* An injection of a finite set to one as large has every element for a value.
LEMMA InjectionOnto ==
  ASSUME NEW S, IsFiniteSet(S), NEW T, IsFiniteSet(T),
         Cardinality(S) = Cardinality(T), NEW f \in [S -> T],
         \A x, y \in S : x # y => f[x] # f[y]
  PROVE  \A t \in T : \E x \in S : f[x] = t
<1>1. f \in Injection(S, T)
  BY DEF Injection, IsInjective
<1>2. f \in Surjection(S, T)
  BY <1>1, FS_Injection
<1> QED
  BY <1>2 DEF Surjection

\* A finite set has a sorted sequence of its elements: put every element at
\* the place that counts those before it.
LEMMA SortedExists ==
  ASSUME NEW S, IsFiniteSet(S), NEW R,
         StrictOrder(S, R), TotalOn(S, R)
  PROVE  \E f \in SetToSeqs(S) : SortedBy(R, f)
<1> DEFINE N == Cardinality(S)
           Below(x) == {y \in S : <<y, x>> \in R}
           place == [x \in S |-> 1 + Cardinality(Below(x))]
<1>1. N \in Nat /\ IsFiniteSet(1..N) /\ Cardinality(1..N) = N
  BY FS_CardinalityType, FS_Interval
<1>2. ASSUME NEW x \in S
      PROVE  /\ Below(x) \in SUBSET S /\ IsFiniteSet(Below(x))
             /\ Cardinality(Below(x)) \in Nat
             /\ place[x] \in 1..N
  <2>1. IsFiniteSet(S \ {x}) /\ Cardinality(S \ {x}) = N - 1
    BY FS_RemoveElement
  <2>2. Below(x) \in SUBSET (S \ {x})
    BY DEF StrictOrder
  <2>3. IsFiniteSet(Below(x)) /\ Cardinality(Below(x)) <= N - 1
    <3> HIDE DEF Below, N
    <3>1. IsFiniteSet(Below(x)) /\ Cardinality(Below(x)) <= Cardinality(S \ {x})
      BY <2>1, <2>2, FS_Subset
    <3> QED
      BY <2>1, <3>1
  <2>4. Cardinality(Below(x)) \in Nat
    BY <2>3, FS_CardinalityType
  <2> QED
    BY <1>1, <2>3, <2>4
<1>3. ASSUME NEW x \in S, NEW y \in S, <<x, y>> \in R
      PROVE  place[x] < place[y]
  <2>1. Below(x) \cup {x} \in SUBSET Below(y)
    BY <1>3 DEF StrictOrder
  <2>2. x \notin Below(x)
    BY DEF StrictOrder
  <2>3. Cardinality(Below(x) \cup {x}) = Cardinality(Below(x)) + 1
    BY <1>2, <2>2, FS_AddElement
  <2>4. Cardinality(Below(x) \cup {x}) <= Cardinality(Below(y))
    BY <1>2, <2>1, FS_Subset
  <2> HIDE DEF Below
  <2> QED
    BY <1>2, <2>3, <2>4
<1>4. place \in [S -> 1..N]
  BY <1>2
<1> HIDE DEF place
<1>5. \A x, y \in S : x # y => place[x] # place[y]
  <2> SUFFICES ASSUME NEW x \in S, NEW y \in S, x # y
               PROVE  place[x] # place[y]
    OBVIOUS
  <2>1. place[x] \in Nat /\ place[y] \in Nat
    BY <1>1, <1>4
  <2>2. place[x] < place[y] \/ place[y] < place[x]
    BY <1>3 DEF TotalOn
  <2> QED
    BY <2>1, <2>2
<1>6. \A t \in 1..N : \E x \in S : place[x] = t
  <2> DEFINE T == 1..N
  <2>1. IsFiniteSet(T) /\ Cardinality(S) = Cardinality(T) /\ place \in [S -> T]
    BY <1>1, <1>4
  <2> HIDE DEF T
  <2>2. \A t \in T : \E x \in S : place[x] = t
    BY <1>5, <2>1, InjectionOnto
  <2> QED
    BY <2>2 DEF T
<1> DEFINE f == [t \in 1..N |-> CHOOSE x \in S : place[x] = t]
<1>7. \A t \in 1..N : f[t] \in S /\ place[f[t]] = t
  BY <1>6
<1>8. f \in [1..N -> S] /\ DOMAIN f = 1..N
  BY <1>7
<1> HIDE DEF f
<1>9. f \in SetToSeqs(S)
  BY <1>7, <1>8 DEF SetToSeqs
<1>10. SortedBy(R, f)
  <2> SUFFICES ASSUME NEW m \in 1..N, NEW n \in 1..N, m < n
               PROVE  <<f[m], f[n]>> \in R
    BY <1>8 DEF SortedBy
  <2>1. f[m] \in S /\ f[n] \in S /\ place[f[m]] = m /\ place[f[n]] = n
    BY <1>7
  <2>2. f[m] # f[n]
    BY <2>1
  <2>3. ~(<<f[n], f[m]>> \in R)
    <3>1. SUFFICES ASSUME <<f[n], f[m]>> \in R PROVE FALSE
      OBVIOUS
    <3>2. place[f[n]] < place[f[m]]
      BY <1>3, <2>1, <3>1
    <3> QED
      BY <1>1, <2>1, <3>2
  <2> QED
    BY <2>1, <2>2, <2>3 DEF TotalOn
<1> QED
  BY <1>9, <1>10

-----------------------------------------------------------------------------
(* PlaylistDesk.  DeskTypeOK is inductive: an analysis adds what is of its *)
(* own number, which nothing in the store has.                             *)

LEMMA SpinsType ==
  ASSUME NEW s, NEW days, played \in Seq(Tunes \X (0..MaxDay))
  PROVE  Spins(s, days) \in Nat
<1> DEFINE S == {n \in DOMAIN played : played[n][1] = s /\ played[n][2] > day - days}
<1>1. DOMAIN played = 1..Len(played) /\ Len(played) \in Nat
  BY LenProperties
<1>2. IsFiniteSet(1..Len(played))
  BY <1>1, FS_Interval
<1>3. S \in SUBSET (1..Len(played))
  BY <1>1
<1>4. IsFiniteSet(S)
  BY <1>2, <1>3, FS_Subset
<1>5. Cardinality(S) \in Nat
  BY <1>4, FS_CardinalityType
<1> QED
  BY <1>5 DEF Spins

LEMMA TierType ==
  ASSUME NEW spins \in Nat
  PROVE  Tier(spins) \in 0..Len(TierFrom)
<1> DEFINE reached == {k \in DOMAIN TierFrom : spins >= TierFrom[k]}
<1>1. Len(TierFrom) \in Nat /\ DOMAIN TierFrom = 1..Len(TierFrom)
  BY DeskAssumption, LenProperties
<1>2. CASE reached = {}
  BY <1>1, <1>2 DEF Tier, Retired
<1>3. CASE reached # {}
  <2>1. reached \in SUBSET (0..Len(TierFrom))
    BY <1>1
  <2> DEFINE L == Len(TierFrom)
  <2>2. PICK m \in reached : \A k \in reached : k <= m
    <3> HIDE DEF reached, L
    <3>1. L \in Nat /\ reached \in SUBSET (0..L)
      BY <1>1, <2>1 DEF L
    <3> QED
      BY <1>3, <3>1, GreatestNatural
  <2>3. \A k \in reached : m >= k
    BY <1>1, <2>2
  <2> HIDE DEF reached
  <2>4. Max(reached) \in reached
    BY <2>3 DEF Max
  <2>5. Tier(spins) = Max(reached)
    BY <1>3 DEF Tier, reached
  <2> QED
    BY <2>1, <2>4, <2>5
<1> QED
  BY <1>2, <1>3

LEMMA AnalyseType ==
  ASSUME DeskTypeOK, NEW days \in Lookbacks, Analyse(days)
  PROVE  DeskTypeOK'
<1>1. /\ analyses \in Nat /\ analyses + 1 \in 1..MaxAnalyses
      /\ analyses' = analyses + 1 /\ analyses' \in 0..MaxAnalyses
  BY DeskAssumption DEF Analyse, DeskTypeOK
<1>2. \A f \in Recommendations(days) : f \in Recommendation /\ f.no = analyses + 1
  <2> SUFFICES ASSUME NEW f \in Recommendations(days)
               PROVE  f \in Recommendation /\ f.no = analyses + 1
    OBVIOUS
  <2>1. PICK s \in Tunes :
          f = [no |-> analyses + 1, tune |-> s, spins |-> Spins(s, days),
               tier |-> Tier(Spins(s, days)), by |-> NoOne]
    BY DEF Recommendations
  <2>2. Spins(s, days) \in Nat
    BY SpinsType DEF DeskTypeOK
  <2>3. Tier(Spins(s, days)) \in 0..Len(TierFrom)
    BY <2>2, TierType
  <2> QED
    BY <1>1, <2>1, <2>2, <2>3 DEF Recommendation
<1>3. \A f, g \in Recommendations(days) : f.tune = g.tune => f = g
  BY DEF Recommendations
<1>4. store' = store \cup Recommendations(days) /\ UNCHANGED <<day, played>>
  BY DEF Analyse
<1>5. \A e \in store : e \in Recommendation /\ e.no \in Nat /\ e.no <= analyses
  BY DEF DeskTypeOK, Recommendation
<1>6. \A e \in store, f \in Recommendations(days) : e.no # f.no
  <2> SUFFICES ASSUME NEW e \in store, NEW f \in Recommendations(days), e.no = f.no
               PROVE  FALSE
    OBVIOUS
  <2>1. e.no <= analyses /\ f.no = analyses + 1
    BY <1>2, <1>5
  <2> QED
    BY <1>1, <2>1
<1>7. \A e, f \in store' : e.no = f.no /\ e.tune = f.tune => e = f
  BY <1>2, <1>3, <1>4, <1>6 DEF DeskTypeOK
<1>8. \A e \in store' : e \in Recommendation /\ e.no <= analyses'
  <2> SUFFICES ASSUME NEW e \in store'
               PROVE  e \in Recommendation /\ e.no <= analyses'
    OBVIOUS
  <2>1. CASE e \in store
    BY <1>1, <1>5, <2>1
  <2>2. CASE e \in Recommendations(days)
    BY <1>1, <1>2, <2>2
  <2> QED
    BY <1>4, <2>1, <2>2
<1> QED
  BY <1>1, <1>4, <1>7, <1>8 DEF DeskTypeOK, Recommendation

LEMMA ApproveType ==
  ASSUME DeskTypeOK, NEW rec \in store, NEW who \in Operators, Approve(rec, who)
  PROVE  DeskTypeOK'
<1> DEFINE new == [rec EXCEPT !.by = who]
<1>1. rec \in Recommendation /\ rec.no <= analyses
  BY DEF DeskTypeOK
<1>2. new \in Recommendation /\ new.no = rec.no /\ new.tune = rec.tune
  BY <1>1 DEF Recommendation
<1>3. store' = (store \ {rec}) \cup {new} /\ UNCHANGED <<day, played, analyses>>
  BY DEF Approve
<1> HIDE DEF new
<1>4. \A e \in store' : e \in Recommendation /\ e.no <= analyses
  BY <1>1, <1>2, <1>3 DEF DeskTypeOK
<1>5. \A e \in store \ {rec} : ~(e.no = new.no /\ e.tune = new.tune)
  BY <1>2 DEF DeskTypeOK
<1>6. \A e, f \in store' : e.no = f.no /\ e.tune = f.tune => e = f
  BY <1>3, <1>5 DEF DeskTypeOK
<1> QED
  BY <1>3, <1>4, <1>6 DEF DeskTypeOK, Recommendation

LEMMA DeskTypeNext == DeskTypeOK /\ [DeskNext]_deskVars => DeskTypeOK'
<1> SUFFICES ASSUME DeskTypeOK, [DeskNext]_deskVars PROVE DeskTypeOK'
  OBVIOUS
<1>1. /\ day \in 0..MaxDay /\ analyses \in 0..MaxAnalyses
      /\ played \in Seq(Tunes \X (0..MaxDay))
  BY DEF DeskTypeOK
\* A step that leaves the store and the analyses alone.
<1>2. ASSUME store' = store, analyses' = analyses,
             day' \in 0..MaxDay, played' \in Seq(Tunes \X (0..MaxDay))
      PROVE  DeskTypeOK'
  BY <1>2 DEF DeskTypeOK, Recommendation
<1>3. CASE NextDay
  <2>1. day' \in 0..MaxDay
    BY <1>1, <1>3, DeskAssumption DEF NextDay
  <2> QED
    BY <1>1, <1>2, <1>3, <2>1 DEF NextDay
<1>4. ASSUME NEW s \in Tunes, SongPlayed(s)
      PROVE  DeskTypeOK'
  <2>1. <<s, day>> \in Tunes \X (0..MaxDay)
    BY <1>1
  <2>2. played' \in Seq(Tunes \X (0..MaxDay))
    BY <1>1, <1>4, <2>1 DEF SongPlayed
  <2> QED
    BY <1>1, <1>2, <1>4, <2>2 DEF SongPlayed
<1>5. ASSUME NEW days \in Lookbacks, Analyse(days)
      PROVE  DeskTypeOK'
  BY <1>5, AnalyseType
<1>6. ASSUME NEW rec \in store, NEW who \in Operators, Approve(rec, who)
      PROVE  DeskTypeOK'
  BY <1>6, ApproveType
<1>7. CASE DeskRestart
  BY <1>1, <1>7 DEF DeskRestart, DeskTypeOK
<1>8. CASE UNCHANGED deskVars
  BY <1>1, <1>2, <1>8 DEF deskVars
<1>9. CASE DeskDone
  BY <1>8, <1>9 DEF DeskDone
<1> QED
  BY <1>3, <1>4, <1>5, <1>6, <1>7, <1>8, <1>9 DEF DeskNext

\* The plays, the analyses and the recommendations are of their types, and no
\* two recommendations are of one analysis and one song.
THEOREM DeskTypeCorrect == DeskSpec => []DeskTypeOK
<1>1. DeskInit => DeskTypeOK
  <2> SUFFICES ASSUME DeskInit PROVE DeskTypeOK
    OBVIOUS
  <2>1. day \in 0..MaxDay /\ analyses \in 0..MaxAnalyses
    BY DeskAssumption DEF DeskInit
  <2>2. played \in Seq(Tunes \X (0..MaxDay)) /\ store = {}
    BY DEF DeskInit
  <2> QED
    BY <2>1, <2>2 DEF DeskTypeOK
<1> QED
  BY <1>1, DeskTypeNext, PTL DEF DeskSpec

-----------------------------------------------------------------------------
(* FeedPolls: the loop over the events of a poll.                          *)

\* Induction up to N, for a set.
LEMMA InductUpTo ==
  ASSUME NEW N \in Nat, NEW G \in SUBSET (0..N), 0 \in G,
         \A n \in 0..N : n \in G /\ n < N => n + 1 \in G
  PROVE  \A n \in 0..N : n \in G
<1> SUFFICES ASSUME (0..N) \ G # {} PROVE FALSE
  OBVIOUS
<1>1. PICK m \in (0..N) \ G : \A k \in (0..N) \ G : m <= k
  BY LeastNatural, (0..N) \ G \in SUBSET Nat
<1>2. m # 0 /\ m - 1 \in 0..N /\ m - 1 < N
  OBVIOUS
<1>3. m - 1 \in G
  BY <1>1, <1>2
<1>4. (m - 1) + 1 \in G
  BY <1>2, <1>3
<1> QED
  BY <1>4

\* A row of the table is known by its id, and by its song and time.
OnceInTable(R) ==
  \A r, q \in R : \/ r.sid # NoId /\ r.sid = q.sid
                  \/ r.song = q.song /\ r.at = q.at
                  => r = q

\* What has become of event k once R is the table: it is there, or was taken
\* for another play.
Handled(events, k, R) ==
  \/ events[k] \in R
  \/ InWindow(R, events[k])
  \/ /\ events[k].sid # NoId
     /\ \E r \in R : /\ r.sid = events[k].sid
                     /\ r \in rows \/ \E j \in 1..(k - 1) : r = events[j]

NewRow(events, n, r) ==
  \E k \in 1..n : /\ r = events[k]
                  /\ ~KnownId(rows, r) /\ ~InWindow(rows, r) /\ ~KeyTaken(rows, r)

DoneTo(events, n, acc) ==
  /\ acc.ok \in BOOLEAN
  /\ rows \subseteq acc.rows
  /\ \A r \in acc.rows : r \in rows \/ NewRow(events, n, r)
  /\ OnceInTable(acc.rows)
  /\ acc.ok => \A k \in 1..n : Handled(events, k, acc.rows)

Base == [ok |-> TRUE, rows |-> rows]

\* Before the loop.
LEMMA DoneNone ==
  ASSUME OnceInTable(rows), NEW events
  PROVE  DoneTo(events, 0, Base)
BY DEF DoneTo, Base

\* More rows change nothing about an event that was handled.
LEMMA HandledStays ==
  ASSUME NEW events, NEW k, NEW R, NEW T, R \subseteq T, Handled(events, k, R)
  PROVE  Handled(events, k, T)
BY DEF Handled, InWindow

\* One turn of the loop, in the four ways it may go.
LEMMA DoneOneMore ==
  ASSUME NEW events, NEW n \in Nat, NEW acc, DoneTo(events, n, acc)
  PROVE  DoneTo(events, n + 1, AddEvent(acc, events[n + 1]))
<1> DEFINE e == events[n + 1]
           next == AddEvent(acc, e)
<1>0. \A k \in 1..(n + 1) : k \in 1..n \/ k = n + 1
  OBVIOUS
<1>1. \A r : NewRow(events, n, r) => NewRow(events, n + 1, r)
  BY DEF NewRow
<1>2. \A r \in acc.rows : r \in rows \/ NewRow(events, n, r)
  BY DEF DoneTo
<1>3. \A r \in acc.rows : r \in rows \/ \E j \in 1..n : r = events[j]
  BY <1>2 DEF NewRow
<1>4. CASE ~acc.ok
  <2>1. next = acc
    BY <1>4 DEF AddEvent
  <2> QED
    BY <1>1, <1>4, <2>1 DEF DoneTo
<1>5. CASE acc.ok /\ (KnownId(acc.rows, e) \/ InWindow(acc.rows, e))
  <2>1. next = acc
    BY <1>5 DEF AddEvent
  <2>2. Handled(events, n + 1, acc.rows)
    <3>1. CASE InWindow(acc.rows, e)
      BY <3>1 DEF Handled
    <3>2. CASE KnownId(acc.rows, e)
      <4>1. (n + 1) - 1 = n
        OBVIOUS
      <4> QED
        BY <1>3, <3>2, <4>1 DEF Handled, KnownId
    <3> QED
      BY <1>5, <3>1, <3>2
  <2>3. \A k \in 1..(n + 1) : Handled(events, k, acc.rows)
    BY <1>0, <1>5, <2>2 DEF DoneTo
  <2> QED
    BY <1>1, <2>1, <2>3 DEF DoneTo
<1>6. CASE acc.ok /\ ~KnownId(acc.rows, e) /\ ~InWindow(acc.rows, e) /\ KeyTaken(acc.rows, e)
  <2>1. next = [ok |-> FALSE, rows |-> acc.rows]
    BY <1>6 DEF AddEvent
  <2> QED
    BY <1>1, <2>1 DEF DoneTo
<1>7. CASE acc.ok /\ ~KnownId(acc.rows, e) /\ ~InWindow(acc.rows, e) /\ ~KeyTaken(acc.rows, e)
  <2>1. next = [ok |-> TRUE, rows |-> acc.rows \cup {e}]
    BY <1>7 DEF AddEvent
  <2>2. NewRow(events, n + 1, e)
    <3>1. n + 1 \in 1..(n + 1)
      OBVIOUS
    <3>2. rows \subseteq acc.rows
      BY DEF DoneTo
    <3>3. ~KnownId(rows, e) /\ ~InWindow(rows, e) /\ ~KeyTaken(rows, e)
      BY <1>7, <3>2 DEF KnownId, InWindow, KeyTaken
    <3> QED
      BY <3>1, <3>3 DEF NewRow
  <2>3. OnceInTable(acc.rows \cup {e})
    BY <1>7 DEF OnceInTable, KnownId, KeyTaken, DoneTo
  <2>4. \A k \in 1..(n + 1) : Handled(events, k, acc.rows \cup {e})
    <3>1. Handled(events, n + 1, acc.rows \cup {e})
      BY DEF Handled
    <3>2. \A k \in 1..n : Handled(events, k, acc.rows \cup {e})
      BY <1>7, HandledStays DEF DoneTo
    <3> QED
      BY <1>0, <3>1, <3>2
  <2>5. rows \subseteq acc.rows
    BY DEF DoneTo
  <2>6. \A r \in acc.rows \cup {e} : r \in rows \/ NewRow(events, n + 1, r)
    BY <1>1, <1>2, <2>2
  <2> HIDE DEF e
  <2>7. next.ok = TRUE /\ next.rows = acc.rows \cup {e}
    BY <2>1
  <2> HIDE DEF next
  <2>8. DoneTo(events, n + 1, next)
    BY <2>3, <2>4, <2>5, <2>6, <2>7 DEF DoneTo
  <2> QED
    BY <2>8 DEF next, e
<1> QED
  BY <1>4, <1>5, <1>6, <1>7 DEF DoneTo

Accumulates(acc, events, N) ==
  acc = [n \in 0..N |-> IF n = 0 THEN [ok |-> TRUE, rows |-> rows]
                        ELSE AddEvent(acc[n - 1], events[n])]

\* The recursion that Stored follows has a solution for any number of events.
LEMMA AccumulatesSome ==
  ASSUME NEW events, NEW N \in Nat
  PROVE  \E acc : Accumulates(acc, events, N)
<1> DEFINE G == {n \in 0..N : \E acc : Accumulates(acc, events, n)}
<1>1. 0 \in G
  <2> DEFINE f == [n \in 0..0 |-> Base]
  <2>1. Accumulates(f, events, 0)
    BY DEF Accumulates, Base
  <2> QED
    BY <2>1
<1>2. ASSUME NEW n \in 0..N, n \in G, n < N
      PROVE  n + 1 \in G
  <2>1. PICK f : Accumulates(f, events, n)
    BY <1>2
  <2> DEFINE g == [m \in 0..(n + 1) |-> IF m = n + 1 THEN AddEvent(f[n], events[n + 1]) ELSE f[m]]
  <2>2. \A m \in 0..n : f[m] = IF m = 0 THEN Base ELSE AddEvent(f[m - 1], events[m])
    BY <2>1 DEF Accumulates, Base
  <2>3. \A m \in 0..n : g[m] = f[m]
    OBVIOUS
  <2>4. g[n + 1] = AddEvent(f[n], events[n + 1])
    OBVIOUS
  <2>5. \A m \in 0..(n + 1) : g[m] = IF m = 0 THEN Base ELSE AddEvent(g[m - 1], events[m])
    <3> SUFFICES ASSUME NEW m \in 0..(n + 1)
                 PROVE  g[m] = IF m = 0 THEN Base ELSE AddEvent(g[m - 1], events[m])
      OBVIOUS
    <3> HIDE DEF g
    <3>1. CASE m = n + 1
      <4>1. m # 0 /\ m - 1 = n /\ n \in 0..n
        BY <3>1
      <4> QED
        BY <2>3, <2>4, <3>1, <4>1
    <3>2. CASE m = 0
      BY <2>2, <2>3, <3>2
    <3>3. CASE m \in 1..n
      <4>1. m - 1 \in 0..n /\ m \in 0..n /\ m # 0
        BY <3>3
      <4> QED
        BY <2>2, <2>3, <4>1
    <3> QED
      BY <3>1, <3>2, <3>3
  <2>6. g = [m \in 0..(n + 1) |-> g[m]]
    OBVIOUS
  <2> HIDE DEF g
  <2>7. Accumulates(g, events, n + 1)
    BY <2>5, <2>6 DEF Accumulates, Base
  <2> QED
    BY <1>2, <2>7
<1>3. \A n \in 0..N : n \in G
  <2> HIDE DEF G
  <2>1. G \in SUBSET (0..N)
    BY DEF G
  <2> QED
    BY <1>1, <1>2, <2>1, InductUpTo
<1> QED
  BY <1>3

\* _persist_result, for however many events: what the loop has done of them.
LEMMA StoredDone ==
  ASSUME OnceInTable(rows), NEW events, NEW N \in Nat, Len(events) = N
  PROVE  DoneTo(events, N, Stored(events))
<1> DEFINE f == CHOOSE acc : Accumulates(acc, events, N)
<1>1. Accumulates(f, events, N)
  BY AccumulatesSome
<1>2. Stored(events) = f[N]
  BY DEF Stored, Accumulates
<1> HIDE DEF f
<1>3. /\ f[0] = Base
      /\ \A n \in 1..N : f[n] = AddEvent(f[n - 1], events[n])
  <2>1. \A n \in 0..N : f[n] = IF n = 0 THEN Base ELSE AddEvent(f[n - 1], events[n])
    BY <1>1 DEF Accumulates, Base
  <2>2. 0 \in 0..N /\ \A n \in 1..N : n \in 0..N /\ n # 0
    OBVIOUS
  <2> QED
    BY <2>1, <2>2
<1> DEFINE G == {n \in 0..N : DoneTo(events, n, f[n])}
<1>4. 0 \in G
  BY <1>3, DoneNone
<1>5. ASSUME NEW n \in 0..N, n \in G, n < N
      PROVE  n + 1 \in G
  <2>1. n \in Nat /\ n + 1 \in 1..N /\ (n + 1) - 1 = n
    BY <1>5
  <2>2. f[n + 1] = AddEvent(f[n], events[n + 1])
    BY <1>3, <2>1
  <2>3. DoneTo(events, n + 1, AddEvent(f[n], events[n + 1]))
    BY <1>5, <2>1, DoneOneMore
  <2> QED
    BY <2>1, <2>2, <2>3
<1>6. \A n \in 0..N : n \in G
  <2> HIDE DEF G
  <2>1. G \in SUBSET (0..N)
    BY DEF G
  <2> QED
    BY <1>4, <1>5, <2>1, InductUpTo
<1> QED
  BY <1>2, <1>6


-----------------------------------------------------------------------------
(* FeedPolls: times.                                                       *)

\* A tick is in a day, at a time of that day.
LEMMA DayOf ==
  ASSUME NEW t \in Nat
  PROVE  /\ t \div DayLength \in Nat
         /\ t % DayLength \in 0..(DayLength - 1)
         /\ t = DayLength * (t \div DayLength) + (t % DayLength)
BY FeedAssumption

\* A later day starts at least a day later.
LEMMA DaysApart ==
  ASSUME NEW m \in Int, NEW n \in Int, m < n
  PROVE  DayLength * m + DayLength <= DayLength * n
<1>1. DayLength \in Nat
  BY FeedAssumption
<1>2. DayLength * (n - m) >= DayLength
  BY <1>1
<1>3. DayLength * (n - m) = DayLength * n - DayLength * m
  BY <1>1
<1>4. DayLength * m \in Int /\ DayLength * n \in Int
  BY <1>1
<1> QED
  BY <1>1, <1>2, <1>3, <1>4

\* The time that the page of tick t gives item i.
PageTime(i, t) ==
  IF i \in Untimed THEN t
  ELSE DayLength * (t \div DayLength) + ((Start[i] + ahead) % DayLength)

\* What is on before t, and listed at t, is of the day of t or of the one before.
OnPage(i, t) == /\ i \notin Untimed /\ Start[i] <= t
                /\ t \div DayLength <= Start[i] \div DayLength + 1

LEMMA DayOnPage ==
  ASSUME NEW i \in Items, NEW t \in Nat, OnPage(i, t)
  PROVE  t \div DayLength \in {Start[i] \div DayLength, Start[i] \div DayLength + 1}
<1> DEFINE d == t \div DayLength
           b == Start[i] \div DayLength
<1>1. DayLength \in Nat /\ DayLength > 0 /\ Start[i] \in Nat
  BY FeedAssumption
<1>2. /\ d \in Nat /\ b \in Nat /\ DayLength * d \in Nat /\ DayLength * b \in Nat
      /\ t < DayLength * d + DayLength /\ DayLength * b <= Start[i]
  BY <1>1, DayOf
<1>3. Start[i] <= t /\ d <= b + 1
  BY DEF OnPage
<1> HIDE DEF d, b
<1>4. ~(d < b)
  <2>1. SUFFICES ASSUME d < b PROVE FALSE
    OBVIOUS
  <2>2. DayLength * d + DayLength <= DayLength * b
    BY <1>2, <2>1, DaysApart
  <2> QED
    BY <1>1, <1>2, <1>3, <2>2
<1>5. d \in {b, b + 1}
  BY <1>2, <1>3, <1>4
<1> QED
  BY <1>5 DEF d, b

\* By the page's clock a play is on the day that it has by UTC, or the next.
LEMMA DayByZone ==
  ASSUME NEW i \in Items, ahead \in 0..(DayLength - 1)
  PROVE  (Start[i] + ahead) \div DayLength
            \in {Start[i] \div DayLength, Start[i] \div DayLength + 1}
<1> DEFINE z == (Start[i] + ahead) \div DayLength
           b == Start[i] \div DayLength
<1>1. DayLength \in Nat /\ DayLength > 0 /\ Start[i] \in Nat /\ Start[i] + ahead \in Nat
  BY FeedAssumption
<1>2. /\ z \in Nat /\ b \in Nat /\ DayLength * z \in Nat /\ DayLength * b \in Nat
      /\ Start[i] < DayLength * b + DayLength /\ DayLength * b <= Start[i]
      /\ Start[i] + ahead < DayLength * z + DayLength /\ DayLength * z <= Start[i] + ahead
  BY <1>1, DayOf
<1> HIDE DEF z, b
<1>3. ~(z < b)
  <2>1. SUFFICES ASSUME z < b PROVE FALSE
    OBVIOUS
  <2>2. DayLength * z + DayLength <= DayLength * b
    BY <1>2, <2>1, DaysApart
  <2> QED
    BY <1>1, <1>2, <2>2
<1>4. ~(b + 1 < z)
  <2>1. SUFFICES ASSUME b + 1 < z PROVE FALSE
    OBVIOUS
  <2>2. DayLength * (b + 1) + DayLength <= DayLength * z
    BY <1>2, <2>1, DaysApart
  <2>3. DayLength * (b + 1) = DayLength * b + DayLength
    BY <1>1, <1>2
  <2> QED
    BY <1>1, <1>2, <2>2, <2>3
<1>5. z \in {b, b + 1}
  BY <1>2, <1>3, <1>4
<1> QED
  BY <1>5 DEF z, b

\* Days that are next to each other are a day apart.
LEMMA NextDays ==
  ASSUME NEW d \in Nat, NEW z \in Nat, NEW b \in Nat, d \in {b, b + 1}, z \in {b, b + 1}
  PROVE  DayLength * d - DayLength * z \in {-DayLength, 0, DayLength}
<1>1. DayLength \in Nat /\ DayLength * (b + 1) = DayLength * b + DayLength /\ DayLength * b \in Nat
  BY FeedAssumption
<1>2. CASE d = z
  BY <1>1, <1>2
<1>3. CASE d = b + 1 /\ z = b
  BY <1>1, <1>3
<1>4. CASE d = b /\ z = b + 1
  BY <1>1, <1>4
<1> QED
  BY <1>2, <1>3, <1>4

\* The page's time of a play is off by its clock's lead, and by a day at most.
LEMMA PageTimes ==
  ASSUME NEW i \in Items, NEW t \in Nat, ahead \in 0..(DayLength - 1)
  PROVE  /\ PageTime(i, t) \in Nat
         /\ OnPage(i, t) =>
              PageTime(i, t) - Start[i] \in {ahead - DayLength, ahead, ahead + DayLength}
<1> DEFINE d == t \div DayLength
           b == Start[i] \div DayLength
           z == (Start[i] + ahead) \div DayLength
           m == (Start[i] + ahead) % DayLength
<1>1. DayLength \in Nat /\ DayLength > 0 /\ Start[i] \in Nat /\ Start[i] + ahead \in Nat
  BY FeedAssumption
<1>2. /\ d \in Nat /\ b \in Nat /\ z \in Nat /\ m \in Nat
      /\ Start[i] + ahead = DayLength * z + m
  BY <1>1, DayOf
<1>3. i \notin Untimed => PageTime(i, t) = DayLength * d + m
  BY DEF PageTime
<1>4. OnPage(i, t) => d \in {b, b + 1}
  BY DayOnPage
<1>5. z \in {b, b + 1}
  BY DayByZone
<1> HIDE DEF d, b, z, m
<1>6. DayLength * d \in Nat /\ DayLength * z \in Nat
  BY <1>1, <1>2
<1>7. PageTime(i, t) \in Nat
  <2>1. CASE i \in Untimed
    BY <2>1 DEF PageTime
  <2>2. CASE i \notin Untimed
    BY <1>2, <1>3, <1>6, <2>2
  <2> QED
    BY <2>1, <2>2
<1>8. ASSUME OnPage(i, t)
      PROVE  PageTime(i, t) - Start[i] \in {ahead - DayLength, ahead, ahead + DayLength}
  <2>1. DayLength * d - DayLength * z \in {-DayLength, 0, DayLength}
    BY <1>2, <1>4, <1>5, <1>8, NextDays
  <2>2. PageTime(i, t) = DayLength * d + m
    BY <1>3, <1>8 DEF OnPage
  <2>3. ahead \in Int
    OBVIOUS
  <2>4. PageTime(i, t) - Start[i] = (DayLength * d - DayLength * z) + ahead
    <3> DEFINE x == DayLength * d
               y == DayLength * z
    <3>1. /\ x \in Nat /\ y \in Nat /\ m \in Nat /\ Start[i] \in Nat
          /\ PageTime(i, t) = x + m /\ Start[i] + ahead = y + m
      BY <1>1, <1>2, <1>6, <2>2
    <3> HIDE DEF x, y
    <3>2. PageTime(i, t) - Start[i] = (x - y) + ahead
      BY <2>3, <3>1
    <3> QED
      BY <3>2 DEF x, y
  <2> QED
    BY <1>1, <2>1, <2>3, <2>4
<1> QED
  BY <1>7, <1>8

\* Two pages give a play times that are equal or a day apart.
LEMMA PageTimesApart ==
  ASSUME NEW i \in Items, NEW t \in Nat, NEW u \in Nat, ahead \in 0..(DayLength - 1),
         OnPage(i, t), OnPage(i, u)
  PROVE  PageTime(i, t) - PageTime(i, u) \in {-DayLength, 0, DayLength}
<1> DEFINE d == t \div DayLength
           e == u \div DayLength
           b == Start[i] \div DayLength
           m == (Start[i] + ahead) % DayLength
<1>1. DayLength \in Nat /\ Start[i] \in Nat /\ Start[i] + ahead \in Nat
  BY FeedAssumption
<1>2. d \in Nat /\ e \in Nat /\ b \in Nat /\ m \in Nat
  BY <1>1, DayOf
<1>3. PageTime(i, t) = DayLength * d + m /\ PageTime(i, u) = DayLength * e + m
  BY DEF PageTime, OnPage
<1>4. d \in {b, b + 1} /\ e \in {b, b + 1}
  BY DayOnPage
<1> HIDE DEF d, e, b, m
<1>5. DayLength * d - DayLength * e \in {-DayLength, 0, DayLength}
  BY <1>2, <1>4, NextDays
<1>6. DayLength * d \in Nat /\ DayLength * e \in Nat
  BY <1>1, <1>2
<1> QED
  BY <1>2, <1>3, <1>5, <1>6

\* Two midnights less than a day apart are one.
LEMMA SameMidnight ==
  ASSUME NEW t \in Nat, NEW u \in Nat, t % DayLength = 0, u % DayLength = 0,
         t <= u, u - t < DayLength \/ t \div DayLength = u \div DayLength
  PROVE  t = u
<1> DEFINE a == t \div DayLength
           b == u \div DayLength
<1>1. DayLength \in Nat /\ DayLength > 0
  BY FeedAssumption
<1>2. a \in Nat /\ b \in Nat /\ t = DayLength * a /\ u = DayLength * b
  BY <1>1, DayOf
<1> HIDE DEF a, b
<1>3. CASE a = b
  BY <1>2, <1>3
<1>4. CASE a < b
  <2>1. DayLength * a + DayLength <= DayLength * b
    BY <1>2, <1>4, DaysApart
  <2>2. u - t >= DayLength
    BY <1>1, <1>2, <2>1
  <2> QED
    BY <1>1, <1>2, <1>4, <2>2 DEF a, b
<1>5. CASE b < a
  <2>1. DayLength * b + DayLength <= DayLength * a
    BY <1>2, <1>5, DaysApart
  <2> QED
    BY <1>1, <1>2, <2>1
<1> QED
  BY <1>2, <1>3, <1>4, <1>5


-----------------------------------------------------------------------------
(* FeedPolls: what the parsers return.                                     *)

\* The id and the time of an item in a list that is read at tick t.
SidFor(i, s) ==
  IF kind = "segments" THEN Id(i, <<"segment", i>>)
  ELSE IF withIds THEN Id(i, <<"track", s>>) ELSE NoId

ItemTime(i, t) ==
  IF kind = "page" THEN PageTime(i, t) ELSE IF i \in Untimed THEN t ELSE Start[i]

Lists == {"page", "segments"}

\* An event, and the row it becomes, is what the feed says of its item.
PlayFits(r) ==
  /\ r.item \in Items /\ r.song = Song[r.item] /\ Start[r.item] <= r.run
  /\ kind \in Lists => r.sid = SidFor(r.item, r.song) /\ r.at = ItemTime(r.item, r.run)
  /\ kind = "page" /\ r.item \notin Untimed => OnPage(r.item, r.run)
  /\ kind = "live" => r.sid = Id(r.item, <<"track", r.song>>) /\ r.at = r.run

ChartFits(r) ==
  IF r.item = NoItem
  THEN /\ r.at = r.run /\ r.run % DayLength = 0
       /\ ~withIds => \E n \in Nat : r.sid = <<"rank", n, r.run \div DayLength>>
  ELSE r.sid = <<"play", r.item>>

EventFits(r) ==
  /\ r.item \in Items \cup {NoItem} /\ r.song \in Songs
  /\ r.at \in Nat /\ r.run \in 0..MaxTime
  /\ IF kind = "chart" THEN ChartFits(r) ELSE PlayFits(r)

\* The events of a poll, or of a play of another feed.
EventsFit(events, N) ==
  /\ N \in Nat /\ DOMAIN events = 1..N /\ Len(events) = N
  /\ \A n \in 1..N :
       /\ EventFits(events[n]) /\ events[n].run = feedClock
       /\ kind = "chart" /\ ~withIds /\ events[n].item = NoItem =>
            events[n].sid = <<"rank", n, feedClock \div DayLength>>

\* What is on the air is a finite set of items, and what is listed is of it.
LEMMA ItemsAired ==
  /\ IsFiniteSet(Items) /\ Items \in SUBSET Nat /\ NoItem \notin Items
  /\ \A t : /\ IsFiniteSet(Aired(t)) /\ Aired(t) \in SUBSET Items
            /\ IsFiniteSet(Music(t)) /\ Music(t) \in SUBSET Aired(t)
            /\ Listed(t) \in SUBSET Music(t) /\ Segments(t) \in SUBSET Music(t)
<1>1. IsFiniteSet(Items) /\ Items \in SUBSET Nat /\ NoItem \notin Items
  BY FeedAssumption, FS_Interval DEF Items, NoItem
<1> SUFFICES ASSUME NEW t
             PROVE  /\ IsFiniteSet(Aired(t)) /\ Aired(t) \in SUBSET Items
                    /\ IsFiniteSet(Music(t)) /\ Music(t) \in SUBSET Aired(t)
                    /\ Listed(t) \in SUBSET Music(t) /\ Segments(t) \in SUBSET Music(t)
  BY <1>1
<1>2. Aired(t) \in SUBSET Items /\ Music(t) \in SUBSET Items /\ Music(t) \in SUBSET Aired(t)
      /\ Listed(t) \in SUBSET Music(t) /\ Segments(t) \in SUBSET Music(t)
  BY DEF Aired, Music, Listed, Segments, Newest
<1>3. IsFiniteSet(Aired(t)) /\ IsFiniteSet(Music(t))
  BY <1>1, <1>2, FS_Subset
<1> QED
  BY <1>2, <1>3

\* What is on the air as music is a song.
LEMMA MusicIsSongs ==
  ASSUME NEW t, NEW i \in Aired(t), Song[i] # Speech
  PROVE  i \in Items /\ Song[i] \in Songs /\ Start[i] <= t /\ Start[i] \in Nat
<1>1. i \in Items /\ Start[i] <= t
  BY DEF Aired
<1> QED
  BY <1>1, FeedAssumption DEF Songs

\* A list of some items, in order.
LEMMA NewestFirstOf ==
  ASSUME NEW S \in SUBSET Items
  PROVE  \E N \in Nat : NewestFirst(S) \in [1..N -> S]
<1> DEFINE R == {o \in S \X S : o[1] > o[2]}
<1>1. IsFiniteSet(S) /\ S \in SUBSET Nat
  BY ItemsAired, FS_Subset
<1>2. \A x, y \in S : <<x, y>> \in R <=> x > y
  OBVIOUS
<1>3. StrictOrder(S, R) /\ TotalOn(S, R)
  BY <1>1, <1>2 DEF StrictOrder, TotalOn
<1> HIDE DEF R
<1>4. PICK all \in SetToSeqs(S) : SortedBy(R, all)
  BY <1>1, <1>3, SortedExists
<1>5. \A f \in SetToSeqs(S) : f \in [1..Cardinality(S) -> S]
  BY DEF SetToSeqs
<1>6. all \in [1..Cardinality(S) -> S]
  BY <1>5
<1>7. \A m, n \in DOMAIN all : m < n => all[m] > all[n]
  BY <1>2, <1>4, <1>6 DEF SortedBy
<1>8. NewestFirst(S) \in SetToSeqs(S)
  BY <1>7 DEF NewestFirst
<1>9. Cardinality(S) \in Nat
  BY <1>1, FS_CardinalityType
<1> QED
  BY <1>5, <1>8, <1>9

\* A function on 1..N is a sequence of length N.
LEMMA LenOfFunction ==
  ASSUME NEW N \in Nat, NEW f, f = [n \in 1..N |-> f[n]]
  PROVE  DOMAIN f = 1..N /\ Len(f) = N
<1> DEFINE T == {f[n] : n \in 1..N}
<1>1. DOMAIN f = 1..N /\ f \in [1..N -> T]
  OBVIOUS
<1> HIDE DEF T
<1>2. f \in Seq(T)
  BY <1>1, SeqDef
<1>3. Len(f) \in Nat /\ DOMAIN f = 1..Len(f)
  BY <1>2, LenProperties
<1> QED
  BY <1>1, <1>3

\* The answer without events.
LEMMA NothingParsed == EventsFit(<<>>, 0)
<1>1. Len(<<>>) = 0 /\ DOMAIN <<>> = 1..0
  OBVIOUS
<1> QED
  BY <1>1 DEF EventsFit

\* parse_heart_last_played: every event fits its item and the poll.
LEMMA PageParsed ==
  ASSUME feedClock \in 0..MaxTime, kind = "page", "page" \in Kinds,
         ahead \in 0..(DayLength - 1)
  PROVE  \E N : EventsFit(ParsePage.events, N)
<1> DEFINE S == Listed(feedClock) \ Nameless
           named == NewestFirst(S)
           event(i) == Event(i, Song[i],
                             IF withIds THEN Id(i, <<"track", Song[i]>>) ELSE NoId,
                             TimeOnPage(i))
           events == [n \in DOMAIN named |-> event(named[n])]
<1>1. CASE S = {}
  <2>1. ParsePage.events = <<>>
    BY <1>1 DEF ParsePage, NoTrack, Result
  <2> QED
    BY <2>1, NothingParsed
<1>2. CASE S # {}
  <2>1. ParsePage.events = events
    BY <1>2 DEF ParsePage, Result
  <2>2. S \in SUBSET Items /\ S \in SUBSET Listed(feedClock)
    BY ItemsAired
  <2>3. PICK N \in Nat : named \in [1..N -> S]
    BY <2>2, NewestFirstOf
  <2>4. events = [n \in 1..N |-> events[n]] /\ \A n \in 1..N : events[n] = event(named[n])
    BY <2>3
  <2> HIDE DEF named, events
  <2>5. DOMAIN events = 1..N /\ Len(events) = N
    BY <2>4, LenOfFunction
  <2>6. ASSUME NEW n \in 1..N
        PROVE  EventFits(events[n]) /\ events[n].run = feedClock
    <3> DEFINE i == named[n]
    <3>1. i \in Listed(feedClock) /\ i \in Music(feedClock) /\ i \in Items
      BY <2>2, <2>3, ItemsAired
    <3>2. Song[i] \in Songs /\ Start[i] <= feedClock /\ Start[i] \in Nat
      BY <3>1, MusicIsSongs DEF Music
    <3>3. i \notin Untimed => feedClock \div DayLength <= Start[i] \div DayLength + 1
      BY <3>1, PageAssumption
    <3>4. TimeOnPage(i) = PageTime(i, feedClock) /\ PageTime(i, feedClock) \in Nat
      BY <3>1, PageTimes DEF TimeOnPage, PageTime
    <3>5. /\ events[n].item = i /\ events[n].song = Song[i] /\ events[n].run = feedClock
          /\ events[n].at = TimeOnPage(i)
          /\ events[n].sid = IF withIds THEN Id(i, <<"track", Song[i]>>) ELSE NoId
      BY <2>4 DEF Event
    <3> HIDE DEF i
    <3>6. PlayFits(events[n])
      BY <3>1, <3>2, <3>3, <3>4, <3>5 DEF PlayFits, OnPage, SidFor, ItemTime, Lists
    <3> QED
      BY <3>1, <3>2, <3>4, <3>5, <3>6 DEF EventFits
  <2> QED
    BY <2>1, <2>5, <2>6 DEF EventsFit
<1> QED
  BY <1>1, <1>2

\* One event, of item i.
LEMMA OneParsed ==
  ASSUME NEW e, EventFits(e), e.run = feedClock, kind # "chart" \/ e.item # NoItem
  PROVE  EventsFit(<<e>>, 1)
<1>1. DOMAIN <<e>> = 1..1 /\ Len(<<e>>) = 1 /\ <<e>>[1] = e
  OBVIOUS
<1> QED
  BY <1>1 DEF EventsFit

\* The newest of some items is one of them.
LEMMA NewestOf ==
  ASSUME NEW S \in SUBSET Items, S # {}
  PROVE  Max(S) \in S
<1>1. S \in SUBSET (0..Len(Song))
  BY FeedAssumption DEF Items
<1>2. PICK m \in S : \A k \in S : k <= m
  BY <1>1, FeedAssumption, GreatestNatural
<1>3. \A k \in S : m >= k
  BY <1>1, <1>2
<1> QED
  BY <1>3 DEF Max

\* parse_bbc_sounds_now_playing: whichever segment is flagged, the event fits.
LEMMA SegmentsParsed ==
  ASSUME feedClock \in 0..MaxTime, kind = "segments", NEW res \in ParseSegments
  PROVE  \E N : EventsFit(res.events, N)
<1>1. CASE res = NoTrack
  <2>1. res.events = <<>>
    BY <1>1 DEF NoTrack, Result
  <2> QED
    BY <2>1, NothingParsed
<1>2. CASE \E i \in Segments(feedClock) : res = Segment(i)
  <2>1. PICK i \in Segments(feedClock) : res = Segment(i)
    BY <1>2
  <2> DEFINE e == Event(i, Song[i], Id(i, <<"segment", i>>),
                        IF i \in Untimed THEN feedClock ELSE Start[i])
  <2>2. CASE i \in Nameless
    <3>1. res.events = <<>>
      BY <2>1, <2>2 DEF Segment, NoTrack, Result
    <3> QED
      BY <3>1, NothingParsed
  <2>3. CASE i \notin Nameless
    <3>1. res.events = <<e>>
      BY <2>1, <2>3 DEF Segment, Result
    <3>2. i \in Music(feedClock)
      BY <2>1, ItemsAired
    <3>3. i \in Items /\ Song[i] \in Songs /\ Start[i] <= feedClock /\ Start[i] \in Nat
      BY <3>2, MusicIsSongs DEF Music
    <3>4. /\ e.item = i /\ e.song = Song[i] /\ e.run = feedClock
          /\ e.at = (IF i \in Untimed THEN feedClock ELSE Start[i])
          /\ e.sid = Id(i, <<"segment", i>>)
      BY DEF Event
    <3> HIDE DEF e
    <3>5. EventFits(e)
      BY <3>3, <3>4 DEF EventFits, PlayFits, SidFor, ItemTime, Lists
    <3> QED
      BY <3>1, <3>4, <3>5, OneParsed
  <2> QED
    BY <2>2, <2>3
<1> QED
  BY <1>1, <1>2 DEF ParseSegments

\* parse_online_radio_box_now_playing: the event fits.
LEMMA LiveParsed ==
  ASSUME feedClock \in 0..MaxTime, kind = "live"
  PROVE  \E N : EventsFit(ParseLive.events, N)
<1> DEFINE i == Max(Aired(feedClock))
           e == Event(i, Song[i], Id(i, <<"track", Song[i]>>), feedClock)
<1>1. CASE Aired(feedClock) = {} \/ Song[i] = Speech
  <2>1. ParseLive.events = <<>>
    BY <1>1 DEF ParseLive, NoTrack, Result
  <2> QED
    BY <2>1, NothingParsed
<1>2. CASE ~(Aired(feedClock) = {} \/ Song[i] = Speech) /\ i \in Nameless
  <2>1. ParseLive.events = <<>>
    BY <1>2 DEF ParseLive, Failed, Result
  <2> QED
    BY <2>1, NothingParsed
<1>3. CASE ~(Aired(feedClock) = {} \/ Song[i] = Speech) /\ i \notin Nameless
  <2>1. ParseLive.events = <<e>>
    BY <1>3 DEF ParseLive, Result
  <2>2. i \in Aired(feedClock) /\ Song[i] # Speech
    BY <1>3, ItemsAired, NewestOf
  <2> HIDE DEF i
  <2>3. i \in Items /\ Song[i] \in Songs /\ Start[i] <= feedClock
    BY <2>2, MusicIsSongs
  <2>4. /\ e.item = i /\ e.song = Song[i] /\ e.run = feedClock /\ e.at = feedClock
        /\ e.sid = Id(i, <<"track", Song[i]>>)
    BY DEF Event
  <2> HIDE DEF e
  <2>5. EventFits(e)
    BY <2>3, <2>4 DEF EventFits, PlayFits, Lists
  <2> QED
    BY <2>1, <2>4, <2>5, OneParsed
<1> QED
  BY <1>1, <1>2, <1>3

\* parse_iheart_top_songs: the rows fit, each with the id of its place.
LEMMA ChartParsed ==
  ASSUME feedClock \in 0..MaxTime, kind = "chart", feedClock % DayLength = 0,
         NEW chart \in Charts
  PROVE  \E N : /\ EventsFit(ParseChart(chart).events, N)
                /\ \A n \in 1..N : ParseChart(chart).events[n].item = NoItem
<1> DEFINE event(r) == Event(NoItem, chart[r],
                             IF withIds THEN <<"track", chart[r]>> ELSE RankId(r),
                             feedClock)
           events == [r \in DOMAIN chart |-> event(r)]
<1>1. CASE chart = <<>>
  <2>1. ParseChart(chart).events = <<>>
    BY <1>1 DEF ParseChart, NoTrack, Result
  <2> QED
    BY <2>1, NothingParsed
<1>2. CASE chart # <<>>
  <2>1. ParseChart(chart).events = events
    BY <1>2 DEF ParseChart, Result
  <2>2. PICK N \in Nat : DOMAIN chart = 1..N /\ \A r \in 1..N : chart[r] \in Songs
    <3>1. CASE \E x \in Songs : chart = <<x>>
      <4>1. DOMAIN chart = 1..1 /\ \A r \in 1..1 : chart[r] \in Songs
        BY <3>1
      <4> QED
        BY <4>1
    <3>2. CASE chart \in Songs \X Songs
      <4>1. DOMAIN chart = 1..2 /\ \A r \in 1..2 : chart[r] \in Songs
        BY <3>2
      <4> QED
        BY <4>1
    <3> QED
      BY <1>2, <3>1, <3>2 DEF Charts
  <2>3. events = [n \in 1..N |-> events[n]] /\ \A n \in 1..N : events[n] = event(n)
    BY <2>2
  <2> HIDE DEF events
  <2>4. DOMAIN events = 1..N /\ Len(events) = N
    BY <2>3, LenOfFunction
  <2>5. ASSUME NEW n \in 1..N
        PROVE  /\ EventFits(events[n]) /\ events[n].run = feedClock /\ events[n].item = NoItem
               /\ ~withIds => events[n].sid = <<"rank", n, feedClock \div DayLength>>
    <3>1. /\ events[n].item = NoItem /\ events[n].song = chart[n] /\ events[n].run = feedClock
          /\ events[n].at = feedClock
          /\ ~withIds => events[n].sid = <<"rank", n, feedClock \div DayLength>>
      BY <2>3 DEF Event, RankId
    <3>2. chart[n] \in Songs /\ n \in Nat
      BY <2>2
    <3> QED
      BY <3>1, <3>2 DEF EventFits, ChartFits
  <2> QED
    BY <2>1, <2>4, <2>5 DEF EventsFit
<1> QED
  BY <1>1, <1>2

\* The four parsers together.
LEMMA ParsedFits ==
  ASSUME feedClock \in 0..MaxTime, kind \in Kinds, ahead \in 0..(DayLength - 1),
         kind = "chart" => feedClock % DayLength = 0, NEW res \in Parsed
  PROVE  \E N : /\ EventsFit(res.events, N)
                /\ kind = "chart" => \A n \in 1..N : res.events[n].item = NoItem
<1>1. kind \in AllKinds
  BY FeedAssumption
<1>2. CASE kind = "page"
  BY <1>2, PageParsed DEF Parsed
<1>3. CASE kind = "segments"
  BY <1>3, SegmentsParsed DEF Parsed
<1>4. CASE kind = "live"
  BY <1>4, LiveParsed DEF Parsed
<1>5. CASE kind = "chart"
  BY <1>5, ChartParsed DEF Parsed
<1> QED
  BY <1>1, <1>2, <1>3, <1>4, <1>5 DEF AllKinds

\* What a parsed poll may come to.
LEMMA ParsedOutcome ==
  ASSUME kind \in Kinds, NEW res \in Parsed
  PROVE  res.outcome \in {"failed", "no_track", "stored"}
<1>1. kind \in AllKinds
  BY FeedAssumption
<1>2. ParsePage.outcome \in {"failed", "no_track", "stored"}
  BY DEF ParsePage, NoTrack, Result
<1>3. \A x \in ParseSegments : x.outcome \in {"failed", "no_track", "stored"}
  <2>1. NoTrack.outcome = "no_track"
    BY DEF NoTrack, Result
  <2>2. \A i : Segment(i).outcome \in {"no_track", "stored"}
    BY <2>1 DEF Segment, Result
  <2> QED
    BY <2>1, <2>2 DEF ParseSegments
<1>4. ParseLive.outcome \in {"failed", "no_track", "stored"}
  BY DEF ParseLive, NoTrack, Failed, Result
<1>5. \A c : ParseChart(c).outcome \in {"failed", "no_track", "stored"}
  BY DEF ParseChart, NoTrack, Result
<1> QED
  BY <1>1, <1>2, <1>3, <1>4, <1>5 DEF AllKinds, Parsed


-----------------------------------------------------------------------------
(* FeedPolls: the invariant.  Every row says of its item what the feed     *)
(* said of it at the row's poll, at most one row has an id or a key, a row *)
(* of a song has only rows out of its window before it, a chart row is of  *)
(* a chart that was polled, and what the last stored poll showed has left  *)
(* its trace in the table.                                                 *)

\* What a stored poll leaves of an item that it showed: its key is taken, or
\* its id is known, or its song was in the window.
Traced(i, s) ==
  \/ \E r \in rows : r.song = s /\ r.at = ItemTime(i, polled)
  \/ SidFor(i, s) # NoId /\ \E r \in rows : r.sid = SidFor(i, s)
  \/ \E r \in rows : r.song = s /\ r.at >= polled - Window

LastTraced ==
  outcome = "stored" /\ kind \in Lists =>
    \A n \in DOMAIN shown : Traced(shown[n][1], shown[n][2])

\* What a row was not in the window of was on before it.
Spaced(R) ==
  \A r, q \in R : r.song = q.song /\ q.run < r.run => q.at < r.run - Window

FeedInv ==
  /\ FeedTypeOK
  /\ polled <= feedClock
  /\ \A r \in rows : EventFits(r)
  /\ \A r \in rows : r.item = NoItem => r.run <= polled
  /\ OnceInTable(rows)
  /\ Spaced(rows)
  /\ ChartStoredDaily
  /\ LastTraced

LEMMA FeedInvInit == FeedInit => FeedInv
<1> SUFFICES ASSUME FeedInit PROVE FeedInv
  OBVIOUS
<1>1. /\ feedClock \in 0..MaxTime /\ kind \in Kinds /\ withIds \in BOOLEAN
      /\ ahead \in Zones \cup {0} /\ polled \in -1..MaxTime /\ polled <= feedClock
  BY FeedAssumption DEF FeedInit
<1>2. shown = <<>> /\ shown \in Seq((Items \cup {NoItem}) \X Songs)
  BY DEF FeedInit
<1>3. rows = {} /\ outcome = "none"
  BY DEF FeedInit
<1>4. outcome \in Outcomes
  BY <1>3 DEF Outcomes
<1> QED
  BY <1>1, <1>2, <1>3, <1>4
  DEF FeedInv, FeedTypeOK, OnceInTable, Spaced, ChartStoredDaily, LastTraced

\* The page's clock is ahead by less than a day.
LEMMA LessThanADayAhead == FeedInv => ahead \in 0..(DayLength - 1)
BY FeedAssumption DEF FeedInv, FeedTypeOK

\* A poll that was parsed, with its events and what the loop has made of them.
LEMMA PollFacts ==
  ASSUME FeedInv, Poll
  PROVE  \E res \in Parsed, N \in Nat :
           LET acc == Stored(res.events) IN
           /\ EventsFit(res.events, N) /\ DoneTo(res.events, N, acc)
           /\ outcome' = IF res.outcome = "stored" /\ ~acc.ok THEN "rolled_back"
                         ELSE res.outcome
           /\ res.outcome \in {"failed", "no_track", "stored"}
           /\ shown' = [n \in 1..N |-> <<res.events[n].item, res.events[n].song>>]
           /\ rows' = IF acc.ok THEN acc.rows ELSE rows
           /\ kind = "chart" => \A n \in 1..N : res.events[n].item = NoItem
<1>1. PICK res \in Parsed :
        /\ outcome' = IF res.outcome = "stored" /\ ~Stored(res.events).ok THEN "rolled_back"
                      ELSE res.outcome
        /\ shown' = Shown(res.events)
        /\ rows' = RowsAfter(Stored(res.events))
  BY DEF Poll
<1>2. /\ feedClock \in 0..MaxTime /\ kind \in Kinds
      /\ kind = "chart" => feedClock % DayLength = 0
  BY DEF FeedInv, FeedTypeOK, Poll, PollTime
<1>3. PICK N : /\ EventsFit(res.events, N)
               /\ kind = "chart" => \A n \in 1..N : res.events[n].item = NoItem
  BY <1>2, ParsedFits, LessThanADayAhead
<1>4. N \in Nat /\ Len(res.events) = N /\ DOMAIN res.events = 1..N
  BY <1>3 DEF EventsFit
<1>5. OnceInTable(rows)
  BY DEF FeedInv
<1>6. DoneTo(res.events, N, Stored(res.events))
  BY <1>4, <1>5, StoredDone
<1>7. shown' = [n \in 1..N |-> <<res.events[n].item, res.events[n].song>>]
  BY <1>1, <1>4 DEF Shown
<1>8. rows' = IF Stored(res.events).ok THEN Stored(res.events).rows ELSE rows
  BY <1>1 DEF RowsAfter
<1>9. res.outcome \in {"failed", "no_track", "stored"}
  BY <1>2, ParsedOutcome
<1> QED
  BY <1>1, <1>3, <1>4, <1>6, <1>7, <1>8, <1>9

\* The rows after events of this tick: those of before, and some of the events.
LEMMA RowsOf ==
  ASSUME FeedInv, NEW events, NEW N \in Nat, NEW acc, NEW R,
         EventsFit(events, N), DoneTo(events, N, acc),
         R = IF acc.ok THEN acc.rows ELSE rows
  PROVE  /\ \A r \in acc.rows \cup R : EventFits(r) /\ r.run \in 0..feedClock
         /\ OnceInTable(R) /\ Spaced(R)
         /\ rows \subseteq R
         /\ \A r \in R \ rows : NewRow(events, N, r) /\ r.run = feedClock
<1>1. feedClock \in 0..MaxTime /\ Window \in Nat
  BY FeedAssumption DEF FeedInv, FeedTypeOK
<1>2. \A r \in rows : EventFits(r) /\ r.run \in 0..feedClock /\ r.at \in Nat
  BY <1>1 DEF FeedInv, FeedTypeOK
<1>3. \A r \in acc.rows : r \in rows \/ NewRow(events, N, r)
  BY DEF DoneTo
<1>4. \A r : NewRow(events, N, r) => EventFits(r) /\ r.run = feedClock
  BY DEF NewRow, EventsFit
<1>5. \A r \in acc.rows : EventFits(r) /\ r.run \in 0..feedClock
  BY <1>1, <1>2, <1>3, <1>4
<1>6. OnceInTable(R) /\ rows \subseteq R /\ \A r \in R \ rows : NewRow(events, N, r)
  BY <1>3 DEF DoneTo, FeedInv
<1>7. \A r \in R : r \in rows \/ (NewRow(events, N, r) /\ r.run = feedClock)
  BY <1>4, <1>6
<1>8. Spaced(R)
  <2> SUFFICES ASSUME NEW r \in R, NEW q \in R, r.song = q.song, q.run < r.run
               PROVE  q.at < r.run - Window
    BY DEF Spaced
  <2>1. CASE r \in rows /\ q \in rows
    BY <2>1 DEF FeedInv, Spaced
  <2>2. CASE r \in rows /\ q \notin rows
    BY <1>1, <1>2, <1>7, <2>2
  <2>3. CASE r \notin rows
    <3>1. NewRow(events, N, r) /\ r.run = feedClock
      BY <1>7, <2>3
    <3>2. q \in rows
      BY <1>1, <1>7, <3>1
    <3>3. ~(q.at >= feedClock - Window)
      BY <3>1, <3>2 DEF NewRow, InWindow
    <3> QED
      BY <1>1, <1>2, <3>1, <3>2, <3>3
  <2> QED
    BY <2>1, <2>2, <2>3
<1> QED
  BY <1>2, <1>4, <1>5, <1>6, <1>8

\* The rows after a parsed poll.
LEMMA PollRows ==
  ASSUME FeedInv, Poll, NEW events, NEW N \in Nat, NEW acc,
         EventsFit(events, N), DoneTo(events, N, acc),
         rows' = IF acc.ok THEN acc.rows ELSE rows
  PROVE  /\ \A r \in acc.rows \cup rows' : EventFits(r) /\ r.run \in 0..feedClock
         /\ OnceInTable(rows') /\ Spaced(rows')
         /\ rows \subseteq rows'
         /\ \A r \in rows' \ rows : NewRow(events, N, r)
BY RowsOf

\* A parsed poll keeps the types.
LEMMA PollTypes == FeedInv /\ Poll => FeedTypeOK'
<1> SUFFICES ASSUME FeedInv, Poll PROVE FeedTypeOK'
  OBVIOUS
<1>1. PICK res \in Parsed, N \in Nat :
        LET acc == Stored(res.events) IN
        /\ EventsFit(res.events, N) /\ DoneTo(res.events, N, acc)
        /\ outcome' = IF res.outcome = "stored" /\ ~acc.ok THEN "rolled_back"
                      ELSE res.outcome
        /\ res.outcome \in {"failed", "no_track", "stored"}
        /\ shown' = [n \in 1..N |-> <<res.events[n].item, res.events[n].song>>]
        /\ rows' = IF acc.ok THEN acc.rows ELSE rows
  BY PollFacts
<1>2. \A r \in rows' : EventFits(r) /\ r.run \in 0..feedClock
  BY <1>1, PollRows
<1>3. /\ feedClock' = feedClock /\ kind' = kind /\ withIds' = withIds /\ ahead' = ahead
      /\ polled' = feedClock /\ feedClock \in 0..MaxTime
      /\ kind \in Kinds /\ withIds \in BOOLEAN /\ ahead \in Zones \cup {0}
  BY DEF Poll, FeedInv, FeedTypeOK, sourceVars
<1>4. shown' \in Seq((Items \cup {NoItem}) \X Songs)
  <2> DEFINE T == (Items \cup {NoItem}) \X Songs
  <2>1. \A n \in 1..N : <<res.events[n].item, res.events[n].song>> \in T
    BY <1>1 DEF EventsFit, EventFits
  <2> HIDE DEF T
  <2>2. shown' \in [1..N -> T]
    BY <1>1, <2>1
  <2>3. shown' \in Seq(T)
    BY <2>2, SeqDef
  <2> QED
    BY <2>3 DEF T
<1>5. outcome' \in Outcomes
  BY <1>1 DEF Outcomes
<1>6. \A r \in rows' : /\ r.item \in Items \cup {NoItem} /\ r.song \in Songs
                       /\ r.at \in Nat /\ r.run \in 0..feedClock'
  BY <1>2, <1>3 DEF EventFits
<1>7. polled' \in -1..MaxTime
  BY <1>3
<1> QED
  BY <1>3, <1>4, <1>5, <1>6, <1>7 DEF FeedTypeOK

\* A chart that was stored has a row for every song, or found one of the song
\* in the window: no row of an earlier chart has the id of its place.
LEMMA PollStoresChart == FeedInv /\ Poll => ChartStoredDaily'
<1> SUFFICES ASSUME FeedInv, Poll, kind' = "chart", ~withIds', outcome' = "stored",
                    NEW n \in DOMAIN shown'
             PROVE  \E r \in rows' : r.song = shown'[n][2] /\ r.at >= polled' - Window
  BY DEF ChartStoredDaily
<1>1. PICK res \in Parsed, N \in Nat :
        LET acc == Stored(res.events) IN
        /\ EventsFit(res.events, N) /\ DoneTo(res.events, N, acc)
        /\ outcome' = IF res.outcome = "stored" /\ ~acc.ok THEN "rolled_back"
                      ELSE res.outcome
        /\ res.outcome \in {"failed", "no_track", "stored"}
        /\ shown' = [k \in 1..N |-> <<res.events[k].item, res.events[k].song>>]
        /\ rows' = IF acc.ok THEN acc.rows ELSE rows
        /\ kind = "chart" => \A k \in 1..N : res.events[k].item = NoItem
  BY PollFacts
<1> DEFINE acc == Stored(res.events)
           e == res.events[n]
<1>2. acc.ok /\ rows' = acc.rows
  <2>1. acc.ok \in BOOLEAN
    BY <1>1 DEF DoneTo
  <2>2. acc.ok
    BY <1>1, <2>1
  <2> QED
    BY <1>1, <2>2
<1>3. /\ polled' = feedClock /\ feedClock \in Nat /\ kind = "chart" /\ ~withIds
      /\ feedClock % DayLength = 0 /\ polled \in Int /\ polled < feedClock
      /\ Window \in Nat
  BY FeedAssumption DEF Poll, PollTime, FeedInv, FeedTypeOK, sourceVars
<1>4. n \in 1..N /\ n \in Nat /\ shown'[n][2] = e.song
  BY <1>1
<1>5. \A k \in 1..N : /\ EventFits(res.events[k]) /\ res.events[k].run = feedClock
                      /\ res.events[k].sid = <<"rank", k, feedClock \div DayLength>>
  BY <1>1, <1>3 DEF EventsFit
<1>6. /\ EventFits(e) /\ e.run = feedClock /\ e.item = NoItem
      /\ e.sid = <<"rank", n, feedClock \div DayLength>>
  BY <1>1, <1>3, <1>4, <1>5
<1>7. Handled(res.events, n, rows')
  <2>1. DoneTo(res.events, N, acc)
    BY <1>1
  <2> HIDE DEF acc
  <2> QED
    BY <1>2, <1>4, <2>1 DEF DoneTo
<1>8. e.at = feedClock
  BY <1>3, <1>6 DEF EventFits, ChartFits
<1> HIDE DEF acc
<1>9. CASE e \in rows'
  BY <1>3, <1>4, <1>8, <1>9
<1>10. CASE InWindow(rows', e)
  BY <1>3, <1>4, <1>10 DEF InWindow
<1>11. ASSUME NEW r \in rows', r.sid = e.sid,
              r \in rows \/ \E j \in 1..(n - 1) : r = res.events[j]
       PROVE  FALSE
  <2>1. CASE r \in rows
    <3>1. EventFits(r) /\ ChartFits(r) /\ r.run \in Nat
      BY <1>3, <2>1 DEF FeedInv, EventFits
    <3>2. r.item = NoItem
      BY <1>6, <1>11, <3>1 DEF ChartFits
    <3>3. r.run <= polled /\ r.run % DayLength = 0
      BY <2>1, <3>1, <3>2 DEF FeedInv, ChartFits
    <3>4. PICK k \in Nat : r.sid = <<"rank", k, r.run \div DayLength>>
      BY <1>3, <3>1, <3>2 DEF ChartFits
    <3>5. r.run \div DayLength = feedClock \div DayLength
      BY <1>6, <1>11, <3>4
    <3>6. r.run = feedClock
      BY <1>3, <3>1, <3>3, <3>5, SameMidnight
    <3> QED
      BY <1>3, <3>1, <3>3, <3>6
  <2>2. CASE \E j \in 1..(n - 1) : r = res.events[j]
    <3>1. PICK j \in 1..(n - 1) : r = res.events[j]
      BY <2>2
    <3>2. j \in 1..N /\ j < n
      BY <1>1, <1>4
    <3>3. r.sid = <<"rank", j, feedClock \div DayLength>>
      BY <1>5, <3>1, <3>2
    <3>4. j = n
      BY <1>6, <1>11, <3>3
    <3> QED
      BY <1>4, <3>2, <3>4
  <2> QED
    BY <1>11, <2>1, <2>2
<1> QED
  BY <1>7, <1>9, <1>10, <1>11 DEF Handled

\* A stored poll has left a trace of every item it showed.
LEMMA PollTraces == FeedInv /\ Poll => LastTraced'
<1> SUFFICES ASSUME FeedInv, Poll, outcome' = "stored", kind' \in Lists, NEW n \in DOMAIN shown'
             PROVE  Traced(shown[n][1], shown[n][2])'
  BY DEF LastTraced
<1>1. PICK res \in Parsed, N \in Nat :
        LET acc == Stored(res.events) IN
        /\ EventsFit(res.events, N) /\ DoneTo(res.events, N, acc)
        /\ outcome' = IF res.outcome = "stored" /\ ~acc.ok THEN "rolled_back"
                      ELSE res.outcome
        /\ res.outcome \in {"failed", "no_track", "stored"}
        /\ shown' = [k \in 1..N |-> <<res.events[k].item, res.events[k].song>>]
        /\ rows' = IF acc.ok THEN acc.rows ELSE rows
  BY PollFacts
<1> DEFINE acc == Stored(res.events)
           e == res.events[n]
           i == e.item
           s == e.song
<1>2. acc.ok /\ rows' = acc.rows
  <2>1. acc.ok \in BOOLEAN
    BY <1>1 DEF DoneTo
  <2>2. acc.ok
    BY <1>1, <2>1
  <2> QED
    BY <1>1, <2>2
<1>3. kind' = kind /\ withIds' = withIds /\ ahead' = ahead /\ polled' = feedClock
      /\ kind # "chart"
  BY DEF Poll, sourceVars, Lists
<1>4. n \in 1..N /\ shown'[n][1] = i /\ shown'[n][2] = s
  BY <1>1
<1>5. e.at = ItemTime(i, feedClock) /\ e.sid = SidFor(i, s)
  BY <1>1, <1>3, <1>4 DEF EventsFit, EventFits, PlayFits
<1>6. Handled(res.events, n, rows')
  <2>1. DoneTo(res.events, N, acc)
    BY <1>1
  <2> HIDE DEF acc
  <2> QED
    BY <1>2, <1>4, <2>1 DEF DoneTo
<1>7. \/ \E r \in rows' : r.song = s /\ r.at = ItemTime(i, feedClock)
      \/ SidFor(i, s) # NoId /\ \E r \in rows' : r.sid = SidFor(i, s)
      \/ \E r \in rows' : r.song = s /\ r.at >= feedClock - Window
  BY <1>5, <1>6 DEF Handled, InWindow
<1>8. ItemTime(i, polled)' = ItemTime(i, feedClock) /\ SidFor(i, s)' = SidFor(i, s)
  BY <1>3 DEF ItemTime, PageTime, SidFor, Id
<1> HIDE DEF i, s
<1> QED
  BY <1>3, <1>4, <1>7, <1>8 DEF Traced

\* A parsed poll keeps the invariant.
LEMMA PollInv == FeedInv /\ Poll => FeedInv'
<1> SUFFICES ASSUME FeedInv, Poll PROVE FeedInv'
  OBVIOUS
<1>1. PICK res \in Parsed, N \in Nat :
        LET acc == Stored(res.events) IN
        /\ EventsFit(res.events, N) /\ DoneTo(res.events, N, acc)
        /\ outcome' = IF res.outcome = "stored" /\ ~acc.ok THEN "rolled_back"
                      ELSE res.outcome
        /\ res.outcome \in {"failed", "no_track", "stored"}
        /\ shown' = [k \in 1..N |-> <<res.events[k].item, res.events[k].song>>]
        /\ rows' = IF acc.ok THEN acc.rows ELSE rows
  BY PollFacts
<1>2. /\ \A r \in rows' : EventFits(r) /\ r.run \in 0..feedClock
      /\ OnceInTable(rows') /\ Spaced(rows')
  BY <1>1, PollRows
<1>3. kind' = kind /\ withIds' = withIds /\ ahead' = ahead /\ polled' = feedClock
      /\ feedClock' = feedClock /\ feedClock \in Nat
  BY DEF Poll, FeedInv, FeedTypeOK, sourceVars
<1>4. \A r \in rows' : EventFits(r)'
  BY <1>2, <1>3 DEF EventFits, PlayFits, ChartFits, OnPage, SidFor, ItemTime, PageTime, Id
<1>5. \A r \in rows' : r.run <= polled'
  BY <1>2, <1>3
<1> QED
  BY <1>2, <1>3, <1>4, <1>5, PollTypes, PollStoresChart, PollTraces
  DEF FeedInv, OnceInTable, Spaced

\* A play of another feed of the chart's station keeps the invariant.
LEMMA OtherFeedInv == FeedInv /\ OtherFeed => FeedInv'
<1> SUFFICES ASSUME FeedInv, OtherFeed PROVE FeedInv'
  OBVIOUS
<1>1. PICK i \in Listed(feedClock) :
        rows' = RowsAfter(Stored(<<Event(i, Song[i], <<"play", i>>, Start[i])>>))
  BY DEF OtherFeed
<1> DEFINE e == Event(i, Song[i], <<"play", i>>, Start[i])
           acc == Stored(<<e>>)
<1>2. /\ kind = "chart" /\ kind' = kind /\ withIds' = withIds /\ ahead' = ahead
      /\ polled' = polled /\ feedClock' = feedClock /\ shown' = shown /\ outcome' = outcome
      /\ feedClock \in 0..MaxTime
  BY DEF OtherFeed, sourceVars, FeedInv, FeedTypeOK
<1>3. i \in Items /\ Song[i] \in Songs /\ Start[i] \in Nat /\ i # NoItem
  <2>1. i \in Music(feedClock)
    BY ItemsAired
  <2> QED
    BY <2>1, MusicIsSongs, ItemsAired DEF Music
<1>4. /\ e.item = i /\ e.song = Song[i] /\ e.run = feedClock /\ e.at = Start[i]
      /\ e.sid = <<"play", i>>
  BY DEF Event
<1>5. rows' = IF acc.ok THEN acc.rows ELSE rows
  BY <1>1 DEF RowsAfter
<1>6. Len(<<e>>) = 1
  OBVIOUS
<1>7. OnceInTable(rows)
  BY DEF FeedInv
<1> HIDE DEF e
<1>8. EventFits(e)
  BY <1>2, <1>3, <1>4 DEF EventFits, ChartFits
<1>9. EventsFit(<<e>>, 1)
  BY <1>3, <1>4, <1>8, OneParsed
<1>10. DoneTo(<<e>>, 1, acc)
  BY <1>6, <1>7, StoredDone
<1> HIDE DEF acc
<1>11. /\ \A r \in rows' : EventFits(r) /\ r.run \in 0..feedClock
       /\ OnceInTable(rows') /\ Spaced(rows') /\ rows \subseteq rows'
       /\ \A r \in rows' \ rows : NewRow(<<e>>, 1, r)
  BY <1>5, <1>9, <1>10, RowsOf
<1>12. \A r \in rows' : r.item = NoItem => r.run <= polled
  <2>1. \A r \in rows' \ rows : r = e
    BY <1>11 DEF NewRow
  <2> QED
    BY <1>3, <1>4, <2>1 DEF FeedInv
<1>13. FeedTypeOK'
  BY <1>2, <1>11 DEF FeedInv, FeedTypeOK, EventFits
<1>14. \A r \in rows' : EventFits(r)'
  BY <1>2, <1>11 DEF EventFits, ChartFits
<1>15. ChartStoredDaily'
  BY <1>2, <1>11 DEF FeedInv, ChartStoredDaily
<1>16. LastTraced'
  BY <1>2 DEF LastTraced, Lists
<1> QED
  BY <1>2, <1>11, <1>12, <1>13, <1>14, <1>15, <1>16 DEF FeedInv, OnceInTable, Spaced

\* A step that stores nothing and moves the clock or the poll forward.
LEMMA QuietInv ==
  ASSUME FeedInv, kind' = kind, withIds' = withIds, ahead' = ahead, rows' = rows,
         shown' = shown, feedClock' \in 0..MaxTime, feedClock <= feedClock',
         polled' \in -1..MaxTime, polled <= polled',
         polled' <= feedClock',
         \/ outcome' = outcome /\ polled' = polled
         \/ outcome' \in {"no_track", "failed"}
  PROVE  FeedInv'
<1>1. FeedTypeOK'
  <2>1. outcome' \in Outcomes
    BY DEF FeedInv, FeedTypeOK, Outcomes
  <2>2. \A r \in rows : r.run \in 0..feedClock'
    BY DEF FeedInv, FeedTypeOK
  <2> QED
    BY <2>1, <2>2 DEF FeedInv, FeedTypeOK
<1>2. \A r \in rows' : EventFits(r)'
  BY DEF FeedInv, EventFits, PlayFits, ChartFits, OnPage, SidFor, ItemTime, PageTime, Id
<1>3. OnceInTable(rows') /\ Spaced(rows')
  BY DEF FeedInv
<1>4. ChartStoredDaily'
  BY DEF FeedInv, ChartStoredDaily
<1>6. \A r \in rows' : r.item = NoItem => r.run <= polled'
  BY DEF FeedInv, FeedTypeOK
<1>5. LastTraced'
  <2> SUFFICES ASSUME outcome' = "stored", kind' \in Lists, NEW n \in DOMAIN shown'
               PROVE  Traced(shown[n][1], shown[n][2])'
    BY DEF LastTraced
  <2>1. outcome = "stored" /\ polled' = polled
    OBVIOUS
  <2>2. Traced(shown[n][1], shown[n][2])
    BY <2>1 DEF FeedInv, LastTraced
  <2> QED
    BY <2>1, <2>2 DEF Traced, ItemTime, PageTime, SidFor, Id
<1> QED
  BY <1>1, <1>2, <1>3, <1>4, <1>5, <1>6 DEF FeedInv, OnceInTable, Spaced

LEMMA FeedInvNext == FeedInv /\ [FeedNext]_feedVars => FeedInv'
<1> SUFFICES ASSUME FeedInv, [FeedNext]_feedVars PROVE FeedInv'
  OBVIOUS
<1>1. feedClock \in 0..MaxTime /\ polled \in -1..MaxTime /\ polled <= feedClock /\ MaxTime \in Nat
  BY FeedAssumption DEF FeedInv, FeedTypeOK
<1>2. CASE FeedTick
  <2>1. /\ feedClock' \in 0..MaxTime /\ polled' = polled /\ polled' <= feedClock'
        /\ polled <= polled' /\ feedClock <= feedClock'
    BY <1>1, <1>2 DEF FeedTick
  <2> QED
    BY <1>1, <1>2, <2>1, QuietInv DEF FeedTick, sourceVars
<1>3. CASE Poll
  BY <1>3, PollInv
<1>4. CASE PollSilent
  <2>1. /\ feedClock' \in 0..MaxTime /\ polled' \in -1..MaxTime /\ polled' <= feedClock'
        /\ polled <= polled' /\ feedClock <= feedClock'
    BY <1>1, <1>4 DEF PollSilent
  <2> QED
    BY <1>1, <1>4, <2>1, QuietInv DEF PollSilent, sourceVars
<1>5. CASE PollFails
  <2>1. /\ feedClock' \in 0..MaxTime /\ polled' \in -1..MaxTime /\ polled' <= feedClock'
        /\ polled <= polled' /\ feedClock <= feedClock'
    BY <1>1, <1>5 DEF PollFails
  <2> QED
    BY <1>1, <1>5, <2>1, QuietInv DEF PollFails, sourceVars
<1>6. CASE UNCHANGED feedVars
  <2>1. polled <= polled' /\ feedClock <= feedClock'
    BY <1>1, <1>6 DEF feedVars
  <2> QED
    BY <1>1, <1>6, <2>1, QuietInv DEF feedVars
<1>7. CASE FeedDone
  BY <1>6, <1>7 DEF FeedDone
<1>8. CASE OtherFeed
  BY <1>8, OtherFeedInv
<1> QED
  BY <1>2, <1>3, <1>4, <1>5, <1>6, <1>7, <1>8 DEF FeedNext

LEMMA FeedInvariance == FeedSpec => []FeedInv
<1> QED
  BY FeedInvInit, FeedInvNext, PTL DEF FeedSpec


\* The clock, the last poll, what it showed and the rows are of their types.
THEOREM FeedTypeCorrect == FeedSpec => []FeedTypeOK
<1>1. FeedInv => FeedTypeOK
  BY DEF FeedInv
<1> QED
  BY <1>1, FeedInvariance, PTL

\* _parse_time_element puts the date of the poll to a time of day: over any
\* midnights, any polls and any lead of the page's clock a row of the page is
\* off by that lead, or by that and a day, if the page lists the plays of two
\* days at most; a row without a time has that of its poll.
THEOREM TimesAreOffByZoneAndDay == FeedSpec => []OffByZoneAndDay
<1>1. FeedInv => OffByZoneAndDay
  <2> SUFFICES ASSUME FeedInv, NEW r \in rows, r.item # NoItem, kind # "chart"
               PROVE  IF Timed(r.item)
                      THEN r.at - Start[r.item]
                             \in (IF kind = "page" THEN {ahead - DayLength, ahead, ahead + DayLength}
                                  ELSE {0})
                      ELSE r.at = r.run /\ r.at >= Start[r.item]
    BY DEF OffByZoneAndDay
  <2>1. PlayFits(r) /\ r.run \in Nat /\ kind \in AllKinds
    BY FeedAssumption DEF FeedInv, FeedTypeOK, EventFits
  <2>2. r.item \in Items /\ Start[r.item] <= r.run /\ Start[r.item] \in Nat
    BY <2>1, FeedAssumption DEF PlayFits
  <2>3. CASE kind = "page" /\ r.item \notin Untimed
    <3>1. r.at = PageTime(r.item, r.run) /\ OnPage(r.item, r.run)
      BY <2>1, <2>3 DEF PlayFits, ItemTime, Lists
    <3> QED
      BY <2>1, <2>2, <2>3, <3>1, PageTimes, LessThanADayAhead DEF Timed
  <2>4. CASE kind = "segments" /\ r.item \notin Untimed
    BY <2>1, <2>2, <2>4 DEF Timed, PlayFits, ItemTime, Lists
  <2>5. CASE kind \in Lists /\ r.item \in Untimed
    BY <2>1, <2>2, <2>5 DEF Timed, PlayFits, ItemTime, PageTime, Lists
  <2>6. CASE kind = "live"
    BY <2>1, <2>2, <2>6 DEF Timed, PlayFits
  <2> QED
    BY <2>1, <2>3, <2>4, <2>5, <2>6 DEF AllKinds, Lists
<1> QED
  BY <1>1, FeedInvariance, PTL

\* However often a play is read it has one row, unless the source gives it no
\* id: then its rows are a day apart, by page times, or more than the window
\* apart, by the times of the polls.
THEOREM PlaysHaveOneRow == FeedSpec => []SamePlayOneRow
<1>1. FeedInv => SamePlayOneRow
  <2> SUFFICES ASSUME FeedInv, NEW r \in rows, NEW q \in rows,
                      kind # "chart", r.item = q.item, r # q
               PROVE  /\ r.sid = NoId
                      /\ IF Timed(r.item)
                         THEN kind = "page" /\ r.at - q.at \in {DayLength, -DayLength}
                         ELSE r.at - q.at \notin -Window..Window
    BY DEF SamePlayOneRow
  <2>1. /\ PlayFits(r) /\ PlayFits(q) /\ OnceInTable(rows) /\ kind \in AllKinds
        /\ r.run \in Nat /\ q.run \in Nat /\ r.at \in Nat /\ q.at \in Nat
    BY FeedAssumption DEF FeedInv, FeedTypeOK, EventFits
  <2>2. ~(r.sid # NoId /\ r.sid = q.sid) /\ ~(r.song = q.song /\ r.at = q.at)
    BY <2>1 DEF OnceInTable
  <2>3. r.item \in Items /\ r.song = Song[r.item] /\ q.song = Song[r.item]
    BY <2>1 DEF PlayFits
  <2>4. r.sid = q.sid
    BY <2>1, <2>3 DEF PlayFits, SidFor, Lists, AllKinds
  <2>5. r.at # q.at
    BY <2>2, <2>3
  <2>6. CASE Timed(r.item)
    <3>1. kind = "page"
      <4>1. SUFFICES ASSUME kind = "segments" PROVE FALSE
        BY <2>6 DEF Timed
      <4>2. r.at = Start[r.item] /\ q.at = Start[r.item]
        BY <2>1, <2>6, <4>1 DEF PlayFits, ItemTime, Lists, Timed
      <4> QED
        BY <2>5, <4>2
    <3>2. /\ r.at = PageTime(r.item, r.run) /\ OnPage(r.item, r.run)
          /\ q.at = PageTime(r.item, q.run) /\ OnPage(r.item, q.run)
      BY <2>1, <2>6, <3>1 DEF PlayFits, ItemTime, Lists, Timed
    <3>3. r.at - q.at \in {-DayLength, 0, DayLength}
      BY <2>1, <2>3, <3>2, PageTimesApart, LessThanADayAhead
    <3> QED
      BY <2>1, <2>2, <2>4, <2>5, <2>6, <3>1, <3>3
  <2>7. CASE ~Timed(r.item)
    <3>1. r.at = r.run /\ q.at = q.run
      BY <2>1, <2>3, <2>7 DEF PlayFits, ItemTime, PageTime, Lists, Timed, AllKinds
    <3>2. /\ q.run < r.run => q.at < r.run - Window
          /\ r.run < q.run => r.at < q.run - Window
      BY <2>3 DEF FeedInv, Spaced
    <3>3. Window \in Nat
      BY FeedAssumption
    <3>4. r.at - q.at \notin -Window..Window
      BY <2>1, <2>5, <3>1, <3>2, <3>3
    <3> QED
      BY <2>2, <2>4, <2>7, <3>4
  <2> QED
    BY <2>6, <2>7
<1> QED
  BY <1>1, FeedInvariance, PTL

\* parse_iheart_top_songs: of a chart of any length without the source's ids
\* that was stored, every song has a row, or has been on within the window.
THEOREM ChartsAreStoredDaily == FeedSpec => []ChartStoredDaily
<1>1. FeedInv => ChartStoredDaily
  BY DEF FeedInv
<1> QED
  BY <1>1, FeedInvariance, PTL

\* A poll that sees the list of the poll before again, on the same day, adds
\* nothing but plays which that poll took for a repeat within the window.
THEOREM RepollsAddRepeats == FeedSpec => RepollAddsOnlyRepeats
<1>1. ASSUME FeedInv, Poll, kind \in {"page", "segments"}, shown' = shown,
             \A n \in DOMAIN shown : shown[n][1] \notin Untimed,
             SameDay(feedClock, polled), outcome = "stored",
             NEW r \in rows' \ rows
      PROVE  \E q \in rows : /\ q.song = r.song /\ q.at # r.at
                            /\ q.at >= polled - Window /\ q.at < feedClock - Window
  <2>1. PICK res \in Parsed, N \in Nat :
          LET acc == Stored(res.events) IN
          /\ EventsFit(res.events, N) /\ DoneTo(res.events, N, acc)
          /\ outcome' = IF res.outcome = "stored" /\ ~acc.ok THEN "rolled_back"
                        ELSE res.outcome
          /\ res.outcome \in {"failed", "no_track", "stored"}
          /\ shown' = [k \in 1..N |-> <<res.events[k].item, res.events[k].song>>]
          /\ rows' = IF acc.ok THEN acc.rows ELSE rows
    BY <1>1, PollFacts
  <2>2. NewRow(res.events, N, r)
    BY <1>1, <2>1, PollRows
  <2>3. PICK n \in 1..N : /\ r = res.events[n]
                          /\ ~KnownId(rows, r) /\ ~InWindow(rows, r) /\ ~KeyTaken(rows, r)
    BY <2>2 DEF NewRow
  <2>4. n \in DOMAIN shown /\ shown[n] = <<r.item, r.song>>
    BY <1>1, <2>1, <2>3
  <2>5. shown[n][1] = r.item /\ shown[n][2] = r.song /\ r.item \notin Untimed
    BY <1>1, <2>4
  <2>6. Traced(r.item, r.song)
    BY <1>1, <2>4, <2>5 DEF FeedInv, LastTraced, Lists
  <2>7. r.sid = SidFor(r.item, r.song) /\ r.at = ItemTime(r.item, feedClock)
    BY <1>1, <2>1, <2>3 DEF EventsFit, EventFits, PlayFits, Lists
  <2>8. ItemTime(r.item, feedClock) = ItemTime(r.item, polled)
    BY <1>1, <2>5 DEF ItemTime, PageTime, SameDay
  <2>9. PICK q \in rows : q.song = r.song /\ q.at >= polled - Window
    BY <2>3, <2>6, <2>7, <2>8 DEF Traced, KnownId, KeyTaken
  <2>10. q.at # r.at
    BY <2>3, <2>9 DEF KeyTaken
  <2>11. ~(q.at >= feedClock - Window)
    BY <2>3, <2>9 DEF InWindow
  <2>12. q.at \in Nat /\ feedClock \in Nat /\ Window \in Nat
    BY <1>1, FeedAssumption DEF FeedInv, FeedTypeOK
  <2> QED
    BY <2>9, <2>10, <2>11, <2>12
<1>2. FeedInv =>
        [(/\ Poll
          /\ kind \in {"page", "segments"}
          /\ shown' = shown
          /\ \A n \in DOMAIN shown : shown[n][1] \notin Untimed
          /\ SameDay(feedClock, polled)
          /\ outcome = "stored")
         => \A r \in rows' \ rows : \E q \in rows :
              /\ q.song = r.song /\ q.at # r.at
              /\ q.at >= polled - Window /\ q.at < feedClock - Window]_feedVars
  BY <1>1
<1> QED
  BY <1>2, FeedInvariance, PTL DEF RepollAddsOnlyRepeats

-----------------------------------------------------------------------------
(* ServerParts: the parts beside each other.  No step of one part reads or *)
(* writes what another one has, so a behaviour of all of them is one of    *)
(* each, with steps in which that part rests.                              *)

\* What a step of the service is for each part: a step of its own or none.
LEMMA EachPartSteps ==
  ASSUME [ServerNext]_serverVars
  PROVE  /\ [FeedNext]_feedVars
         /\ [LimiterNext]_limiterVars
         /\ [MonitorNext]_monitorVars
         /\ [WebhookNext]_webhookVars
         /\ [ChartNext]_chartVars
         /\ [DeskNext]_deskVars
         /\ [ImportNext]_importVars
         /\ [CheckNext]_checkVars
         /\ [SeederNext]_seederVars
         /\ part' = part
<1> USE DEF Alone
<1>1. CASE Alone("feeds") /\ FeedNext
  BY <1>1
<1>2. CASE Alone("limiter") /\ LimiterNext
  BY <1>2
<1>3. CASE Alone("monitor") /\ MonitorNext
  BY <1>3
<1>4. CASE Alone("webhooks") /\ WebhookNext
  BY <1>4
<1>5. CASE Alone("charts") /\ ChartNext
  BY <1>5
<1>6. CASE Alone("desk") /\ DeskNext
  BY <1>6
<1>7. CASE Alone("imports") /\ ImportNext
  BY <1>7
<1>8. CASE Alone("checks") /\ CheckNext
  BY <1>8
<1>9. CASE Alone("seeder") /\ SeederNext
  BY <1>9
<1>10. CASE UNCHANGED serverVars
  BY <1>10 DEF serverVars
<1> QED
  BY <1>1, <1>2, <1>3, <1>4, <1>5, <1>6, <1>7, <1>8, <1>9, <1>10 DEF ServerNext

\* Seen from one part, a run of the service is a run of that part: what is
\* proved of it alone holds in the service.
LEMMA EachPartRuns ==
  ServerSpec => /\ FeedSpec /\ LimiterSpec /\ MonitorSpec /\ WebhookSpec /\ ChartSpec
                /\ DeskSpec /\ ImportSpec /\ CheckSpec /\ SeederSpec
<1>1. ServerInit => /\ FeedInit /\ LimiterInit /\ MonitorInit /\ WebhookInit /\ ChartInit
                    /\ DeskInit /\ ImportInit /\ CheckInit /\ SeederInit
  BY DEF ServerInit
<1>2. [ServerNext]_serverVars =>
        /\ [FeedNext]_feedVars /\ [LimiterNext]_limiterVars /\ [MonitorNext]_monitorVars
        /\ [WebhookNext]_webhookVars /\ [ChartNext]_chartVars /\ [DeskNext]_deskVars
        /\ [ImportNext]_importVars /\ [CheckNext]_checkVars /\ [SeederNext]_seederVars
  BY EachPartSteps
<1> QED
  BY <1>1, <1>2, PTL DEF ServerSpec, FeedSpec, LimiterSpec, MonitorSpec, WebhookSpec,
     ChartSpec, DeskSpec, ImportSpec, CheckSpec, SeederSpec

\* The service as a whole is of its types.
THEOREM ServerTypeCorrect == ServerSpec => []ServerTypeOK
<1>1. ServerSpec => [](part \in Parts)
  <2>1. ServerInit => part \in Parts
    BY DEF ServerInit
  <2>2. part \in Parts /\ [ServerNext]_serverVars => (part \in Parts)'
    BY EachPartSteps
  <2> QED
    BY <2>1, <2>2, PTL DEF ServerSpec
<1>2. /\ part \in Parts
      /\ FeedTypeOK /\ LimiterTypeOK /\ MonitorTypeOK /\ WebhookTypeOK /\ ChartTypeOK
      /\ DeskTypeOK /\ ImportsTypeOK /\ ChecksTypeOK /\ SeederTypeOK
      => ServerTypeOK
  BY DEF ServerTypeOK
<1> QED
  BY <1>1, <1>2, EachPartRuns, FeedTypeCorrect, LimiterTypeCorrect, MonitorTypeCorrect,
     WebhookTypeCorrect, ChartTypeCorrect, DeskTypeCorrect, ImportsTypeCorrect,
     ChecksTypeCorrect, SeederTypeCorrect, PTL
=============================================================================
