------------------------- MODULE ServicePartsProofs -------------------------
(***************************************************************************)
(* The theorems of the smaller parts of the service: the monitor of the    *)
(* Capital job, the seeding, the webhooks, the chart cache, the source     *)
(* checks and the imports.  Each part has an inductive invariant of its    *)
(* own; ServerPartsProofs puts them together.                              *)
(***************************************************************************)
EXTENDS CapitalMonitor, Seeder, Webhooks, ChartCache, SourceChecks, Imports,
        FiniteSetTheorems, FunctionTheorems, SequenceTheorems,
        WellFoundedInduction, TLAPS

-----------------------------------------------------------------------------
(* Sets of natural numbers.  The library states induction with an operator *)
(* for its parameter; the least element of a set says the same of a set.   *)

LEMMA LeastNatural ==
  ASSUME NEW S \in SUBSET Nat, S # {}
  PROVE  \E m \in S : \A k \in S : m <= k
<1> DEFINE R == OpToRel(<, Nat)
<1>1. \A i, j \in Nat : <<i, j>> \in R <=> i < j
  BY DEF OpToRel
<1>2. IsWellFoundedOn(R, Nat)
  BY NatLessThanWellFounded
<1> HIDE DEF R
<1>3. PICK m \in S : \A k \in S : <<k, m>> \notin R
  BY <1>2, WFMin
<1>4. ASSUME NEW k \in S
      PROVE  m <= k
  <2>1. <<k, m>> \notin R /\ k \in Nat /\ m \in Nat
    BY <1>3
  <2>2. ~(k < m)
    BY <1>1, <2>1
  <2> QED
    BY <2>1, <2>2
<1> QED
  BY <1>3, <1>4

LEMMA GreatestNatural ==
  ASSUME NEW N \in Nat, NEW S \in SUBSET (0..N), S # {}
  PROVE  \E m \in S : \A k \in S : k <= m
<1> DEFINE T == {N - k : k \in S}
<1>1. T \in SUBSET Nat /\ T # {}
  OBVIOUS
<1>2. PICK t \in T : \A u \in T : t <= u
  BY <1>1, LeastNatural
<1>3. PICK m \in S : t = N - m
  OBVIOUS
<1>4. ASSUME NEW k \in S
      PROVE  k <= m
  <2>1. N - m <= N - k
    BY <1>2, <1>3
  <2> QED
    BY <2>1
<1> QED
  BY <1>4

-----------------------------------------------------------------------------
(* CapitalMonitor.  The counter of failures and the last outcomes of the   *)
(* process are two records of one thing.  CountInv says how: the counter   *)
(* is the length of the run of failures that recent ends with.             *)

Outcome == {"ok", "failed"}

\* As many failures at the end of recent as the counter says, and no more.
CountInv ==
  /\ Len(recent) <= Threshold
  /\ failures <= Len(recent)
  /\ \A n \in 1..Len(recent) : n > Len(recent) - failures => recent[n] = "failed"
  /\ failures < Len(recent) => recent[Len(recent) - failures] = "ok"

\* A poll under way was started below the threshold, and the check is its end.
ControlInv ==
  /\ job # "idle" => ~paused
  /\ job = "collecting" => failures < Threshold
  /\ job = "idle" => (paused <=> failures = Threshold)

\* What earlier processes have polled, and this one.
LostInv == lost <= Threshold * restarts + failures

MonitorInv == MonitorTypeOK /\ CountInv /\ ControlInv /\ LostInv

-----------------------------------------------------------------------------
LEMMA MonitorInvInit == MonitorInit => MonitorInv
<1> SUFFICES ASSUME MonitorInit PROVE MonitorInv
  OBVIOUS
<1> USE MonitorAssumption DEF MonitorInit
<1>1. MonitorTypeOK
  <2>1. recent \in Seq({"ok", "failed"})
    OBVIOUS
  <2>2. paused \in BOOLEAN /\ dead \in BOOLEAN
    BY Zenon
  <2> QED
    BY <2>1, <2>2 DEF MonitorTypeOK
<1>2. CountInv
  BY DEF CountInv
<1>3. ControlInv
  BY DEF ControlInv
<1>4. LostInv
  <2>1. Threshold * restarts = 0
    OBVIOUS
  <2> QED
    BY <2>1 DEF LostInv
<1> QED
  BY <1>1, <1>2, <1>3, <1>4 DEF MonitorInv

\* What a noted outcome does to the last outcomes.
LEMMA Noted ==
  ASSUME recent \in Seq(Outcome), Len(recent) <= Threshold, lost \in Nat,
         restarts \in Nat,
         NEW r \in Outcome, Note(r)
  PROVE  /\ recent' \in Seq(Outcome)
         /\ Len(recent') \in 1..Threshold
         /\ Len(recent') \in {Len(recent), Len(recent) + 1}
         /\ Len(recent') = Len(recent) => Len(recent) = Threshold
         /\ recent'[Len(recent')] = r
         /\ \A k \in 1..Len(recent') - 1 :
              recent'[Len(recent') - k] = recent[Len(recent) + 1 - k]
         /\ lost' \in Nat
         /\ lost' <= lost + 1
         /\ r = "ok" => lost' = 0
<1> DEFINE all == Append(recent, r)
<1>1. /\ all \in Seq(Outcome)
      /\ Len(all) = Len(recent) + 1
      /\ all[Len(all)] = r
      /\ \A n \in 1..Len(recent) : all[n] = recent[n]
  OBVIOUS
<1>2. recent' = IF Len(all) > Threshold THEN Tail(all) ELSE all
  BY DEF Note
<1>3. /\ lost' \in Nat
      /\ lost' <= lost + 1
      /\ r = "ok" => lost' = 0
  BY DEF Note
<1>4. CASE Len(all) > Threshold
  <2>1. recent' = Tail(all)
    BY <1>2, <1>4
  <2>2. Len(recent) = Threshold
    BY <1>1, <1>4, MonitorAssumption
  <2>3. /\ recent' \in Seq(Outcome)
        /\ Len(recent') = Len(recent)
        /\ \A n \in 1..Len(recent') : recent'[n] = all[n + 1]
    BY <1>1, <2>1, <2>2, MonitorAssumption
  <2> QED
    BY <1>1, <1>3, <2>2, <2>3, MonitorAssumption
<1>5. CASE ~(Len(all) > Threshold)
  <2>1. recent' = all
    BY <1>2, <1>5
  <2> HIDE DEF all
  <2>2. Len(recent') \in 1..Threshold
    BY <1>1, <1>5, <2>1, MonitorAssumption
  <2> QED
    BY <1>1, <1>3, <2>1, <2>2, MonitorAssumption
<1> QED
  BY <1>4, <1>5

\* A poll that failed: the run at the end of recent grows by one.
LEMMA CountFailure ==
  ASSUME MonitorTypeOK, CountInv, failures < Threshold, Note("failed"),
         failures' = failures + 1, restarts' = restarts
  PROVE  CountInv' /\ failures' \in 0..Threshold /\ recent' \in Seq(Outcome)
         /\ lost' \in Nat /\ (LostInv => LostInv')
<1>1. /\ recent' \in Seq(Outcome)
      /\ Len(recent') \in 1..Threshold
      /\ Len(recent') \in {Len(recent), Len(recent) + 1}
      /\ Len(recent') = Len(recent) => Len(recent) = Threshold
      /\ recent'[Len(recent')] = "failed"
      /\ \A k \in 1..Len(recent') - 1 :
           recent'[Len(recent') - k] = recent[Len(recent) + 1 - k]
      /\ lost' \in Nat
      /\ lost' <= lost + 1
  BY Noted, MonitorAssumption DEF MonitorTypeOK, CountInv, Outcome
<1>2. failures' \in 0..Threshold
  BY MonitorAssumption DEF MonitorTypeOK
<1>3. LostInv => LostInv'
  <2> DEFINE before == Threshold * restarts
  <2>1. before \in Nat
    BY MonitorAssumption DEF MonitorTypeOK
  <2> HIDE DEF before
  <2>2. lost <= before + failures => lost' <= before + (failures + 1)
    BY <1>1, <2>1 DEF MonitorTypeOK
  <2> QED
    BY <2>2 DEF LostInv, before
<1>4. failures' <= Len(recent')
  BY <1>1, MonitorAssumption DEF CountInv, MonitorTypeOK
<1>5. ASSUME NEW n \in 1..Len(recent'), n > Len(recent') - failures'
      PROVE  recent'[n] = "failed"
  <2>1. CASE n = Len(recent')
    BY <1>1, <2>1
  <2>2. CASE n # Len(recent')
    <3> DEFINE k == Len(recent') - n
    <3>1. k \in 1..Len(recent') - 1 /\ n = Len(recent') - k /\ k < failures'
      BY <1>1, <1>5, <2>2, MonitorAssumption DEF MonitorTypeOK
    <3>2. recent'[n] = recent[Len(recent) + 1 - k]
      BY <1>1, <3>1
    <3>3. /\ Len(recent) + 1 - k \in 1..Len(recent)
          /\ Len(recent) + 1 - k > Len(recent) - failures
      BY <1>1, <3>1, MonitorAssumption DEF MonitorTypeOK, CountInv
    <3> QED
      BY <3>2, <3>3 DEF CountInv
  <2> QED
    BY <2>1, <2>2
<1>6. ASSUME failures' < Len(recent')
      PROVE  recent'[Len(recent') - failures'] = "ok"
  <2>1. failures' \in 1..Len(recent') - 1
    BY <1>1, <1>2, <1>6 DEF MonitorTypeOK
  <2>2. recent'[Len(recent') - failures'] = recent[Len(recent) + 1 - failures']
    BY <1>1, <2>1
  <2>3. Len(recent) + 1 - failures' = Len(recent) - failures /\ failures < Len(recent)
    BY <1>1, <1>6, MonitorAssumption DEF MonitorTypeOK
  <2> QED
    BY <2>2, <2>3 DEF CountInv
<1> QED
  BY <1>1, <1>2, <1>3, <1>4, <1>5, <1>6, MonitorAssumption DEF CountInv

\* A poll that did not fail ends the run.
LEMMA CountSuccess ==
  ASSUME MonitorTypeOK, CountInv, Note("ok"), failures' = 0
  PROVE  /\ CountInv' /\ recent' \in Seq(Outcome) /\ lost' = 0
BY Noted, MonitorAssumption DEF MonitorTypeOK, CountInv, Outcome

LEMMA MonitorInvNext == MonitorInv /\ [MonitorNext]_monitorVars => MonitorInv'
<1> SUFFICES ASSUME MonitorInv, [MonitorNext]_monitorVars
             PROVE  MonitorInv'
  OBVIOUS
<1> USE MonitorAssumption DEF MonitorInv
<1>1. CASE SourceDies
  BY <1>1 DEF SourceDies, MonitorTypeOK, CountInv, ControlInv, LostInv
<1>2. CASE StartPoll
  BY <1>2 DEF StartPoll, MonitorTypeOK, CountInv, ControlInv, LostInv
<1>3. CASE PollSucceeds
  <2>1. CountInv' /\ recent' \in Seq(Outcome) /\ lost' = 0
    BY <1>3, CountSuccess DEF PollSucceeds, ResetCount
  <2>2. LostInv'
    <3>1. Threshold * restarts \in Nat
      BY DEF MonitorTypeOK
    <3> QED
      BY <1>3, <2>1, <3>1 DEF PollSucceeds, ResetCount, LostInv
  <2> QED
    BY <1>3, <2>1, <2>2 DEF PollSucceeds, ResetCount, MonitorTypeOK, ControlInv, Outcome
<1>4. CASE PollFailed
  <2>1. failures < Threshold
    BY <1>4 DEF PollFailed, ControlInv
  <2>2. /\ CountInv' /\ failures' \in 0..Threshold /\ recent' \in Seq(Outcome)
        /\ lost' \in Nat /\ LostInv'
    BY <1>4, <2>1, CountFailure DEF PollFailed
  <2> QED
    BY <1>4, <2>2 DEF PollFailed, MonitorTypeOK, ControlInv, Outcome
<1>5. CASE PollRaises
  <2>1. failures < Threshold
    BY <1>5 DEF PollRaises, ControlInv
  <2>2. /\ CountInv' /\ failures' \in 0..Threshold /\ recent' \in Seq(Outcome)
        /\ lost' \in Nat /\ LostInv'
    BY <1>5, <2>1, CountFailure DEF PollRaises, CountRaised
  <2> QED
    BY <1>5, <2>2 DEF PollRaises, MonitorTypeOK, ControlInv, Outcome
<1>6. CASE PersistReturns
  BY <1>6 DEF PersistReturns, MonitorTypeOK, CountInv, ControlInv, LostInv
<1>7. CASE CheckThreshold
  <2>1. ~paused
    BY <1>7 DEF CheckThreshold, ControlInv
  <2>2. paused' \in BOOLEAN /\ (paused' <=> failures >= Threshold)
    <3>1. CASE AtThreshold
      <4>1. paused' = TRUE
        BY <1>7, <3>1, Zenon DEF CheckThreshold
      <4> QED
        BY <3>1, <4>1 DEF AtThreshold
    <3>2. CASE ~AtThreshold
      <4>1. paused' = FALSE
        BY <1>7, <2>1, <3>2, Zenon DEF CheckThreshold, MonitorTypeOK
      <4> QED
        BY <3>2, <4>1 DEF AtThreshold
    <3> QED
      BY <3>1, <3>2
  <2>3. failures >= Threshold <=> failures' = Threshold
    BY <1>7 DEF CheckThreshold, MonitorTypeOK
  <2>4. MonitorTypeOK' /\ job' = "idle"
    BY <1>7, <2>2 DEF CheckThreshold, MonitorTypeOK
  <2>5. ControlInv'
    BY <2>2, <2>3, <2>4, Zenon DEF ControlInv
  <2>6. CountInv' /\ LostInv'
    BY <1>7 DEF CheckThreshold, CountInv, LostInv
  <2> QED
    BY <2>4, <2>5, <2>6
<1>8. CASE MonitorRestart
  <2>1. Threshold * restarts' = Threshold * restarts + Threshold
    BY <1>8 DEF MonitorRestart, MonitorTypeOK
  <2>2. LostInv'
    <3> DEFINE before == Threshold * restarts
    <3>1. before \in Nat
      BY DEF MonitorTypeOK
    <3>2. lost <= before + failures /\ failures <= Threshold
      BY DEF LostInv, MonitorTypeOK
    <3> HIDE DEF before
    <3>3. lost <= before + Threshold + 0
      BY <3>1, <3>2 DEF MonitorTypeOK
    <3> QED
      BY <1>8, <2>1, <3>3 DEF MonitorRestart, LostInv, before
  <2>3. MonitorTypeOK'
    <3>1. recent' \in Seq({"ok", "failed"}) /\ failures' \in 0..Threshold
      BY <1>8 DEF MonitorRestart
    <3>3. paused' \in BOOLEAN
      BY <1>8, Zenon DEF MonitorRestart
    <3>2. restarts' \in 0..MaxRestarts /\ lost' \in Nat /\ dead' \in BOOLEAN /\ job' = "idle"
      BY <1>8 DEF MonitorRestart, MonitorTypeOK
    <3> QED
      BY <3>1, <3>2, <3>3 DEF MonitorTypeOK
  <2>5. ControlInv'
    BY <1>8 DEF MonitorRestart, ControlInv
  <2>4. CountInv'
    <3>1. Len(recent') = 0 /\ failures' = 0
      BY <1>8 DEF MonitorRestart
    <3> QED
      BY <3>1 DEF CountInv
  <2> QED
    BY <2>2, <2>3, <2>4, <2>5
<1>9. CASE PausedForGood \/ UNCHANGED monitorVars
  BY <1>9 DEF PausedForGood, monitorVars, MonitorTypeOK, CountInv, ControlInv, LostInv
<1> QED
  BY <1>1, <1>2, <1>3, <1>4, <1>5, <1>6, <1>7, <1>8, <1>9 DEF MonitorNext, PollStep

LEMMA MonitorInvariance == MonitorSpec => []MonitorInv
BY MonitorInvInit, MonitorInvNext, PTL DEF MonitorSpec

-----------------------------------------------------------------------------
\* Every variable keeps its type for any threshold and any number of
\* restarts; in particular the counter of failures never passes the threshold.
THEOREM MonitorTypeCorrect == MonitorSpec => []MonitorTypeOK
BY MonitorInvariance, PTL DEF MonitorInv

\* Between two polls the job is paused exactly if the last Threshold polls of
\* this process have all failed, by returning or by raising.
THEOREM PausesRightly == MonitorSpec => []PausedAfterThreshold
<1>1. MonitorInv => PausedAfterThreshold
  BY MonitorAssumption
  DEF MonitorInv, MonitorTypeOK, CountInv, ControlInv, PausedAfterThreshold
<1> QED
  BY <1>1, MonitorInvariance, PTL

\* A source that is down is polled Threshold times per process at most.
THEOREM DeadPollsAreBounded == MonitorSpec => []DeadPollsBounded
<1>1. MonitorInv => DeadPollsBounded
  <2> SUFFICES ASSUME MonitorInv PROVE DeadPollsBounded
    OBVIOUS
  <2>1. Threshold * (restarts + 1) = Threshold * restarts + Threshold
    BY MonitorAssumption DEF MonitorInv, MonitorTypeOK
  <2>2. Threshold * restarts \in Nat
    BY MonitorAssumption DEF MonitorInv, MonitorTypeOK
  <2> QED
    BY <2>1, <2>2, MonitorAssumption DEF MonitorInv, MonitorTypeOK, LostInv, DeadPollsBounded
<1> QED
  BY <1>1, MonitorInvariance, PTL

-----------------------------------------------------------------------------
(* Seeder.  What a start has taken so far is in the tables or in its own   *)
(* transaction, and the tables go from empty to full in one commit.  What  *)
(* it holds comes before the seed it is at, so that the start which is the *)
(* furthest waits for none.                                                *)

AtWork == [pc : {"look", "insert"}, seed : 1..(Seeds + 1), mine : SUBSET (1..Seeds)]
AtService == [pc : {"serving"}, seeded : {"seeded", "conflict", "database"}]
ServiceStates == {Off} \cup AtWork \cup AtService

\* What the state r of a process says of the tables s.
Agrees(r, s) ==
  /\ r.pc \in {"look", "insert"} =>
       /\ 1..(r.seed - 1) \subseteq s \cup r.mine
       /\ r.mine \subseteq 1..(r.seed - 1)
  /\ r.pc = "insert" => r.seed <= Seeds
  /\ r.pc = "serving" /\ r.seeded # "database" => s = 1..Seeds

SeederInv ==
  /\ seeded \in {{}, 1..Seeds}
  /\ boots \in [Services -> 0..MaxBoots]
  /\ service \in [Services -> ServiceStates]
  /\ \A p \in Services : Agrees(service[p], seeded)

-----------------------------------------------------------------------------
LEMMA SeederInvInit == SeederInit => SeederInv
<1> SUFFICES ASSUME SeederInit PROVE SeederInv
  OBVIOUS
<1>1. service \in [Services -> ServiceStates] /\ \A p \in Services : service[p].pc = "off"
  BY DEF SeederInit, ServiceStates, Off
<1>2. boots \in [Services -> 0..MaxBoots]
  BY SeederAssumption DEF SeederInit
<1> QED
  BY <1>1, <1>2 DEF SeederInit, SeederInv, Agrees

\* A step that gives one process a state that agrees with the tables, and
\* the tables at most more.
LEMMA ServiceUpdate ==
  ASSUME SeederInv, NEW p \in Services, NEW r \in ServiceStates,
         service' = [service EXCEPT ![p] = r],
         seeded' \in {{}, 1..Seeds}, seeded \subseteq seeded',
         boots' \in [Services -> 0..MaxBoots],
         Agrees(r, seeded')
  PROVE  SeederInv'
<1>1. service' \in [Services -> ServiceStates]
  BY DEF SeederInv
<1>2. ASSUME NEW q \in Services
      PROVE  Agrees(service'[q], seeded')
  <2>1. CASE q = p
    BY <2>1 DEF SeederInv
  <2>2. CASE q # p
    <3>1. service'[q] = service[q] /\ Agrees(service[q], seeded)
      BY <2>2 DEF SeederInv
    <3>2. Agrees(service[q], seeded')
      BY <3>1 DEF Agrees, SeederInv
    <3> QED
      BY <3>1, <3>2
  <2> QED
    BY <2>1, <2>2
<1> QED
  BY <1>1, <1>2 DEF SeederInv

\* The state of a start under way, field by field.
LEMMA AtWorkFields ==
  ASSUME SeederInv, NEW p \in Services, Seeding(p)
  PROVE  /\ service[p].seed \in 1..(Seeds + 1)
         /\ service[p].mine \subseteq 1..Seeds
         /\ service[p].mine \subseteq 1..(service[p].seed - 1)
         /\ 1..(service[p].seed - 1) \subseteq seeded \cup service[p].mine
         /\ service[p] \in AtWork
         /\ service[p].pc = "insert" => service[p].seed <= Seeds
<1>1. service[p] \in AtWork
  BY DEF SeederInv, ServiceStates, Off, AtWork, AtService, Seeding
<1> QED
  BY <1>1 DEF SeederInv, AtWork, Agrees, Seeding

\* The seed is in the tables or in the transaction: the next one is taken.
LEMMA NextSeed ==
  ASSUME SeederInv, NEW p \in Services, Seeding(p), service[p].seed <= Seeds,
         NEW m \in SUBSET (1..service[p].seed), service[p].mine \subseteq m,
         service[p].seed \in seeded \cup m
  PROVE  AfterSeed(p, m) \in ServiceStates /\ Agrees(AfterSeed(p, m), seeded)
<1> DEFINE r == [pc |-> "look", seed |-> service[p].seed + 1, mine |-> m]
<1>1. /\ service[p].seed \in 1..Seeds
      /\ 1..(service[p].seed - 1) \subseteq seeded \cup m
  <2>1. /\ service[p].seed \in 1..(Seeds + 1)
        /\ 1..(service[p].seed - 1) \subseteq seeded \cup service[p].mine
    BY AtWorkFields
  <2> QED
    BY <2>1, SeederAssumption
<1>2. r \in ServiceStates
  BY <1>1, SeederAssumption DEF ServiceStates, AtWork
<1>3. 1..(r.seed - 1) \subseteq seeded \cup m /\ m \subseteq 1..(r.seed - 1)
  BY <1>1, SeederAssumption
<1> QED
  BY <1>2, <1>3 DEF Agrees, AfterSeed

LEMMA SeederInvNext == SeederInv /\ [SeederNext]_seederVars => SeederInv'
<1> SUFFICES ASSUME SeederInv, [SeederNext]_seederVars
             PROVE  SeederInv'
  OBVIOUS
<1> USE SeederAssumption
<1>1. ASSUME NEW p \in Services, StartSeeding(p)
      PROVE  SeederInv'
  <2> DEFINE r == [pc |-> "look", seed |-> 1, mine |-> {}]
  <2>1. r \in ServiceStates /\ Agrees(r, seeded)
    BY DEF ServiceStates, AtWork, Agrees
  <2>2. boots' \in [Services -> 0..MaxBoots]
    BY <1>1 DEF StartSeeding, SeederInv
  <2>3. service' = [service EXCEPT ![p] = r] /\ seeded' = seeded
    BY <1>1 DEF StartSeeding
  <2> HIDE DEF r
  <2> QED
    BY <2>1, <2>2, <2>3, ServiceUpdate DEF SeederInv
<1>2. ASSUME NEW p \in Services, LookUp(p)
      PROVE  SeederInv'
  <2> DEFINE here == service[p].seed
             m == service[p].mine
             found == here \in seeded \cup m
             A == AfterSeed(p, m)
             B == [pc |-> "insert", seed |-> here, mine |-> m]
  <2>1. Seeding(p) /\ service[p].pc = "look" /\ here <= Seeds
    BY <1>2 DEF LookUp, Seeding
  <2>2. service[p] \in AtWork /\ here \in 1..(Seeds + 1) /\ m \in SUBSET (1..Seeds)
        /\ 1..(here - 1) \subseteq seeded \cup m /\ m \subseteq 1..(here - 1)
    BY <2>1, AtWorkFields
  <2>3. [service[p] EXCEPT !.pc = "insert"] = B
    BY <2>1, <2>2 DEF AtWork
  <2>4. service' = [service EXCEPT ![p] =
          IF found THEN A ELSE [service[p] EXCEPT !.pc = "insert"]]
    BY <1>2 DEF LookUp, CurrentSeed, SeedAt
  <2>5. found => A \in ServiceStates /\ Agrees(A, seeded)
    <3>1. m \in SUBSET (1..service[p].seed)
      BY <2>2
    <3> QED
      BY <2>1, <3>1, NextSeed
  <2>6. B \in ServiceStates /\ Agrees(B, seeded)
    BY <2>1, <2>2 DEF ServiceStates, AtWork, Agrees
  <2> HIDE DEF here, m, found, A, B
  <2>7. PICK r \in ServiceStates : service' = [service EXCEPT ![p] = r] /\ Agrees(r, seeded)
    <3>1. CASE found
      BY <2>4, <2>5, <3>1
    <3>2. CASE ~found
      BY <2>3, <2>4, <2>6, <3>2
    <3> QED
      BY <3>1, <3>2
  <2> QED
    BY <1>2, <2>7, ServiceUpdate DEF LookUp, SeederInv
<1>3. ASSUME NEW p \in Services, InsertSeed(p)
      PROVE  SeederInv'
  <2>1. Seeding(p) /\ CurrentSeed(p) = service[p].seed
    BY <1>3 DEF InsertSeed, Seeding, CurrentSeed, SeedAt
  <2> DEFINE m == service[p].mine \cup {service[p].seed}
             r == AfterSeed(p, m)
  <2>2. /\ service[p].seed <= Seeds /\ m \in SUBSET (1..service[p].seed)
        /\ service[p].mine \subseteq m /\ service[p].seed \in seeded \cup m
    <3>1. service[p].pc = "insert"
      BY <1>3 DEF InsertSeed
    <3>2. /\ service[p].seed <= Seeds /\ service[p].seed \in 1..(Seeds + 1)
          /\ service[p].mine \subseteq 1..(service[p].seed - 1)
      BY <2>1, <3>1, AtWorkFields
    <3> QED
      BY <3>2
  <2>3. service' = [service EXCEPT ![p] = r]
    BY <1>3, <2>1 DEF InsertSeed
  <2> HIDE DEF m
  <2>4. r \in ServiceStates /\ Agrees(r, seeded)
    BY <2>1, <2>2, NextSeed
  <2> HIDE DEF r
  <2> QED
    BY <1>3, <2>3, <2>4, ServiceUpdate DEF InsertSeed, SeederInv
<1>4. ASSUME NEW p \in Services, SeedFound(p)
      PROVE  SeederInv'
  <2>1. Seeding(p) /\ CurrentSeed(p) = service[p].seed /\ service[p].seed \in seeded
    BY <1>4 DEF SeedFound, Seeding, CurrentSeed, SeedAt
  <2> DEFINE m == service[p].mine
             r == AfterSeed(p, m)
  <2>2. service[p].seed <= Seeds /\ m \in SUBSET (1..service[p].seed)
    <3>1. /\ service[p].seed <= Seeds /\ service[p].seed \in 1..(Seeds + 1)
          /\ m \subseteq 1..(service[p].seed - 1)
      BY <1>4, <2>1, AtWorkFields DEF SeedFound
    <3> QED
      BY <3>1
  <2>3. service' = [service EXCEPT ![p] = r]
    BY <1>4 DEF SeedFound
  <2> HIDE DEF m
  <2>4. r \in ServiceStates /\ Agrees(r, seeded)
    BY <2>1, <2>2, NextSeed DEF m
  <2> HIDE DEF r
  <2> QED
    BY <1>4, <2>3, <2>4, ServiceUpdate DEF SeedFound, SeederInv
<1>5. ASSUME NEW p \in Services, SeedConflict(p) \/ SeedingFails(p)
      PROVE  SeederInv'
  <2>1. PICK why \in {"conflict", "database"} :
          /\ Unseeded(p, why)
          /\ why = "conflict" => CurrentSeed(p) \in seeded
    BY <1>5 DEF SeedConflict, SeedingFails
  <2> DEFINE r == [pc |-> "serving", seeded |-> why]
  <2>2. service' = [service EXCEPT ![p] = r] /\ seeded' = seeded /\ boots' = boots
    BY <2>1 DEF Unseeded
  <2>3. r \in ServiceStates /\ Agrees(r, seeded)
    BY <2>1 DEF ServiceStates, AtService, Agrees, SeederInv
  <2> HIDE DEF r
  <2> QED
    BY <2>2, <2>3, ServiceUpdate DEF SeederInv
<1>6. ASSUME NEW p \in Services, CommitSeeds(p)
      PROVE  SeederInv'
  <2>1. Seeding(p) /\ service[p].seed > Seeds
    BY <1>6 DEF CommitSeeds, AllTaken, Seeding
  <2>2. seeded' = 1..Seeds
    <3>1. 1..Seeds \subseteq seeded \cup service[p].mine
      <4>1. /\ service[p].seed \in 1..(Seeds + 1)
            /\ 1..(service[p].seed - 1) \subseteq seeded \cup service[p].mine
        BY <2>1, AtWorkFields
      <4>2. service[p].seed - 1 = Seeds
        BY <2>1, <4>1
      <4> QED
        BY <4>1, <4>2
    <3>2. seeded \cup service[p].mine \subseteq 1..Seeds
      BY <2>1, AtWorkFields DEF SeederInv
    <3> QED
      BY <1>6, <3>1, <3>2 DEF CommitSeeds
  <2> DEFINE r == [pc |-> "serving", seeded |-> "seeded"]
  <2>3. service' = [service EXCEPT ![p] = r] /\ boots' = boots
    BY <1>6 DEF CommitSeeds
  <2>4. r \in ServiceStates /\ Agrees(r, seeded')
    BY <2>2 DEF ServiceStates, AtService, Agrees
  <2> HIDE DEF r
  <2> QED
    BY <2>2, <2>3, <2>4, ServiceUpdate DEF SeederInv
<1>7. ASSUME NEW p \in Services, ServiceStops(p)
      PROVE  SeederInv'
  <2>1. Off \in ServiceStates /\ Agrees(Off, seeded)
    BY DEF ServiceStates, Off, Agrees
  <2> QED
    BY <1>7, <2>1, ServiceUpdate DEF ServiceStops, SeederInv
<1>8. CASE SeederDone \/ UNCHANGED seederVars
  BY <1>8 DEF SeederDone, seederVars, SeederInv
<1> QED
  BY <1>1, <1>2, <1>3, <1>4, <1>5, <1>6, <1>7, <1>8 DEF SeederNext, SeedStep

LEMMA SeederInvariance == SeederSpec => []SeederInv
BY SeederInvInit, SeederInvNext, PTL DEF SeederSpec

-----------------------------------------------------------------------------
\* Every variable keeps its type, for any number of processes that start.
THEOREM SeederTypeCorrect == SeederSpec => []SeederTypeOK
<1>1. SeederInv => SeederTypeOK
  <2> SUFFICES ASSUME SeederInv PROVE SeederTypeOK
    OBVIOUS
  <2>1. \A r \in ServiceStates : r.pc \in {"off", "look", "insert", "serving"}
    BY DEF ServiceStates, Off, AtWork, AtService
  <2>2. \A p \in Services : service[p] \in ServiceStates
    BY DEF SeederInv
  <2> QED
    BY <2>1, <2>2 DEF SeederInv, SeederTypeOK
<1> QED
  BY <1>1, SeederInvariance, PTL

\* The tables have all seeds or none, and a process that serves after a start
\* that met no failure of the database has all: the one whose seeding another
\* start has rolled back too, for that other one has committed.
THEOREM SeedsAreComplete == SeederSpec => []SeedsComplete
<1>1. SeederInv => SeedsComplete
  BY DEF SeederInv, SeedsComplete, Agrees
<1> QED
  BY <1>1, SeederInvariance, PTL

\* However many processes start at once, the starts that wait for each
\* other's keys never close a circle: of any of them the furthest one waits
\* for none, as all take the seeds in one order.
THEOREM NoDeadlock == SeederSpec => []NoCircularWait
<1>1. SeederInv => NoCircularWait
  <2> SUFFICES ASSUME SeederInv, NEW D \in (SUBSET Services) \ {{}}
               PROVE  \E p \in D : \A q \in D : ~WaitsFor(p, q)
    BY DEF NoCircularWait
  <2> DEFINE W == {p \in D : Seeding(p)}
             S == {service[p].seed : p \in W}
  <2>1. CASE W = {}
    BY <2>1 DEF WaitsFor, Seeding
  <2>2. CASE W # {}
    <3>1. S \in SUBSET (0..(Seeds + 1)) /\ S # {}
      <4>1. \A p \in W : service[p].seed \in 1..(Seeds + 1)
        BY AtWorkFields
      <4> QED
        BY <2>2, <4>1, SeederAssumption
    <3>2. PICK m \in S : \A k \in S : k <= m
      <4>1. Seeds + 1 \in Nat
        BY SeederAssumption
      <4> HIDE DEF S
      <4> QED
        BY <3>1, <4>1, GreatestNatural
    <3>3. PICK p \in W : service[p].seed = m
      BY <3>2
    <3>4. ASSUME NEW q \in D, WaitsFor(p, q)
          PROVE  FALSE
      <4>1. q \in W /\ service[p].seed \in service[q].mine
        BY <3>4 DEF WaitsFor, CurrentSeed, SeedAt
      <4>2. /\ service[q].seed \in 1..(Seeds + 1)
            /\ service[q].mine \subseteq 1..(service[q].seed - 1)
        BY <4>1, AtWorkFields
      <4>3. service[q].seed <= service[p].seed
        BY <3>2, <3>3, <4>1
      <4> QED
        BY <4>1, <4>2, <4>3, SeederAssumption
    <3> QED
      BY <3>3, <3>4
  <2> QED
    BY <2>1, <2>2
<1> QED
  BY <1>1, SeederInvariance, PTL

-----------------------------------------------------------------------------
(* Webhooks.  The posts of a delivery are counted by its attempts, and     *)
(* only the post that ends it was acknowledged.                            *)

Delivery == [stage : Stages \cup {"none"}, attempt : 0..MaxRetries, posts : Seq(Answers)]

\* How far the delivery d has come, by its stage.
Counted(d) ==
  /\ d.stage = "none" => Len(d.posts) = 0
  /\ d.stage = "posting" => d.attempt = Len(d.posts) + 1
  /\ d.stage = "pausing" => d.attempt = Len(d.posts) /\ d.attempt < MaxRetries
  /\ d.stage = "ended" =>
       /\ d.attempt = Len(d.posts) /\ d.attempt > 0
       /\ d.posts[Len(d.posts)] = "ok" \/ Len(d.posts) = MaxRetries
       /\ \A n \in 1..Len(d.posts) - 1 : d.posts[n] # "ok"
  /\ d.stage # "ended" => \A n \in 1..Len(d.posts) : d.posts[n] # "ok"

WebhookInv ==
  /\ subs \in [Subscriptions -> SUBSET EventTypes]
  /\ used \subseteq Subscriptions
  /\ fired \in 0..MaxFired
  /\ returned \subseteq 1..fired
  /\ deliveries \in [Events -> [Subscriptions -> Delivery]]
  /\ \A e \in Events, s \in Subscriptions : Counted(deliveries[e][s])

LEMMA NothingDelivered == NoDelivery \in Delivery /\ Counted(NoDelivery)
BY WebhookAssumption DEF NoDelivery, Delivery, Counted

LEMMA WebhookInvInit == WebhookInit => WebhookInv
<1> SUFFICES ASSUME WebhookInit PROVE WebhookInv
  OBVIOUS
<1>1. deliveries \in [Events -> [Subscriptions -> Delivery]]
      /\ \A e \in Events, s \in Subscriptions : deliveries[e][s] = NoDelivery
  BY NothingDelivered DEF WebhookInit
<1>2. /\ subs \in [Subscriptions -> SUBSET EventTypes]
      /\ used \subseteq Subscriptions /\ fired \in 0..MaxFired /\ returned \subseteq 1..fired
  BY WebhookAssumption DEF WebhookInit
<1> QED
  BY <1>1, <1>2, NothingDelivered DEF WebhookInv

\* A step of one delivery that leaves it counted.
LEMMA DeliveryStep ==
  ASSUME WebhookInv, NEW e \in Events, NEW s \in Subscriptions, NEW d \in Delivery,
         Counted(d), deliveries' = [deliveries EXCEPT ![e][s] = d],
         UNCHANGED <<subs, used, fired, returned>>
  PROVE  WebhookInv'
<1>1. deliveries' \in [Events -> [Subscriptions -> Delivery]]
  BY DEF WebhookInv
<1>2. ASSUME NEW f \in Events, NEW t \in Subscriptions
      PROVE  Counted(deliveries'[f][t])
  <2>1. CASE f = e /\ t = s
    BY <2>1 DEF WebhookInv
  <2>2. CASE ~(f = e /\ t = s)
    <3>1. deliveries'[f][t] = deliveries[f][t]
      BY <2>2 DEF WebhookInv
    <3> QED
      BY <3>1 DEF WebhookInv
  <2> QED
    BY <2>1, <2>2
<1> QED
  BY <1>1, <1>2 DEF WebhookInv

LEMMA WebhookInvNext == WebhookInv /\ [WebhookNext]_webhookVars => WebhookInv'
<1> SUFFICES ASSUME WebhookInv, [WebhookNext]_webhookVars
             PROVE  WebhookInv'
  OBVIOUS
<1> USE WebhookAssumption
<1>1. ASSUME NEW s \in Subscriptions, Register(s) \/ Unregister(s)
      PROVE  WebhookInv'
  <2>1. subs' \in [Subscriptions -> SUBSET EventTypes] /\ used' \subseteq Subscriptions
    <3>1. CASE Register(s)
      BY <3>1 DEF Register, WebhookInv
    <3>2. CASE Unregister(s)
      BY <3>2 DEF Unregister, WebhookInv
    <3> QED
      BY <1>1, <3>1, <3>2
  <2>2. UNCHANGED <<fired, deliveries, returned>>
    BY <1>1 DEF Register, Unregister
  <2> QED
    BY <2>1, <2>2 DEF WebhookInv
<1>2. ASSUME NEW type \in EventTypes, FireEvent(type)
      PROVE  WebhookInv'
  <2> DEFINE first == [stage |-> "posting", attempt |-> 1, posts |-> <<>>]
             started == [s \in Subscriptions |->
                           IF s \in ListActive(type) THEN first ELSE NoDelivery]
  <2>1. first \in Delivery /\ Counted(first)
    BY DEF Delivery, Stages, Counted
  <2>2. started \in [Subscriptions -> Delivery] /\ \A s \in Subscriptions : Counted(started[s])
    BY <2>1, NothingDelivered
  <2>3. deliveries' = [deliveries EXCEPT ![fired'] = started] /\ fired' \in Events
    BY <1>2 DEF FireEvent, Events, WebhookInv
  <2> HIDE DEF started
  <2>4. deliveries' \in [Events -> [Subscriptions -> Delivery]]
        /\ \A e \in Events, s \in Subscriptions : Counted(deliveries'[e][s])
    BY <2>2, <2>3 DEF WebhookInv
  <2>5. fired' \in 0..MaxFired /\ returned' \subseteq 1..fired' /\ UNCHANGED <<subs, used>>
    BY <1>2 DEF FireEvent, WebhookInv
  <2> QED
    BY <2>4, <2>5 DEF WebhookInv
<1>3. ASSUME NEW e \in Events, NEW s \in Subscriptions, Post(e, s)
      PROVE  WebhookInv'
  <2> DEFINE d == deliveries[e][s]
  <2>1. PICK answer \in Answers :
          deliveries' = [deliveries EXCEPT ![e][s] =
            [d EXCEPT !.posts = Append(@, answer),
                      !.stage = IF Delivered(answer) \/ ~MayRetry(d) THEN "ended"
                                ELSE "pausing"]]
    BY <1>3 DEF Post
  <2> DEFINE n == [d EXCEPT !.posts = Append(@, answer),
                            !.stage = IF Delivered(answer) \/ ~MayRetry(d) THEN "ended"
                                      ELSE "pausing"]
  <2>2. d \in Delivery /\ Counted(d) /\ d.stage = "posting"
    BY <1>3 DEF Post, WebhookInv
  <2>3. /\ d.posts \in Seq(Answers) /\ d.attempt \in 0..MaxRetries
        /\ d.attempt = Len(d.posts) + 1
        /\ \A k \in 1..Len(d.posts) : d.posts[k] # "ok"
    BY <2>2 DEF Delivery, Counted
  <2>4. /\ n.posts \in Seq(Answers) /\ Len(n.posts) = d.attempt /\ n.attempt = d.attempt
        /\ n.posts[d.attempt] = answer
        /\ \A k \in 1..d.attempt - 1 : n.posts[k] # "ok"
        /\ n.stage = IF answer = "ok" \/ ~(d.attempt < MaxRetries) THEN "ended" ELSE "pausing"
    BY <2>2, <2>3 DEF Delivery, Delivered, MayRetry
  <2>5. n \in Delivery
    BY <2>2, <2>4 DEF Delivery, Stages
  <2> HIDE DEF n, d
  <2>6. Counted(n)
    <3>1. CASE n.stage = "ended"
      BY <2>3, <2>4, <3>1 DEF Counted
    <3>2. CASE n.stage = "pausing"
      BY <2>3, <2>4, <3>2 DEF Counted
    <3> QED
      BY <2>4, <3>1, <3>2
  <2>7. UNCHANGED <<subs, used, fired, returned>>
    BY <1>3 DEF Post
  <2> QED
    BY <2>1, <2>5, <2>6, <2>7, DeliveryStep DEF n
<1>4. ASSUME NEW e \in Events, NEW s \in Subscriptions, Retry(e, s)
      PROVE  WebhookInv'
  <2> DEFINE d == deliveries[e][s]
             n == [d EXCEPT !.stage = "posting", !.attempt = @ + 1]
  <2>1. d \in Delivery /\ Counted(d) /\ d.stage = "pausing"
    BY <1>4 DEF Retry, WebhookInv
  <2>2. /\ n \in Delivery
        /\ n.stage = "posting" /\ n.attempt = d.attempt + 1 /\ n.posts = d.posts
    <3>1. d.attempt \in 0..MaxRetries /\ d.attempt + 1 \in 0..MaxRetries
      BY <2>1 DEF Delivery, Counted
    <3>2. n.stage = "posting" /\ n.attempt = d.attempt + 1 /\ n.posts = d.posts
      BY <2>1 DEF Delivery
    <3> QED
      BY <2>1, <3>1, <3>2 DEF Delivery, Stages
  <2>3. deliveries' = [deliveries EXCEPT ![e][s] = n] /\ UNCHANGED <<subs, used, fired, returned>>
    BY <1>4 DEF Retry, WebhookInv
  <2> HIDE DEF n, d
  <2>4. Counted(n)
    BY <2>1, <2>2 DEF Counted
  <2> QED
    BY <2>2, <2>3, <2>4, DeliveryStep
<1>5. ASSUME NEW e \in Events, FireReturns(e)
      PROVE  WebhookInv'
  BY <1>5 DEF FireReturns, WebhookInv, Events
<1>6. CASE WebhookRestart
  <2>1. deliveries' \in [Events -> [Subscriptions -> Delivery]]
        /\ \A e \in Events, s \in Subscriptions : Counted(deliveries'[e][s])
    BY <1>6, NothingDelivered DEF WebhookRestart, WebhookInv
  <2>2. subs' \in [Subscriptions -> SUBSET EventTypes] /\ returned' \subseteq 1..fired'
    BY <1>6 DEF WebhookRestart
  <2>3. UNCHANGED <<used, fired>>
    BY <1>6 DEF WebhookRestart
  <2> QED
    BY <2>1, <2>2, <2>3 DEF WebhookInv
<1>7. CASE UNCHANGED webhookVars
  BY <1>7 DEF webhookVars, WebhookInv
<1> QED
  BY <1>1, <1>2, <1>3, <1>4, <1>5, <1>6, <1>7 DEF WebhookNext, Deliver

LEMMA WebhookInvariance == WebhookSpec => []WebhookInv
BY WebhookInvInit, WebhookInvNext, PTL DEF WebhookSpec

\* Every variable keeps its type, for any subscriptions, events and retries.
THEOREM WebhookTypeCorrect == WebhookSpec => []WebhookTypeOK
<1>1. WebhookInv => WebhookTypeOK
  BY DEF WebhookInv, WebhookTypeOK, Delivery
<1> QED
  BY <1>1, WebhookInvariance, PTL

\* However posts end and subscribers come and go, a delivery ends with the
\* acknowledged post or with its last attempt, and a subscriber gets no event
\* more often than there are attempts.
THEOREM DeliveriesEndRightly == WebhookSpec => []EndedRightly
<1>1. WebhookInv => EndedRightly
  <2> SUFFICES ASSUME WebhookInv, NEW e \in Events, NEW s \in Subscriptions
               PROVE  LET d == deliveries[e][s] IN
                      /\ \A n \in 1..Len(d.posts) - 1 : d.posts[n] # "ok"
                      /\ d.stage = "ended" =>
                           d.posts[Len(d.posts)] = "ok" \/ Len(d.posts) = MaxRetries
                      /\ Copies(e, s) <= MaxRetries
    BY DEF EndedRightly
  <2> DEFINE d == deliveries[e][s]
             taken == {n \in DOMAIN d.posts : Took(d.posts[n])}
  <2>1. d \in Delivery /\ Counted(d)
    BY DEF WebhookInv
  <2>2. d.posts \in Seq(Answers) /\ Len(d.posts) \in 0..MaxRetries
    BY <2>1, WebhookAssumption DEF Delivery, Counted, Stages
  <2>3. Cardinality(taken) <= MaxRetries
    <3>1. taken \subseteq 1..MaxRetries
      <4>1. DOMAIN d.posts = 1..Len(d.posts) /\ taken \subseteq DOMAIN d.posts
        BY <2>2
      <4> QED
        BY <2>2, <4>1, WebhookAssumption
    <3>2. IsFiniteSet(1..MaxRetries) /\ Cardinality(1..MaxRetries) = MaxRetries
      BY FS_Interval, WebhookAssumption
    <3> QED
      BY <3>1, <3>2, FS_Subset
  <2>4. \A n \in 1..Len(d.posts) - 1 : d.posts[n] # "ok"
    BY <2>1, <2>2 DEF Counted
  <2> QED
    BY <2>1, <2>3, <2>4 DEF Copies, Counted
<1> QED
  BY <1>1, WebhookInvariance, PTL

-----------------------------------------------------------------------------
(* ChartCache.  ChartTypeOK is inductive: the cache stays a function from  *)
(* days, whatever page an answer is put under.                             *)

IngestStates == {NoIngest, EndedIngest} \cup {Waiting(d) : d \in Pages}

LEMMA ChartTypeNext == ChartTypeOK /\ [ChartNext]_chartVars => ChartTypeOK'
<1> SUFFICES ASSUME ChartTypeOK, [ChartNext]_chartVars
             PROVE  ChartTypeOK'
  OBVIOUS
<1>1. /\ today \in Days /\ ingest \in [Ingests -> IngestStates]
      /\ DOMAIN cache \subseteq Days /\ \A d \in DOMAIN cache : cache[d] \in Pages
  BY DEF ChartTypeOK, IngestStates
<1>2. NoIngest \in IngestStates /\ EndedIngest \in IngestStates
      /\ \A d \in Pages : Waiting(d) \in IngestStates
  BY DEF IngestStates
\* A step that leaves the cache alone.
<1>3. ASSUME today' \in Days, ingest' \in [Ingests -> IngestStates], cache' = cache
      PROVE  ChartTypeOK'
  BY <1>1, <1>3 DEF ChartTypeOK, IngestStates
<1>4. CASE ChartMidnight
  <2>1. today' \in Days
    BY <1>1, <1>4, ChartAssumption DEF ChartMidnight, Days
  <2> QED
    BY <1>1, <1>3, <1>4, <2>1 DEF ChartMidnight
<1>5. ASSUME NEW r \in Ingests, NEW d \in Pages, Ask(r, d)
      PROVE  ChartTypeOK'
  BY <1>1, <1>2, <1>3, <1>5 DEF Ask
<1>6. ASSUME NEW r \in Ingests, Cache(r)
      PROVE  ChartTypeOK'
  <2> DEFINE page == ingest[r].page
             date == ChartDate(page)
  <2>1. page \in Pages
    <3>1. ingest[r].pc = "asked" /\ ingest[r] \in IngestStates
      BY <1>1, <1>6 DEF Cache
    <3>2. PICK d \in Pages : ingest[r] = Waiting(d)
      BY <3>1 DEF IngestStates, NoIngest, EndedIngest
    <3> QED
      BY <3>2 DEF Waiting
  <2>2. date \in Days
    BY <1>1, <2>1 DEF ChartDate, Pages
  <2>3. /\ cache' = Put(date, page) /\ today' = today
        /\ ingest' \in [Ingests -> IngestStates]
    BY <1>1, <1>2, <1>6 DEF Cache
  <2> HIDE DEF page, date
  <2>4. /\ DOMAIN cache' = DOMAIN cache \cup {date}
        /\ \A d \in DOMAIN cache' : cache'[d] = IF d = date THEN page ELSE cache[d]
    BY <2>3 DEF Put
  <2>5. \A d \in DOMAIN cache' : cache'[d] \in Pages
    BY <1>1, <2>1, <2>4
  <2>6. DOMAIN cache' \subseteq Days
    BY <1>1, <2>2, <2>4
  <2>7. today' \in Days
    BY <1>1, <2>3
  <2>8. \A d \in DOMAIN cache' : cache'[d] \in Pages'
    BY <2>5 DEF Pages, Days
  <2> QED
    BY <2>3, <2>6, <2>7, <2>8 DEF ChartTypeOK, IngestStates, Pages, Days
<1>7. ASSUME NEW r \in Ingests, IngestFails(r)
      PROVE  ChartTypeOK'
  BY <1>1, <1>2, <1>3, <1>7 DEF IngestFails
<1>8. CASE ChartRestart
  <2>1. ingest' \in [Ingests -> IngestStates] /\ cache' = <<>> /\ today' = today
    BY <1>1, <1>2, <1>8 DEF ChartRestart
  <2> QED
    BY <1>1, <2>1 DEF ChartTypeOK, IngestStates
<1>9. CASE ChartsDone \/ UNCHANGED chartVars
  BY <1>1, <1>3, <1>9 DEF ChartsDone, chartVars
<1> QED
  BY <1>4, <1>5, <1>6, <1>7, <1>8, <1>9 DEF ChartNext

\* However many ingestions overlap midnights and restarts, the cache maps days
\* to pages, and a request waits for one page.
THEOREM ChartTypeCorrect == ChartSpec => []ChartTypeOK
<1>1. ChartInit => ChartTypeOK
  BY ChartAssumption DEF ChartInit, ChartTypeOK, Days
<1> QED
  BY <1>1, ChartTypeNext, PTL DEF ChartSpec

-----------------------------------------------------------------------------
(* SourceChecks.  Results are only added, so what a summary has read is    *)
(* still there for a later one.                                            *)

CheckResult == [by : Checks, at : 0..MaxCheckTime, verdict : {"validated", "failed"}]
CheckStates == [pc : {"idle", "asked", "done"}] \cup [pc : {"judged"}, result : CheckResult]

CheckInv ==
  /\ instant \in 0..MaxCheckTime
  /\ shows \in Shows
  /\ check \in [Checks -> CheckStates]
  /\ results \subseteq CheckResult
  /\ \A r \in Readers : reader[r].pc \in {"idle", "counting", "told"}
  /\ \A r \in Readers : reader[r].pc # "idle" => reader[r].latest \subseteq results
  /\ DOMAIN reader = Readers

LEMMA CheckInvInit == CheckInit => CheckInv
BY CheckAssumption DEF CheckInit, CheckInv, NotAsked, CheckStates

\* A step of a validation: it changes its own state, and results are added.
LEMMA ValidationStep ==
  ASSUME CheckInv, NEW c \in Checks, NEW s \in CheckStates,
         check' = [check EXCEPT ![c] = s],
         instant' \in 0..MaxCheckTime, shows' = shows, reader' = reader,
         results \subseteq results', results' \subseteq CheckResult
  PROVE  CheckInv'
BY DEF CheckInv

LEMMA CheckInvNext == CheckInv /\ [CheckNext]_checkVars => CheckInv'
<1> SUFFICES ASSUME CheckInv, [CheckNext]_checkVars
             PROVE  CheckInv'
  OBVIOUS
<1> USE CheckAssumption
<1>1. CASE SourceChanges
  <2>1. instant' \in 0..MaxCheckTime /\ shows' \in Shows
    BY <1>1 DEF SourceChanges, CheckInv
  <2> QED
    BY <1>1, <2>1 DEF SourceChanges, CheckInv
<1>2. ASSUME NEW c \in Checks, AskSource(c)
      PROVE  CheckInv'
  <2>1. [pc |-> "asked"] \in CheckStates
    BY DEF CheckStates
  <2> QED
    BY <1>2, <2>1, ValidationStep DEF AskSource, CheckInv
<1>3. ASSUME NEW c \in Checks, Judge(c)
      PROVE  CheckInv'
  <2> DEFINE s == [pc |-> "judged", result |-> ResultNow(c)]
  <2>1. s \in CheckStates
    BY DEF CheckStates, CheckResult, ResultNow, Verdict, CheckInv
  <2>2. /\ check' = [check EXCEPT ![c] = s] /\ instant' \in 0..MaxCheckTime
        /\ UNCHANGED <<shows, results, reader>>
    BY <1>3 DEF Judge, CheckInv
  <2> HIDE DEF s
  <2> QED
    BY <2>1, <2>2, ValidationStep DEF CheckInv
<1>4. ASSUME NEW c \in Checks, SaveResult(c) \/ SaveFails(c)
      PROVE  CheckInv'
  <2>1. [pc |-> "done"] \in CheckStates
    BY DEF CheckStates
  <2>2. check[c].result \in CheckResult
    <3>1. check[c].pc = "judged" /\ check[c] \in CheckStates
      BY <1>4 DEF SaveResult, SaveFails, CheckInv
    <3> QED
      BY <3>1 DEF CheckStates
  <2>3. /\ check' = [check EXCEPT ![c] = [pc |-> "done"]]
        /\ UNCHANGED <<instant, shows, reader>>
        /\ results' \in {results, results \cup {check[c].result}}
    BY <1>4 DEF SaveResult, SaveFails
  <2> QED
    BY <2>1, <2>2, <2>3, ValidationStep DEF CheckInv
<1>5. ASSUME NEW r \in Readers, ReadLatest(r)
      PROVE  CheckInv'
  <2>1. LatestResult \subseteq results
    BY DEF LatestResult
  <2> QED
    BY <1>5, <2>1 DEF ReadLatest, CheckInv
<1>6. ASSUME NEW r \in Readers, ReadCount(r)
      PROVE  CheckInv'
  BY <1>6 DEF ReadCount, CheckInv
<1>7. CASE ChecksDone \/ UNCHANGED checkVars
  BY <1>7 DEF ChecksDone, checkVars, CheckInv
<1> QED
  BY <1>1, <1>2, <1>3, <1>4, <1>5, <1>6, <1>7 DEF CheckNext

LEMMA CheckInvariance == CheckSpec => []CheckInv
BY CheckInvInit, CheckInvNext, PTL DEF CheckSpec

\* Where there are results one of them is the latest: not before any other.
LEMMA LatestIsLast ==
  ASSUME CheckInv, NEW v \in results
  PROVE  \E w \in LatestResult : v.at <= w.at
<1> DEFINE times == {u.at : u \in results}
<1>1. \A u \in results : u.at \in 0..MaxCheckTime
  BY DEF CheckInv, CheckResult
<1>2. times \in SUBSET (0..MaxCheckTime) /\ times # {}
  BY <1>1
<1>3. PICK m \in times : \A k \in times : k <= m
  BY <1>2, GreatestNatural, CheckAssumption
<1>4. PICK w \in results : w.at = m
  BY <1>3
<1>5. w \in LatestResult
  BY <1>3, <1>4 DEF LatestResult
<1> QED
  BY <1>3, <1>4, <1>5

\* Every variable keeps its type, for any requests and any length of time.
THEOREM ChecksTypeCorrect == CheckSpec => []ChecksTypeOK
<1>1. CheckInv => ChecksTypeOK
  BY DEF CheckInv, ChecksTypeOK, CheckStates, CheckResult
<1> QED
  BY <1>1, CheckInvariance, PTL

\* Whatever order the results are committed in, the summary that is read
\* later tells of a look that is as late or later.
THEOREM SummariesGoForward == CheckSpec => SummariesNeverGoBack
<1> DEFINE Forward ==
      \A r, q \in Readers :
        (ReadLatest(r) /\ reader[q].pc # "idle") =>
          \A v \in reader[q].latest : \E w \in reader'[r].latest : v.at <= w.at
<1>1. CheckInv => Forward
  <2> SUFFICES ASSUME CheckInv, NEW r \in Readers, NEW q \in Readers, ReadLatest(r),
                      reader[q].pc # "idle", NEW v \in reader[q].latest
               PROVE  \E w \in reader'[r].latest : v.at <= w.at
    OBVIOUS
  <2>1. v \in results
    BY DEF CheckInv
  <2>2. reader'[r].latest = LatestResult
    BY DEF ReadLatest, CheckInv
  <2> QED
    BY <2>1, <2>2, LatestIsLast
<1> QED
  BY <1>1, CheckInvariance, PTL DEF SummariesNeverGoBack

-----------------------------------------------------------------------------
(* Imports.  The rows of a backfill that are left and those that are       *)
(* flushed are the accepted rows of its file; a commit is the only step    *)
(* that stores rows, and it stores them all.                               *)

\* The plays of the rows N of a file.
PlaysOfRows(u, file, N) ==
  {<<u, file.rows[n].song, ZoneOf(file.rows[n].form)>> : n \in N}

CsvPlay == Uploads \X CsvSongs \X {"utc", "own"}

Statuses == {"200", "413", "422", "500", "partial", "completed"}
Counts == [pc : {"answered"}, status : Statuses, accepted : 0..MaxRows,
           rejected : 0..MaxRows, reasons : 0..ReasonCap]
Answered == {a \in Counts : a.accepted + a.rejected <= MaxRows}
Refused == [pc : {"answered"}, status : {"503"}, accepted : {0}, rejected : {0},
            reasons : {0}, why : {"row", "database"}]
AtRows == [pc : {"read", "saving"}, file : CsvFile, left : SUBSET (1..MaxRows),
           flushed : SUBSET CsvPlay]
UploadStates == {NotSent} \cup AtRows \cup Answered \cup Refused

\* What the state s of an upload says of its rows, and of the table.
RowsAgree(u, s) ==
  s.pc \in {"read", "saving"} =>
    /\ s.left \subseteq AcceptedRows(s.file)
    /\ s.flushed = PlaysOfRows(u, s.file, AcceptedRows(s.file) \ s.left)
TableAgrees(u, s) ==
  IF s.pc = "answered" /\ s.status = "200"
  THEN u \in filed /\ Cardinality(PlaysOf(u)) = s.accepted
  ELSE u \notin filed /\ PlaysOf(u) = {}

ImportInv ==
  /\ upload \in [Uploads -> UploadStates]
  /\ csvPlays \subseteq CsvPlay
  /\ filed \subseteq Uploads
  /\ \A u \in Uploads : RowsAgree(u, upload[u]) /\ TableAgrees(u, upload[u])

-----------------------------------------------------------------------------
\* The rows of a file are a sequence of rows, no longer than the bound.
LEMMA FileRows ==
  ASSUME NEW file \in CsvFile
  PROVE  /\ Len(file.rows) \in 0..MaxRows
         /\ DOMAIN file.rows = 1..Len(file.rows)
         /\ \A n \in 1..Len(file.rows) : file.rows[n] \in CsvRow
         /\ file.layout \in Layouts \cup Unread
<1>1. PICK m \in 0..MaxRows : file.rows \in [1..m -> CsvRow]
  <2>1. CASE file.rows \in UNION {[1..n -> CsvRow] : n \in 0..MaxRows}
    BY <2>1
  <2>2. CASE file.rows = <<>>
    BY <2>2, ImportAssumption
  <2> QED
    BY <2>1, <2>2 DEF CsvFile
<1>2. m \in Nat /\ file.rows \in Seq(CsvRow) /\ DOMAIN file.rows = 1..m
  BY <1>1, ImportAssumption, SeqDef
<1>3. Len(file.rows) = m
  BY <1>2
<1>4. file.layout \in Layouts \cup Unread
  BY DEF CsvFile
<1> QED
  BY <1>1, <1>2, <1>3, <1>4

\* A valid row has a song and a zone.
LEMMA ValidRow ==
  ASSUME NEW file \in CsvFile, NEW n \in 1..Len(file.rows), RowValid(file, file.rows[n])
  PROVE  file.rows[n].song \in CsvSongs /\ ZoneOf(file.rows[n].form) \in {"utc", "own"}
<1>1. file.rows[n] \in CsvRow
  BY FileRows
<1> QED
  BY <1>1 DEF CsvRow, RowValid, ZoneOf, Forms

\* Some of the rows of a file are at most as many as its rows.
LEMMA SomeRows ==
  ASSUME NEW file \in CsvFile, NEW N \in SUBSET (1..Len(file.rows))
  PROVE  IsFiniteSet(N) /\ Cardinality(N) \in 0..Len(file.rows)
<1>1. Len(file.rows) \in 0..MaxRows
  BY FileRows
<1>2. IsFiniteSet(1..Len(file.rows)) /\ Cardinality(1..Len(file.rows)) = Len(file.rows)
  BY <1>1, FS_Interval
<1>3. IsFiniteSet(N) /\ Cardinality(N) <= Len(file.rows)
  BY <1>2, FS_Subset
<1>4. Cardinality(N) \in Nat
  BY <1>3, FS_CardinalityType
<1> QED
  BY <1>1, <1>3, <1>4

LEMMA AcceptedRowsType ==
  ASSUME NEW file \in CsvFile
  PROVE  /\ AcceptedRows(file) \subseteq 1..Len(file.rows)
         /\ AcceptedRows(file) \subseteq 1..MaxRows
         /\ IsFiniteSet(AcceptedRows(file))
         /\ Cardinality(AcceptedRows(file)) \in 0..Len(file.rows)
<1>1. /\ Len(file.rows) \in 0..MaxRows /\ DOMAIN file.rows = 1..Len(file.rows)
  BY FileRows
<1>2. AcceptedRows(file) \subseteq 1..Len(file.rows)
  BY <1>1 DEF AcceptedRows
<1>3. IsFiniteSet(AcceptedRows(file)) /\ Cardinality(AcceptedRows(file)) \in 0..Len(file.rows)
  BY <1>2, SomeRows
<1> QED
  BY <1>1, <1>2, <1>3, ImportAssumption

\* Of the valid rows of a song the first is accepted, and no other.
LEMMA OneRowOfASong ==
  ASSUME NEW file \in CsvFile, NEW n \in 1..Len(file.rows), RowValid(file, file.rows[n])
  PROVE  \E k \in AcceptedRows(file) : file.rows[k].song = file.rows[n].song
<1>1. Len(file.rows) \in Nat /\ DOMAIN file.rows = 1..Len(file.rows)
  BY FileRows, ImportAssumption
<1> DEFINE S == {k \in 1..Len(file.rows) : RowValid(file, file.rows[k])
                                         /\ file.rows[k].song = file.rows[n].song}
<1>2. S \in SUBSET Nat /\ S # {}
  BY <1>1
<1>3. PICK m \in S : \A k \in S : m <= k
  BY <1>2, LeastNatural
<1>4. ~Repeats(file, m)
  <2> SUFFICES ASSUME NEW k \in 1..m - 1, RowValid(file, file.rows[k]),
                      file.rows[k].song = file.rows[m].song
               PROVE  FALSE
    BY DEF Repeats
  <2>1. m \in 1..Len(file.rows)
    OBVIOUS
  <2>2. k \in 1..Len(file.rows) /\ ~(m <= k)
    BY <1>1, <2>1
  <2>3. k \in S
    BY <2>2
  <2> QED
    BY <1>3, <2>2, <2>3
<1> QED
  BY <1>1, <1>3, <1>4 DEF AcceptedRows

LEMMA AcceptedSongsDiffer ==
  ASSUME NEW file \in CsvFile, NEW j \in AcceptedRows(file), NEW k \in AcceptedRows(file),
         file.rows[j].song = file.rows[k].song
  PROVE  j = k
<1>1. ASSUME NEW i \in AcceptedRows(file), NEW n \in AcceptedRows(file), i < n
      PROVE  file.rows[i].song # file.rows[n].song
  <2>1. i \in 1..n - 1
    BY <1>1, AcceptedRowsType, FileRows, ImportAssumption
  <2>2. RowValid(file, file.rows[i]) /\ ~Repeats(file, n)
    BY DEF AcceptedRows
  <2> QED
    BY <2>1, <2>2 DEF Repeats
<1>2. j \in Int /\ k \in Int
  BY AcceptedRowsType
<1> QED
  BY <1>1, <1>2

\* Accepted rows become plays of the table, and as many.
LEMMA PlaysOfAccepted ==
  ASSUME NEW u \in Uploads, NEW file \in CsvFile
  PROVE  /\ PlaysOfRows(u, file, AcceptedRows(file)) \subseteq CsvPlay
         /\ Cardinality(PlaysOfRows(u, file, AcceptedRows(file)))
              = Cardinality(AcceptedRows(file))
<1> DEFINE A == AcceptedRows(file)
           play(n) == <<u, file.rows[n].song, ZoneOf(file.rows[n].form)>>
           P == PlaysOfRows(u, file, A)
           f == [n \in A |-> play(n)]
<1>1. \A n \in A : n \in 1..Len(file.rows) /\ RowValid(file, file.rows[n])
  BY AcceptedRowsType DEF AcceptedRows
<1>2. \A n \in A : play(n) \in CsvPlay
  BY <1>1, ValidRow DEF CsvPlay
<1>3. P \subseteq CsvPlay
  BY <1>2 DEF PlaysOfRows
<1>4. f \in [A -> P] /\ \A p \in P : \E n \in A : f[n] = p
  BY DEF PlaysOfRows
<1>5. \A i, n \in A : f[i] = f[n] => i = n
  BY AcceptedSongsDiffer
<1>6. f \in Bijection(A, P)
  BY <1>4, <1>5, Fun_IsBij
<1>7. IsFiniteSet(A) /\ ExistsBijection(A, P)
  BY <1>6, AcceptedRowsType DEF ExistsBijection
<1>8. Cardinality(P) = Cardinality(A)
  BY <1>7, FS_Bijection
<1> QED
  BY <1>3, <1>8

-----------------------------------------------------------------------------
LEMMA ImportInvInit == ImportInit => ImportInv
<1> SUFFICES ASSUME ImportInit PROVE ImportInv
  OBVIOUS
<1>1. upload \in [Uploads -> UploadStates] /\ \A u \in Uploads : upload[u].pc = "unsent"
  BY DEF ImportInit, NotSent, UploadStates
<1>2. csvPlays = {} /\ filed = {}
  BY DEF ImportInit
<1> QED
  BY <1>1, <1>2 DEF ImportInv, RowsAgree, TableAgrees, PlaysOf

\* A step of one upload that leaves the table alone.
LEMMA UploadStep ==
  ASSUME ImportInv, NEW u \in Uploads, NEW s \in UploadStates,
         upload' = [upload EXCEPT ![u] = s], UNCHANGED <<csvPlays, filed>>,
         RowsAgree(u, s), TableAgrees(u, s)
  PROVE  ImportInv'
<1>1. upload' \in [Uploads -> UploadStates]
  BY DEF ImportInv
<1>2. ASSUME NEW v \in Uploads
      PROVE  RowsAgree(v, upload'[v]) /\ TableAgrees(v, upload'[v])
  BY DEF ImportInv
<1>3. \A v \in Uploads : TableAgrees(v, upload[v])' <=> TableAgrees(v, upload'[v])
  BY DEF TableAgrees, PlaysOf
<1>4. \A v \in Uploads : RowsAgree(v, upload[v])' <=> RowsAgree(v, upload'[v])
  BY DEF RowsAgree
<1> QED
  BY <1>1, <1>2, <1>3, <1>4 DEF ImportInv

\* The plays of an upload that was not answered are not in the table.
LEMMA NothingStored ==
  ASSUME ImportInv, NEW u \in Uploads, upload[u].pc # "answered"
  PROVE  u \notin filed /\ PlaysOf(u) = {}
BY DEF ImportInv, TableAgrees

\* An answer other than 200 is one of an upload that stored nothing.
LEMMA AnswerStep ==
  ASSUME ImportInv, NEW u \in Uploads, upload[u].pc # "answered",
         NEW s \in Answered \cup Refused, s.status # "200",
         upload' = [upload EXCEPT ![u] = s], UNCHANGED <<csvPlays, filed>>
  PROVE  ImportInv'
<1>1. s \in UploadStates /\ s.pc = "answered"
  BY DEF UploadStates, Answered, Counts, Refused
<1>2. RowsAgree(u, s) /\ TableAgrees(u, s)
  BY <1>1, NothingStored DEF RowsAgree, TableAgrees
<1> QED
  BY <1>1, <1>2, UploadStep

\* An answer with counts of rows and of reasons.
LEMMA AnswerType ==
  ASSUME NEW status \in Statuses, NEW a \in 0..MaxRows, NEW r \in 0..MaxRows,
         a + r <= MaxRows, NEW n \in 0..ReasonCap
  PROVE  /\ Answer(status, a, r, n) \in Answered
         /\ Answer(status, a, r, n).status = status
         /\ Answer(status, a, r, n).accepted = a
         /\ Answer(status, a, r, n).pc = "answered"
BY DEF Answer, Answered, Counts

\* The fields of an upload whose rows are being read or stored.
LEMMA RowsFields ==
  ASSUME ImportInv, NEW u \in Uploads, upload[u].pc \in {"read", "saving"}
  PROVE  /\ upload[u] \in AtRows
         /\ upload[u].file \in CsvFile
         /\ upload[u].left \subseteq AcceptedRows(upload[u].file)
         /\ upload[u].flushed = PlaysOfRows(u, upload[u].file,
                                  AcceptedRows(upload[u].file) \ upload[u].left)
<1>1. upload[u] \in AtRows
  BY DEF ImportInv, UploadStates, NotSent, Answered, Counts, Refused, AtRows
<1> QED
  BY <1>1 DEF ImportInv, RowsAgree, AtRows

LEMMA ManualImportInv ==
  ASSUME ImportInv, NEW u \in Uploads, NEW file \in CsvFile, ManualImport(u, file)
  PROVE  ImportInv'
<1> USE ImportAssumption
<1> DEFINE imported == Cardinality(ImportedRows(file))
           errors == Len(file.rows) - imported
           status == BatchStatus(imported, errors)
           s == IF file.layout = "large" THEN Answer("413", 0, 0, 0)
                ELSE IF file.layout \in Unread THEN Answer("422", 0, 0, 1)
                ELSE IF \E n \in DOMAIN file.rows : file.rows[n].form = "long"
                THEN Answer("500", 0, 0, 0)
                ELSE IF status = "failed" THEN Answer("422", 0, errors, 0)
                ELSE Answer(status, imported, errors, 0)
<1>1. /\ upload[u].pc = "unsent" /\ upload' = [upload EXCEPT ![u] = s]
      /\ UNCHANGED <<csvPlays, filed>>
  BY DEF ManualImport, NotSent
<1>2. imported \in 0..Len(file.rows) /\ Len(file.rows) \in 0..MaxRows
  <2>1. Len(file.rows) \in 0..MaxRows /\ DOMAIN file.rows = 1..Len(file.rows)
    BY FileRows
  <2>2. ImportedRows(file) \in SUBSET (1..Len(file.rows))
    BY <2>1 DEF ImportedRows
  <2> QED
    BY <2>1, <2>2, SomeRows
<1>3. status \in {"failed", "partial", "completed"}
  BY DEF BatchStatus
<1> HIDE DEF imported, status
<1>4. errors \in 0..MaxRows /\ imported \in 0..MaxRows /\ imported + errors <= MaxRows
  BY <1>2
<1> HIDE DEF errors
<1>5. \/ \E a \in {"413", "500"} : s = Answer(a, 0, 0, 0)
      \/ s = Answer("422", 0, 0, 1)
      \/ s = Answer("422", 0, errors, 0)
      \/ status # "failed" /\ s = Answer(status, imported, errors, 0)
  OBVIOUS
<1>6. s \in Answered /\ s.status # "200"
  <2>1. 0 \in 0..MaxRows /\ {0, 1} \subseteq 0..ReasonCap
    OBVIOUS
  <2> HIDE DEF s
  <2> QED
    BY <1>3, <1>4, <1>5, <2>1, AnswerType DEF Statuses
<1> HIDE DEF s
<1> QED
  BY <1>1, <1>6, AnswerStep

LEMMA BackfillInv ==
  ASSUME ImportInv, NEW u \in Uploads, NEW file \in CsvFile, Backfill(u, file)
  PROVE  ImportInv'
<1> USE ImportAssumption
<1>1. upload[u].pc = "unsent" /\ UNCHANGED <<csvPlays, filed>>
  BY DEF Backfill, NotSent
<1>2. CASE file.layout \in {"large", "binary"} \cup Unread
  <2>1. PICK t \in {"413", "422"} : upload' = [upload EXCEPT ![u] = Answer(t, 0, 0, 0)]
    BY <1>2 DEF Backfill
  <2>2. Answer(t, 0, 0, 0) \in Answered /\ Answer(t, 0, 0, 0).status # "200"
    <3>1. 0 \in 0..MaxRows /\ 0 \in 0..ReasonCap /\ 0 + 0 <= MaxRows
      OBVIOUS
    <3> QED
      BY <2>1, <3>1, AnswerType DEF Statuses
  <2> QED
    BY <1>1, <2>1, <2>2, AnswerStep
<1>3. CASE file.layout \notin {"large", "binary"} \cup Unread
  <2> DEFINE s == [pc |-> "read", file |-> file, left |-> AcceptedRows(file), flushed |-> {}]
  <2>1. upload' = [upload EXCEPT ![u] = s]
    BY <1>3 DEF Backfill
  <2>2. s \in UploadStates
    BY AcceptedRowsType DEF UploadStates, AtRows
  <2>3. RowsAgree(u, s)
    BY DEF RowsAgree, PlaysOfRows
  <2>4. TableAgrees(u, s)
    BY <1>1, NothingStored DEF TableAgrees
  <2> HIDE DEF s
  <2> QED
    BY <1>1, <2>1, <2>2, <2>3, <2>4, UploadStep
<1> QED
  BY <1>2, <1>3

LEMMA OpenBackfillInv ==
  ASSUME ImportInv, NEW u \in Uploads, OpenBackfill(u)
  PROVE  ImportInv'
<1> USE ImportAssumption
<1> DEFINE file == upload[u].file
<1>1. upload[u].pc = "read" /\ UNCHANGED <<csvPlays, filed>>
  BY DEF OpenBackfill
<1>2. /\ upload[u] \in AtRows /\ file \in CsvFile
      /\ upload[u].left \subseteq AcceptedRows(file)
      /\ upload[u].flushed = PlaysOfRows(u, file, AcceptedRows(file) \ upload[u].left)
  BY <1>1, RowsFields
<1>3. CASE upload[u].left = {} /\ file.rows # <<>>
  <2> DEFINE s == Answer("422", 0, Len(file.rows), 0)
  <2>1. upload' = [upload EXCEPT ![u] = s]
    BY <1>3 DEF OpenBackfill
  <2>2. Len(file.rows) \in 0..MaxRows
    BY <1>2, FileRows
  <2>3. s \in Answered /\ s.status = "422"
    <3>1. 0 \in 0..MaxRows /\ 0 \in 0..ReasonCap /\ 0 + Len(file.rows) <= MaxRows
          /\ Len(file.rows) \in 0..MaxRows
      BY <2>2
    <3> QED
      BY <3>1, AnswerType DEF Statuses
  <2> HIDE DEF s
  <2> QED
    BY <1>1, <2>1, <2>3, AnswerStep
<1>4. CASE ~(upload[u].left = {} /\ file.rows # <<>>)
  <2> DEFINE s == [upload[u] EXCEPT !.pc = "saving"]
  <2>1. upload' = [upload EXCEPT ![u] = s]
    BY <1>4 DEF OpenBackfill, ImportInv
  <2>2. /\ s \in AtRows /\ s.pc = "saving" /\ s.file = file
        /\ s.left = upload[u].left /\ s.flushed = upload[u].flushed
    BY <1>2 DEF AtRows
  <2> HIDE DEF s
  <2>3. RowsAgree(u, s) /\ TableAgrees(u, s)
    BY <1>1, <1>2, <2>2, NothingStored DEF RowsAgree, TableAgrees
  <2> QED
    BY <1>1, <2>1, <2>2, <2>3, UploadStep DEF UploadStates
<1> QED
  BY <1>3, <1>4

\* The answer 503 is one of an upload that stored nothing.
LEMMA UnavailableInv ==
  ASSUME ImportInv, NEW u \in Uploads, upload[u].pc # "answered",
         NEW why \in {"row", "database"}, Unavailable(u, why), UNCHANGED <<csvPlays, filed>>
  PROVE  ImportInv'
<1> DEFINE s == [pc |-> "answered", status |-> "503", accepted |-> 0, rejected |-> 0,
                 reasons |-> 0, why |-> why]
<1>1. s \in Refused /\ s.status # "200"
  BY DEF Refused
<1>2. upload' = [upload EXCEPT ![u] = s]
  BY DEF Unavailable
<1> HIDE DEF s
<1> QED
  BY <1>1, <1>2, AnswerStep

LEMMA SaveRowInv ==
  ASSUME ImportInv, NEW u \in Uploads, SaveRow(u)
  PROVE  ImportInv'
<1> USE ImportAssumption
<1> DEFINE file == upload[u].file
           A == AcceptedRows(file)
           left == upload[u].left
           n == CHOOSE k \in left : \A j \in left : k <= j
           row == file.rows[n]
           play == <<u, row.song, ZoneOf(row.form)>>
<1>1. upload[u].pc = "saving" /\ left # {} /\ UNCHANGED <<csvPlays, filed>>
  BY DEF SaveRow
<1>2. /\ upload[u] \in AtRows /\ file \in CsvFile /\ left \subseteq A
      /\ upload[u].flushed = PlaysOfRows(u, file, A \ left)
  BY <1>1, RowsFields
<1>3. n \in left
  <2>1. left \in SUBSET Nat
    BY <1>2 DEF AtRows
  <2>2. \E k \in left : \A j \in left : k <= j
    BY <1>1, <2>1, LeastNatural
  <2> QED
    BY <2>2
<1>4. CASE RunOf(u, n) \notin RunIds
  <2>1. Unavailable(u, "row") /\ upload[u].pc # "answered"
    BY <1>1, <1>4 DEF SaveRow
  <2> QED
    BY <1>1, <2>1, UnavailableInv
<1>5. CASE RunOf(u, n) \in RunIds
  <2> DEFINE s == [upload[u] EXCEPT !.left = left \ {n},
                                    !.flushed = upload[u].flushed \cup {play}]
  <2>1. upload' = [upload EXCEPT ![u] = s]
    BY <1>5 DEF SaveRow, ImportInv
  <2>2. play \in CsvPlay
    <3>1. n \in A
      BY <1>2, <1>3
    <3> HIDE DEF n
    <3>2. n \in 1..Len(file.rows) /\ RowValid(file, file.rows[n])
      BY <1>2, <3>1, AcceptedRowsType DEF AcceptedRows
    <3> QED
      BY <1>2, <3>2, ValidRow DEF CsvPlay
  <2> HIDE DEF n, play, row
  <2>3. upload[u].flushed \cup {play} \in SUBSET CsvPlay /\ left \ {n} \in SUBSET (1..MaxRows)
    BY <1>2, <2>2 DEF AtRows
  <2>4. /\ s \in AtRows /\ s.pc = "saving" /\ s.file = file
        /\ s.left = left \ {n} /\ s.flushed = upload[u].flushed \cup {play}
    BY <1>1, <1>2, <2>3 DEF AtRows
  <2> HIDE DEF s
  <2>5. PlaysOfRows(u, file, A \ (left \ {n})) = PlaysOfRows(u, file, A \ left) \cup {play}
    <3>1. A \ (left \ {n}) = (A \ left) \cup {n}
      BY <1>2, <1>3
    <3> QED
      BY <3>1 DEF PlaysOfRows, play, row
  <2>6. RowsAgree(u, s) /\ TableAgrees(u, s)
    BY <1>1, <1>2, <2>4, <2>5, NothingStored DEF RowsAgree, TableAgrees
  <2> QED
    BY <1>1, <2>1, <2>4, <2>6, UploadStep DEF UploadStates
<1> QED
  BY <1>4, <1>5

LEMMA CommitBackfillInv ==
  ASSUME ImportInv, NEW u \in Uploads, CommitBackfill(u)
  PROVE  ImportInv'
<1> USE ImportAssumption
<1> DEFINE file == upload[u].file
           A == AcceptedRows(file)
           accepted == Cardinality(A)
           rejected == Len(file.rows) - accepted
           s == Answer("200", accepted, rejected, Smaller(rejected, ReasonCap))
           P == PlaysOfRows(u, file, A)
<1>1. upload[u].pc = "saving" /\ upload[u].left = {}
  BY DEF CommitBackfill, AllSaved
<1>2. /\ file \in CsvFile /\ upload[u].flushed = P
  BY <1>1, RowsFields
<1>3. /\ upload' = [upload EXCEPT ![u] = s] /\ filed' = filed \cup {u}
      /\ csvPlays' = csvPlays \cup P
  BY <1>2 DEF CommitBackfill
<1>4. /\ accepted \in 0..Len(file.rows) /\ Len(file.rows) \in 0..MaxRows
      /\ P \subseteq CsvPlay /\ Cardinality(P) = accepted
  BY <1>2, AcceptedRowsType, FileRows, PlaysOfAccepted
<1> HIDE DEF accepted
<1>5. /\ rejected \in 0..MaxRows /\ accepted \in 0..MaxRows /\ accepted + rejected <= MaxRows
      /\ Smaller(rejected, ReasonCap) \in 0..ReasonCap
  BY <1>4 DEF Smaller
<1>6. s \in Answered /\ s.status = "200" /\ s.accepted = accepted /\ s.pc = "answered"
  <2> DEFINE n == Smaller(rejected, ReasonCap)
  <2>1. n \in 0..ReasonCap /\ s = Answer("200", accepted, rejected, n)
    BY <1>5
  <2> HIDE DEF n, rejected, s
  <2> QED
    BY <1>5, <2>1, AnswerType DEF Statuses
<1> HIDE DEF s, rejected
<1>7. \A p \in P : p[1] = u
  BY DEF PlaysOfRows
<1> HIDE DEF P
<1>8. upload' \in [Uploads -> UploadStates] /\ upload'[u] = s
  BY <1>3, <1>6 DEF ImportInv, UploadStates
<1>9. TableAgrees(u, upload[u])'
  <2>1. PlaysOf(u)' = P
    BY <1>1, <1>3, <1>7, NothingStored DEF PlaysOf
  <2> QED
    BY <1>3, <1>4, <1>6, <1>8, <2>1 DEF TableAgrees
<1>10. ASSUME NEW v \in Uploads, v # u
       PROVE  TableAgrees(v, upload[v])' /\ RowsAgree(v, upload[v])'
  <2>1. upload'[v] = upload[v]
    BY <1>3, <1>10 DEF ImportInv
  <2>2. PlaysOf(v)' = PlaysOf(v) /\ (v \in filed' <=> v \in filed)
    BY <1>3, <1>7, <1>10 DEF PlaysOf
  <2> QED
    BY <2>1, <2>2 DEF ImportInv, TableAgrees, RowsAgree
<1>11. RowsAgree(u, upload[u])'
  BY <1>6, <1>8 DEF RowsAgree
<1>12. csvPlays' \subseteq CsvPlay /\ filed' \subseteq Uploads
  BY <1>3, <1>4 DEF ImportInv
<1> QED
  BY <1>8, <1>9, <1>10, <1>11, <1>12 DEF ImportInv

LEMMA ImportInvNext == ImportInv /\ [ImportNext]_importVars => ImportInv'
<1> SUFFICES ASSUME ImportInv, [ImportNext]_importVars
             PROVE  ImportInv'
  OBVIOUS
<1>1. ASSUME NEW u \in Uploads, BackfillFails(u)
      PROVE  ImportInv'
  <2>1. /\ upload[u].pc # "answered" /\ Unavailable(u, "database")
        /\ UNCHANGED <<csvPlays, filed>>
    BY <1>1 DEF BackfillFails
  <2> QED
    BY <2>1, UnavailableInv
<1>2. CASE ImportsDone \/ UNCHANGED importVars
  BY <1>2 DEF ImportsDone, importVars, ImportInv, RowsAgree, TableAgrees, PlaysOf
<1> QED
  BY <1>1, <1>2, ManualImportInv, BackfillInv, OpenBackfillInv, SaveRowInv,
     CommitBackfillInv DEF ImportNext

LEMMA ImportInvariance == ImportSpec => []ImportInv
BY ImportInvInit, ImportInvNext, PTL DEF ImportSpec

\* Every variable keeps its type, for any uploads and files of any length;
\* the counts an operator is told are those of the file's rows.
THEOREM ImportsTypeCorrect == ImportSpec => []ImportsTypeOK
<1>1. ImportInv => ImportsTypeOK
  <2> SUFFICES ASSUME ImportInv PROVE ImportsTypeOK
    OBVIOUS
  <2>1. ASSUME NEW s \in UploadStates
        PROVE  /\ s.pc \in {"unsent", "read", "saving", "answered"}
               /\ s.pc \in {"read", "saving"} => s.left \subseteq 1..MaxRows
               /\ s.pc = "answered" =>
                    s.accepted + s.rejected <= MaxRows /\ s.reasons <= ReasonCap
    BY ImportAssumption DEF UploadStates, NotSent, AtRows, Answered, Counts, Refused
  <2>2. \A u \in Uploads : upload[u] \in UploadStates
    BY DEF ImportInv
  <2>3. csvPlays \subseteq Uploads \X CsvSongs \X {"utc", "own"} /\ filed \subseteq Uploads
    BY DEF ImportInv, CsvPlay
  <2> QED
    BY <2>1, <2>2, <2>3 DEF ImportsTypeOK
<1> QED
  BY <1>1, ImportInvariance, PTL

\* A backfill that was told 200 has its item and as many plays as it was told
\* in the table, whichever of its runs the table knows; any other has none.
THEOREM BackfillsAreWhole == ImportSpec => []BackfillAllOrNothing
<1>1. ImportInv => BackfillAllOrNothing
  BY DEF ImportInv, TableAgrees, BackfillAllOrNothing
<1> QED
  BY <1>1, ImportInvariance, PTL

\* At every moment of a backfill each song with a valid row is left to be
\* stored or is flushed, once.
THEOREM SongsAreKeptOnce == ImportSpec => []EverySongOnce
<1>1. ImportInv => EverySongOnce
  <2> SUFFICES ASSUME ImportInv, NEW u \in Uploads, upload[u].pc \in {"read", "saving"},
                      NEW n \in DOMAIN upload[u].file.rows,
                      RowValid(upload[u].file, upload[u].file.rows[n])
               PROVE  Cardinality({k \in upload[u].left :
                         upload[u].file.rows[k].song = upload[u].file.rows[n].song})
                        + Cardinality({p \in upload[u].flushed :
                            p[2] = upload[u].file.rows[n].song}) = 1
    BY DEF EverySongOnce
  <2> DEFINE file == upload[u].file
             song == file.rows[n].song
             A == AcceptedRows(file)
             L == {k \in upload[u].left : file.rows[k].song = song}
             F == {p \in upload[u].flushed : p[2] = song}
  <2>1. /\ file \in CsvFile /\ upload[u].left \subseteq A
        /\ upload[u].flushed = PlaysOfRows(u, file, A \ upload[u].left)
    BY RowsFields
  <2>2. n \in 1..Len(file.rows) /\ RowValid(file, file.rows[n])
    BY <2>1, FileRows
  <2>3. PICK k \in A : file.rows[k].song = song
    BY <2>1, <2>2, OneRowOfASong
  <2>4. \A j \in A : file.rows[j].song = song => j = k
    BY <2>1, <2>3, AcceptedSongsDiffer
  <2> DEFINE play == <<u, song, ZoneOf(file.rows[k].form)>>
  <2>5. CASE k \in upload[u].left
    <3>1. L = {k}
      BY <2>1, <2>3, <2>4, <2>5
    <3>2. F = {}
      BY <2>1, <2>4, <2>5 DEF PlaysOfRows
    <3> HIDE DEF L, F
    <3>3. Cardinality(L) = 1 /\ Cardinality(F) = 0
      BY <3>1, <3>2, FS_Singleton, FS_EmptySet
    <3> QED
      BY <3>3 DEF L, F
  <2>6. CASE k \notin upload[u].left
    <3>1. L = {}
      BY <2>1, <2>4, <2>6
    <3>2. F = {play}
      BY <2>1, <2>3, <2>4, <2>6 DEF PlaysOfRows
    <3> HIDE DEF L, F, play
    <3>3. Cardinality(L) = 0 /\ Cardinality(F) = 1
      BY <3>1, <3>2, FS_Singleton, FS_EmptySet
    <3> QED
      BY <3>3 DEF L, F
  <2> QED
    BY <2>5, <2>6
<1> QED
  BY <1>1, ImportInvariance, PTL
=============================================================================
