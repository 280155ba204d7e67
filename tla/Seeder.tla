------------------------------- MODULE Seeder -------------------------------
(***************************************************************************)
(* The seeding of stations and sources at every start of a process, in one *)
(* transaction: for each seed a look, then an insert.  Two processes may   *)
(* start on an empty database; a start that cannot seed goes on without.   *)
(***************************************************************************)
EXTENDS Integers, FiniteSets

CONSTANTS
  Services,  \* processes that start on the database
  Seeds,     \* number of seeds: the stations, then the sources
  MaxBoots   \* bound on the starts of a process

ASSUME SeederAssumption == Seeds \in Nat /\ MaxBoots \in Nat

VARIABLES
  seeded,  \* the seeds in the tables, committed
  service, \* what each process is at
  boots    \* starts of each process

seederVars == <<seeded, service, boots>>

Off == [pc |-> "off"]

SeederInit ==
  /\ seeded = {}
  /\ service = [p \in Services |-> Off]
  /\ boots = [p \in Services |-> 0]

\* The lifespan opens a session and takes the first seed.
StartSeeding(p) ==
  /\ service[p].pc \in {"off", "serving"}
  /\ boots[p] < MaxBoots
  /\ boots' = [boots EXCEPT ![p] = @ + 1]
  /\ service' = [service EXCEPT ![p] = [pc |-> "look", seed |-> 1, mine |-> {}]]
  /\ UNCHANGED seeded

\* Mutation: every process takes the seeds in an order of its own.
OwnOrder(p, k) ==
  IF p = (CHOOSE q \in Services : TRUE) THEN k ELSE Seeds + 1 - k

SeedAt(p, k) == k

CurrentSeed(p) == SeedAt(p, service[p].seed)

\* The loop goes on to the next seed.
AfterSeed(p, mine) == [pc |-> "look", seed |-> service[p].seed + 1, mine |-> mine]

\* get_by_id: the row, committed or flushed by this session, or None.
LookUp(p) ==
  /\ service[p].pc = "look"
  /\ service[p].seed <= Seeds
  /\ service' = [service EXCEPT ![p] =
       IF CurrentSeed(p) \in seeded \cup @.mine
       THEN AfterSeed(p, @.mine) ELSE [@ EXCEPT !.pc = "insert"]]
  /\ UNCHANGED <<seeded, boots>>

Seeding(p) == service[p].pc \in {"look", "insert"}

\* The insert of p needs a key that the open transaction of q holds.
WaitsFor(p, q) ==
  /\ p # q
  /\ service[p].pc = "insert"
  /\ Seeding(q)
  /\ CurrentSeed(p) \in service[q].mine

\* An insert waits for another transaction that holds the same key.
Blocked(p) == \E q \in Services : WaitsFor(p, q)

InsertSeed(p) ==
  /\ service[p].pc = "insert"
  /\ ~Blocked(p)
  /\ CurrentSeed(p) \notin seeded
  /\ service' = [service EXCEPT ![p] = AfterSeed(p, @.mine \cup {CurrentSeed(p)})]
  /\ UNCHANGED <<seeded, boots>>

\* The start goes on: the warning is logged, nothing of the session remains.
Unseeded(p, why) ==
  /\ service' = [service EXCEPT ![p] = [pc |-> "serving", seeded |-> why]]
  /\ UNCHANGED <<seeded, boots>>

\* save() looks again: another process has committed the seed meanwhile, and
\* its row is given the values it has.
SeedFound(p) ==
  /\ service[p].pc = "insert"
  /\ CurrentSeed(p) \in seeded
  /\ service' = [service EXCEPT ![p] = AfterSeed(p, @.mine)]
  /\ UNCHANGED <<seeded, boots>>

\* The same, but since the second look: the insert meets the key.
SeedConflict(p) ==
  /\ service[p].pc = "insert"
  /\ ~Blocked(p)
  /\ CurrentSeed(p) \in seeded
  /\ Unseeded(p, "conflict")

SeedingFails(p) == Seeding(p) /\ Unseeded(p, "database")

\* Mutation: the transaction is committed with the stations only.
AnyTaken(p) == service[p].seed > 1

AllTaken(p) == service[p].seed > Seeds

CommitSeeds(p) ==
  /\ service[p].pc = "look"
  /\ AllTaken(p)
  /\ seeded' = seeded \cup service[p].mine
  /\ service' = [service EXCEPT ![p] = [pc |-> "serving", seeded |-> "seeded"]]
  /\ UNCHANGED boots

ServiceStops(p) ==
  /\ service[p].pc # "off"
  /\ service' = [service EXCEPT ![p] = Off]
  /\ UNCHANGED <<seeded, boots>>

SeedStep(p) == LookUp(p) \/ InsertSeed(p) \/ SeedFound(p) \/ SeedConflict(p) \/ CommitSeeds(p)

\* The bound on the starts is reached.
SeederDone ==
  /\ \A p \in Services : boots[p] = MaxBoots /\ service[p].pc = "off"
  /\ UNCHANGED seederVars

SeederNext ==
  \/ \E p \in Services :
       StartSeeding(p) \/ SeedStep(p) \/ SeedingFails(p) \/ ServiceStops(p)
  \/ SeederDone

SeederSpec == SeederInit /\ [][SeederNext]_seederVars

\* PostgreSQL answers a statement that is not blocked.
FairSeederSpec == SeederSpec /\ \A p \in Services : WF_seederVars(SeedStep(p))

-----------------------------------------------------------------------------
SeederTypeOK ==
  /\ seeded \subseteq 1..Seeds
  /\ \A p \in Services : service[p].pc \in {"off", "look", "insert", "serving"}
  /\ boots \in [Services -> 0..MaxBoots]

\* A process that serves after a start that met no failure of the database
\* finds every station and source its jobs refer to, also where it lost the
\* race against another start and its own seeding was rolled back; and the
\* tables have all seeds or none.
SeedsComplete ==
  /\ seeded \in {{}, 1..Seeds}
  /\ \A p \in Services :
       service[p].pc = "serving" /\ service[p].seeded # "database" => seeded = 1..Seeds

\* Starts hold the keys of what they have inserted until they commit.  As all
\* take the seeds in one order, no starts wait for each other in a circle,
\* which PostgreSQL would end by failing one: of any starts one waits for
\* none of the others.
NoCircularWait ==
  \A D \in (SUBSET Services) \ {{}} : \E p \in D : \A q \in D : ~WaitsFor(p, q)

\* The lock on a key that both insert is the only thing a start waits for,
\* so every start ends.
StartsEnd == \A p \in Services : Seeding(p) ~> ~Seeding(p)
=============================================================================
