------------------------------ MODULE PlayLog ------------------------------
(***************************************************************************)
(* What storing a collector's result promises, seen from the database:     *)
(* the rows of a run appear together with the run, all at once, and a play *)
(* of the broadcast that is already in the log is never logged again.      *)
(*                                                                         *)
(* PlayIngestion implements this log with a transaction of many awaited    *)
(* statements per run, several runs interleaved.                           *)
(***************************************************************************)
CONSTANTS Plays,   \* the plays a station broadcasts
          RunIds   \* identities of collector runs

VARIABLES log,       \* the logged plays, each with the run that logged it
          recorded   \* the runs recorded so far

logVars == <<log, recorded>>

Entry == [run : RunIds, play : Plays]

LogTypeOK ==
  /\ log \subseteq Entry
  /\ recorded \subseteq RunIds

Init ==
  /\ log = {}
  /\ recorded = {}

Logged(p) == \E e \in log : e.play = p

\* Run r is recorded with the plays of S, none of which was in the log.
RecordRun(r, S) ==
  /\ r \notin recorded
  /\ \A p \in S : ~Logged(p)
  /\ recorded' = recorded \cup {r}
  /\ log' = log \cup {[run |-> r, play |-> p] : p \in S}

Next == \E r \in RunIds, S \in SUBSET Plays : RecordRun(r, S)

Spec == Init /\ [][Next]_logVars
=============================================================================
