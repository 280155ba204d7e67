-------------------------- MODULE MCCollectorRuns --------------------------
(***************************************************************************)
(* Instance of CollectorRuns: the hourly batch, which runs the collectors  *)
(* of two stations, with the prune tool beside it.                         *)
(***************************************************************************)
EXTENDS CollectorRuns

BatchOnly == {"rp"}
BatchOnlyLoop == [rp |-> 2]
=============================================================================
