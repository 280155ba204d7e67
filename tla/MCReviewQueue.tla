--------------------------- MODULE MCReviewQueue ---------------------------
(***************************************************************************)
(* Instance of ReviewQueue: three requests of two operators, one of whom   *)
(* sends twice.                                                            *)
(***************************************************************************)
EXTENDS ReviewQueue

Three == {"r1", "r2", "r3"}
Two == {"ann", "bo"}
TheBody == [r1 |-> [status |-> "reviewed", by |-> "ann"],
            r2 |-> [status |-> "dismissed", by |-> "bo"],
            r3 |-> [status |-> "reviewed", by |-> "ann"]]
=============================================================================
