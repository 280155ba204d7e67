--------------------------- MODULE MCDailyReports --------------------------
(***************************************************************************)
(* Instances of DailyReports: the nightly job and two requests, and a      *)
(* single client that generates again.                                     *)
(***************************************************************************)
EXTENDS DailyReports

Everybody == {"job", "gen", "csv"}
EverybodyKind == [job |-> "nightly", gen |-> "generate", csv |-> "download"]
OneClient == {"gen"}
OneClientKind == [gen |-> "generate"]
=============================================================================
