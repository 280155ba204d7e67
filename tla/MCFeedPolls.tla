----------------------------- MODULE MCFeedPolls ----------------------------
(***************************************************************************)
(* An instance of FeedPolls for TLC: a page that lists two plays of three  *)
(* songs, one of them played twice.                                        *)
(***************************************************************************)
EXTENDS FeedPolls
CONSTANTS a, b, c
MCSong == <<a, b, Speech, a, c>>
MCStart == <<0, 3, 4, 5, 6>>
None == {}
PageOnly == {"page"}
=============================================================================
