--------------------------- MODULE MCPlayIngestion --------------------------
(***************************************************************************)
(* Instances of PlayIngestion for TLC.  The broadcast is song a, song b,   *)
(* song a again; the window is shorter than the time to the replay.        *)
(***************************************************************************)
EXTENDS PlayIngestion

CONSTANTS a, b  \* two songs, by their fingerprints

MCFingerprint == <<a, b, a>>
MCStart == <<0, 1, 3>>

\* iHeart: an id per play, and the start of each play.
PlayIds == <<"id1", "id2", "id3">>
AllKnown == <<TRUE, TRUE, TRUE>>

\* KIIS-FM, Z100, WKSC: a now-playing poll and the hourly batch.
IHeartKind == [np |-> "now_playing", rp |-> "recently_played"]
IHeartJobs == {"np", "rp"}
=============================================================================
