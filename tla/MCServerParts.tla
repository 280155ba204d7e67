--------------------------- MODULE MCServerParts ----------------------------
(***************************************************************************)
(* An instance of ServerParts for TLC: two of everything that may overlap, *)
(* limits of two or three instead of those of the code, and a broadcast of *)
(* six items over a midnight.                                              *)
(***************************************************************************)
EXTENDS ServerParts
CONSTANTS x, y, a, b
MCTierFrom == <<1, 3>>
MCSong == <<a, b, b, a, a, Speech>>
MCStart == <<0, 3, 4, 5, 6, 7>>
MCNameless == {3}
MCUntimed == {2}
MCUnnumbered == {2, 4}
=============================================================================
