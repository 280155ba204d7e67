--------------------------- MODULE MCNightlyCycle ---------------------------
(***************************************************************************)
(* Instances of NightlyCycle for TLC: forty-four hours, in which two       *)
(* reports are made, in summer and in winter of both zones.                *)
(***************************************************************************)
EXTENDS NightlyCycle

MCSydney == {10, 11}
MCPacific == {-8, -7}
Winter == {10}
Standard == {-8}
=============================================================================
