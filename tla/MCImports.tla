------------------------------ MODULE MCImports -----------------------------
(***************************************************************************)
(* An instance of Imports for TLC: one upload of up to two rows.           *)
(***************************************************************************)
EXTENDS Imports
CONSTANTS x, y
=============================================================================
