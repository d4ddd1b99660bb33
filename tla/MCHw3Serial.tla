---------------------------- MODULE MCHw3Serial ----------------------------
(* An instance of Hw3Serial for TLC.                                       *)
EXTENDS Hw3Serial
=============================================================================
