---------------------------- MODULE MCJobGroup ----------------------------
(***************************************************************************)
(* Values for TLC.                                                         *)
(***************************************************************************)
EXTENDS JobGroup

=============================================================================
