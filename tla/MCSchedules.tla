---------------------------- MODULE MCSchedules ----------------------------
(***************************************************************************)
(* Values for TLC: a deploy that brings a schedule, and a machine of the   *)
(* version before it that boots again.                                     *)
(***************************************************************************)
EXTENDS Schedules, TLC

CONSTANTS daily, added, old, new

Lists == old :> {daily} @@ new :> {daily, added}
Crons == daily :> {1, 2} @@ added :> {2}
Once == [e \in Faults |-> 1]
OldTwice == old :> 2 @@ new :> 1
=============================================================================
