----------------------------- MODULE MCBackfill -----------------------------
(* Two changes, two worker slots, a window of two days walked a day at a time. *)
EXTENDS Backfill, TLC

CONSTANTS c1, c2, w1, w2

MCChanges == {c1, c2}
OneChange == {c1}
MCSlots == {w1, w2}
NotLate == Budgeted \ {"late"}
Disturbances == Budgeted \ {"cron"}
Symmetry == Permutations(MCChanges) \cup Permutations(MCSlots)

=============================================================================
