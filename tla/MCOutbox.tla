------------------------------ MODULE MCOutbox ------------------------------
(***************************************************************************)
(* Bounds for TLC: one or two rows, two worker processes, batches of two,  *)
(* and for each question the events it is about.                           *)
(***************************************************************************)
EXTENDS Outbox, TLC

CONSTANTS alice, bob

TwoUsers == {alice, bob}
MixedOwners == [i \in Ids |-> IF i = 2 THEN bob ELSE alice]
OneOwner == [i \in Ids |-> alice]

Budget(f) == [e \in Budgeted |-> IF e \in DOMAIN f THEN f[e] ELSE 0]

FaultLimit == Budget([publishFault |-> 1, dbFault |-> 1, lockFault |-> 1, loseLock |-> 1,
                      crash |-> 1])
RecoveryLimit == Budget([loseKick |-> 1, publishFault |-> 1, dbFault |-> 1, lockFault |-> 1,
                         loseLock |-> 1, stop |-> 1, crash |-> 1])

SymmetricProcesses == Permutations(Dispatchers)
=============================================================================
