----------------------------- MODULE MCUserJobs -----------------------------
(***************************************************************************)
(* Bounds for TLC.  Each budget names the events that may happen, and how  *)
(* often; every event it leaves out happens never.                         *)
(***************************************************************************)
EXTENDS UserJobs, TLC

Budget(f) == [e \in Budgeted |-> IF e \in DOMAIN f THEN f[e] ELSE 0]

\* The owner cancels and retries while a worker blocks past its lock and a deploy
\* hands the job back and restarts the api.
OwnerLimit == Budget([retry |-> 1, cancel |-> 1, handBack |-> 1, loseLock |-> 1,
                      apiCrash |-> 1])

\* Two clicks on one id, a slow store, an api that crashes and an owner who
\* dismisses what failed.
EnqueueLimit == Budget([apiCrash |-> 1, timeout |-> 1, fault |-> 1, dismiss |-> 1])

\* One request; the owner cancels, processes die and the queue trims its finished
\* jobs.
SettlesLimit == Budget([cancel |-> 1, die |-> 2, apiCrash |-> 1, evict |-> 1])

\* One retry, for the run that shows a disagreement.
OneRetry == Budget([retry |-> 1])

SymmetricActors == Permutations(Slots) \cup Permutations(Requests)
=============================================================================
