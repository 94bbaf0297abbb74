------------------------------ MODULE Schedules ------------------------------
(***************************************************************************)
(* Repeatable jobs over deploys.  A booting machine snapshots the armed    *)
(* occurrence of every schedule, arms its own list from now (the queue     *)
(* destroys the occurrence a schedule has parked), removes schedules that  *)
(* are no longer wanted and replays what came due while nobody was there.  *)
(* It consumes only then.  Machines of two versions may boot, run, stop    *)
(* and crash side by side.                                                 *)
(***************************************************************************)
EXTENDS Naturals, FiniteSets

CONSTANTS
  Names,      \* schedules
  Machines,   \* worker machines
  Wanted,     \* per machine, the schedules of its version's list
  Due,        \* per schedule, the instants its cron pattern names
  Horizon,    \* bound: the last instant
  Boots,      \* bound: per machine, how often it boots
  Limit       \* bound: how often each fault may happen

Faults == {"crash", "removeFault", "replayFault"}

ASSUME ConstantsAssumption ==
  /\ Horizon \in Nat /\ Boots \in [Machines -> Nat]
  /\ Wanted \in [Machines -> SUBSET Names]
  /\ Due \in [Names -> SUBSET (1..Horizon)]
  /\ Limit \in [Faults -> Nat]

VARIABLES
  now,
  armed,     \* external: per schedule, the occurrence it has parked; 0 for none
  catchups,  \* external: the catch-up jobs added under their own ids
  taken,     \* occurrences a worker has taken, and as what
  machine,   \* per machine, where it is and what it remembers
  boots,
  came,      \* history: occurrences that were parked at their instant
  dropped,   \* history: occurrences a known gap has let go of
  raced,     \* history: occurrences taken while a booting machine remembered them
  disputed,  \* history: schedules armed or removed behind a machine of another list
  spent

histories == <<came, dropped, raced, disputed>>
vars == <<now, armed, catchups, taken, machine, boots, came, dropped, raced, disputed, spent>>

-----------------------------------------------------------------------------
Times == 1..Horizon
Occurrences == Names \X Times

Never == Horizon + 1
NextDue(n, t) ==
  LET later == {s \in Due[n] : s > t}
  IN IF later = {} THEN Never ELSE CHOOSE s \in later : \A r \in later : s <= r

\* The pcs of upsertAll, in its order.
MachineType == [pc: {"down", "snap", "stamp", "upsert", "replay", "up"},
                before: [Names -> 0..Never],   \* armedBefore
                asOf: 0..Horizon,              \* history: when it was read
                startedAt: 0..Horizon,         \* upsertStartedAt
                todo: SUBSET Names,            \* descriptors still to upsert
                missed: SUBSET Occurrences]

Blank == [n \in Names |-> 0]
Down == [pc |-> "down", before |-> Blank, asOf |-> 0, startedAt |-> 0,
         todo |-> {}, missed |-> {}]

Ran(o) == \E kind \in {"regular", "catchup"} : <<o, kind>> \in taken

\* Whether machine m has registered schedule n, and whether it has removed what
\* is not on its list.
Registered(m, n) == n \in Wanted[m] \ machine[m].todo
                    /\ machine[m].pc \in {"upsert", "replay", "up"}
Reconciled(m) == machine[m].pc \in {"replay", "up"}

\* What a booting machine would replay if it came to it.
Remembers(m, n, t) ==
  \/ <<n, t>> \in machine[m].missed
  \/ n \in machine[m].todo /\ machine[m].before[n] = t

Spend(event) ==
  /\ spent[event] < Limit[event]
  /\ spent' = [spent EXCEPT ![event] = @ + 1]

Init ==
  /\ now = 0
  /\ armed = Blank
  /\ catchups = {}
  /\ taken = {}
  /\ machine = [m \in Machines |-> Down]
  /\ boots = [m \in Machines |-> 0]
  /\ came = {}
  /\ dropped = {}
  /\ raced = {}
  /\ disputed = {}
  /\ spent = [e \in Faults |-> 0]

-----------------------------------------------------------------------------
Tick ==
  /\ now < Horizon
  /\ now' = now + 1
  /\ came' = came \cup {<<n, now'>> : n \in {x \in Names : armed[x] = now'}}
  /\ UNCHANGED <<armed, catchups, taken, machine, boots, dropped, raced, disputed, spent>>

Boot(m) ==
  /\ machine[m].pc = "down" /\ boots[m] < Boots[m]
  /\ machine' = [machine EXCEPT ![m].pc = "snap"]
  /\ boots' = [boots EXCEPT ![m] = @ + 1]
  /\ UNCHANGED <<now, armed, catchups, taken, histories, spent>>

\* getJobSchedulers before any upsert.
Snapshot(m) ==
  /\ machine[m].pc = "snap"
  /\ machine' = [machine EXCEPT ![m] =
       [@ EXCEPT !.pc = "stamp", !.before = armed, !.asOf = now, !.todo = Wanted[m]]]
  /\ UNCHANGED <<now, armed, catchups, taken, boots, histories, spent>>

Stamp(m) ==
  /\ machine[m].pc = "stamp"
  /\ machine' = [machine EXCEPT ![m] = [@ EXCEPT !.pc = "upsert", !.startedAt = now]]
  /\ UNCHANGED <<now, armed, catchups, taken, boots, histories, spent>>

\* Mutant: an occurrence that is not due before the next instant is replayed too.
CameDueEarly(m, n) ==
  machine[m].before[n] \in Times /\ machine[m].before[n] <= machine[m].startedAt + 1

\* Mutant: nothing is replayed.
CameDueNever(m, n) == FALSE

\* The snapshot's occurrence was due when the upserts began.
CameDue(m, n) == machine[m].before[n] # 0 /\ machine[m].before[n] <= machine[m].startedAt

\* upsertJobScheduler destroys the parked occurrence and arms the next one.  An
\* occurrence that came due since the snapshot, and is not the one it shows, goes
\* without a trace; so does one the snapshot shows that came due since the stamp.
Upsert(m, n) ==
  LET shown == machine[m].before[n]
      parked == armed[n]
  IN /\ machine[m].pc = "upsert" /\ n \in machine[m].todo
     /\ armed' = [armed EXCEPT ![n] = NextDue(n, now)]
     /\ machine' = [machine EXCEPT ![m] = [@ EXCEPT !.todo = machine[m].todo \ {n},
          !.missed = machine[m].missed \cup (IF CameDue(m, n) THEN {<<n, shown>>} ELSE {})]]
     /\ dropped' = dropped \cup
          (IF parked \in (machine[m].asOf + 1)..now THEN {<<n, parked>>} ELSE {})
     /\ disputed' = IF \E x \in Machines : Reconciled(x) /\ n \notin Wanted[x]
                    THEN disputed \cup {n} ELSE disputed \ {n}
     /\ UNCHANGED <<now, catchups, taken, boots, came, raced, spent>>

Orphans(m) == {n \in Names \ Wanted[m] : armed[n] # 0}

\* Mutant: schedules that left the list are left armed.
NothingToRemove(m) == {}

\* The schedules upsertAll removes.
ToRemove(m) == Orphans(m)

\* Removing a schedule takes its parked occurrence along (one that was promoted
\* may stay in the queue, where a machine without its processor completes it); a
\* failed removal is logged and skipped.
Reconcile(m) ==
  /\ machine[m].pc = "upsert" /\ machine[m].todo = {}
  /\ \E kept \in SUBSET ToRemove(m) :
       LET gone == ToRemove(m) \ kept
       IN /\ IF kept = {} THEN UNCHANGED spent ELSE Spend("removeFault")
          /\ armed' = [n \in Names |-> IF n \in gone THEN 0 ELSE armed[n]]
          /\ dropped' = dropped \cup {<<n, armed[n]>> : n \in {x \in gone : armed[x] <= now}}
          /\ disputed' = (disputed \ gone) \cup kept \cup
               {n \in gone : \E x \in Machines : Registered(x, n)}
  /\ machine' = [machine EXCEPT ![m].pc = "replay"]
  /\ UNCHANGED <<now, catchups, taken, boots, came, raced>>

\* Mutant: the queue refuses the id of the catch-up and the boot never ends.
ReplayRefused(m, o) == FALSE

\* replayMissed: the id is derived from the occurrence, so an add that finds it
\* is ignored; an add that fails is logged and skipped.
Replay(m, o) ==
  /\ machine[m].pc = "replay" /\ o \in machine[m].missed
  /\ machine' = [machine EXCEPT ![m].missed = @ \ {o}]
  /\ \/ catchups' = catchups \cup {o} /\ UNCHANGED <<dropped, spent>>
     \/ Spend("replayFault") /\ dropped' = dropped \cup {o} /\ UNCHANGED catchups
  /\ UNCHANGED <<now, armed, taken, boots, came, raced, disputed>>

ReplayDone(m) ==
  /\ machine[m].pc = "replay" /\ machine[m].missed = {}
  /\ machine' = [machine EXCEPT ![m] = [Down EXCEPT !.pc = "up"]]
  /\ UNCHANGED <<now, armed, catchups, taken, boots, histories, spent>>

-----------------------------------------------------------------------------
\* Workers.  Taking a parked occurrence arms the next one.  A machine that has no
\* processor for the schedule completes the occurrence without running it.
TakeOccurrence(m, n) ==
  LET o == <<n, armed[n]>>
  IN /\ machine[m].pc = "up" /\ armed[n] \in 1..now
     /\ armed' = [armed EXCEPT ![n] = NextDue(n, now)]
     /\ IF n \in Wanted[m]
        THEN /\ taken' = taken \cup {<<o, "regular">>}
             /\ UNCHANGED dropped
        ELSE /\ dropped' = dropped \cup {o}
             /\ UNCHANGED taken
     /\ raced' = IF \E x \in Machines : Remembers(x, n, armed[n])
                 THEN raced \cup {o} ELSE raced
     /\ UNCHANGED <<now, catchups, machine, boots, came, disputed, spent>>

\* A catch-up is a plain job: a machine without its processor spends its attempts.
TakeCatchup(m, o) ==
  /\ machine[m].pc = "up" /\ o \in catchups
  /\ \A kind \in {"catchup", "dead"} : <<o, kind>> \notin taken
  /\ IF o[1] \in Wanted[m]
     THEN /\ taken' = taken \cup {<<o, "catchup">>}
          /\ UNCHANGED dropped
     ELSE /\ taken' = taken \cup {<<o, "dead">>}
          /\ dropped' = dropped \cup {o}
  /\ UNCHANGED <<now, armed, catchups, machine, boots, came, raced, disputed, spent>>

\* A machine that stops or dies is started again.
Stop(m) ==
  /\ machine[m].pc = "up" /\ boots[m] < Boots[m]
  /\ machine' = [machine EXCEPT ![m] = Down]
  /\ UNCHANGED <<now, armed, catchups, taken, boots, histories, spent>>

\* A crash in the middle of a boot forgets what was to be replayed.
Crash(m) ==
  /\ machine[m].pc \notin {"down", "up"} /\ boots[m] < Boots[m] /\ Spend("crash")
  /\ dropped' = dropped \cup machine[m].missed
  /\ machine' = [machine EXCEPT ![m] = Down]
  /\ UNCHANGED <<now, armed, catchups, taken, boots, came, raced, disputed>>

-----------------------------------------------------------------------------
BootStep(m) ==
  \/ Snapshot(m) \/ Stamp(m) \/ Reconcile(m) \/ ReplayDone(m)
  \/ \E n \in Names : Upsert(m, n)
  \/ \E o \in Occurrences : Replay(m, o)

WorkStep(m) ==
  \/ \E n \in Names : TakeOccurrence(m, n)
  \/ \E o \in Occurrences : TakeCatchup(m, o)

Next ==
  \/ Tick
  \/ \E m \in Machines : Boot(m) \/ BootStep(m) \/ WorkStep(m) \/ Stop(m) \/ Crash(m)

Spec == Init /\ [][Next]_vars

\* The platform restarts a machine that is down; boots and workers run on.
FairSpec ==
  /\ Spec
  /\ \A m \in Machines : WF_vars(Boot(m)) /\ WF_vars(BootStep(m)) /\ WF_vars(WorkStep(m))

-----------------------------------------------------------------------------
TypeOK ==
  /\ now \in 0..Horizon
  /\ armed \in [Names -> 0..Never]
  /\ catchups \subseteq Occurrences
  /\ taken \subseteq Occurrences \X {"regular", "catchup", "dead"}
  /\ machine \in [Machines -> MachineType]
  /\ boots \in [Machines -> Nat] /\ \A m \in Machines : boots[m] <= Boots[m]
  /\ came \subseteq Occurrences
  /\ dropped \subseteq Occurrences
  /\ raced \subseteq Occurrences
  /\ disputed \subseteq Names
  /\ spent \in [Faults -> Nat]
  /\ \A e \in Faults : spent[e] <= Limit[e]

\* An occurrence whose instant has come is never lost: it is still parked, has
\* run, waits as a catch-up, or is in the memory of a machine that is booting.
\* The known gaps aside: it came due in the middle of a boot (between
\* getJobSchedulers and its upsert), its schedule was removed, a machine without
\* its processor took it, its replay failed, or the machine crashed before it.
DueRunsAreKept ==
  \A o \in came \ dropped :
    \/ armed[o[1]] = o[2]
    \/ Ran(o)
    \/ o \in catchups
    \/ \E m \in Machines : o \in machine[m].missed

\* However many machines boot off a deploy, no occurrence runs both on its
\* schedule and as a catch-up, unless a running machine took it while a booting
\* one had it in its snapshot.
RunsOnce ==
  \A o \in Occurrences :
    <<o, "regular">> \in taken /\ <<o, "catchup">> \in taken => o \in raced

\* A machine that is up finds exactly its own list armed, except where a machine
\* of another version has armed or removed a schedule behind it.
ListIsArmed ==
  \A m \in Machines, n \in Names \ disputed :
    machine[m].pc = "up" => (armed[n] # 0 <=> n \in Wanted[m])

\* Every occurrence that comes due runs, or falls into one of the gaps.
DueRunsHappen ==
  \A o \in Occurrences : o \in came ~> Ran(o) \/ o \in dropped
=============================================================================
