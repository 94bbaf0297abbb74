------------------------------ MODULE JobGroup ------------------------------
(***************************************************************************)
(* One occurrence of a grouped schedule.  An attempt runs the group's      *)
(* steps in order, each under its own advisory lock, retry and deadline,   *)
(* and saves what it knows after every step.  A step that passes its       *)
(* deadline runs on; an attempt that stalls, or is handed back, runs on    *)
(* beside the one that replaces it; a process may die at any point.        *)
(***************************************************************************)
EXTENDS Naturals, FiniteSets

CONSTANTS
  N,          \* number of steps
  Locked,     \* the steps whose descriptor has a lockName
  Weekly,     \* the steps with a runOn
  Attempts,   \* attempts of the occurrence, each in a process of its own
  Tries,      \* retry.attempts
  MaxStalled, \* external: the queue's maxStalledCount
  Events,     \* bound: the faults that may happen
  Budget      \* bound: how many of them a behaviour has

Steps == 1..N
Faults == {"throw", "saveFault", "lostLock", "block", "handBack", "crash"}
None == "none"

ASSUME ConstantsAssumption ==
  /\ N \in Nat \ {0} /\ Tries \in Nat \ {0} /\ MaxStalled \in Nat
  /\ Locked \subseteq Steps /\ Weekly \subseteq Steps
  /\ None \notin Attempts
  /\ Events \subseteq Faults /\ Budget \in Nat

VARIABLES
  job,       \* external: the queue's entry, with the progress saved on it
  run,       \* per attempt, where process() is and the outcomes it knows
  call,      \* per attempt and step, the latest runAsStep
  lock,      \* external: per step, the attempt whose session has its lock
  ran,       \* history: which attempts' handlers of a step succeeded
  repeated,  \* history: steps whose handler was entered after a success
  excused,   \* history: steps whose success the record could not tell
  lost,      \* history: steps whose lock was lost by a living holder
  beat,      \* history: the attempts whose group heartbeat said success
  spent

vars == <<job, run, call, lock, ran, repeated, excused, lost, beat, spent>>

-----------------------------------------------------------------------------
Statuses == {"ok", "failed", "timed-out", "locked", "not-today"}
Done == {"ok", "not-today"}

JobType == [state: {"waiting", "active", "completed", "failed"},
            by: Attempts \cup {None},
            stalls: 0..MaxStalled,
            saved: [Steps -> Statuses \cup {None}]]

RunType == [pc: {"fresh", "next", "await", "save", "ended", "dead"},
            at: 1..(N + 1),
            tries: 0..Tries,
            sunday: BOOLEAN,
            known: [Steps -> Statuses \cup {None}]]

CallStates == {None, "asking", "inside", "ran", "locked", "threw"}

Alive(a) == run[a].pc \notin {"fresh", "dead"}
Running(a, s) == call[a][s] \in {"asking", "inside"}

Spend(event) ==
  /\ event \in Events /\ spent < Budget
  /\ spent' = spent + 1

Blank == [s \in Steps |-> None]
Fresh == [pc |-> "fresh", at |-> 1, tries |-> 0, sunday |-> FALSE, known |-> Blank]

Init ==
  /\ job = [state |-> "waiting", by |-> None, stalls |-> 0, saved |-> Blank]
  /\ run = [a \in Attempts |-> Fresh]
  /\ call = [a \in Attempts |-> Blank]
  /\ lock = [s \in Locked |-> None]
  /\ ran = {}
  /\ repeated = {}
  /\ excused = {}
  /\ lost = {}
  /\ beat = {}
  /\ spent = 0

-----------------------------------------------------------------------------
\* The queue hands the occurrence to a worker; process() starts from the
\* progress saved on the job, and fixes its day.
PickUp(a) ==
  /\ job.state = "waiting" /\ run[a].pc = "fresh"
  /\ job' = [job EXCEPT !.state = "active", !.by = a]
  /\ \E sunday \in IF Weekly = {} THEN {FALSE} ELSE BOOLEAN :
       run' = [run EXCEPT ![a] = [@ EXCEPT !.pc = "next", !.sunday = sunday, !.known = job.saved]]
  /\ UNCHANGED <<call, lock, ran, repeated, excused, lost, beat, spent>>

\* What happens to an attempt in its loop: it goes to the next step, it calls the
\* step for the n-th time, it learns an outcome that it is going to save.
Moved(r) == [r EXCEPT !.pc = "next", !.at = @ + 1, !.tries = 0]
Asks(r, n) == [r EXCEPT !.pc = "await", !.tries = n]
Told(r, outcome) == [r EXCEPT !.pc = "save", !.known[r.at] = outcome]

\* The record of an earlier attempt has the step done.
Skips(a, s) == run[a].known[s] \in Done

\* The next step of the loop: skip it, note that it is not its day, or call it.
NextStep(a) ==
  LET s == run[a].at
  IN /\ run[a].pc = "next" /\ s \in Steps
     /\ \/ /\ Skips(a, s)
           /\ run' = [run EXCEPT ![a] = Moved(@)]
           /\ UNCHANGED call
        \/ /\ ~Skips(a, s) /\ s \in Weekly /\ ~run[a].sunday
           /\ run' = [run EXCEPT ![a] = Told(@, "not-today")]
           /\ UNCHANGED call
        \/ /\ ~Skips(a, s) /\ (s \in Weekly => run[a].sunday)
           /\ run' = [run EXCEPT ![a] = Asks(@, 1)]
           /\ call' = [call EXCEPT ![a][s] = "asking"]
     /\ UNCHANGED <<job, lock, ran, repeated, excused, lost, beat, spent>>

\* pg_try_advisory_lock answers yes.
Free(s) == s \in Locked => lock[s] = None

\* runStep still waits for this call.
Awaited(a, s) == run[a].pc = "await" /\ run[a].at = s

\* A call answers; nobody hears one that has passed its deadline.
Answer(a, s, answer) ==
  call' = [call EXCEPT ![a][s] = IF Awaited(a, s) THEN answer ELSE None]

\* ScheduledJobProcessor.execute: the lock, if the step has one, then handle().
Enter(a, s) ==
  /\ call[a][s] = "asking" /\ Free(s)
  /\ call' = [call EXCEPT ![a][s] = "inside"]
  /\ lock' = [r \in Locked |-> IF r = s THEN a ELSE lock[r]]
  /\ repeated' = repeated \cup {r \in {s} : \E b \in Attempts : <<b, s>> \in ran}
  /\ UNCHANGED <<job, run, ran, excused, lost, beat, spent>>

FindLocked(a, s) ==
  /\ call[a][s] = "asking" /\ ~Free(s)
  /\ Answer(a, s, "locked")
  /\ UNCHANGED <<job, run, lock, ran, repeated, excused, lost, beat, spent>>

Released(a, s) == [r \in Locked |-> IF r = s /\ lock[r] = a THEN None ELSE lock[r]]

\* withAdvisoryLock asserts that the lock is still held before it returns.
EndsWell(a, s) == s \in Locked => lock[s] = a

\* handle() returns.  A success of a step that its attempt no longer waits for
\* reaches no record.
HandlerReturns(a, s) ==
  /\ call[a][s] = "inside"
  /\ Answer(a, s, IF EndsWell(a, s) THEN "ran" ELSE "threw")
  /\ ran' = IF EndsWell(a, s) THEN ran \cup {<<a, s>>} ELSE ran
  /\ excused' = IF Awaited(a, s) THEN excused ELSE excused \cup {s}
  /\ lock' = Released(a, s)
  /\ UNCHANGED <<job, run, repeated, lost, beat, spent>>

HandlerThrows(a, s) ==
  /\ Running(a, s) /\ Spend("throw")
  /\ Answer(a, s, "threw")
  /\ lock' = Released(a, s)
  /\ UNCHANGED <<job, run, ran, repeated, excused, lost, beat>>

\* The database session of a handler dies, and its lock with it.
LoseLock(s) ==
  /\ s \in Locked /\ lock[s] # None /\ Spend("lostLock")
  /\ lock' = [lock EXCEPT ![s] = None]
  /\ lost' = lost \cup {s}
  /\ UNCHANGED <<job, run, call, ran, repeated, excused, beat>>

\* A call that threw is made again.
Again(a, s) == call[a][s] = "threw" /\ run[a].tries < Tries

\* Mutant: a failure is told as a success.
OutcomeIsOk(answer) == IF answer = "locked" THEN "locked" ELSE "ok"

\* What runStep makes of the last answer.
Outcome(answer) == [ran |-> "ok", locked |-> "locked", threw |-> "failed"][answer]

\* runStep's await returns or throws in time; after a throw it backs off and calls
\* again, as often as the retry allows.
Settle(a) ==
  LET s == run[a].at
  IN /\ run[a].pc = "await" /\ call[a][s] \in {"ran", "locked", "threw"}
     /\ \/ /\ Again(a, s)
           /\ run' = [run EXCEPT ![a] = Asks(@, @.tries + 1)]
           /\ call' = [call EXCEPT ![a][s] = "asking"]
        \/ /\ ~Again(a, s)
           /\ run' = [run EXCEPT ![a] = Told(@, Outcome(call[a][s]))]
           /\ call' = [call EXCEPT ![a][s] = None]
     /\ UNCHANGED <<job, lock, ran, repeated, excused, lost, beat, spent>>

\* Mutant: a step that passed its deadline is given up and its lock freed.
TimeoutFrees(a) ==
  /\ run[a].pc = "await" /\ Running(a, run[a].at)
  /\ run' = [run EXCEPT ![a] = Told(@, "timed-out")]
  /\ lock' = Released(a, run[a].at)
  /\ UNCHANGED <<job, call, ran, repeated, excused, lost, beat, spent>>

\* Mutant: a passed deadline is told as a failure.
TimeoutIsFailure(a) ==
  /\ run[a].pc = "await" /\ Running(a, run[a].at)
  /\ run' = [run EXCEPT ![a] = Told(@, "failed")]
  /\ UNCHANGED <<job, call, lock, ran, repeated, excused, lost, beat, spent>>

\* Mutant: no deadline.
TimeoutNever(a) == FALSE

\* The deadline passes first.  The call is not cancelled.
Timeout(a) ==
  /\ run[a].pc = "await" /\ Running(a, run[a].at)
  /\ run' = [run EXCEPT ![a] = Told(@, "timed-out")]
  /\ UNCHANGED <<job, call, lock, ran, repeated, excused, lost, beat, spent>>

\* Mutant: only the outcome of this step is written.
OnlyThis(a) == [Blank EXCEPT ![run[a].at] = run[a].known[run[a].at]]

\* What saveProgress writes: the attempt's whole record, whoever wrote since.
Record(a) == run[a].known

\* saveProgress.  A failed write is logged and the loop goes on; a write of an
\* attempt that was replaced undoes what its successor has saved.
SaveProgress(a) ==
  LET s == run[a].at
      undone == {r \in Steps : job.saved[r] \in Done /\ run[a].known[r] \notin Done}
  IN /\ run[a].pc = "save"
     /\ run' = [run EXCEPT ![a] = Moved(@)]
     /\ \/ /\ job' = [job EXCEPT !.saved = Record(a)]
           /\ excused' = IF job.by # a THEN excused \cup undone ELSE excused
           /\ UNCHANGED spent
        \/ /\ Spend("saveFault")
           /\ excused' = excused \cup {s}
           /\ UNCHANGED job
     /\ UNCHANGED <<call, lock, ran, repeated, lost, beat>>

Bad == {"failed", "timed-out"}

\* The group's heartbeat, and the queue's commit, which only the attempt that has
\* the job can make.
Finish(a) ==
  /\ run[a].pc = "next" /\ run[a].at = N + 1
  /\ run' = [run EXCEPT ![a].pc = "ended"]
  /\ beat' = IF \A s \in Steps : run[a].known[s] \notin Bad THEN beat \cup {a} ELSE beat
  /\ job' = IF job.state = "active" /\ job.by = a THEN [job EXCEPT !.state = "completed"] ELSE job
  /\ UNCHANGED <<call, lock, ran, repeated, excused, lost, spent>>

-----------------------------------------------------------------------------
\* Steps an attempt that lives on may still enter.
Ahead(a) == run[a].at..N \cup {s \in Steps : Running(a, s)}

Requeued == [job EXCEPT !.state = IF job.stalls < MaxStalled THEN "waiting" ELSE "failed",
                        !.by = None,
                        !.stalls = IF job.stalls < MaxStalled THEN @ + 1 ELSE @]

\* The stalled check: the holder died, or was blocked past its lock.
Stall(a) ==
  /\ job.state = "active" /\ job.by = a
  /\ IF run[a].pc = "dead" THEN UNCHANGED spent ELSE Spend("block")
  /\ job' = Requeued
  /\ excused' = IF run[a].pc = "dead" THEN excused ELSE excused \cup Ahead(a)
  /\ UNCHANGED <<run, call, lock, ran, repeated, lost, beat>>

\* A worker that is shutting down gives the job back without counting a stall;
\* its handlers run on until the process exits.
HandBack(a) ==
  /\ job.state = "active" /\ job.by = a /\ Alive(a) /\ Spend("handBack")
  /\ job' = [job EXCEPT !.state = "waiting", !.by = None]
  /\ excused' = excused \cup Ahead(a)
  /\ UNCHANGED <<run, call, lock, ran, repeated, lost, beat>>

\* The process dies: its handlers stop and its sessions end.
Crash(a) ==
  /\ Alive(a) /\ Spend("crash")
  /\ run' = IF run[a].pc = "ended" THEN run ELSE [run EXCEPT ![a] = [Fresh EXCEPT !.pc = "dead"]]
  /\ call' = [call EXCEPT ![a] = Blank]
  /\ lock' = [s \in Locked |-> IF lock[s] = a THEN None ELSE lock[s]]
  /\ excused' = excused \cup
       {s \in Steps : (call[a][s] = "ran" \/ run[a].known[s] = "ok") /\ job.saved[s] \notin Done}
  /\ UNCHANGED <<job, ran, repeated, lost, beat>>

-----------------------------------------------------------------------------
GroupStep(a) ==
  NextStep(a) \/ Settle(a) \/ Timeout(a) \/ SaveProgress(a) \/ Finish(a)

Next ==
  \E a \in Attempts :
    \/ PickUp(a) \/ GroupStep(a) \/ Stall(a) \/ HandBack(a) \/ Crash(a)
    \/ \E s \in Steps :
         \/ Enter(a, s) \/ FindLocked(a, s) \/ HandlerReturns(a, s) \/ HandlerThrows(a, s)
         \/ LoseLock(s)

Spec == Init /\ [][Next]_vars

\* The loop and the queue run on.  Nothing is assumed of a handler: it may hang,
\* and so may the database it asks for its lock.
FairSpec ==
  /\ Spec
  /\ \A a \in Attempts :
       /\ WF_vars(PickUp(a))
       /\ WF_vars(GroupStep(a))
       /\ WF_vars(Stall(a) /\ run[a].pc = "dead")

-----------------------------------------------------------------------------
TypeOK ==
  /\ job \in JobType
  /\ run \in [Attempts -> RunType]
  /\ call \in [Attempts -> [Steps -> CallStates]]
  /\ lock \in [Locked -> Attempts \cup {None}]
  /\ ran \subseteq Attempts \X Steps
  /\ repeated \subseteq Steps
  /\ excused \subseteq Steps
  /\ lost \subseteq Locked
  /\ beat \subseteq Attempts
  /\ spent \in 0..Budget

\* Whatever times out, stalls or is handed back, a locked step has one handler at
\* work, unless the lock was lost under it.
OneHandlerPerLock ==
  \A s \in Locked \ lost, a, b \in Attempts :
    call[a][s] = "inside" /\ call[b][s] = "inside" => a = b

\* A later step runs beside an earlier one of its own attempt only when the
\* earlier one has passed its deadline: the chain of hard dependencies in
\* groups.ts holds up to that.
LaterStepsWait ==
  \A a \in Attempts, s, r \in Steps :
    r < s /\ call[a][s] = "inside" /\ Running(a, r) => run[a].known[r] = "timed-out"

\* A step that has succeeded is entered again only when its success never made it
\* to the record: the save failed, the process died before it, the deadline had
\* passed, or the attempt was replaced while it was alive.
SuccessIsNotRepeated == repeated \subseteq excused

\* An attempt whose group heartbeat says success, and a record that says ok, have
\* a handler that succeeded behind every step that was neither locked nor off.
SuccessIsEarned ==
  /\ \A s \in Steps : job.saved[s] = "ok" => \E b \in Attempts : <<b, s>> \in ran
  /\ \A a \in beat, s \in Steps :
       run[a].known[s] \in {"locked", "not-today"} \/ \E b \in Attempts : <<b, s>> \in ran

\* An occurrence that a worker has is completed or leaves that worker: no step
\* holds the group up, even if its handler or its lock never answers.
OccurrenceSettles == job.state = "active" ~> job.state # "active"
=============================================================================
