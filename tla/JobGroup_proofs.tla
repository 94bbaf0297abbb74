--------------------------- MODULE JobGroup_proofs ---------------------------
(***************************************************************************)
(* The safety of one occurrence of a grouped schedule, for every number of *)
(* steps, attempts, retries and faults.                                    *)
(***************************************************************************)
EXTENDS JobGroup, TLAPS

Idle(a) == run[a].pc \in {"fresh", "dead"}

\* Where a loop can be, and who has the job.
PlacesOK ==
  /\ \A a \in Attempts :
       /\ Idle(a) => run[a].at = 1
       /\ run[a].pc \in {"await", "save"} => run[a].at \in Steps
       /\ run[a].pc = "await" => run[a].known[run[a].at] \notin Done
       /\ \A s \in Steps : s < run[a].at \/ (s = run[a].at /\ run[a].pc = "save")
            => run[a].known[s] # None
  /\ job.state \in {"waiting", "failed"} => job.by = None

\* A call is the one its loop waits for, or one that the loop has left behind at
\* its deadline.
CallsHavePlaces ==
  \A a \in Attempts, s \in Steps : call[a][s] # None =>
    \/ run[a].pc = "await" /\ run[a].at = s
    \/ /\ Running(a, s) /\ run[a].known[s] = "timed-out"
       /\ s < run[a].at \/ (s = run[a].at /\ run[a].pc = "save")

\* A handler at work has its lock, unless that was lost.
HandlersHaveLocks ==
  \A s \in Locked \ lost, a \in Attempts : call[a][s] = "inside" => lock[s] = a

Succeeded(s) == \E b \in Attempts : <<b, s>> \in ran

\* Whatever says ok has a success behind it.
OkIsEarned ==
  \A s \in Steps :
    /\ job.saved[s] = "ok" => Succeeded(s)
    /\ \A a \in Attempts : run[a].known[s] = "ok" \/ call[a][s] = "ran" => Succeeded(s)

BeatsAreEarned ==
  \A a \in beat :
    run[a].pc = "ended" /\ \A s \in Steps : run[a].known[s] \in {"ok", "locked", "not-today"}

\* An attempt that lives on without the job is past every step that is not
\* excused, and runs none of them.
ReplacedArePast ==
  \A a \in Attempts, s \in Steps \ excused :
    ~Idle(a) /\ job.by # a => s < run[a].at /\ ~Running(a, s)

\* The attempt that has the job knows what the record has done.
HolderKnows ==
  \A a \in Attempts, s \in Steps \ excused :
    ~Idle(a) /\ job.by = a /\ job.saved[s] \in Done => run[a].known[s] \in Done

\* What a living attempt has done is in the record, but for the step it is
\* about to save.
DoneIsSaved ==
  \A a \in Attempts, s \in Steps \ excused :
    ~Idle(a) /\ run[a].known[s] \in Done =>
      job.saved[s] \in Done \/ (run[a].pc = "save" /\ run[a].at = s)

\* The attempt that has the job is on its way to save the step.
OnTheWay(a, s) ==
  /\ job.by = a /\ run[a].at = s
  /\ \/ run[a].pc = "await" /\ call[a][s] = "ran"
     \/ run[a].pc = "save" /\ run[a].known[s] = "ok"

\* So a success is in the record, or on its way there.
SuccessIsRecorded ==
  \A s \in Steps \ excused :
    Succeeded(s) => job.saved[s] \in Done \/ \E a \in Attempts : OnTheWay(a, s)

IInv ==
  /\ TypeOK
  /\ PlacesOK
  /\ CallsHavePlaces
  /\ HandlersHaveLocks
  /\ OkIsEarned
  /\ BeatsAreEarned
  /\ ReplacedArePast
  /\ HolderKnows
  /\ DoneIsSaved
  /\ SuccessIsRecorded
  /\ SuccessIsNotRepeated

-----------------------------------------------------------------------------
\* The actions, for the case splits below.
OfAttempt(a) ==
  PickUp(a) \/ GroupStep(a) \/ Stall(a) \/ HandBack(a) \/ Crash(a)
OfCall(a, s) ==
  Enter(a, s) \/ FindLocked(a, s) \/ HandlerReturns(a, s) \/ HandlerThrows(a, s) \/ LoseLock(s)

LEMMA NextCases ==
  Next <=> \E a \in Attempts : OfAttempt(a) \/ \E s \in Steps : OfCall(a, s)
BY DEF Next, OfAttempt, OfCall

-----------------------------------------------------------------------------
\* What happens to an attempt, field by field.
LEMMA Edits ==
  ASSUME NEW r \in RunType
  PROVE  /\ r.at \in Steps => /\ Moved(r) \in RunType
                              /\ Moved(r).pc = "next" /\ Moved(r).at = r.at + 1
                              /\ Moved(r).known = r.known
         /\ \A n \in 0..Tries : /\ Asks(r, n) \in RunType
                                /\ Asks(r, n).pc = "await" /\ Asks(r, n).at = r.at
                                /\ Asks(r, n).known = r.known
         /\ \A o \in Statuses : r.at \in Steps =>
              /\ Told(r, o) \in RunType
              /\ Told(r, o).pc = "save" /\ Told(r, o).at = r.at
              /\ Told(r, o).known[r.at] = o
              /\ \A s \in Steps \ {r.at} : Told(r, o).known[s] = r.known[s]
<1> USE ConstantsAssumption DEF RunType
<1>1. ASSUME r.at \in Steps
      PROVE  /\ Moved(r) \in RunType
             /\ Moved(r).pc = "next" /\ Moved(r).at = r.at + 1
             /\ Moved(r).known = r.known
  <2>1. r.at + 1 \in 1..(N + 1)
    BY <1>1 DEF Steps
  <2>2. 0 \in 0..Tries
    OBVIOUS
  <2>3. QED
    BY <2>1, <2>2 DEF Moved
<1>2. ASSUME NEW n \in 0..Tries
      PROVE  /\ Asks(r, n) \in RunType
             /\ Asks(r, n).pc = "await" /\ Asks(r, n).at = r.at
             /\ Asks(r, n).known = r.known
  BY DEF Asks
<1>3. ASSUME NEW o \in Statuses, r.at \in Steps
      PROVE  /\ Told(r, o) \in RunType
             /\ Told(r, o).pc = "save" /\ Told(r, o).at = r.at
             /\ Told(r, o).known[r.at] = o
             /\ \A s \in Steps \ {r.at} : Told(r, o).known[s] = r.known[s]
  BY <1>3 DEF Told
<1>4. QED
  BY <1>1, <1>2, <1>3

\* A step that turns an attempt into r leaves the others alone.
LEMMA OthersStay ==
  ASSUME TypeOK, NEW a \in Attempts, NEW r \in RunType, run' = [run EXCEPT ![a] = r]
  PROVE  run' \in [Attempts -> RunType] /\ run'[a] = r /\ \A b \in Attempts \ {a} : run'[b] = run[b]
BY DEF TypeOK

\* An entry with another record.
LEMMA SavedAs ==
  ASSUME NEW j \in JobType, NEW saved \in [Steps -> Statuses \cup {None}],
         NEW k, k = [j EXCEPT !.saved = saved]
  PROVE  k \in JobType /\ k.state = j.state /\ k.by = j.by /\ k.saved = saved
BY DEF JobType

LEMMA PickUpEffect ==
  ASSUME TypeOK, PlacesOK, NEW a \in Attempts, PickUp(a)
  PROVE  /\ job.state = "waiting" /\ job.by = None /\ run[a].pc = "fresh"
         /\ job' \in JobType
         /\ job'.state = "active" /\ job'.by = a /\ job'.saved = job.saved
         /\ run' \in [Attempts -> RunType]
         /\ \A b \in Attempts \ {a} : run'[b] = run[b]
         /\ run'[a].pc = "next" /\ run'[a].at = 1 /\ run'[a].known = job.saved
<1>1. /\ job.state = "waiting" /\ job.by = None /\ run[a].pc = "fresh"
      /\ run[a] \in RunType /\ run[a].at = 1
      /\ job.saved \in [Steps -> Statuses \cup {None}]
  BY DEF PickUp, PlacesOK, Idle, TypeOK, JobType
<1>2. /\ job' \in JobType
      /\ job'.state = "active" /\ job'.by = a /\ job'.saved = job.saved
  <2>1. job \in JobType /\ job' = [job EXCEPT !.state = "active", !.by = a]
    BY DEF PickUp, TypeOK
  <2>2. QED
    BY <2>1 DEF JobType
<1>3. PICK sunday \in BOOLEAN :
        run' = [run EXCEPT ![a] = [@ EXCEPT !.pc = "next", !.sunday = sunday, !.known = job.saved]]
  BY DEF PickUp
<1> DEFINE new == [run[a] EXCEPT !.pc = "next", !.sunday = sunday, !.known = job.saved]
<1>4. new \in RunType /\ new.pc = "next" /\ new.at = 1 /\ new.known = job.saved
  BY <1>1 DEF RunType
<1>5. run' = [run EXCEPT ![a] = new]
  BY <1>3
<1> HIDE DEF new
<1>6. QED
  BY <1>1, <1>2, <1>4, <1>5, OthersStay

LEMMA NextStepEffect ==
  ASSUME TypeOK, NEW a \in Attempts, NextStep(a)
  PROVE  LET s == run[a].at
         IN /\ s \in Steps /\ run[a].pc = "next"
            /\ run' \in [Attempts -> RunType]
            /\ \A b \in Attempts \ {a} : run'[b] = run[b]
            /\ \A r \in Steps \ {s} : run'[a].known[r] = run[a].known[r]
            /\ \/ /\ run'[a].pc = "next" /\ run'[a].at = s + 1
                  /\ run'[a].known = run[a].known /\ run[a].known[s] \in Done
                  /\ UNCHANGED call
               \/ /\ run'[a].pc = "save" /\ run'[a].at = s
                  /\ run'[a].known[s] = "not-today" /\ run[a].known[s] \notin Done
                  /\ UNCHANGED call
               \/ /\ run'[a].pc = "await" /\ run'[a].at = s
                  /\ run'[a].known = run[a].known /\ run[a].known[s] \notin Done
                  /\ call' = [call EXCEPT ![a][s] = "asking"]
<1> USE ConstantsAssumption
<1> DEFINE s == run[a].at
<1>1. run[a] \in RunType /\ s \in Steps /\ run[a].pc = "next"
  BY DEF TypeOK, NextStep
<1>2. CASE Skips(a, s) /\ run' = [run EXCEPT ![a] = Moved(@)] /\ UNCHANGED call
  <2> DEFINE new == Moved(run[a])
  <2>1. new \in RunType /\ new.pc = "next" /\ new.at = s + 1 /\ new.known = run[a].known
    BY <1>1, Edits
  <2>2. run' = [run EXCEPT ![a] = new]
    BY <1>2
  <2> HIDE DEF new
  <2>3. QED
    BY <1>1, <1>2, <2>1, <2>2, OthersStay DEF Skips
<1>3. CASE ~Skips(a, s) /\ run' = [run EXCEPT ![a] = Told(@, "not-today")] /\ UNCHANGED call
  <2> DEFINE new == Told(run[a], "not-today")
  <2>1. "not-today" \in Statuses
    BY DEF Statuses
  <2>2. /\ new \in RunType
        /\ new.pc = "save" /\ new.at = s /\ new.known[s] = "not-today"
        /\ \A r \in Steps \ {s} : new.known[r] = run[a].known[r]
    BY <1>1, <2>1, Edits
  <2>3. run' = [run EXCEPT ![a] = new]
    BY <1>3
  <2> HIDE DEF new
  <2>4. QED
    BY <1>1, <1>3, <2>2, <2>3, OthersStay DEF Skips
<1>4. CASE /\ ~Skips(a, s) /\ run' = [run EXCEPT ![a] = Asks(@, 1)]
           /\ call' = [call EXCEPT ![a][s] = "asking"]
  <2> DEFINE new == Asks(run[a], 1)
  <2>1. 1 \in 0..Tries
    OBVIOUS
  <2>2. new \in RunType /\ new.pc = "await" /\ new.at = s /\ new.known = run[a].known
    BY <1>1, <2>1, Edits
  <2>3. run' = [run EXCEPT ![a] = new]
    BY <1>4
  <2> HIDE DEF new
  <2>4. QED
    BY <1>1, <1>4, <2>2, <2>3, OthersStay DEF Skips
<1>5. QED
  BY <1>2, <1>3, <1>4 DEF NextStep

LEMMA SettleEffect ==
  ASSUME TypeOK, PlacesOK, NEW a \in Attempts, Settle(a)
  PROVE  LET s == run[a].at
         IN /\ s \in Steps
            /\ run' \in [Attempts -> RunType]
            /\ \A b \in Attempts \ {a} : run'[b] = run[b]
            /\ run'[a].at = s
            /\ \A r \in Steps \ {s} : run'[a].known[r] = run[a].known[r]
            /\ \/ /\ run'[a].pc = "await" /\ run'[a].known = run[a].known
                  /\ call' = [call EXCEPT ![a][s] = "asking"]
                  /\ call[a][s] = "threw"
               \/ /\ run'[a].pc = "save" /\ run'[a].known[s] = Outcome(call[a][s])
                  /\ call' = [call EXCEPT ![a][s] = None]
                  /\ Outcome(call[a][s]) \in {"ok", "locked", "failed"}
                  /\ Outcome(call[a][s]) = "ok" <=> call[a][s] = "ran"
<1> USE ConstantsAssumption
<1> DEFINE s == run[a].at
<1>1. run[a] \in RunType /\ s \in Steps /\ run[a].tries \in Nat
  BY DEF TypeOK, PlacesOK, Settle, RunType
<1>2. CASE /\ Again(a, s)
           /\ run' = [run EXCEPT ![a] = Asks(@, @.tries + 1)]
           /\ call' = [call EXCEPT ![a][s] = "asking"]
  <2>1. run[a].tries + 1 \in 0..Tries
    BY <1>1, <1>2 DEF Again
  <2> DEFINE new == Asks(run[a], run[a].tries + 1)
  <2>2. /\ new \in RunType
        /\ new.pc = "await" /\ new.at = s /\ new.known = run[a].known
    BY <1>1, <2>1, Edits
  <2>3. run' = [run EXCEPT ![a] = new]
    BY <1>2
  <2>4. /\ run' \in [Attempts -> RunType] /\ run'[a] = new
        /\ \A b \in Attempts \ {a} : run'[b] = run[b]
    BY <2>2, <2>3, OthersStay
  <2> HIDE DEF new
  <2>5. QED
    BY <1>1, <1>2, <2>2, <2>4 DEF Again
<1>3. CASE /\ run' = [run EXCEPT ![a] = Told(@, Outcome(call[a][s]))]
           /\ call' = [call EXCEPT ![a][s] = None]
  <2>1. /\ Outcome(call[a][s]) \in {"ok", "locked", "failed"}
        /\ Outcome(call[a][s]) = "ok" <=> call[a][s] = "ran"
    BY DEF Settle, Outcome
  <2>2. Outcome(call[a][s]) \in Statuses
    BY <2>1 DEF Statuses
  <2> DEFINE new == Told(run[a], Outcome(call[a][s]))
  <2>3. /\ new \in RunType
        /\ new.pc = "save" /\ new.at = s /\ new.known[s] = Outcome(call[a][s])
        /\ \A r \in Steps \ {s} : new.known[r] = run[a].known[r]
    BY <1>1, <2>2, Edits
  <2>4. run' = [run EXCEPT ![a] = new]
    BY <1>3
  <2>5. /\ run' \in [Attempts -> RunType] /\ run'[a] = new
        /\ \A b \in Attempts \ {a} : run'[b] = run[b]
    BY <2>3, <2>4, OthersStay
  <2> HIDE DEF new
  <2>6. QED
    BY <1>1, <1>3, <2>1, <2>3, <2>5
<1>4. QED
  BY <1>2, <1>3 DEF Settle

LEMMA TimeoutEffect ==
  ASSUME TypeOK, PlacesOK, NEW a \in Attempts, Timeout(a)
  PROVE  LET s == run[a].at
         IN /\ s \in Steps /\ run[a].pc = "await" /\ Running(a, s)
            /\ run' \in [Attempts -> RunType]
            /\ \A b \in Attempts \ {a} : run'[b] = run[b]
            /\ run'[a].pc = "save" /\ run'[a].at = s /\ run'[a].known[s] = "timed-out"
            /\ \A r \in Steps \ {s} : run'[a].known[r] = run[a].known[r]
<1> DEFINE s == run[a].at
           new == Told(run[a], "timed-out")
<1>1. run[a] \in RunType /\ s \in Steps /\ run[a].pc = "await" /\ Running(a, s)
  BY DEF TypeOK, PlacesOK, Timeout
<1>2. "timed-out" \in Statuses
  BY DEF Statuses
<1>3. /\ new \in RunType
      /\ new.pc = "save" /\ new.at = s /\ new.known[s] = "timed-out"
      /\ \A r \in Steps \ {s} : new.known[r] = run[a].known[r]
  BY <1>1, <1>2, Edits
<1>4. run' = [run EXCEPT ![a] = new]
  BY DEF Timeout
<1> HIDE DEF new
<1>5. QED
  BY <1>1, <1>3, <1>4, OthersStay

LEMMA SaveEffect ==
  ASSUME TypeOK, PlacesOK, NEW a \in Attempts, SaveProgress(a)
  PROVE  LET s == run[a].at
             undone == {r \in Steps : job.saved[r] \in Done /\ run[a].known[r] \notin Done}
         IN /\ s \in Steps /\ run[a].pc = "save"
            /\ run' \in [Attempts -> RunType]
            /\ \A b \in Attempts \ {a} : run'[b] = run[b]
            /\ run'[a].pc = "next" /\ run'[a].at = s + 1 /\ run'[a].known = run[a].known
            /\ job' \in JobType /\ job'.state = job.state /\ job'.by = job.by
            /\ \/ /\ job'.saved = run[a].known
                  /\ excused' = IF job.by # a THEN excused \cup undone ELSE excused
               \/ job' = job /\ excused' = excused \cup {s}
<1> DEFINE s == run[a].at
           new == Moved(run[a])
<1>1. run[a] \in RunType /\ s \in Steps /\ run[a].pc = "save"
  BY DEF TypeOK, PlacesOK, SaveProgress
<1>2. new \in RunType /\ new.pc = "next" /\ new.at = s + 1 /\ new.known = run[a].known
  BY <1>1, Edits
<1>3. run' = [run EXCEPT ![a] = new]
  BY DEF SaveProgress
<1> HIDE DEF new
<1>4. run[a].known \in [Steps -> Statuses \cup {None}] /\ job \in JobType
  BY <1>1 DEF RunType, TypeOK
<1>5. \A k : k = [job EXCEPT !.saved = run[a].known] =>
        k \in JobType /\ k.state = job.state /\ k.by = job.by /\ k.saved = run[a].known
  BY <1>4, SavedAs
<1>6. \/ /\ job' = [job EXCEPT !.saved = run[a].known]
         /\ excused' = IF job.by # a
                       THEN excused \cup {r \in Steps : /\ job.saved[r] \in Done
                                                      /\ run[a].known[r] \notin Done}
                       ELSE excused
      \/ job' = job /\ excused' = excused \cup {s}
  BY DEF SaveProgress, Record
<1>7. QED
  BY <1>1, <1>2, <1>3, <1>4, <1>5, <1>6, OthersStay

LEMMA FinishEffect ==
  ASSUME TypeOK, NEW a \in Attempts, Finish(a)
  PROVE  /\ run[a].pc = "next" /\ run[a].at = N + 1
         /\ run' \in [Attempts -> RunType]
         /\ \A b \in Attempts \ {a} : run'[b] = run[b]
         /\ run'[a].pc = "ended" /\ run'[a].at = N + 1 /\ run'[a].known = run[a].known
         /\ job' \in JobType /\ job'.by = job.by /\ job'.saved = job.saved
         /\ job'.state \in {job.state, "completed"}
<1> DEFINE new == [run[a] EXCEPT !.pc = "ended"]
<1>1. run[a] \in RunType /\ job \in JobType /\ run[a].pc = "next" /\ run[a].at = N + 1
  BY DEF TypeOK, Finish
<1>2. new \in RunType /\ new.pc = "ended" /\ new.at = N + 1 /\ new.known = run[a].known
  BY <1>1 DEF RunType
<1>3. run' = [run EXCEPT ![a] = new]
  BY DEF Finish, TypeOK
<1> HIDE DEF new
<1>4. /\ job' \in JobType /\ job'.by = job.by /\ job'.saved = job.saved
      /\ job'.state \in {job.state, "completed"}
  BY <1>1 DEF Finish, JobType
<1>5. QED
  BY <1>1, <1>2, <1>3, <1>4, OthersStay

LEMMA CrashEffect ==
  ASSUME TypeOK, NEW a \in Attempts, Crash(a)
  PROVE  /\ run' \in [Attempts -> RunType]
         /\ ~Idle(a)
         /\ \A b \in Attempts \ {a} : run'[b] = run[b]
         /\ \/ run[a].pc = "ended" /\ run' = run
            \/ /\ run[a].pc # "ended"
               /\ run'[a].pc = "dead" /\ run'[a].at = 1 /\ run'[a].known = Blank
<1> USE ConstantsAssumption
<1> DEFINE new == [Fresh EXCEPT !.pc = "dead"]
<1>1. Fresh \in RunType
  <2>1. Blank \in [Steps -> Statuses \cup {None}] /\ 1 \in 1..(N + 1) /\ 0 \in 0..Tries
    BY DEF Blank
  <2>2. QED
    BY <2>1 DEF Fresh, RunType
<1>2. new \in RunType /\ new.pc = "dead" /\ new.at = 1 /\ new.known = Blank
  BY <1>1 DEF RunType, Fresh
<1>3. ~Idle(a) /\ run \in [Attempts -> RunType]
      /\ run' = IF run[a].pc = "ended" THEN run ELSE [run EXCEPT ![a] = new]
  BY DEF Crash, Alive, Idle, TypeOK
<1> HIDE DEF new
<1>4. QED
  BY <1>2, <1>3, OthersStay

\* The stalled check and the hand-back take the job away from its attempt.
LEMMA TakenAwayEffect ==
  ASSUME TypeOK, NEW a \in Attempts, Stall(a) \/ HandBack(a)
  PROVE  /\ job.by = a
         /\ job' \in JobType /\ job'.by = None /\ job'.saved = job.saved
         /\ excused' = excused \cup Ahead(a) \/ (run[a].pc = "dead" /\ excused' = excused)
<1> USE ConstantsAssumption
<1>1. CASE Stall(a)
  <2>1. job \in JobType /\ job.by = a
    BY <1>1 DEF TypeOK, Stall
  <2>2. Requeued \in JobType /\ Requeued.by = None /\ Requeued.saved = job.saved
    <3>1. job.stalls < MaxStalled => job.stalls + 1 \in 0..MaxStalled
      BY <2>1 DEF JobType
    <3>2. QED
      BY <2>1, <3>1 DEF Requeued, JobType
  <2>3. QED
    BY <1>1, <2>1, <2>2 DEF Stall
<1>2. CASE HandBack(a)
  <2>1. /\ job \in JobType /\ job.by = a /\ excused' = excused \cup Ahead(a)
        /\ job' = [job EXCEPT !.state = "waiting", !.by = None]
    BY <1>2 DEF HandBack, TypeOK
  <2>2. QED
    BY <2>1 DEF JobType
<1>3. QED
  BY <1>1, <1>2

-----------------------------------------------------------------------------
\* Every variable keeps its type.
LEMMA CallType ==
  ASSUME TypeOK, NEW a \in Attempts, NEW s \in Steps, NEW c \in CallStates,
         call' = [call EXCEPT ![a][s] = c]
  PROVE  call' \in [Attempts -> [Steps -> CallStates]]
BY DEF TypeOK

LEMMA SpendType ==
  ASSUME TypeOK, NEW e, Spend(e)
  PROVE  spent' \in 0..Budget
BY ConstantsAssumption DEF TypeOK, Spend

LEMMA TypeStep ==
  ASSUME TypeOK, PlacesOK, [Next]_vars
  PROVE  TypeOK'
<1> USE ConstantsAssumption
<1>1. ASSUME NEW a \in Attempts, PickUp(a) PROVE TypeOK'
  BY <1>1, PickUpEffect DEF PickUp, TypeOK
<1>2. ASSUME NEW a \in Attempts, NextStep(a) PROVE TypeOK'
  <2>1. "asking" \in CallStates
    BY DEF CallStates
  <2>2. call' \in [Attempts -> [Steps -> CallStates]]
    <3>1. run[a].at \in Steps
      BY <1>2, NextStepEffect
    <3>2. CASE UNCHANGED call
      BY <3>2 DEF TypeOK
    <3>3. CASE call' = [call EXCEPT ![a][run[a].at] = "asking"]
      BY <2>1, <3>1, <3>3, CallType
    <3>4. QED
      BY <1>2, <3>2, <3>3 DEF NextStep
  <2>3. run' \in [Attempts -> RunType]
    BY <1>2, NextStepEffect
  <2>4. UNCHANGED <<job, lock, ran, repeated, excused, lost, beat, spent>>
    BY <1>2 DEF NextStep
  <2>5. QED
    BY <2>2, <2>3, <2>4 DEF TypeOK
<1>3. ASSUME NEW a \in Attempts, Settle(a) PROVE TypeOK'
  <2>1. "asking" \in CallStates /\ None \in CallStates
    BY DEF CallStates
  <2>2. call' \in [Attempts -> [Steps -> CallStates]]
    <3>1. PICK c \in CallStates : call' = [call EXCEPT ![a][run[a].at] = c]
      BY <1>3, <2>1 DEF Settle
    <3>2. run[a].at \in Steps
      BY <1>3, SettleEffect
    <3>3. QED
      BY <3>1, <3>2, CallType
  <2>3. run' \in [Attempts -> RunType]
    BY <1>3, SettleEffect
  <2>4. UNCHANGED <<job, lock, ran, repeated, excused, lost, beat, spent>>
    BY <1>3 DEF Settle
  <2>5. QED
    BY <2>2, <2>3, <2>4 DEF TypeOK
<1>4. ASSUME NEW a \in Attempts, Timeout(a) PROVE TypeOK'
  BY <1>4, TimeoutEffect DEF Timeout, TypeOK
<1>5. ASSUME NEW a \in Attempts, SaveProgress(a) PROVE TypeOK'
  <2>1. spent' \in 0..Budget
    BY <1>5, SpendType DEF SaveProgress, TypeOK
  <2>2. excused' \subseteq Steps
    BY <1>5, SaveEffect DEF TypeOK
  <2>3. QED
    BY <1>5, <2>1, <2>2, SaveEffect DEF SaveProgress, TypeOK
<1>6. ASSUME NEW a \in Attempts, Finish(a) PROVE TypeOK'
  BY <1>6, FinishEffect DEF Finish, TypeOK
<1>7. ASSUME NEW a \in Attempts, Stall(a) PROVE TypeOK'
  <2>1. Ahead(a) \subseteq Steps
    BY DEF Ahead, TypeOK, RunType, Steps
  <2>2. spent' \in 0..Budget
    BY <1>7, SpendType DEF Stall, TypeOK
  <2>3. QED
    BY <1>7, <2>1, <2>2, TakenAwayEffect DEF Stall, TypeOK
<1>8. ASSUME NEW a \in Attempts, HandBack(a) PROVE TypeOK'
  <2>1. Ahead(a) \subseteq Steps
    BY DEF Ahead, TypeOK, RunType, Steps
  <2>2. spent' \in 0..Budget
    BY <1>8, SpendType DEF HandBack, TypeOK
  <2>3. QED
    BY <1>8, <2>1, <2>2, TakenAwayEffect DEF HandBack, TypeOK
<1>9. ASSUME NEW a \in Attempts, Crash(a) PROVE TypeOK'
  <2>1. spent' \in 0..Budget
    BY <1>9, SpendType DEF Crash
  <2>2. call' \in [Attempts -> [Steps -> CallStates]]
    <3>1. Blank \in [Steps -> CallStates]
      BY DEF Blank, CallStates
    <3>2. QED
      BY <1>9, <3>1 DEF Crash, TypeOK
  <2>3. lock' \in [Locked -> Attempts \cup {None}]
    BY <1>9 DEF Crash, TypeOK
  <2>4. excused' \subseteq Steps
    BY <1>9 DEF Crash, TypeOK
  <2>5. QED
    BY <1>9, <2>1, <2>2, <2>3, <2>4, CrashEffect DEF Crash, TypeOK
<1>10. ASSUME NEW a \in Attempts, NEW s \in Steps, Enter(a, s) PROVE TypeOK'
  <2>1. "inside" \in CallStates
    BY DEF CallStates
  <2>2. call' \in [Attempts -> [Steps -> CallStates]]
    BY <1>10, <2>1, CallType DEF Enter
  <2>3. QED
    BY <1>10, <2>2 DEF Enter, TypeOK
<1>11. ASSUME NEW a \in Attempts, NEW s \in Steps, NEW c \in CallStates, Answer(a, s, c)
       PROVE  call' \in [Attempts -> [Steps -> CallStates]]
  <2>1. None \in CallStates
    BY DEF CallStates
  <2>2. QED
    BY <1>11, <2>1, CallType DEF Answer
<1>12. ASSUME NEW a \in Attempts, NEW s \in Steps, FindLocked(a, s) PROVE TypeOK'
  BY <1>11, <1>12 DEF FindLocked, CallStates, TypeOK
<1>13. ASSUME NEW a \in Attempts, NEW s \in Steps
       PROVE  Released(a, s) \in [Locked -> Attempts \cup {None}]
  BY DEF Released, TypeOK
<1>14. ASSUME NEW a \in Attempts, NEW s \in Steps, HandlerReturns(a, s) PROVE TypeOK'
  <2>1. call' \in [Attempts -> [Steps -> CallStates]]
    BY <1>11, <1>14 DEF HandlerReturns, CallStates
  <2>2. ran' \subseteq Attempts \X Steps /\ excused' \subseteq Steps
    BY <1>14 DEF HandlerReturns, TypeOK
  <2>3. QED
    BY <1>13, <1>14, <2>1, <2>2 DEF HandlerReturns, TypeOK
<1>15. ASSUME NEW a \in Attempts, NEW s \in Steps, HandlerThrows(a, s) PROVE TypeOK'
  <2>1. call' \in [Attempts -> [Steps -> CallStates]]
    BY <1>11, <1>15 DEF HandlerThrows, CallStates
  <2>2. spent' \in 0..Budget
    BY <1>15, SpendType DEF HandlerThrows
  <2>3. QED
    BY <1>13, <1>15, <2>1, <2>2 DEF HandlerThrows, TypeOK
<1>16. ASSUME NEW s \in Steps, LoseLock(s) PROVE TypeOK'
  <2>1. spent' \in 0..Budget
    BY <1>16, SpendType DEF LoseLock
  <2>2. QED
    BY <1>16, <2>1 DEF LoseLock, TypeOK
<1>17. CASE UNCHANGED vars
  BY <1>17 DEF vars, TypeOK
<1>18. QED
  BY <1>1, <1>2, <1>3, <1>4, <1>5, <1>6, <1>7, <1>8, <1>9, <1>10, <1>12, <1>14, <1>15,
     <1>16, <1>17 DEF Next, GroupStep

-----------------------------------------------------------------------------
\* The steps of a call leave the queue and the loops alone.
LEMMA OfCallEffect ==
  ASSUME TypeOK, NEW a \in Attempts, NEW s \in Steps, OfCall(a, s)
  PROVE  /\ UNCHANGED <<job, run, beat>>
         /\ excused \subseteq excused' /\ ran \subseteq ran'
         /\ \A b \in Attempts, r \in Steps :
              call'[b][r] = call[b][r] \/ (b = a /\ r = s /\ Running(a, s))
         /\ \/ call'[a][s] \in {None, call[a][s]} \/ Awaited(a, s)
            \/ Enter(a, s) /\ call'[a][s] = "inside"
<1>1. UNCHANGED <<job, run, beat>> /\ excused \subseteq excused' /\ ran \subseteq ran'
  BY DEF OfCall, Enter, FindLocked, HandlerReturns, HandlerThrows, LoseLock
<1>2. CASE \E c : Answer(a, s, c) /\ Running(a, s)
  BY <1>1, <1>2 DEF Answer, TypeOK
<1>3. CASE Enter(a, s)
  BY <1>1, <1>3 DEF Enter, Running, TypeOK
<1>4. CASE LoseLock(s)
  BY <1>1, <1>4 DEF LoseLock
<1>5. QED
  BY <1>2, <1>3, <1>4 DEF OfCall, FindLocked, HandlerReturns, HandlerThrows, Running

LEMMA PlacesStep ==
  ASSUME TypeOK, PlacesOK, [Next]_vars
  PROVE  PlacesOK'
<1> USE ConstantsAssumption
<1>1. ASSUME NEW a \in Attempts, PickUp(a) PROVE PlacesOK'
  BY <1>1, PickUpEffect DEF PlacesOK, Idle, Steps
<1>2. ASSUME NEW a \in Attempts, NextStep(a) PROVE PlacesOK'
  <2>1. UNCHANGED job
    BY <1>2 DEF NextStep
  <2>2. QED
    BY <1>2, <2>1, NextStepEffect DEF PlacesOK, Idle, Steps, Done, None
<1>3. ASSUME NEW a \in Attempts, Settle(a) PROVE PlacesOK'
  <2>1. UNCHANGED job /\ run[a].pc = "await"
    BY <1>3 DEF Settle
  <2>2. QED
    BY <1>3, <2>1, SettleEffect DEF PlacesOK, Idle, Steps, Done, None
<1>4. ASSUME NEW a \in Attempts, Timeout(a) PROVE PlacesOK'
  <2>1. UNCHANGED job
    BY <1>4 DEF Timeout
  <2>2. QED
    BY <1>4, <2>1, TimeoutEffect DEF PlacesOK, Idle, Steps, Done, None
<1>5. ASSUME NEW a \in Attempts, SaveProgress(a) PROVE PlacesOK'
  BY <1>5, SaveEffect DEF PlacesOK, Idle, Steps
<1>6. ASSUME NEW a \in Attempts, Finish(a) PROVE PlacesOK'
  BY <1>6, FinishEffect DEF PlacesOK, Idle, Steps
<1>7. ASSUME NEW a \in Attempts, Stall(a) \/ HandBack(a) PROVE PlacesOK'
  <2>1. UNCHANGED run
    BY <1>7 DEF Stall, HandBack
  <2>2. QED
    BY <1>7, <2>1, TakenAwayEffect DEF PlacesOK, Idle
<1>8. ASSUME NEW a \in Attempts, Crash(a) PROVE PlacesOK'
  <2>1. UNCHANGED job
    BY <1>8 DEF Crash
  <2>2. QED
    BY <1>8, <2>1, CrashEffect DEF PlacesOK, Idle, Steps
<1>9. CASE UNCHANGED <<job, run>>
  BY <1>9 DEF PlacesOK, Idle
<1>10. QED
  BY <1>1, <1>2, <1>3, <1>4, <1>5, <1>6, <1>7, <1>8, <1>9, NextCases, OfCallEffect
     DEF OfAttempt, GroupStep, vars

LEMMA CallsStep ==
  ASSUME TypeOK, PlacesOK, CallsHavePlaces, [Next]_vars
  PROVE  CallsHavePlaces'
<1> USE ConstantsAssumption
<1>1. ASSUME NEW a \in Attempts, PickUp(a) PROVE CallsHavePlaces'
  <2>1. UNCHANGED call
    BY <1>1 DEF PickUp
  <2>2. \A s \in Steps : call[a][s] = None
    BY <1>1, PickUpEffect DEF CallsHavePlaces, PlacesOK, Idle, Steps
  <2>3. QED
    BY <1>1, <2>1, <2>2, PickUpEffect DEF CallsHavePlaces, Running
<1>2. ASSUME NEW a \in Attempts, NextStep(a) PROVE CallsHavePlaces'
  BY <1>2, NextStepEffect DEF CallsHavePlaces, Running, Steps, TypeOK, None
<1>3. ASSUME NEW a \in Attempts, Settle(a) PROVE CallsHavePlaces'
  <2>1. run[a].pc = "await"
    BY <1>3 DEF Settle
  <2> DEFINE s == run[a].at
  <2>2. /\ s \in Steps /\ run'[a].at = s
        /\ \A b \in Attempts \ {a} : run'[b] = run[b]
        /\ \A r \in Steps \ {s} : run'[a].known[r] = run[a].known[r]
        /\ run'[a].pc = "await" \/ (run'[a].pc = "save" /\ call'[a][s] = None)
    BY <1>3, SettleEffect DEF TypeOK
  <2>3. \A b \in Attempts, r \in Steps :
          b # a \/ r # s => call'[b][r] = call[b][r]
    BY <1>3, SettleEffect DEF TypeOK
  <2>4. \A r \in Steps \ {s} : call[a][r] # None =>
          Running(a, r) /\ run[a].known[r] = "timed-out" /\ r < s
    BY <2>1, <2>2 DEF CallsHavePlaces
  <2> HIDE DEF s
  <2>5. QED
    BY <2>1, <2>2, <2>3, <2>4 DEF CallsHavePlaces, Running
<1>4. ASSUME NEW a \in Attempts, Timeout(a) PROVE CallsHavePlaces'
  <2>1. UNCHANGED call
    BY <1>4 DEF Timeout
  <2>2. QED
    BY <1>4, <2>1, TimeoutEffect DEF CallsHavePlaces, Running, Steps
<1>5. ASSUME NEW a \in Attempts, SaveProgress(a) PROVE CallsHavePlaces'
  <2>1. UNCHANGED call
    BY <1>5 DEF SaveProgress
  <2>2. QED
    BY <1>5, <2>1, SaveEffect DEF CallsHavePlaces, Running, Steps
<1>6. ASSUME NEW a \in Attempts, Finish(a) PROVE CallsHavePlaces'
  <2>1. UNCHANGED call
    BY <1>6 DEF Finish
  <2>2. QED
    BY <1>6, <2>1, FinishEffect DEF CallsHavePlaces, Running, Steps
<1>7. ASSUME NEW a \in Attempts, Crash(a) PROVE CallsHavePlaces'
  <2>1. \A b \in Attempts, s \in Steps : call'[b][s] = IF b = a THEN None ELSE call[b][s]
    BY <1>7 DEF Crash, Blank, TypeOK
  <2>2. QED
    BY <1>7, <2>1, CrashEffect DEF CallsHavePlaces, Running
<1>8. ASSUME NEW a \in Attempts, NEW s \in Steps, OfCall(a, s) PROVE CallsHavePlaces'
  BY <1>8, OfCallEffect DEF CallsHavePlaces, Running, Awaited, None, Enter
<1>9. CASE UNCHANGED <<run, call>>
  BY <1>9 DEF CallsHavePlaces, Running
<1>10. QED
  BY <1>1, <1>2, <1>3, <1>4, <1>5, <1>6, <1>7, <1>8, <1>9, NextCases
     DEF OfAttempt, GroupStep, Stall, HandBack, vars

LEMMA LocksStep ==
  ASSUME TypeOK, HandlersHaveLocks, [Next]_vars
  PROVE  HandlersHaveLocks'
<1> USE ConstantsAssumption
<1>1. ASSUME NEW a \in Attempts, NEW s \in Steps, Enter(a, s) PROVE HandlersHaveLocks'
  BY <1>1 DEF Enter, Free, HandlersHaveLocks, TypeOK
<1>2. ASSUME NEW a \in Attempts, NEW s \in Steps, NEW c \in {"locked", "ran", "threw"},
             Answer(a, s, c), lock' = lock \/ lock' = Released(a, s), UNCHANGED lost
      PROVE  HandlersHaveLocks'
  BY <1>2 DEF Answer, Released, HandlersHaveLocks, TypeOK, None
<1>3. ASSUME NEW s \in Steps, LoseLock(s) PROVE HandlersHaveLocks'
  BY <1>3 DEF LoseLock, HandlersHaveLocks, TypeOK
<1>4. ASSUME NEW a \in Attempts, Crash(a) PROVE HandlersHaveLocks'
  BY <1>4 DEF Crash, Blank, HandlersHaveLocks, TypeOK, None
<1>5. ASSUME NEW a \in Attempts, NEW s \in Steps, NEW c \in {"asking", None},
             call' = [call EXCEPT ![a][s] = c], UNCHANGED <<lock, lost>>
      PROVE  HandlersHaveLocks'
  BY <1>5 DEF HandlersHaveLocks, TypeOK, None
<1>6. CASE UNCHANGED <<call, lock, lost>>
  BY <1>6 DEF HandlersHaveLocks
<1>7. ASSUME NEW a \in Attempts, NextStep(a) PROVE HandlersHaveLocks'
  BY <1>5, <1>6, <1>7 DEF NextStep
<1>8. ASSUME NEW a \in Attempts, Settle(a) PROVE HandlersHaveLocks'
  <2>1. run[a].at \notin Steps => call' = call
    BY <1>8 DEF Settle, TypeOK
  <2>2. QED
    BY <1>5, <1>6, <1>8, <2>1 DEF Settle
<1>9. ASSUME NEW a \in Attempts, NEW s \in Steps, OfCall(a, s) PROVE HandlersHaveLocks'
  BY <1>1, <1>2, <1>3, <1>9 DEF OfCall, FindLocked, HandlerReturns, HandlerThrows
<1>10. QED
  BY <1>4, <1>6, <1>7, <1>8, <1>9, NextCases
     DEF OfAttempt, GroupStep, PickUp, Timeout, SaveProgress, Finish, Stall, HandBack, vars

LEMMA OkStep ==
  ASSUME TypeOK, PlacesOK, OkIsEarned, [Next]_vars
  PROVE  OkIsEarned'
<1> USE ConstantsAssumption
<1>0. ran \subseteq ran' => \A s \in Steps : Succeeded(s) => Succeeded(s)'
  BY DEF Succeeded
<1>1. ASSUME NEW a \in Attempts, PickUp(a) PROVE OkIsEarned'
  <2>1. UNCHANGED <<call, ran>>
    BY <1>1 DEF PickUp
  <2>2. QED
    BY <1>0, <1>1, <2>1, PickUpEffect DEF OkIsEarned
<1>2. ASSUME NEW a \in Attempts, NextStep(a) PROVE OkIsEarned'
  <2>1. UNCHANGED <<job, ran>>
    BY <1>2 DEF NextStep
  <2>2. \A b \in Attempts, r \in Steps : call'[b][r] = "ran" => call[b][r] = "ran"
    BY <1>2, NextStepEffect DEF TypeOK
  <2>3. \A b \in Attempts, r \in Steps : run'[b].known[r] = "ok" => run[b].known[r] = "ok"
    BY <1>2, NextStepEffect
  <2>4. QED
    BY <1>0, <2>1, <2>2, <2>3 DEF OkIsEarned
<1>3. ASSUME NEW a \in Attempts, Settle(a) PROVE OkIsEarned'
  <2>1. UNCHANGED <<job, ran>>
    BY <1>3 DEF Settle
  <2>2. \A b \in Attempts, r \in Steps : call'[b][r] = "ran" => call[b][r] = "ran"
    BY <1>3, SettleEffect DEF TypeOK, None
  <2>3. \A b \in Attempts, r \in Steps :
          run'[b].known[r] = "ok" => run[b].known[r] = "ok" \/ call[b][r] = "ran"
    BY <1>3, SettleEffect
  <2>4. QED
    BY <1>0, <2>1, <2>2, <2>3 DEF OkIsEarned
<1>4. ASSUME NEW a \in Attempts, Timeout(a) PROVE OkIsEarned'
  <2>1. UNCHANGED <<job, call, ran>>
    BY <1>4 DEF Timeout
  <2>2. QED
    BY <1>0, <1>4, <2>1, TimeoutEffect DEF OkIsEarned
<1>5. ASSUME NEW a \in Attempts, SaveProgress(a) PROVE OkIsEarned'
  <2>1. UNCHANGED <<call, ran>>
    BY <1>5 DEF SaveProgress
  <2>2. QED
    BY <1>0, <1>5, <2>1, SaveEffect DEF OkIsEarned
<1>6. ASSUME NEW a \in Attempts, Finish(a) PROVE OkIsEarned'
  <2>1. UNCHANGED <<call, ran>>
    BY <1>6 DEF Finish
  <2>2. QED
    BY <1>0, <1>6, <2>1, FinishEffect DEF OkIsEarned
<1>7. ASSUME NEW a \in Attempts, Stall(a) \/ HandBack(a) PROVE OkIsEarned'
  <2>1. UNCHANGED <<run, call, ran>>
    BY <1>7 DEF Stall, HandBack
  <2>2. QED
    BY <1>0, <1>7, <2>1, TakenAwayEffect DEF OkIsEarned
<1>8. ASSUME NEW a \in Attempts, Crash(a) PROVE OkIsEarned'
  <2>1. UNCHANGED <<job, ran>>
    BY <1>8 DEF Crash
  <2>2. \A b \in Attempts, s \in Steps : call'[b][s] = IF b = a THEN None ELSE call[b][s]
    BY <1>8 DEF Crash, Blank, TypeOK
  <2>3. \A b \in Attempts, r \in Steps : run'[b].known[r] = "ok" => run[b].known[r] = "ok"
    BY <1>8, CrashEffect DEF Blank, None
  <2>4. QED
    BY <1>0, <2>1, <2>2, <2>3 DEF OkIsEarned, None
<1>9. ASSUME NEW a \in Attempts, NEW s \in Steps, OfCall(a, s) PROVE OkIsEarned'
  <2>1. \A b \in Attempts, r \in Steps :
          call'[b][r] = "ran" => call[b][r] = "ran" \/ <<b, r>> \in ran'
    BY <1>9 DEF OfCall, Enter, FindLocked, HandlerReturns, HandlerThrows, LoseLock, Answer,
                TypeOK, None
  <2>2. \A b \in Attempts, r \in Steps : call'[b][r] = "ran" => Succeeded(r)'
    BY <1>0, <1>9, <2>1, OfCallEffect DEF OkIsEarned, Succeeded
  <2>3. QED
    BY <1>0, <1>9, <2>2, OfCallEffect DEF OkIsEarned
<1>10. CASE UNCHANGED vars
  BY <1>0, <1>10 DEF OkIsEarned, vars
<1>11. QED
  BY <1>1, <1>2, <1>3, <1>4, <1>5, <1>6, <1>7, <1>8, <1>9, <1>10, NextCases
     DEF OfAttempt, GroupStep

LEMMA BeatsStep ==
  ASSUME TypeOK, PlacesOK, BeatsAreEarned, [Next]_vars
  PROVE  BeatsAreEarned'
<1> USE ConstantsAssumption
<1>1. ASSUME NEW a \in Attempts, Finish(a) PROVE BeatsAreEarned'
  <2>1. \A s \in Steps : run[a].known[s] \in Statuses
    BY <1>1, FinishEffect DEF PlacesOK, TypeOK, RunType, Steps, Statuses
  <2>2. \A b \in beat' \ {a} : b \in beat
    BY <1>1 DEF Finish
  <2>3. a \in beat' => \/ a \in beat
                      \/ \A s \in Steps : run[a].known[s] \notin Bad
    BY <1>1 DEF Finish
  <2>4. QED
    BY <1>1, <2>1, <2>2, <2>3, FinishEffect DEF BeatsAreEarned, Bad, Statuses, TypeOK
<1>2. ASSUME NEW a \in Attempts, UNCHANGED beat, run[a].pc # "ended",
             \A b \in Attempts \ {a} : run'[b] = run[b]
      PROVE  BeatsAreEarned'
  BY <1>2 DEF BeatsAreEarned, TypeOK
<1>3. CASE UNCHANGED <<run, beat>>
  BY <1>3 DEF BeatsAreEarned
<1>4. ASSUME NEW a \in Attempts, PickUp(a) PROVE BeatsAreEarned'
  BY <1>2, <1>4, PickUpEffect DEF PickUp
<1>5. ASSUME NEW a \in Attempts, NextStep(a) PROVE BeatsAreEarned'
  <2>1. UNCHANGED beat
    BY <1>5 DEF NextStep
  <2>2. QED
    BY <1>2, <1>5, <2>1, NextStepEffect
<1>6. ASSUME NEW a \in Attempts, Settle(a) PROVE BeatsAreEarned'
  <2>1. UNCHANGED beat /\ run[a].pc = "await"
    BY <1>6 DEF Settle
  <2>2. QED
    BY <1>2, <1>6, <2>1, SettleEffect
<1>7. ASSUME NEW a \in Attempts, Timeout(a) PROVE BeatsAreEarned'
  BY <1>2, <1>7, TimeoutEffect DEF Timeout
<1>8. ASSUME NEW a \in Attempts, SaveProgress(a) PROVE BeatsAreEarned'
  <2>1. UNCHANGED beat
    BY <1>8 DEF SaveProgress
  <2>2. QED
    BY <1>2, <1>8, <2>1, SaveEffect
<1>9. ASSUME NEW a \in Attempts, Crash(a) PROVE BeatsAreEarned'
  BY <1>2, <1>3, <1>9, CrashEffect DEF Crash
<1>10. QED
  BY <1>1, <1>3, <1>4, <1>5, <1>6, <1>7, <1>8, <1>9, NextCases, OfCallEffect
     DEF OfAttempt, GroupStep, Stall, HandBack, vars

-----------------------------------------------------------------------------
LEMMA PastStep ==
  ASSUME TypeOK, PlacesOK, ReplacedArePast, [Next]_vars
  PROVE  ReplacedArePast'
<1> USE ConstantsAssumption
<1>1. ASSUME NEW a \in Attempts, PickUp(a) PROVE ReplacedArePast'
  <2>1. UNCHANGED <<call, excused>>
    BY <1>1 DEF PickUp
  <2>2. QED
    BY <1>1, <2>1, PickUpEffect DEF ReplacedArePast, Idle, Running
<1>2. ASSUME NEW a \in Attempts, NextStep(a) PROVE ReplacedArePast'
  <2> DEFINE s == run[a].at
  <2>1. UNCHANGED <<job, excused>>
    BY <1>2 DEF NextStep
  <2>2. s \in Steps /\ run[a].pc = "next" /\ run'[a].at \in {s, s + 1}
    BY <1>2, NextStepEffect
  <2>3. \A b \in Attempts, r \in Steps : b # a \/ r # s => call'[b][r] = call[b][r]
    BY <1>2, NextStepEffect DEF TypeOK
  <2>4. \A b \in Attempts \ {a} : run'[b] = run[b]
    BY <1>2, NextStepEffect
  <2> HIDE DEF s
  <2>5. \A r \in Steps : r < run[a].at => r < run'[a].at /\ r # run[a].at
    BY <2>2 DEF s, Steps
  <2>6. QED
    BY <2>1, <2>2, <2>3, <2>4, <2>5 DEF ReplacedArePast, Idle, Running, s
<1>3. ASSUME NEW a \in Attempts, Settle(a) PROVE ReplacedArePast'
  <2> DEFINE s == run[a].at
  <2>1. UNCHANGED <<job, excused>> /\ run[a].pc = "await"
    BY <1>3 DEF Settle
  <2>2. s \in Steps /\ run'[a].at = s
    BY <1>3, SettleEffect
  <2>3. \A b \in Attempts, r \in Steps : b # a \/ r # s => call'[b][r] = call[b][r]
    BY <1>3, SettleEffect DEF TypeOK
  <2>4. \A b \in Attempts \ {a} : run'[b] = run[b]
    BY <1>3, SettleEffect
  <2> HIDE DEF s
  <2>5. \A r \in Steps : r < run[a].at => r # run[a].at
    BY <2>2 DEF s, Steps
  <2>6. QED
    BY <2>1, <2>2, <2>3, <2>4, <2>5 DEF ReplacedArePast, Idle, Running, s
<1>4. ASSUME NEW a \in Attempts, Timeout(a) PROVE ReplacedArePast'
  <2>1. UNCHANGED <<job, call, excused>>
    BY <1>4 DEF Timeout
  <2>2. QED
    BY <1>4, <2>1, TimeoutEffect DEF ReplacedArePast, Idle, Running
<1>5. ASSUME NEW a \in Attempts, SaveProgress(a) PROVE ReplacedArePast'
  <2>1. UNCHANGED call
    BY <1>5 DEF SaveProgress
  <2>2. excused \subseteq excused'
    BY <1>5, SaveEffect
  <2>3. QED
    BY <1>5, <2>1, <2>2, SaveEffect DEF ReplacedArePast, Idle, Running, Steps
<1>6. ASSUME NEW a \in Attempts, Finish(a) PROVE ReplacedArePast'
  <2>1. UNCHANGED <<call, excused>>
    BY <1>6 DEF Finish
  <2>2. QED
    BY <1>6, <2>1, FinishEffect DEF ReplacedArePast, Idle, Running
<1>7. ASSUME NEW a \in Attempts, Stall(a) \/ HandBack(a) PROVE ReplacedArePast'
  <2>1. UNCHANGED <<run, call>>
    BY <1>7 DEF Stall, HandBack
  <2>2. \A s \in Steps \ Ahead(a) : s < run[a].at /\ ~Running(a, s)
    BY DEF Ahead, TypeOK, RunType, Steps
  <2>3. QED
    BY <1>7, <2>1, <2>2, TakenAwayEffect DEF ReplacedArePast, Idle, Running
<1>8. ASSUME NEW a \in Attempts, Crash(a) PROVE ReplacedArePast'
  <2>1. UNCHANGED job /\ excused \subseteq excused'
    BY <1>8 DEF Crash
  <2>2. \A b \in Attempts, s \in Steps : call'[b][s] = IF b = a THEN None ELSE call[b][s]
    BY <1>8 DEF Crash, Blank, TypeOK
  <2>3. QED
    BY <1>8, <2>1, <2>2, CrashEffect DEF ReplacedArePast, Idle, Running, None
<1>9. ASSUME NEW a \in Attempts, NEW s \in Steps, OfCall(a, s) PROVE ReplacedArePast'
  BY <1>9, OfCallEffect DEF ReplacedArePast, Idle, Running
<1>10. CASE UNCHANGED vars
  BY <1>10 DEF ReplacedArePast, Idle, Running, vars
<1>11. QED
  BY <1>1, <1>2, <1>3, <1>4, <1>5, <1>6, <1>7, <1>8, <1>9, <1>10, NextCases
     DEF OfAttempt, GroupStep

LEMMA KnowsStep ==
  ASSUME TypeOK, PlacesOK, ReplacedArePast, HolderKnows, DoneIsSaved, [Next]_vars
  PROVE  HolderKnows'
<1> USE ConstantsAssumption
<1>1. ASSUME NEW a \in Attempts, PickUp(a) PROVE HolderKnows'
  <2>1. UNCHANGED excused
    BY <1>1 DEF PickUp
  <2>2. QED
    BY <1>1, <2>1, PickUpEffect DEF HolderKnows
<1>2. ASSUME NEW a \in Attempts, NextStep(a) PROVE HolderKnows'
  <2>1. UNCHANGED <<job, excused>>
    BY <1>2 DEF NextStep
  <2>2. QED
    BY <1>2, <2>1, NextStepEffect DEF HolderKnows, Idle, Done
<1>3. ASSUME NEW a \in Attempts, UNCHANGED <<job, excused>>, run[a].pc = "await",
             \A b \in Attempts \ {a} : run'[b] = run[b],
             \A r \in Steps \ {run[a].at} : run'[a].known[r] = run[a].known[r]
      PROVE  HolderKnows'
  BY <1>3 DEF HolderKnows, PlacesOK, Idle
<1>4. ASSUME NEW a \in Attempts, Settle(a) PROVE HolderKnows'
  <2>1. UNCHANGED <<job, excused>> /\ run[a].pc = "await"
    BY <1>4 DEF Settle
  <2>2. QED
    BY <1>3, <1>4, <2>1, SettleEffect
<1>5. ASSUME NEW a \in Attempts, Timeout(a) PROVE HolderKnows'
  <2>1. UNCHANGED <<job, excused>>
    BY <1>5 DEF Timeout
  <2>2. QED
    BY <1>3, <1>5, <2>1, TimeoutEffect
<1>6. ASSUME NEW a \in Attempts, SaveProgress(a) PROVE HolderKnows'
  <2>1. excused \subseteq excused'
    BY <1>6, SaveEffect
  <2>2. CASE job.by = a \/ job' = job
    BY <1>6, <2>1, <2>2, SaveEffect DEF HolderKnows, Idle
  <2>3. CASE job.by # a /\ job'.saved = run[a].known
    <3>1. \A s \in Steps \ excused : s < run[a].at
      BY <1>6, <2>3, SaveEffect DEF ReplacedArePast, Idle
    <3>2. \A s \in Steps \ excused : run[a].known[s] \in Done => job.saved[s] \in Done
      BY <1>6, <3>1, SaveEffect DEF DoneIsSaved, Idle, Steps
    <3>3. QED
      BY <1>6, <2>1, <2>3, <3>2, SaveEffect DEF HolderKnows, Idle
  <2>4. QED
    BY <1>6, <2>2, <2>3, SaveEffect
<1>7. ASSUME NEW a \in Attempts, Finish(a) PROVE HolderKnows'
  <2>1. UNCHANGED excused
    BY <1>7 DEF Finish
  <2>2. QED
    BY <1>7, <2>1, FinishEffect DEF HolderKnows, Idle
<1>8. ASSUME NEW a \in Attempts, Stall(a) \/ HandBack(a) PROVE HolderKnows'
  BY <1>8, TakenAwayEffect DEF HolderKnows
<1>9. ASSUME NEW a \in Attempts, Crash(a) PROVE HolderKnows'
  <2>1. UNCHANGED job /\ excused \subseteq excused'
    BY <1>9 DEF Crash
  <2>2. QED
    BY <1>9, <2>1, CrashEffect DEF HolderKnows, Idle
<1>10. CASE UNCHANGED <<job, run>> /\ excused \subseteq excused'
  BY <1>10 DEF HolderKnows, Idle
<1>11. QED
  BY <1>1, <1>2, <1>4, <1>5, <1>6, <1>7, <1>8, <1>9, <1>10, NextCases, OfCallEffect
     DEF OfAttempt, GroupStep, vars

LEMMA SavedStep ==
  ASSUME TypeOK, PlacesOK, HolderKnows, DoneIsSaved, [Next]_vars
  PROVE  DoneIsSaved'
<1> USE ConstantsAssumption
<1>1. ASSUME NEW a \in Attempts, PickUp(a) PROVE DoneIsSaved'
  <2>1. UNCHANGED excused
    BY <1>1 DEF PickUp
  <2>2. QED
    BY <1>1, <2>1, PickUpEffect DEF DoneIsSaved, Idle
<1>2. ASSUME NEW a \in Attempts, NextStep(a) PROVE DoneIsSaved'
  <2>1. UNCHANGED <<job, excused>>
    BY <1>2 DEF NextStep
  <2>2. QED
    BY <1>2, <2>1, NextStepEffect DEF DoneIsSaved, Idle
<1>3. ASSUME NEW a \in Attempts, Settle(a) PROVE DoneIsSaved'
  <2>1. UNCHANGED <<job, excused>> /\ run[a].pc = "await"
    BY <1>3 DEF Settle
  <2>2. QED
    BY <1>3, <2>1, SettleEffect DEF DoneIsSaved, Idle
<1>4. ASSUME NEW a \in Attempts, Timeout(a) PROVE DoneIsSaved'
  <2>1. UNCHANGED <<job, excused>>
    BY <1>4 DEF Timeout
  <2>2. QED
    BY <1>4, <2>1, TimeoutEffect DEF DoneIsSaved, Idle
<1>5. ASSUME NEW a \in Attempts, SaveProgress(a) PROVE DoneIsSaved'
  <2>1. excused \subseteq excused'
    BY <1>5, SaveEffect
  <2>2. CASE job'.saved = run[a].known
    <3>1. \A s \in Steps \ excused' : job.saved[s] \in Done => run[a].known[s] \in Done
      BY <1>5, <2>1, <2>2, SaveEffect DEF HolderKnows, Idle
    <3>2. QED
      BY <1>5, <2>1, <2>2, <3>1, SaveEffect DEF DoneIsSaved, Idle
  <2>3. CASE job' = job /\ excused' = excused \cup {run[a].at}
    BY <1>5, <2>3, SaveEffect DEF DoneIsSaved, Idle
  <2>4. QED
    BY <1>5, <2>2, <2>3, SaveEffect
<1>6. ASSUME NEW a \in Attempts, Finish(a) PROVE DoneIsSaved'
  <2>1. UNCHANGED excused
    BY <1>6 DEF Finish
  <2>2. QED
    BY <1>6, <2>1, FinishEffect DEF DoneIsSaved, Idle
<1>7. ASSUME NEW a \in Attempts, Stall(a) \/ HandBack(a) PROVE DoneIsSaved'
  <2>1. UNCHANGED run
    BY <1>7 DEF Stall, HandBack
  <2>2. QED
    BY <1>7, <2>1, TakenAwayEffect DEF DoneIsSaved, Idle
<1>8. ASSUME NEW a \in Attempts, Crash(a) PROVE DoneIsSaved'
  <2>1. UNCHANGED job /\ excused \subseteq excused'
    BY <1>8 DEF Crash
  <2>2. QED
    BY <1>8, <2>1, CrashEffect DEF DoneIsSaved, Idle
<1>9. CASE UNCHANGED <<job, run>> /\ excused \subseteq excused'
  BY <1>9 DEF DoneIsSaved, Idle
<1>10. QED
  BY <1>1, <1>2, <1>3, <1>4, <1>5, <1>6, <1>7, <1>8, <1>9, NextCases, OfCallEffect
     DEF OfAttempt, GroupStep, vars

\* A success that was in the record stays there, or is excused.
LEMMA RecordedStep ==
  ASSUME TypeOK, PlacesOK, CallsHavePlaces, ReplacedArePast, HolderKnows, SuccessIsRecorded,
         [Next]_vars
  PROVE  SuccessIsRecorded'
<1> USE ConstantsAssumption
<1>1. ASSUME NEW a \in Attempts, PickUp(a) PROVE SuccessIsRecorded'
  <2>1. UNCHANGED <<ran, excused>>
    BY <1>1 DEF PickUp
  <2>2. \A b \in Attempts, s \in Steps : ~OnTheWay(b, s)
    BY <1>1, PickUpEffect DEF OnTheWay
  <2>3. job'.saved = job.saved
    BY <1>1, PickUpEffect
  <2>4. QED
    BY <2>1, <2>2, <2>3 DEF SuccessIsRecorded, Succeeded
\* An attempt that was not on its way, and takes no other off it.
<1>2. ASSUME NEW a \in Attempts, UNCHANGED <<ran, excused>>, UNCHANGED <<job.by, job.saved>>,
             \A s \in Steps : ~OnTheWay(a, s),
             \A b \in Attempts \ {a} : run'[b] = run[b] /\ call'[b] = call[b]
      PROVE  SuccessIsRecorded'
  BY <1>2 DEF SuccessIsRecorded, Succeeded, OnTheWay
<1>3. ASSUME NEW a \in Attempts, NextStep(a) PROVE SuccessIsRecorded'
  <2>1. UNCHANGED <<job, ran, excused>> /\ run[a].pc = "next"
    BY <1>3 DEF NextStep
  <2>2. \A b \in Attempts \ {a} : run'[b] = run[b] /\ call'[b] = call[b]
    BY <1>3, NextStepEffect DEF TypeOK
  <2>3. QED
    BY <1>2, <2>1, <2>2 DEF OnTheWay
<1>4. ASSUME NEW a \in Attempts, Settle(a) PROVE SuccessIsRecorded'
  <2>1. UNCHANGED <<job, ran, excused>> /\ run[a].pc = "await"
    BY <1>4 DEF Settle
  <2>2. \A b \in Attempts \ {a} : run'[b] = run[b] /\ call'[b] = call[b]
    BY <1>4, SettleEffect DEF TypeOK
  <2>3. CASE call[a][run[a].at] = "ran"
    <3>1. run'[a].at = run[a].at /\ run'[a].pc = "save" /\ run'[a].known[run[a].at] = "ok"
      BY <1>4, <2>3, SettleEffect
    <3>2. \A b \in Attempts, s \in Steps : OnTheWay(b, s) => OnTheWay(b, s)'
      BY <2>1, <2>2, <2>3, <3>1 DEF OnTheWay
    <3>3. QED
      BY <2>1, <3>2 DEF SuccessIsRecorded, Succeeded
  <2>4. CASE call[a][run[a].at] # "ran"
    BY <1>2, <2>1, <2>2, <2>4 DEF OnTheWay
  <2>5. QED
    BY <2>3, <2>4
<1>5. ASSUME NEW a \in Attempts, Timeout(a) PROVE SuccessIsRecorded'
  <2>1. UNCHANGED <<job, call, ran, excused>>
    BY <1>5 DEF Timeout
  <2>2. \A s \in Steps : ~OnTheWay(a, s)
    BY <1>5, TimeoutEffect DEF OnTheWay, Running
  <2>3. QED
    BY <1>2, <1>5, <2>1, <2>2, TimeoutEffect
<1>6. ASSUME NEW a \in Attempts, SaveProgress(a) PROVE SuccessIsRecorded'
  <2>1. UNCHANGED <<call, ran>> /\ excused \subseteq excused'
    BY <1>6, SaveEffect DEF SaveProgress
  <2>2. \A b \in Attempts \ {a}, s \in Steps : OnTheWay(b, s) => OnTheWay(b, s)'
    BY <1>6, <2>1, SaveEffect DEF OnTheWay
  <2>3. CASE job'.saved = run[a].known
    <3>1. \A s \in Steps \ excused' : job.saved[s] \in Done => run[a].known[s] \in Done
      BY <1>6, <2>1, <2>3, SaveEffect DEF HolderKnows, Idle
    <3>2. \A s \in Steps : OnTheWay(a, s) => run[a].known[s] \in Done
      BY <1>6, SaveEffect DEF OnTheWay, Done
    <3>3. QED
      BY <2>1, <2>2, <2>3, <3>1, <3>2 DEF SuccessIsRecorded, Succeeded
  <2>4. CASE job' = job /\ excused' = excused \cup {run[a].at}
    <3>1. \A s \in Steps : OnTheWay(a, s) => s \in excused'
      BY <2>4 DEF OnTheWay
    <3>2. QED
      BY <2>1, <2>2, <2>4, <3>1 DEF SuccessIsRecorded, Succeeded
  <2>5. QED
    BY <1>6, <2>3, <2>4, SaveEffect
<1>7. ASSUME NEW a \in Attempts, Finish(a) PROVE SuccessIsRecorded'
  <2>1. UNCHANGED <<call, ran, excused>>
    BY <1>7 DEF Finish
  <2>2. \A s \in Steps : ~OnTheWay(a, s)
    BY <1>7, FinishEffect DEF OnTheWay
  <2>3. QED
    BY <1>2, <1>7, <2>1, <2>2, FinishEffect
<1>8. ASSUME NEW a \in Attempts, Stall(a) \/ HandBack(a) PROVE SuccessIsRecorded'
  <2>1. UNCHANGED <<run, call, ran>>
    BY <1>8 DEF Stall, HandBack
  <2>2. excused \subseteq excused'
    BY <1>8, TakenAwayEffect
  <2>3. \A b \in Attempts, s \in Steps : OnTheWay(b, s) => s \in Ahead(a) /\ run[a].pc # "dead"
    BY <1>8, TakenAwayEffect DEF OnTheWay, Ahead, Steps, TypeOK, RunType
  <2>4. \A b \in Attempts, s \in Steps : OnTheWay(b, s) => s \in excused'
    BY <1>8, <2>3, TakenAwayEffect
  <2>5. QED
    BY <1>8, <2>1, <2>2, <2>4, TakenAwayEffect DEF SuccessIsRecorded, Succeeded
<1>9. ASSUME NEW a \in Attempts, Crash(a) PROVE SuccessIsRecorded'
  <2>1. UNCHANGED <<job, ran>> /\ excused \subseteq excused'
    BY <1>9 DEF Crash
  <2>2. \A s \in Steps : OnTheWay(a, s) => job.saved[s] \in Done \/ s \in excused'
    BY <1>9 DEF Crash, OnTheWay
  <2>3. \A b \in Attempts \ {a} : call'[b] = call[b]
    BY <1>9 DEF Crash, TypeOK
  <2>4. \A b \in Attempts \ {a}, s \in Steps : OnTheWay(b, s) => OnTheWay(b, s)'
    BY <1>9, <2>1, <2>3, CrashEffect DEF OnTheWay
  <2>5. QED
    BY <2>1, <2>2, <2>4 DEF SuccessIsRecorded, Succeeded
<1>10. ASSUME NEW a \in Attempts, NEW s \in Steps, OfCall(a, s) PROVE SuccessIsRecorded'
  <2>1. \A b \in Attempts, r \in Steps : OnTheWay(b, r) => OnTheWay(b, r)'
    BY <1>10, OfCallEffect DEF OnTheWay, Running
  <2>2. CASE HandlerReturns(a, s) /\ s \notin excused'
    <3>1. Awaited(a, s) /\ call[a][s] = "inside"
      BY <2>2 DEF HandlerReturns
    <3>2. job.by = a
      BY <2>2, <3>1 DEF ReplacedArePast, Idle, Running, Awaited, HandlerReturns
    <3>3. EndsWell(a, s) => OnTheWay(a, s)'
      BY <2>2, <3>1, <3>2 DEF HandlerReturns, Answer, Awaited, OnTheWay, TypeOK
    <3>4. \A r \in Steps : Succeeded(r)' => Succeeded(r) \/ (r = s /\ EndsWell(a, s))
      BY <2>2 DEF HandlerReturns, Succeeded
    <3>5. QED
      BY <1>10, <2>1, <3>3, <3>4, OfCallEffect DEF SuccessIsRecorded
  <2>3. CASE HandlerReturns(a, s) /\ s \in excused'
    <3>1. \A r \in Steps : Succeeded(r)' => Succeeded(r) \/ r = s
      BY <2>3 DEF HandlerReturns, Succeeded
    <3>2. QED
      BY <1>10, <2>1, <2>3, <3>1, OfCallEffect DEF SuccessIsRecorded
  <2>4. CASE UNCHANGED <<ran, excused>>
    BY <1>10, <2>1, <2>4, OfCallEffect DEF SuccessIsRecorded, Succeeded
  <2>5. QED
    BY <1>10, <2>2, <2>3, <2>4 DEF OfCall, Enter, FindLocked, HandlerThrows, LoseLock
<1>11. CASE UNCHANGED vars
  BY <1>11 DEF SuccessIsRecorded, Succeeded, OnTheWay, vars
<1>12. QED
  BY <1>1, <1>3, <1>4, <1>5, <1>6, <1>7, <1>8, <1>9, <1>10, <1>11, NextCases
     DEF OfAttempt, GroupStep

\* The handler of a step that has succeeded is entered by nobody: an attempt
\* without the job is past the step, and the one with the job knows.
LEMMA NotRepeatedStep ==
  ASSUME IInv, [Next]_vars
  PROVE  SuccessIsNotRepeated'
<1> USE ConstantsAssumption
<1>1. ASSUME NEW a \in Attempts, NEW s \in Steps \ excused, Enter(a, s), Succeeded(s)
      PROVE  FALSE
  <2>1. call[a][s] = "asking"
    BY <1>1 DEF Enter
  <2>2. \/ run[a].pc = "await" /\ run[a].at = s /\ run[a].known[s] \notin Done
        \/ /\ run[a].known[s] = "timed-out"
           /\ s < run[a].at \/ (s = run[a].at /\ run[a].pc = "save")
    BY <2>1 DEF IInv, CallsHavePlaces, PlacesOK, None
  <2>3. ~Idle(a)
    BY <2>2 DEF IInv, PlacesOK, Idle, Steps
  <2>4. job.by = a
    BY <2>1, <2>3 DEF IInv, ReplacedArePast, Running
  <2>5. run[a].known[s] \notin Done
    BY <2>2 DEF Done
  <2>6. job.saved[s] \notin Done
    BY <2>3, <2>4, <2>5 DEF IInv, HolderKnows
  <2>7. PICK b \in Attempts : OnTheWay(b, s)
    BY <1>1, <2>6 DEF IInv, SuccessIsRecorded
  <2>8. QED
    BY <2>1, <2>4, <2>5, <2>7 DEF OnTheWay, Done
<1>2. ASSUME NEW a \in Attempts, NEW s \in Steps, Enter(a, s) PROVE SuccessIsNotRepeated'
  <2>1. repeated' \subseteq repeated \cup {s} /\ UNCHANGED excused
    BY <1>2 DEF Enter
  <2>2. s \notin excused => repeated' = repeated
    BY <1>1, <1>2 DEF Enter, Succeeded
  <2>3. QED
    BY <2>1, <2>2 DEF IInv, SuccessIsNotRepeated
<1>3. CASE UNCHANGED repeated /\ excused \subseteq excused'
  BY <1>3 DEF IInv, SuccessIsNotRepeated
<1>4. ASSUME NEW a \in Attempts, OfAttempt(a) PROVE UNCHANGED repeated /\ excused \subseteq excused'
  BY <1>4 DEF OfAttempt, GroupStep, PickUp, NextStep, Settle, Timeout, SaveProgress, Finish, Stall,
              HandBack, Crash
<1>5. ASSUME NEW a \in Attempts, NEW s \in Steps, OfCall(a, s)
      PROVE  Enter(a, s) \/ (UNCHANGED repeated /\ excused \subseteq excused')
  BY <1>5 DEF OfCall, FindLocked, HandlerReturns, HandlerThrows, LoseLock
<1>6. QED
  BY <1>2, <1>3, <1>4, <1>5, NextCases DEF vars

-----------------------------------------------------------------------------
LEMMA InitInv == Init => IInv
<1> SUFFICES ASSUME Init PROVE IInv
  OBVIOUS
<1> USE ConstantsAssumption DEF Init
<1>1. TypeOK
  <2>1. Blank \in [Steps -> Statuses \cup {None}] /\ Blank \in [Steps -> CallStates]
    BY DEF Blank, CallStates
  <2>2. 1 \in 1..(N + 1) /\ 0 \in 0..Tries /\ 0 \in 0..MaxStalled /\ 0 \in 0..Budget
    OBVIOUS
  <2>3. Fresh \in RunType /\ job \in JobType
    BY <2>1, <2>2 DEF Fresh, RunType, JobType
  <2>4. QED
    BY <2>1, <2>2, <2>3 DEF TypeOK
<1>2. /\ \A a \in Attempts : run[a].pc = "fresh" /\ run[a].at = 1
      /\ \A a \in Attempts, s \in Steps : run[a].known[s] = None /\ call[a][s] = None
      /\ \A s \in Steps : job.saved[s] = None
      /\ job.by = None /\ job.state = "waiting"
  BY DEF Fresh, Blank
<1>3. PlacesOK
  BY <1>2 DEF PlacesOK, Idle, Steps
<1>4. CallsHavePlaces /\ HandlersHaveLocks /\ OkIsEarned /\ BeatsAreEarned
  BY <1>2 DEF CallsHavePlaces, HandlersHaveLocks, OkIsEarned, BeatsAreEarned, None
<1>5. ReplacedArePast /\ HolderKnows /\ DoneIsSaved
  BY <1>2 DEF ReplacedArePast, HolderKnows, DoneIsSaved, Idle
<1>6. SuccessIsRecorded /\ SuccessIsNotRepeated
  BY DEF SuccessIsRecorded, Succeeded, SuccessIsNotRepeated
<1>7. QED
  BY <1>1, <1>3, <1>4, <1>5, <1>6 DEF IInv

LEMMA StepInv == IInv /\ [Next]_vars => IInv'
<1> SUFFICES ASSUME IInv, [Next]_vars PROVE IInv'
  OBVIOUS
<1> QED
  BY TypeStep, PlacesStep, CallsStep, LocksStep, OkStep, BeatsStep, PastStep, KnowsStep,
     SavedStep, RecordedStep, NotRepeatedStep DEF IInv

THEOREM Invariance == Spec => []IInv
BY InitInv, StepInv, PTL DEF Spec

\* Types: every variable of JobGroup keeps its type, whatever times out, stalls
\* or dies (scheduled-job-group.ts process, the queue's stalled check).
THEOREM TypeCorrect == Spec => []TypeOK
<1>1. IInv => TypeOK
  BY DEF IInv
<1>2. QED
  BY <1>1, Invariance, PTL

\* The lock of a step keeps its handlers apart (scheduled-job-processor.ts
\* execute), for every number of attempts that are alive at once.
THEOREM HandlersAreApart == Spec => []OneHandlerPerLock
<1>1. IInv => OneHandlerPerLock
  BY DEF IInv, HandlersHaveLocks, OneHandlerPerLock
<1>2. QED
  BY <1>1, Invariance, PTL

\* The loop of process() lets a step in beside an earlier one of its attempt only
\* after the earlier one's deadline.
THEOREM StepsAreInOrder == Spec => []LaterStepsWait
<1>1. IInv => LaterStepsWait
  BY ConstantsAssumption DEF IInv, CallsHavePlaces, LaterStepsWait, Running, Steps, None
<1>2. QED
  BY <1>1, Invariance, PTL

\* The record that saveProgress writes and process() starts from keeps a retried
\* group from entering a step that has succeeded, but for the excuses the model
\* names.
THEOREM RetriesSkipSuccesses == Spec => []SuccessIsNotRepeated
<1>1. IInv => SuccessIsNotRepeated
  BY DEF IInv
<1>2. QED
  BY <1>1, Invariance, PTL

\* A record that says ok and a group heartbeat that says success tell the truth
\* about every step that was neither locked nor off.
THEOREM SuccessesAreEarned == Spec => []SuccessIsEarned
<1>1. IInv => SuccessIsEarned
  BY DEF IInv, OkIsEarned, BeatsAreEarned, SuccessIsEarned, Succeeded, TypeOK
<1>2. QED
  BY <1>1, Invariance, PTL
=============================================================================
