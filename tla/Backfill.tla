------------------------------ MODULE Backfill ------------------------------
(***************************************************************************)
(* The rebuild of one user's portfolio history.  A change to the ledger    *)
(* makes the stored rows of some past days stale and asks the queue for a  *)
(* rebuild; requests coalesce onto a few job ids; a rebuild walks the days *)
(* back from today, a chunk at a time, and may be put behind a lock, put   *)
(* off for memory, fail, or die on the way.                                *)
(*                                                                         *)
(* A day is its distance from today, 1 being today, so a window is the     *)
(* number of days it reaches back.  A row is the set of changes its value  *)
(* was computed from.  The ledger's records begin at a day of their own; a *)
(* walk past it deletes the rows of the days before its window.            *)
(***************************************************************************)
EXTENDS Naturals

CONSTANTS
  Changes,        \* ledger changes, each asking for a rebuild
  Days,           \* the longest window
  Chunk,          \* days one rollup call walks (PORTFOLIO_HISTORY_CHUNK_DAYS)
  Slots,          \* rebuild jobs that run at one time
  CoalesceSlots,  \* ids a base may use before a unique one (COALESCE_SLOTS)
  DeferMax,       \* memory deferrals in one chain (MEMORY_DEFER_MAX)
  FreshIds,       \* bound: unique ids a behaviour may need
  Attempts,       \* attempts of one job (RETRY_HEAVY)
  Events,         \* the budgeted events that may happen ...
  Budget,         \* ... and bound: how many of them a behaviour may hold
  Firsts,         \* bound: where the ledger's records may begin at first
  Phases,         \* the cause of what a rebuild's own phases change
  Cron,           \* the nightly rollup ...
  CronDays,       \* ... and the days it looks back
  Nobody

Budgeted == {"fault", "die", "memory", "sessions", "late", "enqueueFault", "shift",
             "midnight", "cron"}

ASSUME ConstantsAssumption ==
  /\ Days \in Nat \ {0} /\ Chunk \in Nat \ {0}
  /\ CoalesceSlots \in Nat \ {0} /\ DeferMax \in Nat /\ CronDays \in 1..Days /\ FreshIds \in Nat
  /\ Attempts \in Nat \ {0}
  /\ Events \subseteq Budgeted /\ Budget \in Nat
  /\ Firsts \subseteq 0..Days
  /\ Phases \notin Changes
  /\ Changes \cap Slots = {}
  /\ Cron \notin Slots
  /\ Nobody \notin Slots \cup {Cron}

VARIABLES
  reach,   \* per cause, how many days back it touches; 0 before it happens
  past,    \* the day of the user's earliest record; 0 with none
  row,     \* per day, the causes its stored row, or its absence, reflects
  jobs,    \* the queue's entries by id
  run,     \* per slot, where its rebuild is
  enq,     \* per asker, where its enqueue is
  lock,    \* holder of the user's backfill lock
  rollup,  \* holder of the user's rollup lock
  seen,    \* per roller, the causes its last read of the ledger saw
  missed,  \* history: <<cause, day>> pairs a code path has let go of
  spent    \* how many budgeted events have happened

vars == <<reach, past, row, jobs, run, enq, lock, rollup, seen, missed, spent>>

-----------------------------------------------------------------------------
Causes == Changes \cup {Phases}
Askers == Changes \cup Slots
Rollers == Slots \cup {Cron}

LesserOf(a, b) == IF a <= b THEN a ELSE b
GreaterOf(a, b) == IF a >= b THEN a ELSE b

\* An absent fromDay asks for the whole window, whatever the lookback.
Whole == Days + 1

\* resume: the payload carries rollupProgress; at: its nextDayOffset.
Payload == [from: 1..Whole, look: 1..Days, resume: BOOLEAN, at: 0..Days]

Ask(from, look) == [from |-> from, look |-> look, resume |-> FALSE, at |-> 0]

\* Mutant: a start given wins over the whole window.
NarrowFromDay(a, b) == LesserOf(a, b)

\* rebuildWindowDays, and the days of it a payload has walked.
WindowDays(p) == LesserOf(p.look, p.from)
Walked(p) == IF p.resume THEN p.at ELSE 0

\* A walk of this many days that ends before the earliest record deletes the
\* rows further back: rows no rebuild would write again.
Clears(days, first) == first < days

\* The days a payload still has to walk, or to clear.
DaysLeft(p, first) == {d \in 1..Days :
  /\ Walked(p) < d /\ Walked(p) < WindowDays(p)
  /\ d <= WindowDays(p) \/ Clears(WindowDays(p), first)}

Window(p) == DaysLeft(p, past)

MergeFromDay(a, b) == GreaterOf(a, b)

\* absorbWindow: the pending payload, widened to what joins it.
Absorbed(pending, joining) ==
  [pending EXCEPT !.from = MergeFromDay(@, joining.from),
                  !.look = GreaterOf(@, joining.look)]

Bases == {"mutation", "import", "retry"}
Ids == (Bases \X (1..CoalesceSlots))
         \cup ({"deferred"} \X (1..DeferMax)) \cup ({"fresh"} \X (1..FreshIds))
NoId == <<"none", 0>>

\* A finished entry, which the next add of its id evicts, counts as none.
Entry == [st: {"none", "pending", "active"}, pay: Payload, made: Nat,
          holder: Slots \cup {Nobody}]
NoEntry == [st |-> "none", pay |-> Ask(1, 1), made |-> 0, holder |-> Nobody]

Pending(p) == [st |-> "pending", pay |-> p, made |-> 0, holder |-> Nobody]

\* got: the pending payload absorbWindow has read.
EnqType == [pc: {"off", "look", "read", "write", "add"}, id: Ids \cup {NoId}, pay: Payload,
            got: Payload]
NotAsking == [pc |-> "off", id |-> NoId, pay |-> Ask(1, 1), got |-> Ask(1, 1)]

Asking(base, p) == [NotAsking EXCEPT !.pc = "look", !.id = <<base, 1>>, !.pay = p]

\* day: the next day the current chunk writes.  skip: the backfill lock was
\* held; behind: a rebuild is handing over what is left of it to another job.
RunType == [pc: {"idle", "lock", "phases", "start", "chunk", "write", "mark", "skip",
                 "behind"},
            id: Ids \cup {NoId}, pay: Payload, day: 1..Whole]
Idle == [pc |-> "idle", id |-> NoId, pay |-> Ask(1, 1), day |-> 1]

\* The queue will still hand the job out: it is pending, or its worker died.
Waits(id) ==
  \/ jobs[id].st = "pending"
  \/ jobs[id].st = "active" /\ jobs[id].holder = Nobody

Happened == {c \in Causes : reach[c] > 0}
Stale(c, d) == d <= reach[c] /\ c \notin row[d]

\* A path that drops days leaves them as they are.
Misses(days) == missed' = missed \cup {m \in Causes \X days : Stale(m[1], m[2])}

\* What is let go of, until a row is written with it after all.
Healed(days, x) == {m \in missed : m[2] \notin days \/ m[1] \notin seen[x]}

Spend(event) == event \in Events /\ spent < Budget /\ spent' = spent + 1

Init ==
  /\ reach = [c \in Causes |-> 0]
  /\ past \in Firsts
  /\ row = [d \in 1..Days |-> {}]
  /\ jobs = [id \in Ids |-> NoEntry]
  /\ run = [w \in Slots |-> Idle]
  /\ enq = [a \in Askers |-> NotAsking]
  /\ lock = Nobody
  /\ rollup = Nobody
  /\ seen = [x \in Rollers |-> {}]
  /\ missed = {}
  /\ spent = 0

-----------------------------------------------------------------------------
\* enqueuePortfolioRollup: a mutation names the day and the full history;
\* afterLedgerRows: an import names a lookback and no day.
Requests(r) ==
  {<<"mutation", Ask(r, Days)>>} \cup {<<"import", Ask(Whole, look)>> : look \in r..Days}

\* What r days of the ledger may change: records further back stay, and of the
\* days changed any may have become the first with a record, or none.
Earliest(r) == IF r < past THEN {past} ELSE 0..r

\* Under way: the payloads of the queue, of the asks and of the rebuilds.
UnderWay == {jobs[id].pay : id \in {x \in Ids : Waits(x)}}
              \cup {enq[a].pay : a \in {x \in Askers : enq[x].pc # "off"}}
              \cup {run[w].pay : w \in {x \in Slots : run[x].pc # "idle"}}

\* A record put before the end of a window that was to clear what lies beyond
\* keeps it from clearing: the days beyond are let go of.
Outrun(r, first) ==
  {d \in 1..Days : r < d /\ \E p \in UnderWay :
     Clears(WindowDays(p), past) /\ ~Clears(WindowDays(p), first)}

Commit(c) ==
  /\ reach[c] = 0
  /\ \E r \in 1..Days : \E q \in Requests(r) : \E first \in Earliest(r) :
       /\ reach' = [reach EXCEPT ![c] = r]
       /\ past' = first
       /\ enq' = [enq EXCEPT ![c] = Asking(q[1], q[2])]
       /\ Misses(Outrun(r, first))
  /\ UNCHANGED <<row, jobs, run, lock, rollup, seen, spent>>

\* enqueueCoalescedBackfill: the first slot whose job is not active; with all
\* of them running, an id of its own.
LookAtSlot(a) ==
  LET id == enq[a].id
      st == jobs[id].st
      Goto(pc, to) == enq' = [enq EXCEPT ![a].pc = pc, ![a].id = to]
  IN /\ enq[a].pc = "look"
     /\ \/ st = "active" /\ id[2] < CoalesceSlots /\ Goto("look", <<id[1], id[2] + 1>>)
        \/ /\ st = "active" /\ id[2] = CoalesceSlots
           /\ \E k \in 1..FreshIds :
                /\ jobs[<<"fresh", k>>].st = "none"
                /\ \A b \in Askers : enq[b].id # <<"fresh", k>>
                /\ Goto("add", <<"fresh", k>>)
        \/ st = "pending" /\ Goto("read", id)
        \/ st = "none" /\ Goto("add", id)
     /\ UNCHANGED <<reach, past, row, jobs, run, lock, rollup, seen, missed, spent>>

\* absorbWindow reads the pending payload ...
ReadPending(a) ==
  LET entry == jobs[enq[a].id]
  IN /\ enq[a].pc = "read"
     /\ enq' = IF entry.st = "none" \/ Absorbed(entry.pay, enq[a].pay) = entry.pay
               THEN [enq EXCEPT ![a].pc = "add"]
               ELSE [enq EXCEPT ![a].pc = "write", ![a].got = entry.pay]
     /\ UNCHANGED <<reach, past, row, jobs, run, lock, rollup, seen, missed, spent>>

\* ... and writes it back widened, into whatever the job has become.  What has
\* joined a waiting job since the read is let go of.
WritePending(a) ==
  LET id == enq[a].id
      joined == IF Waits(id) THEN Window(jobs[id].pay) \ Window(enq[a].got) ELSE {}
  IN /\ enq[a].pc = "write"
     /\ jobs' = [jobs EXCEPT ![id].pay = Absorbed(enq[a].got, enq[a].pay)]
     /\ enq' = [enq EXCEPT ![a].pc = "add", ![a].got = NotAsking.got]
     /\ Misses(joined)
     /\ UNCHANGED <<reach, past, row, run, lock, rollup, seen, spent>>

\* The add evicts a finished namesake and collapses onto a live one.  What the
\* live one will not walk is let go of.
AddJob(a) ==
  LET id == enq[a].id
      entry == jobs[id]
      live == entry.st \in {"pending", "active"}
      kept == IF entry.st = "pending" THEN Window(entry.pay) ELSE {}
  IN /\ enq[a].pc = "add"
     /\ enq' = [enq EXCEPT ![a] = NotAsking]
     /\ IF live
        THEN Misses(Window(enq[a].pay) \ kept) /\ UNCHANGED jobs
        ELSE jobs' = [jobs EXCEPT ![id] = Pending(enq[a].pay)] /\ UNCHANGED missed
     /\ UNCHANGED <<reach, past, row, run, lock, rollup, seen, spent>>

-----------------------------------------------------------------------------
\* A rebuild: PortfolioHistoryBackfillProcessor.handle.

Goto(w, pc) == run' = [run EXCEPT ![w].pc = pc]

PickUp(w) ==
  /\ run[w].pc = "idle"
  /\ \E id \in Ids :
       /\ jobs[id].st = "pending"
       /\ jobs' = [jobs EXCEPT ![id].st = "active", ![id].holder = w]
       /\ run' = [run EXCEPT ![w].pc = "lock", ![w].id = id, ![w].pay = jobs[id].pay]
  /\ UNCHANGED <<reach, past, row, enq, lock, rollup, seen, missed, spent>>

\* withJobLock, then resumableProgress: saved progress counts on the UTC day
\* it was laid out on.
TakeLock(w) ==
  /\ run[w].pc = "lock" /\ lock = Nobody
  /\ lock' = w
  /\ \/ run[w].pay.resume /\ Goto(w, "chunk") /\ UNCHANGED spent
     \/ /\ run[w].pay.resume => Spend("midnight")
        /\ ~run[w].pay.resume => UNCHANGED spent
        /\ run' = [run EXCEPT ![w].pc = "phases", ![w].pay.resume = FALSE, ![w].pay.at = 0]
  /\ UNCHANGED <<reach, past, row, jobs, enq, rollup, seen, missed>>

\* scheduleLockHeldRetry: the same window, from the start.
ScheduleLockHeldRetry(w) ==
  enq' = [enq EXCEPT ![w] = Asking("retry", Ask(run[w].pay.from, run[w].pay.look))]

LockHeld(w) ==
  /\ run[w].pc = "lock" /\ lock # Nobody
  /\ ScheduleLockHeldRetry(w)
  /\ Goto(w, "skip")
  /\ UNCHANGED <<reach, past, row, jobs, lock, rollup, seen, missed, spent>>

\* boundToHistory: no further back than the day before the earliest record.
Bounded(look, first) == LesserOf(look, first + 1)

\* What the phases change, at r days back, lies beyond this rebuild's lookback.
Beyond(look, r) ==
  {m \in Causes \X (1..r) : look < m[2] /\ (m[1] = Phases \/ Stale(m[1], m[2]))}

\* Mutant: the start given is kept, whatever the phases changed.
RunPhasesKeepingStart(w) ==
  /\ run[w].pc = "phases"
  /\ \/ /\ run' = [run EXCEPT ![w].pc = "start", ![w].pay.look = Bounded(@, past)]
        /\ UNCHANGED <<reach, past, spent, missed>>
     \/ /\ Spend("fault") /\ Goto(w, "start")
        /\ UNCHANGED <<reach, past, missed>>
     \/ /\ Spend("shift") /\ reach[Phases] = 0
        /\ \E r \in 1..Days : \E first \in Earliest(r) :
             /\ reach' = [reach EXCEPT ![Phases] = r]
             /\ past' = first
             /\ run' = [run EXCEPT ![w].pc = "start", ![w].pay.look = Bounded(@, first)]
             /\ missed' = missed \cup Beyond(run[w].pay.look, r)
  /\ UNCHANGED <<row, jobs, enq, lock, rollup, seen>>

\* Openings, transfer links and prices: they may change days further back than
\* the trigger did, and the start follows them, all the way back when a phase
\* fails without saying how far it got.  The lookback is narrowed, or kept when
\* the span cannot be read; what lies beyond the one asked for is let go of.
RunPhases(w) ==
  /\ run[w].pc = "phases"
  /\ \/ /\ run' = [run EXCEPT ![w].pc = "start", ![w].pay.look = Bounded(@, past)]
        /\ UNCHANGED <<reach, past, spent, missed>>
     \/ /\ Spend("fault") /\ Goto(w, "start")
        /\ UNCHANGED <<reach, past, missed>>
     \/ /\ Spend("shift") /\ reach[Phases] = 0
        /\ \E r \in 1..Days, known \in BOOLEAN : \E first \in Earliest(r) :
             /\ reach' = [reach EXCEPT ![Phases] = r]
             /\ past' = first
             /\ run' = [run EXCEPT ![w].pc = "start", ![w].pay.look = Bounded(@, first),
                  ![w].pay.from = IF known THEN MergeFromDay(@, r) ELSE Whole]
             /\ missed' = missed \cup Beyond(run[w].pay.look, r)
                  \cup {m \in Causes \X Outrun(r, first) : Stale(m[1], m[2])}
  /\ UNCHANGED <<row, jobs, enq, lock, rollup, seen>>

\* saveProgress rewrites the job's data with what this attempt knows.
Save(w, at) ==
  /\ jobs' = [jobs EXCEPT ![run[w].id].pay = [run[w].pay EXCEPT !.resume = TRUE, !.at = at]]
  /\ run' = [run EXCEPT ![w].pc = "chunk", ![w].pay.resume = TRUE, ![w].pay.at = at]

SaveStart(w) ==
  /\ run[w].pc = "start"
  /\ Save(w, 0)
  /\ UNCHANGED <<reach, past, row, enq, lock, rollup, seen, missed, spent>>

MoreDays(w) == run[w].pc = "chunk" /\ run[w].pay.at < WindowDays(run[w].pay)
ChunkEnd(w) == LesserOf(WindowDays(run[w].pay), run[w].pay.at + Chunk)

\* One chunk: take the rollup lock, read the ledger ...
RollupReads(w) ==
  /\ MoreDays(w) /\ rollup = Nobody
  /\ rollup' = w
  /\ seen' = [seen EXCEPT ![w] = Happened]
  /\ run' = [run EXCEPT ![w].pc = "write", ![w].day = run[w].pay.at + 1]
  /\ UNCHANGED <<reach, past, row, jobs, enq, lock, missed, spent>>

\* The end of a chunk releases the lock and forgets what was read.
LeaveChunk(w) ==
  /\ run' = [run EXCEPT ![w].pc = "mark", ![w].day = 1]
  /\ seen' = [seen EXCEPT ![w] = {}]
  /\ rollup' = IF rollup = w THEN Nobody ELSE rollup

\* The chunk that holds the window's last day.
LastChunk(w) == ChunkEnd(w) = WindowDays(run[w].pay)

\* What is left of a chunk: its days from here on and, at the window's end, the
\* rows before it.
LeftOfChunk(w) == {d \in 1..Days :
  /\ run[w].day <= d
  /\ d <= ChunkEnd(w) \/ (LastChunk(w) /\ Clears(ChunkEnd(w), past))}

\* The rows the next statement is about: a day's, or all before the window.
Touched(w) == IF run[w].day <= ChunkEnd(w) THEN {run[w].day} ELSE LeftOfChunk(w)

\* A chunk has a statement a day and, after the window's last day, the delete.
LastStatement(w) == ChunkEnd(w) + (IF LastChunk(w) THEN 1 ELSE 0)

WriteDay(w) ==
  /\ row' = [d \in 1..Days |-> IF d \in Touched(w) THEN seen[w] ELSE row[d]]
  /\ IF run[w].day = LastStatement(w) THEN LeaveChunk(w)
     ELSE run' = [run EXCEPT ![w].day = @ + 1] /\ UNCHANGED <<seen, rollup>>

\* What a write leaves stale where it writes.
Unseen(w) ==
  {m \in Causes \X Touched(w) : m[1] \notin seen[w] /\ m[2] <= reach[m[1]]}

\* Mutant: a lost lock is not noticed.
RollupWritesBlindly(w) ==
  /\ run[w].pc = "write"
  /\ WriteDay(w)
  /\ missed' = Healed(Touched(w), w) \cup (IF rollup = w THEN {} ELSE Unseen(w))
  /\ UNCHANGED <<reach, past, jobs, enq, lock, spent>>

\* ... write the rows, the nearest day first, and after the window's last day
\* delete those before it, asserting the lock before each; and release it.
RollupWrites(w) ==
  /\ run[w].pc = "write" /\ rollup = w
  /\ WriteDay(w)
  /\ missed' = Healed(Touched(w), w)
  /\ UNCHANGED <<reach, past, jobs, enq, lock, spent>>

\* The lock may go between the assertion and the write, which autocommits; the
\* next assertion breaks the chunk off.
RollupWritesLate(w) ==
  /\ run[w].pc = "write" /\ rollup # w /\ "late" \in Events
  /\ row' = [d \in 1..Days |-> IF d \in Touched(w) THEN seen[w] ELSE row[d]]
  /\ missed' = Healed(Touched(w), w) \cup Unseen(w) \cup
       {m \in Causes \X (LeftOfChunk(w) \ Touched(w)) : Stale(m[1], m[2])}
  /\ LeaveChunk(w)
  /\ UNCHANGED <<reach, past, jobs, enq, lock, spent>>

\* A rollup that breaks off, or finds its lock lost, leaves the rest of its
\* chunk unwritten.  It reports the error in its summary, and the walk goes on
\* to the next chunk.
RollupBreaks(w) ==
  /\ run[w].pc = "write"
  /\ IF rollup = w THEN Spend("fault") ELSE UNCHANGED spent
  /\ Misses(LeftOfChunk(w))
  /\ LeaveChunk(w)
  /\ UNCHANGED <<reach, past, row, jobs, enq, lock>>

SaveChunk(w) ==
  /\ run[w].pc = "mark"
  /\ Save(w, ChunkEnd(w))
  /\ UNCHANGED <<reach, past, row, enq, lock, rollup, seen, missed, spent>>

\* RollupLockHeld: the lock stayed held past the waits; the rebuild is queued
\* again behind the holder.
RollupLockHeld(w) ==
  /\ MoreDays(w) /\ rollup # Nobody
  /\ ScheduleLockHeldRetry(w)
  /\ Goto(w, "behind")
  /\ UNCHANGED <<reach, past, row, jobs, lock, rollup, seen, missed, spent>>

\* An attempt that throws: the queue runs it again from the data it holds, or
\* gives up on it.
Fail(w) ==
  LET entry == jobs[run[w].id]
      dead == entry.made + 1 >= Attempts
  IN /\ jobs' = [jobs EXCEPT ![run[w].id] =
          IF dead THEN NoEntry ELSE [Pending(entry.pay) EXCEPT !.made = entry.made + 1]]
     /\ Misses((IF dead THEN Window(run[w].pay) \cup Window(entry.pay)
                        ELSE Window(run[w].pay) \ Window(entry.pay)))
     /\ run' = [run EXCEPT ![w] = Idle]
     /\ enq' = [enq EXCEPT ![w] = NotAsking]
     /\ lock' = IF lock = w THEN Nobody ELSE lock
     /\ rollup' = IF rollup = w THEN Nobody ELSE rollup
     /\ seen' = [seen EXCEPT ![w] = {}]

ChainLink(id) == IF id[1] = "deferred" THEN id[2] ELSE 0

\* nextMemoryDeferRequestId: null at the bound.
MayDefer(id) == ChainLink(id) < DeferMax

\* RollupMemoryStop: the rest of the window goes to the next link of the
\* chain, or the stop is thrown at its end.
MemoryStop(w) ==
  /\ MoreDays(w) /\ Spend("memory")
  /\ IF MayDefer(run[w].id)
     THEN /\ enq' = [enq EXCEPT ![w] = [NotAsking EXCEPT !.pc = "add",
               !.id = <<"deferred", ChainLink(run[w].id) + 1>>, !.pay = run[w].pay]]
          /\ Goto(w, "behind")
          /\ UNCHANGED <<jobs, lock, rollup, seen, missed>>
     ELSE Fail(w)
  /\ UNCHANGED <<reach, past, row>>

\* The end of a rebuild.  withAdvisoryLock asserts the lock once more: a run
\* that lost it is a failed attempt, whatever it wrote.
Finish(w) ==
  /\ \/ run[w].pc = "chunk" /\ ~MoreDays(w)
     \/ run[w].pc = "behind" /\ enq[w].pc = "off"
  /\ IF lock = w
     THEN /\ jobs' = [jobs EXCEPT ![run[w].id] = NoEntry]
          /\ run' = [run EXCEPT ![w] = Idle]
          /\ lock' = Nobody
          /\ UNCHANGED <<enq, rollup, seen, missed>>
     ELSE Fail(w)
  /\ UNCHANGED <<reach, past, row, spent>>

\* A run that never had the lock ends once its retry is queued.
Skip(w) ==
  /\ run[w].pc = "skip" /\ enq[w].pc = "off"
  /\ jobs' = [jobs EXCEPT ![run[w].id] = NoEntry]
  /\ run' = [run EXCEPT ![w] = Idle]
  /\ UNCHANGED <<reach, past, row, enq, lock, rollup, seen, missed, spent>>

-----------------------------------------------------------------------------
\* What goes wrong.

\* A change's enqueue, and a skipped run's, swallow the error; a rebuild that
\* was handing over throws.
EnqueueFails(a) ==
  /\ enq[a].pc # "off" /\ Spend("enqueueFault")
  /\ IF a \in Slots /\ run[a].pc = "behind"
     THEN Fail(a)
     ELSE /\ enq' = [enq EXCEPT ![a] = NotAsking]
          /\ Misses(Window(enq[a].pay))
          /\ UNCHANGED <<jobs, run, lock, rollup, seen>>
  /\ UNCHANGED <<reach, past, row>>

AttemptThrows(w) ==
  /\ run[w].pc \in {"phases", "start", "mark"}
  /\ Spend("fault")
  /\ Fail(w)
  /\ UNCHANGED <<reach, past, row>>

\* The process dies: its sessions and their locks go with it, and the queue
\* notices later.
Die(w) ==
  /\ run[w].pc # "idle" /\ Spend("die")
  /\ jobs' = [jobs EXCEPT ![run[w].id].holder = Nobody]
  /\ Misses(Window(run[w].pay) \ Window(jobs[run[w].id].pay))
  /\ run' = [run EXCEPT ![w] = Idle]
  /\ enq' = [enq EXCEPT ![w] = NotAsking]
  /\ lock' = IF lock = w THEN Nobody ELSE lock
  /\ rollup' = IF rollup = w THEN Nobody ELSE rollup
  /\ seen' = [seen EXCEPT ![w] = {}]
  /\ UNCHANGED <<reach, past, row>>

ReclaimStalled(id) ==
  /\ jobs[id].st = "active" /\ jobs[id].holder = Nobody
  /\ jobs' = [jobs EXCEPT ![id].st = "pending"]
  /\ UNCHANGED <<reach, past, row, run, enq, lock, rollup, seen, missed, spent>>

\* PostgreSQL drops the sessions the locks live on, one or both; the holders
\* run on.
LoseSessions ==
  /\ Spend("sessions")
  /\ lock' \in {lock, Nobody} /\ rollup' \in {rollup, Nobody}
  /\ <<lock, rollup>>' # <<lock, rollup>>
  /\ UNCHANGED <<reach, past, row, jobs, run, enq, seen, missed>>

\* The nightly rollup of the same user, over a lookback of its own.
CronReads ==
  /\ rollup = Nobody /\ Spend("cron")
  /\ rollup' = Cron
  /\ seen' = [seen EXCEPT ![Cron] = Happened]
  /\ UNCHANGED <<reach, past, row, jobs, run, enq, lock, missed>>

CronWrites ==
  /\ rollup = Cron
  /\ LET days == {d \in 1..Days : d <= CronDays \/ Clears(CronDays, past)}
     IN /\ row' = [d \in 1..Days |-> IF d \in days THEN seen[Cron] ELSE row[d]]
        /\ missed' = Healed(days, Cron)
  /\ rollup' = Nobody
  /\ seen' = [seen EXCEPT ![Cron] = {}]
  /\ UNCHANGED <<reach, past, jobs, run, enq, lock, spent>>

-----------------------------------------------------------------------------
EnqueueStep(a) == LookAtSlot(a) \/ ReadPending(a) \/ WritePending(a) \/ AddJob(a)

RunStep(w) ==
  \/ PickUp(w) \/ TakeLock(w) \/ LockHeld(w) \/ RunPhases(w) \/ SaveStart(w)
  \/ RollupReads(w) \/ RollupWrites(w) \/ RollupWritesLate(w)
  \/ RollupBreaks(w) \/ SaveChunk(w)
  \/ RollupLockHeld(w) \/ MemoryStop(w) \/ Finish(w) \/ Skip(w)
  \/ AttemptThrows(w) \/ Die(w)

Next ==
  \/ \E c \in Changes : Commit(c)
  \/ \E a \in Askers : EnqueueStep(a) \/ EnqueueFails(a)
  \/ \E w \in Slots : RunStep(w)
  \/ \E id \in Ids : ReclaimStalled(id)
  \/ LoseSessions \/ CronReads \/ CronWrites

Spec == Init /\ [][Next]_vars

\* The worker's slots and the queue keep working, an enqueue runs to its end,
\* the nightly rollup writes what it read.  What goes wrong is never owed.
WorkStep(w) ==
  \/ PickUp(w) \/ TakeLock(w) \/ LockHeld(w) \/ RunPhases(w) \/ SaveStart(w)
  \/ RollupReads(w) \/ RollupWrites(w) \/ RollupBreaks(w) \/ SaveChunk(w)
  \/ RollupLockHeld(w) \/ Finish(w) \/ Skip(w)

Fairness ==
  /\ \A a \in Askers : WF_vars(EnqueueStep(a))
  /\ \A w \in Slots : WF_vars(WorkStep(w))
  /\ \A id \in Ids : WF_vars(ReclaimStalled(id))
  /\ WF_vars(CronWrites)

FairSpec == Spec /\ Fairness

-----------------------------------------------------------------------------
TypeOK ==
  /\ reach \in [Causes -> 0..Days]
  /\ past \in 0..Days
  /\ row \in [1..Days -> SUBSET Causes]
  /\ jobs \in [Ids -> Entry]
  /\ run \in [Slots -> RunType]
  /\ enq \in [Askers -> EnqType]
  /\ lock \in Slots \cup {Nobody}
  /\ rollup \in Rollers \cup {Nobody}
  /\ seen \in [Rollers -> SUBSET Causes]
  /\ missed \subseteq Causes \X (1..Days)
  /\ spent \in 0..Budget

\* Somebody is still going to compute day d with cause c in the ledger.
QueueOwes(d) == \E id \in Ids : Waits(id) /\ d \in Window(jobs[id].pay)

EnqueueOwes(d) == \E a \in Askers : enq[a].pc # "off" /\ d \in Window(enq[a].pay)

RunOwes(w, c, d) ==
  /\ d \in Window(run[w].pay)
  /\ \/ run[w].pc \in {"lock", "chunk", "phases", "start"}
     \/ run[w].pc = "write" /\ c \in seen[w] /\ d \in LeftOfChunk(w)
     \/ run[w].pc \in {"write", "mark"} /\ ChunkEnd(w) < d /\ ~LastChunk(w)

Owed(c, d) == QueueOwes(d) \/ EnqueueOwes(d) \/ \E w \in Slots : RunOwes(w, c, d)

\* No stale day is forgotten: whatever happens to its request (it joins another,
\* is put behind a lock, off for memory, retried, orphaned by a death), a
\* request, a queued job or a running rebuild will still compute the day from a
\* ledger that holds the change.  Outside this are the days a path has let go
\* of: those that report an error, an add that found its id live after all, and
\* a payload written back over what had joined it since the read.
RebuildsAreOwed ==
  \A c \in Causes, d \in 1..Days :
    Stale(c, d) => <<c, d>> \in missed \/ Owed(c, d)

\* A stored day never loses a change it already reflects, through the nightly
\* rollup, overlapping rebuilds and lost locks: only a write that was on its way
\* when the lock was lost may take it back.
RowsNeverGoBack ==
  [][\/ \A d \in 1..Days : row[d] \subseteq row'[d]
     \/ \E w \in Slots : RollupWritesLate(w)]_vars

\* Every stale day is rebuilt in the end, unless a path has let go of it.
StaleDaysAreRebuilt ==
  \A c \in Causes, d \in 1..Days :
    Stale(c, d) ~> ~Stale(c, d) \/ <<c, d>> \in missed

=============================================================================
