-------------------------------- MODULE Scheduler --------------------------------
(***************************************************************************)
(* Recurring work: schedules.py keeps one row per schedule and a loop that *)
(* polls the table, dispatches what is due, one schedule after the other,  *)
(* and moves next_run_at on; schedules_rpc.py creates and deletes rows     *)
(* from the request loop meanwhile.                                        *)
(*                                                                         *)
(* Time is counted in units of which a cron slot takes Period.  A dispatch *)
(* drives a whole agent run and may take any number of them.               *)
(***************************************************************************)
EXTENDS Naturals, Sequences, FiniteSets, SequencesExt

CONSTANTS
    Schedules,   \* schedule ids; each is created at most once
    Period,      \* distance of two slots of every cron expression
    Drift,       \* SchedulerLoopConfig.max_clock_drift_ms (1 s)
    Poll,        \* SchedulerLoopConfig.poll_seconds (10 s)
    MaxTime,     \* bound: the clock
    MaxFailures, \* bound: crashes of the process and failing statements
    Nobody

ASSUME SchedulerAssumption ==
    /\ Period \in Nat \ {0} /\ Drift \in Nat /\ Poll \in Nat /\ MaxTime \in Nat
    /\ MaxFailures \in Nat
    /\ Drift < Period /\ Drift <= Poll /\ MaxTime % Period = 0
    /\ IsFiniteSet(Schedules) /\ Nobody \notin Schedules

VARIABLES
    now,       \* the wall clock
    row,       \* the schedules table: next_run_at_ms and last_run_at_ms
    loop,      \* where the loop stands
    due,       \* what is left of the tick's due schedules, and the rows read
    firing,    \* the schedule being dispatched
    startedAt, \* when its dispatch began
    wake,      \* when the poll interval ends
    stopping,  \* stop() has been called
    failures,  \* crashes and failed statements so far
    deleted,   \* history: schedules deleted
    fired,     \* history: dispatches of each slot of each schedule
    after      \* history: dispatches of each schedule begun after its deletion

history == <<deleted, fired, after>>
vars == <<now, row, loop, due, firing, startedAt, wake, stopping, failures,
          deleted, fired, after>>

Time == 0..MaxTime
\* The slot that follows a time.
NextFire(t) == (t \div Period + 1) * Period
Slot == {NextFire(t) : t \in Time}
Absent == [next |-> 0, last |-> 0]

TypeOK ==
    /\ now \in Time
    /\ row \in [Schedules -> {Absent} \cup [next : Slot, last : Time]]
    /\ loop \in {"down", "scan", "pick", "dispatch", "sleep", "dead"}
    /\ due \in Seq(Schedules \X Slot)
    /\ firing \in Schedules \cup {Nobody}
    /\ startedAt \in Time
    /\ wake \in 0..(MaxTime + Poll)
    /\ stopping \in BOOLEAN
    /\ failures \in 0..MaxFailures
    /\ deleted \subseteq Schedules
    /\ fired \in [Schedules -> [Slot -> Nat]]
    /\ after \in [Schedules -> Nat]

Init ==
    /\ now = 0
    /\ row = [s \in Schedules |-> Absent]
    /\ loop = "scan" /\ due = <<>> /\ firing = Nobody
    /\ startedAt = 0 /\ wake = 0
    /\ stopping = FALSE
    /\ failures = 0
    /\ deleted = {}
    /\ fired = [s \in Schedules |-> [t \in Slot |-> 0]]
    /\ after = [s \in Schedules |-> 0]

Live == {s \in Schedules : row[s] # Absent}

Tick ==
    /\ now < MaxTime
    /\ now' = now + 1
    /\ UNCHANGED <<row, loop, due, firing, startedAt, wake, stopping, failures, history>>

-------------------------------------------------------------------------------
(* The request loop *)

Serving == loop # "down" /\ ~ stopping

\* schedules.create computes the first slot; a row is enabled for life.
Create(s) ==
    /\ Serving
    /\ s \notin Live \cup deleted
    /\ row' = [row EXCEPT ![s] = [next |-> NextFire(now), last |-> 0]]
    /\ UNCHANGED <<now, loop, due, firing, startedAt, wake, stopping, failures, history>>

Delete(s) ==
    /\ Serving
    /\ s \in Live
    /\ row' = [row EXCEPT ![s] = Absent]
    /\ deleted' = deleted \cup {s}
    /\ UNCHANGED <<now, loop, due, firing, startedAt, wake, stopping, failures, fired, after>>

-------------------------------------------------------------------------------
(* The loop *)

\* The drift allowance fires a schedule a little early rather than a poll late.
DueNow(s) == s \in Live /\ row[s].next <= now + Drift

\* One tick reads the whole table once, newest schedule first (here in any
\* order), and keeps to what it read.
Scan ==
    /\ loop = "scan" /\ ~ stopping
    /\ \E order \in SetToSeqs({s \in Schedules : DueNow(s)}) :
          due' = [n \in DOMAIN order |-> <<order[n], row[order[n]].next>>]
    /\ loop' = "pick"
    /\ UNCHANGED <<now, row, firing, startedAt, wake, stopping, failures, history>>

Fire ==
    /\ loop = "pick" /\ due # <<>>
    /\ LET s == Head(due)[1]
           slot == Head(due)[2]
       IN /\ firing' = s
          /\ fired' = [fired EXCEPT ![s][slot] = @ + 1]
          /\ after' = [after EXCEPT ![s] = IF s \in deleted THEN @ + 1 ELSE @]
    /\ due' = Tail(due)
    /\ startedAt' = now
    /\ loop' = "dispatch"
    /\ UNCHANGED <<now, row, wake, stopping, failures, deleted>>

\* Mutant of Record: only a dispatch that started a run moves the slot on.
RecordStarted ==
    /\ loop = "dispatch"
    /\ \/ row' = [row EXCEPT ![firing] = IF firing \in Live
                  THEN [next |-> NextFire(now), last |-> startedAt] ELSE Absent]
       \/ UNCHANGED row
    /\ loop' = "pick" /\ firing' = Nobody
    /\ UNCHANGED <<now, due, startedAt, wake, stopping, failures, history>>
\* Mutant of Record: the row is written whole, found or not.
RecordUpsert ==
    /\ loop = "dispatch"
    /\ row' = [row EXCEPT ![firing] = [next |-> NextFire(now), last |-> startedAt]]
    /\ loop' = "pick" /\ firing' = Nobody
    /\ UNCHANGED <<now, due, startedAt, wake, stopping, failures, history>>
\* The dispatch has returned, with a run or without one (an empty prompt, an
\* unknown provider, any exception): the next slot counts from now, and the
\* UPDATE finds no row once the schedule is deleted.
Record ==
    /\ loop = "dispatch"
    /\ row' = [row EXCEPT ![firing] = IF firing \in Live
               THEN [next |-> NextFire(now), last |-> startedAt] ELSE Absent]
    /\ loop' = "pick" /\ firing' = Nobody
    /\ UNCHANGED <<now, due, startedAt, wake, stopping, failures, history>>

Rest ==
    /\ loop = "pick" /\ due = <<>>
    /\ loop' = "sleep"
    /\ wake' = now + Poll
    /\ UNCHANGED <<now, row, due, firing, startedAt, stopping, failures, history>>

\* Mutant of Wake: the wait has no timeout.
WakeOnStop ==
    /\ loop = "sleep" /\ stopping
    /\ loop' = "scan"
    /\ UNCHANGED <<now, row, due, firing, startedAt, wake, stopping, failures, history>>
\* The clock's bound must not keep the loop asleep.
Wake ==
    /\ loop = "sleep" /\ ~ stopping
    /\ now >= wake \/ now = MaxTime
    /\ loop' = "scan"
    /\ UNCHANGED <<now, row, due, firing, startedAt, wake, stopping, failures, history>>

\* A statement that raises (a locked database) leaves _run, which expects only
\* its own cancellation: nothing polls any more until the next start.
StatementFails ==
    /\ loop = "dispatch" \/ (loop = "scan" /\ ~ stopping)
    /\ failures < MaxFailures
    /\ failures' = failures + 1
    /\ loop' = "dead"
    /\ due' = <<>> /\ firing' = Nobody
    /\ UNCHANGED <<now, row, startedAt, wake, stopping, history>>

-------------------------------------------------------------------------------
(* The process *)

\* End of stdin: stop() asks the loop to end and waits for it.
Stop ==
    /\ Serving
    /\ failures < MaxFailures
    /\ failures' = failures + 1
    /\ stopping' = TRUE
    /\ UNCHANGED <<now, row, loop, due, firing, startedAt, wake, history>>

\* The event is looked at between ticks only.
Halt ==
    /\ stopping /\ loop \in {"scan", "sleep", "dead"}
    /\ loop' = "down"
    /\ stopping' = FALSE
    /\ UNCHANGED <<now, row, due, firing, startedAt, wake, failures, history>>

Crash ==
    /\ loop # "down"
    /\ failures < MaxFailures
    /\ failures' = failures + 1
    /\ loop' = "down" /\ due' = <<>> /\ firing' = Nobody
    /\ stopping' = FALSE
    /\ UNCHANGED <<now, row, startedAt, wake, history>>

Start ==
    /\ loop = "down"
    /\ loop' = "scan"
    /\ UNCHANGED <<now, row, due, firing, startedAt, wake, stopping, failures, history>>

\* What the event loop and the launcher see to, without the dispatched run.
Polls == Scan \/ Fire \/ Rest \/ Wake \/ Halt \/ Start
Loop == Polls \/ Record

Next ==
    \/ Tick \/ Loop
    \/ \E s \in Schedules : Create(s) \/ Delete(s)
    \/ StatementFails \/ Stop \/ Crash

Spec == Init /\ [][Next]_vars

\* Time passes, the event loop runs the task and the launcher starts the brain
\* again.  Nothing is assumed of the runs dispatched: Record may never come.
FairSpec == Spec /\ WF_vars(Tick) /\ WF_vars(Polls)

-------------------------------------------------------------------------------
(* Properties *)

\* However long a dispatch takes and whatever the machine slept through, a row
\* at rest points past its last dispatch: missed slots are not caught up one by
\* one (_fire, next_fire_ms from the present).
NextAfterLast == \A s \in Live : row[s].next > row[s].last

\* A slot is dispatched once, twice if the first dispatch came within the drift
\* before it, and once more for each crash that lost the record of a dispatch.
FewRefires == \A s \in Schedules, t \in Slot : fired[s][t] <= 2 + failures

\* A deleted schedule stays deleted, and fires at most once more, from a tick
\* that had already read it (_due_iter's snapshot, the UPDATE by id).
DeletedStops == \A s \in deleted : s \notin Live /\ after[s] <= 1

\* Two things only keep a due slot from being dispatched and left behind: the
\* loop stays dead of a failed statement, or it waits for ever for a dispatch,
\* this schedule's or another's (_tick, one after the other).  Otherwise, through
\* crashes, stops and deletions of others, the slot fires and the row moves on,
\* unless the schedule is deleted.
Starved == <>[](loop = "dead") \/ <>[](loop = "dispatch")
DueFires ==
    \/ Starved
    \/ \A s \in Schedules, t \in Slot :
          (s \in Live /\ row[s].next = t /\ t <= now)
              ~> (s \notin Live \/ (row[s].next > t /\ fired[s][t] > 0))
===============================================================================
