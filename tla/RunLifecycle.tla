----------------------------- MODULE RunLifecycle -----------------------------
(***************************************************************************)
(* The life of an agent run in the brain: orchestration/runner.py drives   *)
(* the graph plan -> execute -> critic -> respond of orchestration/        *)
(* graph.py, stops top-level runs at the plan-approval interrupt, spawns   *)
(* one worker run per delegated plan step, and mirrors the outcome in the  *)
(* runs index (runs.py).  orchestration/resume.py picks unfinished runs up *)
(* when the process restarts.                                              *)
(*                                                                         *)
(* Three actors share the two stores.  The stdio loop handles one request  *)
(* at a time (transport.py), so requests queue behind a run that streams.  *)
(* The scheduler task drives its own runs concurrently, unheard by the     *)
(* renderer.  A crash may fall between any two steps.                      *)
(*                                                                         *)
(* Two stores survive a crash and are written one after the other, never   *)
(* together: "header", the row in app.db, and "ckpt", the run's own        *)
(* LangGraph database.                                                     *)
(***************************************************************************)
EXTENDS Naturals, Sequences

CONSTANTS
    MaxRuns,     \* bound: runs ever created, numbered in order of creation
    DepthCap,    \* Runner._depth_cap
    Plans,       \* the plans a planner or an editing user can produce
    SubSteps,    \* how many steps of each plan carry a subagentKind
    NoPlan,      \* the state's plan before the plan node has run
    MaxClicks,   \* bound: decisions the user ever sends
    MaxCrashes   \* bound: process crashes

ASSUME BoundsAssumption ==
    /\ MaxRuns \in Nat
    /\ DepthCap \in Nat
    /\ MaxClicks \in Nat
    /\ MaxCrashes \in Nat

ASSUME PlansAssumption ==
    /\ SubSteps \in [Plans -> Nat]
    /\ NoPlan \notin Plans

VARIABLES
    header,   \* runs index: row of each run
    ckpt,     \* checkpoint database of each run
    task,     \* the coroutine driving each run, if any
    origin,   \* who started the run, under which parent, at which depth
    created,  \* number of runs created
    phase,    \* "up", "down" (crashed) or "boot" (resuming, stdio closed)
    bootq,    \* unfinished runs the boot pass still has to resume
    inbox,    \* decisions written to the brain's stdin, not yet read
    ui,       \* status of each run as last notified to the renderer
    clicks, crashes,          \* bounded counters
    granted, started,         \* history: approvals taken, executions begun
    cut       \* history: runs a crash or an exception interrupted

stores == <<header, ckpt>>
history == <<granted, started, cut>>
vars == <<header, ckpt, task, origin, created, phase, bootq, inbox, ui,
          clicks, crashes, granted, started, cut>>

Run == 1..MaxRuns
NoRun == 0

Unfinished == {"pending", "planning", "running", "paused", "awaiting_approval"}
Terminal == {"completed", "errored", "killed"}
Status == Unfinished \cup Terminal
Stopped == {"killed", "errored"}

Node == {"plan", "execute", "critic", "respond"}
Pc == Node \cup {"idle", "input", "parkNotify", "parkWrite", "spawn", "finalize"}
Decision == [act : {"approve", "reject", "kill"}, run : Run, plan : {NoPlan}]
            \cup [act : {"edit"}, run : Run, plan : Plans]

Header == [status : Status \cup {"absent"}, completed : BOOLEAN,
           plan : Plans \cup {NoPlan}]
Checkpoint == [next : Node \cup {"none", "end"}, status : Status,
               plan : Plans \cup {NoPlan}]
Task == [driver : {"none", "rpc", "scheduler"},
         call : {"none", "run", "approve", "resume", "worker"},
         pc : Pc, todo : Nat]
Origin == [kind : {"none", "chat", "schedule", "worker"},
           parent : Run \cup {NoRun}, depth : Nat]

NoTask == [driver |-> "none", call |-> "none", pc |-> "idle", todo |-> 0]
NoOrigin == [kind |-> "none", parent |-> NoRun, depth |-> 0]
NoHeader == [status |-> "absent", completed |-> FALSE, plan |-> NoPlan]
NoCheckpoint == [next |-> "none", status |-> "pending", plan |-> NoPlan]

TypeOK ==
    /\ header \in [Run -> Header]
    /\ ckpt \in [Run -> Checkpoint]
    /\ task \in [Run -> Task]
    /\ origin \in [Run -> Origin]
    /\ created \in 0..MaxRuns
    /\ phase \in {"up", "down", "boot"}
    /\ bootq \in SUBSET Run
    /\ inbox \in Seq(Decision)
    /\ ui \in [Run -> Status \cup {"absent"}]
    /\ clicks \in 0..MaxClicks
    /\ crashes \in 0..MaxCrashes
    /\ granted \in [Run -> Nat]
    /\ started \in [Run -> Nat]
    /\ cut \in SUBSET Run

Init ==
    /\ header = [r \in Run |-> NoHeader]
    /\ ckpt = [r \in Run |-> NoCheckpoint]
    /\ task = [r \in Run |-> NoTask]
    /\ origin = [r \in Run |-> NoOrigin]
    /\ created = 0
    /\ phase = "up"
    /\ bootq = {}
    /\ inbox = <<>>
    /\ ui = [r \in Run |-> "absent"]
    /\ clicks = 0 /\ crashes = 0
    /\ granted = [r \in Run |-> 0]
    /\ started = [r \in Run |-> 0]
    /\ cut = {}

-------------------------------------------------------------------------------
(* Helpers *)

Active(r) == task[r].pc # "idle"
Driving(d) == {r \in Run : task[r].driver = d}
ActiveWorkers(r) == {w \in Run : Active(w) /\ origin[w].parent = r}

\* The renderer hears a run only while a request of its own drives it: the
\* scheduler passes a sink and resume_unfinished_runs a silent notifier.
Heard(r) == phase = "up" /\ task[r].driver = "rpc"
Emit(r, s) == ui' = IF Heard(r) THEN [ui EXCEPT ![r] = s] ELSE ui

Halted(r) == ckpt[r].status \in Stopped

\* Only chat.send passes a budget; scheduled runs and workers have none, and
\* without one neither the budget nor the drift gate can fire.
Budgeted(r) == origin[r].kind = "chat"

StepsOf(p) == IF p = NoPlan THEN 0 ELSE SubSteps[p]

Goto(r, label) == task' = [task EXCEPT ![r].pc = label]

\* A node's return value and the checkpoint written when it ends.
Save(r, node, s, p) ==
    ckpt' = [ckpt EXCEPT ![r] = [next |-> node, status |-> s, plan |-> p]]

\* The graph's edges behind the gate.
After(node) == CASE node = "execute" -> "critic"
                 [] node = "critic"  -> "respond"
                 [] OTHER            -> "end"
Proceed(r) == Goto(r, IF task[r].pc = "respond" THEN "finalize" ELSE After(task[r].pc))

\* Where graph.ainvoke(None) continues.
Entry(r) == IF ckpt[r].next = "end" THEN "finalize" ELSE ckpt[r].next

-------------------------------------------------------------------------------
(* Runner.run, from the header row to the plan-approval gate *)

\* chat.send or a due schedule starts a top-level run.
BeginRun(d, kind) ==
    LET r == created + 1 IN
    /\ phase = "up" /\ created < MaxRuns
    /\ Driving(d) = {}
    /\ created' = r
    /\ header' = [header EXCEPT ![r].status = "planning"]
    /\ origin' = [origin EXCEPT ![r].kind = kind]
    /\ task' = [task EXCEPT ![r] =
                  [driver |-> d, call |-> "run", pc |-> "input", todo |-> 0]]
    /\ ui' = IF d = "rpc" THEN [ui EXCEPT ![r] = "pending"] ELSE ui
    /\ UNCHANGED <<ckpt, phase, bootq, inbox, clicks, crashes, history>>

ChatSend == inbox = <<>> /\ BeginRun("rpc", "chat")
ScheduleFires == BeginRun("scheduler", "schedule")

\* graph.ainvoke(initial) checkpoints its input before the first node.
WriteInput(r) ==
    /\ task[r].pc = "input"
    /\ Save(r, "plan", "pending", NoPlan)
    /\ Goto(r, "plan")
    /\ UNCHANGED <<header, origin, created, phase, bootq, inbox, ui,
                   clicks, crashes, history>>

\* Mutant of AfterPlan: a run halted by its budget is parked like any other.
AfterPlanIgnoringHalt(r, halted) ==
    CASE task[r].call = "worker" -> "execute"
      [] task[r].call = "run"    -> "parkNotify"
      [] OTHER                   -> "finalize"

\* After the plan node: a worker's graph has no interrupt; run() parks a run
\* that was not halted; resume() and approve_plan() go straight to _finalize.
AfterPlan(r, halted) ==
    CASE task[r].call = "worker"            -> "execute"
      [] task[r].call = "run" /\ ~halted    -> "parkNotify"
      [] OTHER                              -> "finalize"

PlanNode(r) ==
    /\ task[r].pc = "plan"
    /\ \/ \E p \in Plans :
            /\ Save(r, "execute", ckpt[r].status, p)
            /\ Emit(r, "planning")
            /\ Goto(r, AfterPlan(r, FALSE))
       \/ /\ Budgeted(r)
          /\ Save(r, "execute", "killed", ckpt[r].plan)
          /\ Emit(r, "killed")
          /\ Goto(r, AfterPlan(r, TRUE))
    /\ UNCHANGED <<header, origin, created, phase, bootq, inbox,
                   clicks, crashes, history>>

\* _handle_interrupt notifies first and writes the index second.
ParkNotify(r) ==
    /\ task[r].pc = "parkNotify"
    /\ Emit(r, "awaiting_approval")
    /\ Goto(r, "parkWrite")
    /\ UNCHANGED <<stores, origin, created, phase, bootq, inbox,
                   clicks, crashes, history>>

\* Mutant of ParkWrite: the row gets the plan but not the new status.
ParkWritePlanOnly(r) ==
    /\ task[r].pc = "parkWrite"
    /\ header' = [header EXCEPT ![r].plan = ckpt[r].plan]
    /\ task' = [task EXCEPT ![r] = NoTask]
    /\ UNCHANGED <<ckpt, origin, created, phase, bootq, inbox, ui,
                   clicks, crashes, history>>

ParkWrite(r) ==
    /\ task[r].pc = "parkWrite"
    /\ header' = [header EXCEPT ![r].status = "awaiting_approval",
                                ![r].plan = ckpt[r].plan]
    /\ task' = [task EXCEPT ![r] = NoTask]
    /\ UNCHANGED <<ckpt, origin, created, phase, bootq, inbox, ui,
                   clicks, crashes, history>>

-------------------------------------------------------------------------------
(* execute, critic, respond, and the index update at the end *)

\* Mutant of SkipHalted: respond does not look for an upstream halt.
SkipHaltedButRespond(r) ==
    /\ task[r].pc \in {"execute", "critic"} /\ Halted(r)
    /\ ckpt' = [ckpt EXCEPT ![r].next = After(task[r].pc)]
    /\ Proceed(r)
    /\ UNCHANGED <<header, origin, created, phase, bootq, inbox, ui,
                   clicks, crashes, history>>

\* A halted run falls through every remaining node, each checkpointed.
SkipHalted(r) ==
    /\ task[r].pc \in {"execute", "critic", "respond"} /\ Halted(r)
    /\ ckpt' = [ckpt EXCEPT ![r].next = After(task[r].pc)]
    /\ Proceed(r)
    /\ UNCHANGED <<header, origin, created, phase, bootq, inbox, ui,
                   clicks, crashes, history>>

\* The budget gate at a node's entry, or the critic's drift gate.
HaltAt(r) ==
    /\ task[r].pc \in {"execute", "critic", "respond"} /\ ~Halted(r)
    /\ Budgeted(r)
    /\ Save(r, After(task[r].pc), "killed", ckpt[r].plan)
    /\ Proceed(r)
    /\ Emit(r, "killed")
    /\ UNCHANGED <<header, origin, created, phase, bootq, inbox,
                   clicks, crashes, history>>

ExecuteEnter(r) ==
    /\ task[r].pc = "execute" /\ ~Halted(r)
    /\ task' = [task EXCEPT ![r].pc = "spawn", ![r].todo = StepsOf(ckpt[r].plan)]
    /\ started' = [started EXCEPT ![r] = @ + 1]
    /\ Emit(r, "running")
    /\ UNCHANGED <<stores, origin, created, phase, bootq, inbox,
                   clicks, crashes, granted, cut>>

\* Mutant of AtSpawn: workers are launched without awaiting them.
AtSpawnNotAwaiting(r) == task[r].pc = "spawn"

\* The execute node awaits each spawned worker before its next step.
AtSpawn(r) == task[r].pc = "spawn" /\ ActiveWorkers(r) = {}

SpawnWorker(r) ==
    LET w == created + 1 IN
    /\ AtSpawn(r) /\ task[r].todo > 0
    /\ origin[r].depth + 1 <= DepthCap
    /\ created < MaxRuns
    /\ created' = w
    /\ header' = [header EXCEPT ![w].status = "planning"]
    /\ origin' = [origin EXCEPT ![w] = [kind |-> "worker", parent |-> r,
                                        depth |-> origin[r].depth + 1]]
    /\ task' = [task EXCEPT ![r].todo = @ - 1,
                  ![w] = [driver |-> task[r].driver, call |-> "worker",
                          pc |-> "input", todo |-> 0]]
    /\ ui' = IF Heard(r) THEN [ui EXCEPT ![w] = "pending"] ELSE ui
    /\ UNCHANGED <<ckpt, phase, bootq, inbox, clicks, crashes, history>>

\* Past the depth cap, or refused by the router (a local_only violation), the
\* step is recorded as skipped and no run is created.
SkipSpawn(r) ==
    /\ AtSpawn(r) /\ task[r].todo > 0
    /\ task' = [task EXCEPT ![r].todo = @ - 1]
    /\ UNCHANGED <<stores, origin, created, phase, bootq, inbox, ui,
                   clicks, crashes, history>>

ExecuteEnd(r) ==
    /\ AtSpawn(r) /\ task[r].todo = 0
    /\ ckpt' = [ckpt EXCEPT ![r].next = "critic"]
    /\ Goto(r, "critic")
    /\ UNCHANGED <<header, origin, created, phase, bootq, inbox, ui,
                   clicks, crashes, history>>

CriticNode(r) ==
    /\ task[r].pc = "critic" /\ ~Halted(r)
    /\ ckpt' = [ckpt EXCEPT ![r].next = "respond"]
    /\ Goto(r, "respond")
    /\ UNCHANGED <<header, origin, created, phase, bootq, inbox, ui,
                   clicks, crashes, history>>

\* The provider's stream ends, or carries an error chunk.
RespondNode(r) ==
    /\ task[r].pc = "respond" /\ ~Halted(r)
    /\ \E s \in {"completed", "errored"} :
         /\ Save(r, "end", s, ckpt[r].plan)
         /\ Emit(r, s)
    /\ Goto(r, "finalize")
    /\ UNCHANGED <<header, origin, created, phase, bootq, inbox,
                   clicks, crashes, history>>

\* Mutants of Finalize: a status the graph never set is taken for success; only
\* top-level runs update the index.
FinalizeUnsetAsCompleted(r) ==
    /\ task[r].pc = "finalize"
    /\ header' = [header EXCEPT ![r] =
         [status |-> IF ckpt[r].status = "pending" THEN "completed" ELSE ckpt[r].status,
          completed |-> TRUE, plan |-> ckpt[r].plan]]
    /\ task' = [task EXCEPT ![r] = NoTask]
    /\ UNCHANGED <<ckpt, origin, created, phase, bootq, inbox, ui,
                   clicks, crashes, history>>

FinalizeTopLevelOnly(r) ==
    /\ task[r].pc = "finalize"
    /\ header' = IF task[r].call = "worker" THEN header
                 ELSE [header EXCEPT ![r] = [status |-> ckpt[r].status,
                                             completed |-> TRUE,
                                             plan |-> ckpt[r].plan]]
    /\ task' = [task EXCEPT ![r] = NoTask]
    /\ UNCHANGED <<ckpt, origin, created, phase, bootq, inbox, ui,
                   clicks, crashes, history>>

Finalize(r) ==
    /\ task[r].pc = "finalize"
    /\ header' = [header EXCEPT ![r] = [status |-> ckpt[r].status,
                                        completed |-> TRUE,
                                        plan |-> ckpt[r].plan]]
    /\ task' = [task EXCEPT ![r] = NoTask]
    /\ UNCHANGED <<ckpt, origin, created, phase, bootq, inbox, ui,
                   clicks, crashes, history>>

\* An exception leaves the innermost node and unwinds every coroutine waiting
\* on it.  At boot resume_unfinished_runs catches it and marks the run errored;
\* otherwise the request fails (or the scheduler swallows it) and the index is
\* not touched.
NodeRaises(r) ==
    LET unwound == Driving(task[r].driver) IN
    /\ task[r].pc \in {"plan", "critic", "respond"} \/ AtSpawn(r)
    /\ ~Halted(r)
    /\ task' = [x \in Run |-> IF x \in unwound THEN NoTask ELSE task[x]]
    /\ cut' = cut \cup unwound
    /\ header' = IF phase = "boot"
                 THEN [header EXCEPT ![r].status = "errored", ![r].completed = TRUE]
                 ELSE header
    /\ UNCHANGED <<ckpt, origin, created, phase, bootq, inbox, ui,
                   clicks, crashes, granted, started>>

-------------------------------------------------------------------------------
(* Decisions of the user: sent from what the renderer shows, read by the brain
   when the previous request is over *)

\* What the renderer shows of a run: the last status it was notified of, or
\* the row of the index when runs.get is answered.
Shows(r, statuses) ==
    \/ ui[r] \in statuses
    \/ /\ Driving("rpc") = {} /\ inbox = <<>>
       /\ header[r].status \in statuses

Click(r, act, p) ==
    /\ phase = "up" /\ clicks < MaxClicks
    /\ Shows(r, IF act = "kill" THEN Unfinished ELSE {"awaiting_approval"})
    /\ inbox' = Append(inbox, [act |-> act, run |-> r, plan |-> p])
    /\ clicks' = clicks + 1
    /\ UNCHANGED <<stores, task, origin, created, phase, bootq, ui,
                   crashes, history>>

ClickSomething ==
    \E r \in Run : \/ \E act \in {"approve", "reject", "kill"} : Click(r, act, NoPlan)
                   \/ \E p \in Plans : Click(r, "edit", p)

Serving(act) ==
    /\ phase = "up" /\ Driving("rpc") = {}
    /\ inbox # <<>> /\ Head(inbox).act = act
    /\ inbox' = Tail(inbox)

\* approve_plan looks neither at the index nor at where the graph stands: it
\* runs the graph from its checkpoint, whatever that is.  (A run without one is
\* refused; no decision is ever offered on such a run.)
Reinvoke(r) ==
    /\ ckpt[r].next # "none"
    /\ task' = [task EXCEPT ![r] = [driver |-> "rpc", call |-> "approve",
                                    pc |-> Entry(r), todo |-> 0]]
    /\ granted' = [granted EXCEPT ![r] = @ + 1]

HandleApprove ==
    /\ Serving("approve")
    /\ Reinvoke(Head(inbox).run)
    /\ UNCHANGED <<stores, origin, created, phase, bootq, ui,
                   clicks, crashes, started, cut>>

\* aupdate_state writes the edited plan to the checkpoint before the graph runs.
HandleEdit ==
    /\ Serving("edit")
    /\ ckpt' = [ckpt EXCEPT ![Head(inbox).run].plan = Head(inbox).plan]
    /\ Reinvoke(Head(inbox).run)
    /\ UNCHANGED <<header, origin, created, phase, bootq, ui,
                   clicks, crashes, started, cut>>

\* Marks the index killed; the checkpoint stays at the gate.
HandleReject ==
    LET r == Head(inbox).run IN
    /\ Serving("reject")
    /\ ui' = [ui EXCEPT ![r] = "killed"]
    /\ header' = [header EXCEPT ![r] = [status |-> "killed", completed |-> TRUE,
                                        plan |-> ckpt[r].plan]]
    /\ UNCHANGED <<ckpt, task, origin, created, phase, bootq,
                   clicks, crashes, history>>

\* Flips the index whatever it says; neither coroutine nor checkpoint notices.
HandleKill ==
    LET r == Head(inbox).run IN
    /\ Serving("kill")
    /\ ui' = [ui EXCEPT ![r] = "killed"]
    /\ header' = [header EXCEPT ![r].status = "killed", ![r].completed = TRUE]
    /\ UNCHANGED <<ckpt, task, origin, created, phase, bootq,
                   clicks, crashes, history>>

-------------------------------------------------------------------------------
(* Crash and restart *)

\* Brain and desktop die together: coroutines, queued requests and what the
\* renderer knew are gone, the two stores remain.
Crash ==
    /\ phase # "down" /\ crashes < MaxCrashes
    /\ phase' = "down"
    /\ crashes' = crashes + 1
    /\ cut' = cut \cup {r \in Run : Active(r)}
    /\ task' = [r \in Run |-> NoTask]
    /\ inbox' = <<>>
    /\ bootq' = {}
    /\ ui' = [r \in Run |-> "absent"]
    /\ UNCHANGED <<stores, origin, created, clicks, granted, started>>

\* list_unfinished is read once, before stdin is served.
Restart ==
    /\ phase = "down"
    /\ phase' = "boot"
    /\ bootq' = {r \in Run : header[r].status \in Unfinished}
    /\ UNCHANGED <<stores, task, origin, created, inbox, ui,
                   clicks, crashes, history>>

\* Mutants of ResumeNext: the interrupt is not looked for; a parked run is never
\* ticked off the list.
ResumeThroughGate(r) ==
    /\ phase = "boot" /\ Driving("rpc") = {}
    /\ r \in bootq /\ \A other \in bootq : other <= r
    /\ bootq' = bootq \ {r}
    /\ ckpt[r].next # "none"
    /\ task' = [task EXCEPT ![r] = [driver |-> "rpc", call |-> "resume",
                                    pc |-> Entry(r), todo |-> 0]]
    /\ UNCHANGED <<header, ckpt, origin, created, phase, inbox, ui,
                   clicks, crashes, history>>

ResumeRevisiting(r) ==
    /\ phase = "boot" /\ Driving("rpc") = {}
    /\ r \in bootq /\ ckpt[r].next = "execute"
    /\ UNCHANGED vars

\* Runner.resume, newest run first: no checkpoint is an error, a graph at the
\* interrupt is left alone (index included), anything else runs on.
ResumeNext(r) ==
    /\ phase = "boot" /\ Driving("rpc") = {}
    /\ r \in bootq /\ \A other \in bootq : other <= r
    /\ bootq' = bootq \ {r}
    /\ CASE ckpt[r].next = "none" ->
              /\ header' = [header EXCEPT ![r].status = "errored",
                                          ![r].completed = TRUE]
              /\ task' = task
         [] ckpt[r].next = "execute" ->
              UNCHANGED <<header, task>>
         [] OTHER ->
              /\ task' = [task EXCEPT ![r] = [driver |-> "rpc", call |-> "resume",
                                              pc |-> Entry(r), todo |-> 0]]
              /\ header' = header
    /\ UNCHANGED <<ckpt, origin, created, phase, inbox, ui,
                   clicks, crashes, history>>

BootDone ==
    /\ phase = "boot" /\ Driving("rpc") = {} /\ bootq = {}
    /\ phase' = "up"
    /\ UNCHANGED <<stores, task, origin, created, bootq, inbox, ui,
                   clicks, crashes, history>>

-------------------------------------------------------------------------------
(* The coroutine that drives run r takes its next step. *)
Advance(r) ==
    \/ WriteInput(r) \/ PlanNode(r) \/ ParkNotify(r) \/ ParkWrite(r)
    \/ SkipHalted(r) \/ HaltAt(r) \/ ExecuteEnter(r)
    \/ SpawnWorker(r) \/ SkipSpawn(r) \/ ExecuteEnd(r)
    \/ CriticNode(r) \/ RespondNode(r) \/ Finalize(r) \/ NodeRaises(r)

Serve == HandleApprove \/ HandleEdit \/ HandleReject \/ HandleKill

Boot == Restart \/ (\E r \in Run : ResumeNext(r)) \/ BootDone

Next ==
    \/ ChatSend \/ ScheduleFires
    \/ \E r \in Run : Advance(r)
    \/ ClickSomething \/ Serve
    \/ Crash \/ Boot

Spec == Init /\ [][Next]_vars

\* asyncio runs every ready coroutine, stdin is read whenever no request is
\* served, and the launcher starts the brain again.  Users, schedules and
\* crashes owe nothing.
Fairness ==
    /\ \A r \in Run : WF_vars(Advance(r))
    /\ WF_vars(Serve)
    /\ WF_vars(Boot)

FairSpec == Spec /\ Fairness

-------------------------------------------------------------------------------
(* Properties *)

Idle(r) == ~Active(r)

\* A top-level run never begins to execute more often than the user approved
\* it: the gate is not bypassed by a restart, a duplicate decision or a halted
\* plan (graph.py's interrupt_before, and resume() leaving a parked run parked).
ExecutionNeedsGrant ==
    \A r \in Run : origin[r].kind # "worker" => started[r] <= granted[r]

\* What the index calls completed is what the graph did: the checkpoint has
\* passed respond with that status, and the row carries a completion time.
CompletedIsTrue ==
    \A r \in Run : header[r].status = "completed" =>
        /\ header[r].completed
        /\ ckpt[r].next = "end" /\ ckpt[r].status = "completed"

\* A worker is driven only from inside the execute node of the run that
\* spawned it, one worker at a time and by the same actor, never deeper than
\* the cap: the tree of active runs is a call stack.
WorkersNest ==
    \A w \in Run : Active(w) /\ task[w].call = "worker" =>
        LET p == origin[w].parent IN
        /\ p \in Run /\ task[p].pc = "spawn"
        /\ task[p].driver = task[w].driver
        /\ ActiveWorkers(p) = {w}
        /\ origin[w].depth = origin[p].depth + 1 /\ origin[w].depth <= DepthCap

\* A row left unfinished with no coroutine behind it waits for the user's
\* decision, unless a crash or an exception cut the run off.
UnfinishedIsDrivenOrGated ==
    \A r \in Run : (header[r].status \in Unfinished /\ Idle(r) /\ r \notin cut) =>
        header[r].status = "awaiting_approval"

\* A gate the index shows can be acted on, and shows the plan that approving
\* it would execute.
GateShownIsOpen ==
    \A r \in Run :
        (header[r].status = "awaiting_approval" /\ Idle(r) /\ r \notin cut) =>
            /\ ckpt[r].next = "execute" /\ ~Halted(r)
            /\ header[r].plan = ckpt[r].plan

\* Resuming never reopens a finished run: between a restart and the first
\* request, a terminal row keeps its status (resume.py scans unfinished rows).
BootKeepsTerminal ==
    [][phase = "boot" => \A r \in Run :
         header[r].status \in Terminal => header'[r] = header[r]]_vars

\* A checkpoint only moves forward through the graph, and a halted one never
\* becomes live again.
Rank == [none |-> 0, plan |-> 1, execute |-> 2, critic |-> 3, respond |-> 4, end |-> 5]
CheckpointMonotone ==
    [][\A r \in Run : /\ Rank[ckpt[r].next] <= Rank[ckpt'[r].next]
                      /\ Halted(r) => ckpt'[r].status = ckpt[r].status]_vars

\* Every run that starts reaches its gate or its end, if nothing cuts it off.
StartedRunsSettle ==
    \A r \in Run : header[r].status = "planning" ~>
        header[r].status \in Terminal \cup {"awaiting_approval"} \/ r \in cut

\* A decision the user sends, from the moment it waits in the brain's stdin, is
\* eventually read and its run reaches an end, approved, edited, rejected or
\* killed, behind whatever was queued before it: unless the process dies first
\* or an exception cuts the run off (transport.py's loop, runner.py's approve).
Waiting(r) == \E i \in DOMAIN inbox : inbox[i].run = r
DecisionsTakeEffect ==
    \A r \in Run : Waiting(r) ~>
        \/ ~Waiting(r) /\ header[r].status \in Terminal
        \/ r \in cut
        \/ phase = "down"

\* The boot pass ends: stdin is served again after every crash.
BootEnds == phase = "boot" ~> phase \in {"up", "down"}

-------------------------------------------------------------------------------
(* Inductive invariants, for the proofs *)

PastPlan(r) == ckpt[r].next \notin {"none", "plan"}

\* Why ExecutionNeedsGrant holds: a top-level run reaches execute only through
\* approve_plan, which has just taken a grant no execution has used.
GrantInv ==
    \A r \in Run :
        /\ r > created => origin[r].kind = "none"
        /\ task[r].call = "worker" => origin[r].kind = "worker"
        /\ origin[r].kind # "worker" =>
             /\ started[r] <= granted[r]
             /\ task[r].pc = "execute" => started[r] < granted[r]

\* Runs not created yet have left no trace.
FreshInv ==
    \A r \in Run : r > created =>
        /\ header[r] = NoHeader /\ ckpt[r] = NoCheckpoint /\ task[r] = NoTask
        /\ ui[r] = "absent"

\* Where a coroutine stands and what its checkpoint says agree.
TaskInv(r) ==
    /\ Active(r) => task[r].call # "none" /\ task[r].driver # "none"
    /\ task[r].pc = "input" => ckpt[r].next = "none"
    /\ task[r].pc \in Node => ckpt[r].next = task[r].pc
    /\ task[r].pc \in {"spawn", "parkNotify", "parkWrite"} =>
         ckpt[r].next = "execute" /\ ~Halted(r)
    /\ task[r].pc = "finalize" =>
         /\ ckpt[r].next \in {"execute", "end"}
         /\ ckpt[r].status = "pending" => r \in cut
    /\ task[r].call = "resume" => r \in cut
    /\ task[r].call = "approve" => PastPlan(r)

\* The status a checkpoint carries follows from where the graph stands.
CheckpointInv(r) ==
    /\ ckpt[r].status \in Terminal \cup {"pending"}
    /\ ~PastPlan(r) => ckpt[r].status = "pending"
    /\ ckpt[r].next = "end" => ckpt[r].status \in Terminal
    /\ ckpt[r].status = "completed" => ckpt[r].next = "end"

\* What the index says of a run follows from its checkpoint and its coroutine.
HeaderInv(r) ==
    /\ header[r].status = "awaiting_approval" => PastPlan(r)
    /\ ui[r] = "awaiting_approval" => PastPlan(r)
    /\ header[r].status = "completed" =>
         header[r].completed /\ ckpt[r].status = "completed"
    /\ (header[r].status \in Unfinished /\ Idle(r) /\ r \notin cut) =>
         /\ header[r].status = "awaiting_approval"
         /\ ckpt[r].next = "execute" /\ ~Halted(r)
         /\ header[r].plan = ckpt[r].plan

BootInv(r) ==
    /\ phase = "down" => Idle(r)
    /\ phase = "boot" /\ Active(r) => header[r].status \in Unfinished
    /\ r \in bootq => header[r].status \in Unfinished /\ Idle(r) /\ phase = "boot"

RunInv(r) == TaskInv(r) /\ CheckpointInv(r) /\ HeaderInv(r) /\ BootInv(r)

\* Only a run past its plan node is ever decided on.
InboxInv ==
    \A i \in 1..Len(inbox) :
        /\ inbox[i].run <= created
        /\ inbox[i].act # "kill" => PastPlan(inbox[i].run)

LifeInv == FreshInv /\ InboxInv /\ \A r \in Run : RunInv(r)

-------------------------------------------------------------------------------
(* What the repository says and the code does not do. *)

\* kill_run's docstring: in-flight work exits at its next checkpoint barrier, so
\* a run killed while a coroutine drives it stays killed.
KilledInFlightStays ==
    [][\A r \in Run : (Active(r) /\ header[r].status = "killed")
                        => header'[r].status = "killed"]_vars
===============================================================================
