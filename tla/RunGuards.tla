------------------------------ MODULE RunGuards ------------------------------
(* What watches over one run while it walks plan, execute, critic, respond   *)
(* (orchestration/graph.py): its budget (budget.py), the critic's reviews at *)
(* the budget's quarters (critic.py, drift.py), and the routing that chooses *)
(* a provider for every worker it spawns (worker_router.py, routing_table).  *)
(* The run's row, the gate's decisions and the workers' own lives are the    *)
(* subject of RunLifecycle.                                                  *)

EXTENDS InfoFlow

CONSTANTS
    MaxSteps,     \* bound: steps of a plan
    MaxCost,      \* tokens of the longest text
    MaxNow,       \* bound: seconds since the run began
    MaxCrashes,   \* bound: crashes
    TokenCap, SecondCap, IterationCaps,  \* the caps tried, next to none at all
    Tags,         \* TASK_TAGS; unknown ones count as "default", which is one of them
    Providers,
    Local,        \* those whose capability profile says so
    LocalChoice,  \* select_local_provider_for: mlx or ollama
    Global,       \* DEFAULT_GLOBAL_DEFAULTS: one provider for every tag
    None

ASSUME GuardsAssumption ==
    /\ {MaxSteps, MaxCost, MaxNow, MaxCrashes, TokenCap, SecondCap} \subseteq Nat
    /\ IterationCaps \subseteq Nat
    /\ Local \subseteq Providers /\ LocalChoice \in Local /\ Global \in Providers
    /\ None \notin Nat \cup Providers

VARIABLES
    run,       \* where the graph is, how it ended, the plan, what is left of it
    budget,    \* caps; None where there is none
    spent,     \* budget_consumed
    work,      \* the work entries of the action log
    hit,       \* critic_thresholds_hit
    saved,     \* the checkpoint of the node before: spent, work, hit
    now,       \* seconds since started_at_ms
    project,   \* the row of the run's project: its local_only flag and its overrides
    worker,    \* the provider of the worker the run waits for, or None
    parked,    \* a worker left by a crash waits for an approval of its own
    used,      \* history: tokens and node entries, those a crash forgot included
    driven,    \* history: provider and cause of the drives of workers while it was local-only
    crashes

workers == <<worker, parked, driven>>
vars == <<run, budget, spent, work, hit, saved, now, project, workers, used, crashes>>

Thresholds == {25, 50, 75}
PauseAt == 70           \* DEFAULT_DRIFT_PAUSE_THRESHOLD

Budget == [tokens: {None, TokenCap}, seconds: {None, SecondCap},
           iterations: {None} \cup IterationCaps]

\* Plans: none, one or all of their steps are delegated.
Step == 1..MaxSteps
NoPlan == [steps |-> {}, delegated |-> {}]
Plans == UNION {{[steps |-> 1..n, delegated |-> d] : d \in {{}, {1}, 1..n}} : n \in Step}

\* A project's row, or none: chat.send need not name one, and an id without a
\* row counts as none.  No row is ever deleted, and a run keeps its project's id.
NoProject == [named |-> FALSE, private |-> FALSE, overrides |-> [t \in Tags |-> None]]
Project == [named: {TRUE}, private: BOOLEAN, overrides: [Tags -> Providers \cup {None}]]

Drive == [provider: Providers, by: {"spawn", "boot", "approval"}]

TypeOK ==
    /\ run.at \in {"plan", "planning", "gate", "execute", "executing", "critic",
                   "reviewing", "respond", "responding", "end"}
    /\ run.status \in {"live", "killed", "errored", "completed"}
    /\ run.plan.steps \subseteq Step /\ run.left \subseteq Step
    /\ run.gates \subseteq {"budget", "drift"}
    /\ budget \in Budget
    /\ {spent.tokens, spent.seconds, spent.iterations, now, crashes} \subseteq Nat
    /\ {used.tokens, used.iterations} \subseteq Nat
    /\ hit \subseteq Thresholds
    /\ project \in Project \cup {NoProject}
    /\ worker \in Providers \cup {None} /\ parked \in BOOLEAN /\ driven \subseteq Drive

Init ==
    /\ run = [at |-> "plan", status |-> "live", plan |-> NoPlan, left |-> {}, gates |-> {}]
    /\ budget \in Budget
    /\ spent = [tokens |-> 0, seconds |-> 0, iterations |-> 0]
    /\ work = {} /\ hit = {} /\ now = 0 /\ crashes = 0
    /\ used = [tokens |-> 0, iterations |-> 0]
    /\ worker = None /\ parked = FALSE /\ driven = {}
    /\ saved = [spent |-> spent, work |-> {}, hit |-> {}]
    /\ project \in {NoProject} \cup
          {[named |-> TRUE, private |-> b, overrides |-> [t \in Tags |-> None]] : b \in BOOLEAN}

-----------------------------------------------------------------------------
(* Budget *)

Exceeds(amount, cap) == cap # None /\ amount > cap

\* check_budget.
Over(s) ==
    \/ Exceeds(s.iterations, budget.iterations)
    \/ Exceeds(s.seconds, budget.seconds)
    \/ Exceeds(s.tokens, budget.tokens)

\* _enter_node: one more iteration, the clock read again.
Entered == [spent EXCEPT !.iterations = @ + 1, !.seconds = now]

\* What was asked for has arrived: its tokens, and the clock read again.
Charged(cost) == [spent EXCEPT !.tokens = @ + cost, !.seconds = now]

\* crossed_thresholds of a consumption; a cap of zero has no quarters.
Used(amount, cap) == IF cap \in {None, 0} THEN 0 ELSE (100 * amount) \div cap
Crossed(s) ==
    LET share == Larger(Used(s.tokens, budget.tokens),
                        Larger(Used(s.seconds, budget.seconds),
                               Used(s.iterations, budget.iterations)))
    IN {t \in Thresholds : share >= t}

-----------------------------------------------------------------------------
(* The walk *)

At(node) == run.at = node /\ run.status = "live"
Goto(node) == run' = [run EXCEPT !.at = node]
Checkpoint == saved' = [spent |-> spent', work |-> work', hit |-> hit']
settingsUnchanged == UNCHANGED <<budget, now, project, crashes>>

\* _halt_if_over_budget and the drift gate: the run is killed where it stands
\* and the nodes that follow return at once.
Halt(gate) == run' = [run EXCEPT !.at = "end", !.status = "killed", !.gates = @ \cup {gate}]

\* History: a node is entered, a text arrives, whether a crash forgets it or not.
UseNode == used' = [used EXCEPT !.iterations = @ + 1]
UseText(cost) == used' = [used EXCEPT !.tokens = @ + cost]

\* The entry of a node: the check, and on to its work.
Enter(node, working) ==
    /\ At(node)
    /\ spent' = Entered /\ UseNode
    /\ IF Over(Entered) THEN Halt("budget") ELSE Goto(working)

Plan ==
    /\ Enter("plan", "planning")
    /\ UNCHANGED <<work, hit, saved, workers>> /\ settingsUnchanged

\* The planner's text becomes a plan of one step at least, whatever it says.
Planned ==
    /\ At("planning")
    /\ \E cost \in 0..MaxCost :
          /\ spent' = Charged(cost) /\ UseText(cost)
          /\ IF Over(Charged(cost)) THEN Halt("budget")
             ELSE \E plan \in Plans : run' = [run EXCEPT !.at = "gate", !.plan = plan]
    /\ UNCHANGED <<work, hit, workers>> /\ Checkpoint /\ settingsUnchanged

\* The user approves the plan, or another in its place.
Approve ==
    /\ At("gate")
    /\ \E plan \in {run.plan} \cup Plans :
          run' = [run EXCEPT !.at = "execute", !.plan = plan, !.left = plan.delegated]
    /\ UNCHANGED <<spent, work, hit, saved, workers, used>> /\ settingsUnchanged

Execute ==
    /\ Enter("execute", "executing")
    /\ UNCHANGED <<work, hit, saved, workers>> /\ settingsUnchanged

Executed ==
    /\ At("executing") /\ run.left = {} /\ worker = None
    /\ Goto("critic")
    /\ UNCHANGED <<spent, work, hit, workers, used>> /\ Checkpoint /\ settingsUnchanged

-----------------------------------------------------------------------------
(* Workers *)

\* route_worker, on the project's row as it is at the spawn: the flag goes
\* first, then an override of the tag.
Route(tag) ==
    IF project.private THEN LocalChoice
    ELSE IF project.overrides[tag] # None THEN project.overrides[tag]
    ELSE Global

\* The router's own check on what it was told (LocalOnlyViolation): such a
\* spawn is skipped.
Refused(provider) == project.private /\ provider \notin Local

Driven(provider, by) ==
    driven' = IF project.private
              THEN driven \cup {[provider |-> provider, by |-> by]} ELSE driven

\* The next delegated step: its log entry, then its worker, which has no
\* budget and whose tokens nobody charges.  The entry may happen to mention
\* words of other steps.
Spawn ==
    /\ At("executing") /\ run.left # {} /\ worker = None
    /\ LET step == CHOOSE s \in run.left : \A t \in run.left : s <= t IN
          /\ run' = [run EXCEPT !.left = @ \ {step}]
          /\ \E mentioned \in {{}, run.plan.steps} :
                work' = work \cup {[step |-> step, words |-> mentioned]}
    /\ \E tag \in Tags :
          IF Refused(Route(tag)) THEN UNCHANGED <<worker, driven>>
          ELSE worker' = Route(tag) /\ Driven(Route(tag), "spawn")
    /\ UNCHANGED <<spent, hit, saved, parked, used>> /\ settingsUnchanged

\* The worker's result comes back.
WorkerEnds ==
    /\ At("executing") /\ worker # None
    /\ worker' = None
    /\ UNCHANGED <<run, spent, work, hit, saved, parked, driven, used>> /\ settingsUnchanged

\* Mutant of Recorded: the worker's row has the provider its parent runs on.
RecordedOfParent == Global
\* The provider in the row of the worker that a crash left, for the boot pass.
Recorded == worker

\* The boot pass over the row of a worker that a crash cut off: one that had not
\* got to its execute node plans again, if at all, and is parked, one past it is
\* driven to its end; both on the provider its row names.
BootWorker ==
    /\ worker' = None
    /\ IF worker = None THEN UNCHANGED <<parked, driven>>
       ELSE /\ parked' \in {parked, TRUE}
            /\ UNCHANGED driven \/ Driven(Recorded, "boot")

\* A parked worker is approved as a run of its own, on whichever provider is the
\* user's at that time: nobody asks the router.
ApproveWorker ==
    /\ At("gate") /\ parked
    /\ parked' = FALSE
    /\ \E provider \in Providers : Driven(provider, "approval")
    /\ UNCHANGED <<run, spent, work, hit, saved, worker, used>> /\ settingsUnchanged

\* routing.set, routing.clear, and the conversational edits of both and of the
\* flag; a merge that absorbs the project leaves its row and takes its overrides.
\* The request loop is busy but while the run waits for its approval.
EditProject ==
    /\ At("gate") /\ project.named
    /\ \/ \E tag \in Tags, provider \in Providers \cup {None} :
             project' = [project EXCEPT !.overrides[tag] = provider]
       \/ \E flag \in BOOLEAN : project' = [project EXCEPT !.private = flag]
       \/ project' = [project EXCEPT !.overrides = [t \in Tags |-> None]]
    /\ UNCHANGED <<run, budget, spent, work, hit, saved, now, workers, used, crashes>>

-----------------------------------------------------------------------------
(* Reviews *)

StepsOf(plan) == {[id |-> s, words |-> {s}] : s \in plan.steps}

\* Mutant of Drift: the critic alone is believed.
DriftByCritic(opinion) == opinion
\* combined_drift.
Drift(opinion) == Larger(opinion, PlanVsAction(StepsOf(run.plan), work))

Critic ==
    /\ Enter("critic", "reviewing")
    /\ UNCHANGED <<work, hit, saved, workers>> /\ settingsUnchanged

\* One newly crossed threshold, in ascending order; an answer that does not
\* parse counts as 0.
Review ==
    /\ At("reviewing")
    /\ Crossed(spent) \ hit # {}
    /\ hit' = hit \cup {CHOOSE t \in Crossed(spent) \ hit :
                            \A u \in Crossed(spent) \ hit : t <= u}
    /\ \E opinion \in {0, PauseAt} :
          IF Drift(opinion) >= PauseAt THEN Halt("drift") ELSE UNCHANGED run
    /\ UNCHANGED <<spent, work, saved, workers, used>> /\ settingsUnchanged

Reviewed ==
    /\ At("reviewing")
    /\ Crossed(spent) \subseteq hit
    /\ Goto("respond")
    /\ UNCHANGED <<spent, work, hit, workers, used>> /\ Checkpoint /\ settingsUnchanged

-----------------------------------------------------------------------------
(* The reply *)

Respond ==
    /\ Enter("respond", "responding")
    /\ UNCHANGED <<work, hit, saved, workers>> /\ settingsUnchanged

Finish == \E status \in {"completed", "errored"} :
             run' = [run EXCEPT !.at = "end", !.status = status]

\* Mutant of Settle: the reply is delivered whatever it cost.
SettleUnchecked(cost) == Finish
\* The check after the work goes before the outcome.
Settle(cost) == IF Over(Charged(cost)) THEN Halt("budget") ELSE Finish

Responded ==
    /\ At("responding")
    /\ \E cost \in 0..MaxCost :
          spent' = Charged(cost) /\ UseText(cost) /\ Settle(cost)
    /\ UNCHANGED <<work, hit, saved, workers>> /\ settingsUnchanged

-----------------------------------------------------------------------------
(* Time and crashes *)

Tick ==
    /\ run.status = "live" /\ now < MaxNow
    /\ now' = now + 1
    /\ UNCHANGED <<run, budget, spent, work, hit, saved, project, workers, used, crashes>>

\* A crash in a node: the next boot enters the node again, with what the
\* checkpoint before it says, or for execute asks for the approval again.  The
\* clock runs on, and of the text under way nothing is charged.
Crash ==
    /\ crashes < MaxCrashes
    /\ \/ At("planning") /\ Goto("plan") /\ \E cost \in 0..MaxCost : UseText(cost)
       \/ At("executing") /\ Goto("gate") /\ UNCHANGED used
       \/ At("reviewing") /\ Goto("critic") /\ UNCHANGED used
       \/ At("responding") /\ Goto("respond") /\ \E cost \in 0..MaxCost : UseText(cost)
    /\ spent' = saved.spent /\ work' = saved.work /\ hit' = saved.hit
    /\ BootWorker
    /\ crashes' = crashes + 1
    /\ UNCHANGED <<budget, saved, now, project>>

Ended == run.status # "live" /\ UNCHANGED vars

Next ==
    \/ Plan \/ Planned \/ Approve \/ EditProject
    \/ Execute \/ Spawn \/ WorkerEnds \/ ApproveWorker \/ Executed
    \/ Critic \/ Review \/ Reviewed
    \/ Respond \/ Responded
    \/ Tick \/ Crash \/ Ended

Spec == Init /\ [][Next]_vars

-----------------------------------------------------------------------------
(* Properties *)

\* What a run has really used, with what crashes made it forget, passes a cap by
\* one text or one node at most, and by one more for each crash; a run that
\* replied, by its crashes' alone, and not in time, which no crash takes back
\* (graph.py: _enter_node, _maybe_halt_after_work).
Replied == run.status \in {"completed", "errored"}
Excess == crashes + (IF Replied THEN 0 ELSE 1)
SpendingBounded ==
    /\ budget.tokens # None => used.tokens <= budget.tokens + MaxCost * Excess
    /\ budget.iterations # None => used.iterations <= budget.iterations + Excess
    /\ budget.seconds # None /\ Replied => now <= budget.seconds

\* A run of which the critic saw a quarter of the budget used, which has work to
\* show, but none for most of its plan, does not get to reply, whatever the
\* critic thinks and wherever it crashed.  A run with no work at all, whose plan
\* is all inline, may: a quiet log is no proof (drift.py: compute_drift_score).
Untraced == {s \in StepsOf(run.plan) :
                \A e \in work : e.step # s.id /\ e.words \cap s.words = {}}
DriftStops ==
    run.at \in {"respond", "responding"} \/ run.status = "completed" =>
        \/ hit = {}
        \/ work = {}
        \/ 100 * Cardinality(Untraced) < PauseAt * Cardinality(StepsOf(run.plan))

\* While a project is local-only no worker of its runs is driven by a provider
\* that is not, whichever overrides it has and whenever the flag was set, also
\* when a crash leaves it to the next boot; but for a worker that such a crash
\* parked, which runs on the provider of its approval (worker_router.py: "refuse
\* rather than proceed").
PrivateStaysLocal ==
    \A d \in driven : d.provider \in Local \/ d.by = "approval"

\* critic.py: "The critic runs at budget percentages (25 / 50 / 75 %) and
\* after the respond step".
ReviewedAfterRespond == run.status = "completed" => Crossed(spent) \subseteq hit
=============================================================================
