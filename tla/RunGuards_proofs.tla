--------------------------- MODULE RunGuards_proofs ---------------------------
(* What a run uses is bounded, one that has drifted does not reply, and the   *)
(* workers of a local-only project are local, for every plan, cap, number of  *)
(* crashes and set of providers.                                              *)
EXTENDS RunGuards, FiniteSetTheorems, TLAPS

-------------------------------------------------------------------------------
(* Scores *)

LEMMA MissingIsInteger ==
    ASSUME NEW all, NEW seen, IsFiniteSet(all)
    PROVE  Missing(all, seen) \in Int
<1>1. CASE all = {}
  BY <1>1 DEF Missing
<1>2. CASE all # {}
  <2>1. Cardinality(all) \in Nat \ {0}
    BY <1>2, FS_CardinalityType, FS_EmptySet
  <2>2. IsFiniteSet(all \ seen)
    BY FS_Difference
  <2>3. Cardinality(all \ seen) \in Nat
    BY <2>2, FS_CardinalityType
  <2>4. \A m \in Nat, n \in Nat \ {0} : (100 * m) \div n \in Int
    OBVIOUS
  <2>5. QED
    BY <1>2, <2>1, <2>3, <2>4 DEF Missing
<1>3. QED
  BY <1>1, <1>2

LEMMA StepsAreFinite ==
    ASSUME NEW plan, NEW n \in Nat, plan.steps \subseteq 1..n
    PROVE  IsFiniteSet(StepsOf(plan))
<1>1. IsFiniteSet(plan.steps)
  <2>1. IsFiniteSet(1..n)
    BY FS_Interval
  <2>2. QED BY <2>1, FS_Subset
<1>2. QED
  <2> DEFINE f == [s \in plan.steps |-> [id |-> s, words |-> {s}]]
  <2>1. f \in Surjection(plan.steps, StepsOf(plan))
    BY DEF StepsOf, Surjection
  <2>2. QED
    BY <1>1, <2>1, FS_Surjection

LEMMA PlanVsActionIsInteger ==
    ASSUME NEW plan, NEW log, NEW n \in Nat, plan.steps \subseteq 1..n
    PROVE  PlanVsAction(StepsOf(plan), log) \in Int
  BY StepsAreFinite, MissingIsInteger DEF PlanVsAction

\* If neither opinion nor evidence halts a run, its plan has left its traces.
LEMMA DriftBoundsPlan ==
    ASSUME NEW opinion \in {0, PauseAt}, PlanVsAction(StepsOf(run.plan), work) \in Int,
           ~(Drift(opinion) >= PauseAt)
    PROVE  PlanVsAction(StepsOf(run.plan), work) < PauseAt
  BY DEF Drift, Larger, PauseAt

-------------------------------------------------------------------------------
(* Types *)

Nodes == {"plan", "planning", "gate", "execute", "executing", "critic",
          "reviewing", "respond", "responding", "end"}
Run == [at : Nodes, status : {"live", "killed", "errored", "completed"},
        plan : Plans \cup {NoPlan}, left : SUBSET Step, gates : SUBSET {"budget", "drift"}]
Spent == [tokens : Nat, seconds : Nat, iterations : Nat]

\* What a step needs to know of the state's shape.
ShapeInv ==
    /\ run \in Run
    /\ budget \in Budget
    /\ spent \in Spent /\ saved.spent \in Spent
    /\ used \in [tokens : Nat, iterations : Nat]
    /\ hit \subseteq Thresholds /\ saved.hit \subseteq Thresholds
    /\ now \in Nat /\ crashes \in Nat
    /\ project \in Project \cup {NoProject}
    /\ worker \in Providers \cup {None} /\ parked \in BOOLEAN /\ driven \subseteq Drive

LEMMA PlansHaveSteps ==
    ASSUME NEW plan \in Plans \cup {NoPlan}
    PROVE  plan.steps \subseteq Step /\ plan.delegated \subseteq Step
<1>1. CASE plan = NoPlan
  BY <1>1 DEF NoPlan
<1>2. CASE plan \in Plans
  <2>1. PICK n \in Step : \E d \in {{}, {1}, 1..n} : plan = [steps |-> 1..n, delegated |-> d]
    BY <1>2 DEF Plans
  <2>2. n \in 1..MaxSteps /\ MaxSteps \in Nat
    BY GuardsAssumption DEF Step
  <2>3. 1..n \subseteq Step /\ {1} \subseteq Step
    BY <2>2 DEF Step
  <2>4. PICK d \in {{}, {1}, 1..n} : plan = [steps |-> 1..n, delegated |-> d]
    BY <2>1
  <2>5. d \subseteq Step
    BY <2>3
  <2>6. plan.steps = 1..n /\ plan.delegated = d
    BY <2>4
  <2>7. QED
    BY <2>3, <2>5, <2>6
<1>3. QED
  BY <1>1, <1>2

LEMMA SpentGrows ==
    ASSUME spent \in Spent, now \in Nat, NEW cost \in Nat
    PROVE  Entered \in Spent /\ Charged(cost) \in Spent
<1>1. spent.tokens + cost \in Nat /\ spent.iterations + 1 \in Nat
  BY DEF Spent
<1>2. QED
  BY <1>1 DEF Entered, Charged, Spent

LEMMA RouteIsKnown ==
    ASSUME project \in Project \cup {NoProject}, NEW tag \in Tags
    PROVE  Route(tag) \in Providers /\ project.private \in BOOLEAN
<1>1. LocalChoice \in Providers /\ Global \in Providers
  BY GuardsAssumption
<1>2. project.private \in BOOLEAN /\ project.overrides[tag] \in Providers \cup {None}
  <2>1. CASE project \in Project
    BY <2>1 DEF Project
  <2>2. CASE project = NoProject
    BY <2>2 DEF NoProject
  <2>3. QED BY <2>1, <2>2
<1>3. QED
  BY <1>1, <1>2 DEF Route

LEMMA HaltShape ==
    ASSUME run \in Run, NEW gate \in {"budget", "drift"}, Halt(gate)
    PROVE  /\ run' \in Run /\ run'.at = "end" /\ run'.status = "killed"
           /\ run'.plan = run.plan
  BY DEF Halt, Run, Nodes

LEMMA GotoShape ==
    ASSUME run \in Run, NEW node \in Nodes, Goto(node)
    PROVE  /\ run' \in Run /\ run'.at = node /\ run'.status = run.status
           /\ run'.plan = run.plan /\ run'.gates = run.gates
  BY DEF Goto, Run

LEMMA FinishShape ==
    ASSUME run \in Run, Finish
    PROVE  /\ run' \in Run /\ run'.at = "end" /\ run'.status \in {"completed", "errored"}
           /\ run'.plan = run.plan /\ run'.gates = run.gates
  BY DEF Finish, Run, Nodes


\* What a node's entry does to the run, and to what it has spent.
Moved(node, working) ==
    /\ run.at = node /\ run.status = "live"
    /\ run' \in Run /\ run'.plan = run.plan
    /\ spent' \in Spent /\ spent'.tokens = spent.tokens
    /\ spent'.iterations = spent.iterations + 1
    /\ used' \in [tokens : Nat, iterations : Nat] /\ used'.tokens = used.tokens
    /\ used'.iterations = used.iterations + 1
    /\ \/ run'.at = "end" /\ run'.status = "killed"
       \/ run'.at = working /\ run'.status = "live" /\ run'.gates = run.gates /\ ~Over(spent')

\* A node's entry either halts the run or moves it on.
LEMMA EnterShape ==
    ASSUME ShapeInv, NEW node, NEW working \in Nodes, Enter(node, working)
    PROVE  Moved(node, working)
<1>1. /\ spent' \in Spent /\ spent'.tokens = spent.tokens
      /\ spent'.iterations = spent.iterations + 1
  BY SpentGrows DEF Enter, Entered, ShapeInv, Spent
<1>2. /\ used' \in [tokens : Nat, iterations : Nat] /\ used'.tokens = used.tokens
      /\ used'.iterations = used.iterations + 1
  BY DEF Enter, UseNode, ShapeInv
<1>3. CASE Over(Entered)
  BY <1>1, <1>2, <1>3, HaltShape DEF ShapeInv, Enter, At, Moved
<1>4. CASE ~Over(Entered)
  BY <1>1, <1>2, <1>4, GotoShape DEF ShapeInv, Enter, At, Moved
<1>5. QED
  BY <1>3, <1>4

\* What the arrival of a text does to what the run has spent.
LEMMA ChargeShape ==
    ASSUME ShapeInv, NEW cost \in 0..MaxCost, spent' = Charged(cost), UseText(cost)
    PROVE  /\ spent' \in Spent /\ spent'.tokens = spent.tokens + cost
           /\ spent'.iterations = spent.iterations /\ spent'.seconds = now
           /\ used' \in [tokens : Nat, iterations : Nat] /\ used'.tokens = used.tokens + cost
           /\ used'.iterations = used.iterations
<1>1. cost \in Nat
  BY GuardsAssumption
<1>2. spent' \in Spent
  BY <1>1, SpentGrows DEF ShapeInv
<1>3. spent.tokens + cost \in Nat /\ used.tokens + cost \in Nat
  BY <1>1 DEF ShapeInv, Spent
<1>4. QED
  BY <1>2, <1>3 DEF Charged, UseText, ShapeInv, Spent

-------------------------------------------------------------------------------
(* The invariant *)

Traced == PlanVsAction(StepsOf(run.plan), work) < PauseAt

\* Reviews lie between the checkpoint of execute, which knows of none, and that
\* of critic, which knows of all.
ReviewInv ==
    /\ run.at \in {"plan", "planning", "gate", "execute", "executing", "critic"} => hit = {}
    /\ run.at \in {"plan", "planning", "gate", "execute", "executing", "critic", "reviewing"} =>
           saved.hit = {}
    /\ run.at \in {"respond", "responding"} => saved.hit = hit /\ saved.work = work
    /\ hit = {} \/ Traced \/ run.status = "killed"
    /\ run.at \in {"plan", "planning"} \/ run.status = "killed" \/ run.plan \in Plans

EndInv ==
    /\ run.status # "live" => run.at = "end"
    /\ run.status \in {"live", "completed", "errored"} => run.gates = {}
    /\ Replied => ~Over(spent) /\ spent.seconds = now

\* The count of a live run is within its caps, and one text or one node more is
\* all a halt may find; the count of the checkpoint is the same, but for the
\* node under way; and a crash forgets one text and one entry.
Working == {"planning", "executing", "reviewing", "responding"}
WithinCaps ==
    /\ budget.tokens # None => spent.tokens <= budget.tokens
    /\ budget.iterations # None => spent.iterations <= budget.iterations
JustPast ==
    /\ budget.tokens # None => spent.tokens <= budget.tokens + MaxCost
    /\ budget.iterations # None => spent.iterations <= budget.iterations + 1
Resumable ==
    /\ saved.spent.tokens = spent.tokens
    /\ run.at \in Working => spent.iterations = saved.spent.iterations + 1
    /\ run.at \notin Working => spent.iterations = saved.spent.iterations
Forgotten ==
    /\ used.tokens <= spent.tokens + MaxCost * crashes
    /\ used.iterations <= spent.iterations + crashes
SpendInv ==
    /\ run.status = "live" => WithinCaps /\ Resumable
    /\ run.status # "live" => JustPast
    /\ Forgotten

\* Workers live while execute waits for them, when nobody edits the project.
WorkerInv ==
    /\ worker # None => run.at = "executing"
    /\ worker # None /\ project.private => worker \in Local
    /\ PrivateStaysLocal

IInv == ShapeInv /\ ReviewInv /\ EndInv /\ SpendInv /\ WorkerInv

\* The caps are numbers, where there are any.
LEMMA CapsAreNumbers ==
    ASSUME ShapeInv
    PROVE  /\ budget.tokens # None => budget.tokens \in Nat
           /\ budget.seconds # None => budget.seconds \in Nat
           /\ budget.iterations # None => budget.iterations \in Nat
           /\ MaxCost \in Nat /\ crashes \in Nat /\ MaxCost * crashes \in Nat
<1>1. MaxCost \in Nat /\ crashes \in Nat
  BY GuardsAssumption DEF ShapeInv
<1>2. \A m, c \in Nat : m * c \in Nat
  OBVIOUS
<1>3. TokenCap \in Nat /\ SecondCap \in Nat /\ IterationCaps \subseteq Nat
  BY GuardsAssumption
<1>4. /\ budget.tokens \in {None, TokenCap} /\ budget.seconds \in {None, SecondCap}
      /\ budget.iterations \in {None} \cup IterationCaps
  BY DEF ShapeInv, Budget
<1>5. QED
  BY <1>1, <1>2, <1>3, <1>4

LEMMA NotOverIsWithin ==
    ASSUME ShapeInv, NEW s \in Spent, ~Over(s)
    PROVE  /\ budget.tokens # None => s.tokens <= budget.tokens
           /\ budget.seconds # None => s.seconds <= budget.seconds
           /\ budget.iterations # None => s.iterations <= budget.iterations
  BY CapsAreNumbers DEF Over, Exceeds, Spent

LEMMA IInvInit == Init => IInv
<1> SUFFICES ASSUME Init PROVE IInv
  OBVIOUS
<1>1. NoPlan \in Plans \cup {NoPlan} /\ {} \subseteq Step
  OBVIOUS
<1>2. ShapeInv
  <2>1. run \in Run
    BY <1>1 DEF Init, Run, Nodes
  <2>2. spent \in Spent /\ saved.spent \in Spent
    BY DEF Init, Spent
  <2>3. project \in Project \cup {NoProject}
    <3>1. [t \in Tags |-> None] \in [Tags -> Providers \cup {None}]
      OBVIOUS
    <3>2. CASE project = NoProject
      BY <3>2
    <3>3. ASSUME NEW b \in BOOLEAN,
                 project = [named |-> TRUE, private |-> b, overrides |-> [t \in Tags |-> None]]
          PROVE  project \in Project
      BY <3>1, <3>3 DEF Project
    <3>4. QED BY <3>2, <3>3 DEF Init
  <2>4. QED
    BY <2>1, <2>2, <2>3 DEF Init, ShapeInv
<1>3. ReviewInv /\ EndInv /\ WorkerInv
  BY DEF Init, ReviewInv, EndInv, Replied, WorkerInv, PrivateStaysLocal
<1>4. SpendInv
  <2>1. run.status = "live" /\ run.at = "plan" /\ saved.spent = spent
        /\ spent.tokens = 0 /\ spent.iterations = 0 /\ crashes = 0
        /\ used.tokens = 0 /\ used.iterations = 0
    BY DEF Init
  <2>2. WithinCaps
    BY <1>2, <2>1, CapsAreNumbers DEF WithinCaps
  <2>3. Resumable
    BY <2>1 DEF Resumable, Working
  <2>4. Forgotten
    BY <1>2, <2>1, CapsAreNumbers DEF Forgotten
  <2>5. QED
    BY <2>1, <2>2, <2>3, <2>4 DEF SpendInv
<1>5. QED
  BY <1>2, <1>3, <1>4 DEF IInv

-------------------------------------------------------------------------------
(* What a step may do to the count *)

LEMMA EntrySpends ==
    ASSUME IInv, NEW node \in Nodes, NEW working \in Nodes, Moved(node, working),
           node \notin Working, working \in Working, UNCHANGED <<saved, budget, crashes>>
    PROVE  SpendInv'
<1> USE DEF IInv
<1>1. WithinCaps /\ Resumable /\ Forgotten
  BY DEF SpendInv, Moved
<1>2. Forgotten'
  BY <1>1, CapsAreNumbers DEF Forgotten, Moved, ShapeInv, Spent
<1>3. CASE run'.status = "killed"
  <2>1. JustPast'
    BY <1>1, CapsAreNumbers DEF WithinCaps, JustPast, Moved, ShapeInv, Spent
  <2>2. QED
    BY <1>2, <1>3, <2>1 DEF SpendInv
<1>4. CASE run'.status = "live" /\ run'.at = working /\ ~Over(spent')
  <2>1. WithinCaps'
    BY <1>4, NotOverIsWithin DEF WithinCaps, Moved
  <2>2. Resumable'
    BY <1>1, <1>4 DEF Resumable, Moved
  <2>3. QED
    BY <1>2, <1>4, <2>1, <2>2 DEF SpendInv
<1>5. QED
  BY <1>3, <1>4 DEF Moved

LEMMA TextSpends ==
    ASSUME IInv, run.status = "live", NEW cost \in 0..MaxCost,
           spent' = Charged(cost), UseText(cost), UNCHANGED <<budget, crashes>>,
           run'.status = "live" =>
               ~Over(spent') /\ run'.at \notin Working /\ saved'.spent = spent'
    PROVE  SpendInv'
<1> USE DEF IInv
<1>1. WithinCaps /\ Forgotten
  BY DEF SpendInv
<1>2. /\ spent' \in Spent /\ spent'.tokens = spent.tokens + cost
      /\ spent'.iterations = spent.iterations
      /\ used' \in [tokens : Nat, iterations : Nat] /\ used'.tokens = used.tokens + cost
      /\ used'.iterations = used.iterations
  BY ChargeShape
<1>3. cost \in Nat /\ cost <= MaxCost
  BY CapsAreNumbers
<1>4. Forgotten'
  <2>1. used'.tokens <= spent'.tokens + MaxCost * crashes
    BY <1>1, <1>2, <1>3, CapsAreNumbers DEF Forgotten, ShapeInv, Spent
  <2>2. used'.iterations <= spent'.iterations + crashes
    BY <1>1, <1>2 DEF Forgotten
  <2>3. QED
    BY <2>1, <2>2 DEF Forgotten
<1>5. CASE run'.status # "live"
  <2>1. JustPast'
    BY <1>1, <1>2, <1>3, CapsAreNumbers DEF WithinCaps, JustPast, ShapeInv, Spent
  <2>2. QED
    BY <1>4, <1>5, <2>1 DEF SpendInv
<1>6. CASE run'.status = "live"
  <2>1. WithinCaps'
    BY <1>2, <1>6, NotOverIsWithin DEF WithinCaps
  <2>2. Resumable'
    BY <1>2, <1>6 DEF Resumable, Spent
  <2>3. QED
    BY <1>4, <1>6, <2>1, <2>2 DEF SpendInv
<1>7. QED
  BY <1>5, <1>6

\* Nothing is spent, and the run goes on.
LEMMA NothingSpent ==
    ASSUME IInv, UNCHANGED <<spent, used, budget, crashes>>,
           run.status = "live", run'.status = "live",
           \/ UNCHANGED saved /\ (run'.at \in Working <=> run.at \in Working)
           \/ saved'.spent = spent' /\ run'.at \notin Working
    PROVE  SpendInv'
<1>1. WithinCaps /\ Resumable /\ Forgotten
  BY DEF IInv, SpendInv
<1>2. WithinCaps' /\ Forgotten'
  BY <1>1 DEF WithinCaps, Forgotten
<1>3. Resumable'
  BY <1>1 DEF Resumable
<1>4. QED
  BY <1>2, <1>3 DEF SpendInv

\* Nothing is spent, and nothing but the workers or the project changes.
LEMMA SameRun ==
    ASSUME IInv, UNCHANGED <<run, spent, used, saved, budget, crashes>>
    PROVE  SpendInv'
<1>1. SpendInv
  BY DEF IInv
<1>2. (WithinCaps' <=> WithinCaps) /\ (Resumable' <=> Resumable)
      /\ (JustPast' <=> JustPast) /\ (Forgotten' <=> Forgotten)
  BY DEF WithinCaps, Resumable, JustPast, Forgotten
<1>3. QED
  BY <1>1, <1>2 DEF SpendInv

-------------------------------------------------------------------------------
(* Every step keeps the invariant *)

\* The entry of a node: nothing but the run and its consumption changes.
LEMMA EnterSafe ==
    ASSUME IInv, NEW node, NEW working, Enter(node, working),
           UNCHANGED <<work, hit, saved, workers, budget, now, project, crashes>>,
           \/ node = "plan" /\ working = "planning"
           \/ node = "execute" /\ working = "executing"
           \/ node = "critic" /\ working = "reviewing"
           \/ node = "respond" /\ working = "responding"
    PROVE  IInv'
<1>0. node \in Nodes /\ working \in Nodes /\ node \notin Working /\ working \in Working
  BY DEF Nodes, Working
<1>1. Moved(node, working)
  BY <1>0, EnterShape DEF IInv
<1>2. UNCHANGED <<worker, parked, driven>>
  BY DEF workers
<1>3. ShapeInv'
  BY <1>1, <1>2 DEF IInv, ShapeInv, Moved
<1>4. Traced' <=> Traced
  BY <1>1 DEF Traced, Moved
<1>5. ReviewInv'
  BY <1>1, <1>4 DEF IInv, ReviewInv, Moved
<1>6. EndInv'
  BY <1>1 DEF IInv, EndInv, Replied, Moved
<1>7. SpendInv'
  BY <1>0, <1>1, EntrySpends
<1>8. WorkerInv'
  <2>1. worker' = None
    BY <1>1, <1>2 DEF IInv, WorkerInv, Moved
  <2>2. QED BY <1>2, <2>1 DEF IInv, WorkerInv, PrivateStaysLocal
<1>9. QED
  BY <1>3, <1>5, <1>6, <1>7, <1>8 DEF IInv

LEMMA PlannedSafe == ASSUME IInv, Planned PROVE IInv'
<1>1. PICK cost \in 0..MaxCost :
        /\ spent' = Charged(cost) /\ UseText(cost)
        /\ IF Over(Charged(cost)) THEN Halt("budget")
           ELSE \E plan \in Plans : run' = [run EXCEPT !.at = "gate", !.plan = plan]
  BY DEF Planned
<1>2. /\ run.at = "planning" /\ run.status = "live" /\ hit = {} /\ run.gates = {}
      /\ UNCHANGED <<work, hit, worker, parked, driven, budget, now, project, crashes>>
      /\ saved' = [spent |-> spent', work |-> work', hit |-> hit']
  BY DEF Planned, At, Checkpoint, settingsUnchanged, workers, IInv, ReviewInv, EndInv
<1>3. spent' \in Spent /\ used' \in [tokens : Nat, iterations : Nat]
  BY <1>1, ChargeShape DEF IInv
<1>4. /\ run' \in Run
      /\ \/ run'.at = "end" /\ run'.status = "killed"
         \/ /\ run'.at = "gate" /\ run'.status = "live" /\ run'.gates = {}
            /\ run'.plan \in Plans /\ ~Over(spent')
  <2>1. CASE Over(Charged(cost))
    BY <1>1, <2>1, HaltShape DEF IInv, ShapeInv
  <2>2. CASE ~Over(Charged(cost))
    <3>1. PICK plan \in Plans : run' = [run EXCEPT !.at = "gate", !.plan = plan]
      BY <1>1, <2>2
    <3>2. QED BY <1>1, <1>2, <2>2, <3>1 DEF IInv, ShapeInv, Run, Nodes
  <2>3. QED BY <2>1, <2>2
<1>5. ShapeInv'
  BY <1>2, <1>3, <1>4 DEF IInv, ShapeInv
<1>6. ReviewInv' /\ EndInv'
  BY <1>2, <1>4 DEF ReviewInv, EndInv, Replied
<1>7. SpendInv'
  <2>1. saved'.spent = spent' /\ "gate" \notin Working
    BY <1>2 DEF Working
  <2>2. QED BY <1>1, <1>2, <1>4, <2>1, TextSpends
<1>8. WorkerInv'
  BY <1>2 DEF IInv, WorkerInv, PrivateStaysLocal
<1>9. QED
  BY <1>5, <1>6, <1>7, <1>8 DEF IInv

LEMMA ApproveSafe == ASSUME IInv, Approve PROVE IInv'
<1>1. PICK plan \in {run.plan} \cup Plans :
          run' = [run EXCEPT !.at = "execute", !.plan = plan, !.left = plan.delegated]
  BY DEF Approve
<1>2. /\ run.at = "gate" /\ run.status = "live" /\ hit = {} /\ run.gates = {} /\ saved.hit = {}
      /\ run.plan \in Plans
      /\ UNCHANGED <<spent, work, hit, saved, used, budget, now, project, crashes>>
      /\ UNCHANGED <<worker, parked, driven>>
  BY DEF Approve, At, settingsUnchanged, workers, IInv, ReviewInv, EndInv
<1>3. plan \in Plans
  BY <1>1, <1>2
<1>4. run' \in Run /\ run'.at = "execute" /\ run'.status = "live" /\ run'.gates = {}
      /\ run'.plan \in Plans
  BY <1>1, <1>2, <1>3, PlansHaveSteps DEF IInv, ShapeInv, Run, Nodes
<1>5. ShapeInv'
  BY <1>2, <1>4 DEF IInv, ShapeInv
<1>6. ReviewInv' /\ EndInv'
  BY <1>2, <1>4 DEF ReviewInv, EndInv, Replied
<1>7. SpendInv'
  <2>1. run'.at \notin Working /\ run.at \notin Working
    BY <1>2, <1>4 DEF Working
  <2>2. QED BY <1>2, <1>4, <2>1, NothingSpent
<1>8. WorkerInv'
  BY <1>2 DEF IInv, WorkerInv, PrivateStaysLocal
<1>9. QED
  BY <1>5, <1>6, <1>7, <1>8 DEF IInv

LEMMA ExecutedSafe == ASSUME IInv, Executed PROVE IInv'
<1>1. /\ run.at = "executing" /\ run.status = "live" /\ hit = {} /\ run.gates = {}
      /\ run.plan \in Plans /\ worker = None
      /\ UNCHANGED <<spent, used, work, hit, worker, parked, driven, budget, now, project, crashes>>
      /\ saved' = [spent |-> spent', work |-> work', hit |-> hit'] /\ Goto("critic")
  BY DEF Executed, At, Checkpoint, settingsUnchanged, workers, IInv, ReviewInv, EndInv
<1>2. run' \in Run /\ run'.at = "critic" /\ run'.status = "live" /\ run'.gates = {}
      /\ run'.plan = run.plan
  BY <1>1, GotoShape DEF IInv, ShapeInv, Nodes
<1>3. ShapeInv'
  BY <1>1, <1>2 DEF IInv, ShapeInv
<1>4. ReviewInv' /\ EndInv'
  BY <1>1, <1>2 DEF ReviewInv, EndInv, Replied
<1>5. SpendInv'
  <2>1. saved'.spent = spent' /\ run'.at \notin Working
    BY <1>1, <1>2 DEF Working
  <2>2. QED BY <1>1, <1>2, <2>1, NothingSpent
<1>6. WorkerInv'
  BY <1>1 DEF IInv, WorkerInv, PrivateStaysLocal
<1>7. QED
  BY <1>3, <1>4, <1>5, <1>6 DEF IInv

\* A worker of a local-only project has the router's local choice.
LEMMA SpawnSafe == ASSUME IInv, Spawn PROVE IInv'
<1>1. PICK step : run' = [run EXCEPT !.left = @ \ {step}]
  BY DEF Spawn
<1>2. /\ run.at = "executing" /\ run.status = "live" /\ hit = {} /\ run.gates = {} /\ saved.hit = {}
      /\ worker = None /\ run.plan \in Plans
      /\ UNCHANGED <<spent, used, hit, saved, parked, budget, now, project, crashes>>
  BY DEF Spawn, At, settingsUnchanged, IInv, ReviewInv, EndInv
<1>3. /\ run' \in Run /\ run'.at = "executing" /\ run'.status = "live" /\ run'.gates = {}
      /\ run'.plan = run.plan
  BY <1>1, <1>2 DEF IInv, ShapeInv, Run
<1>4. PICK tag \in Tags :
          IF Refused(Route(tag)) THEN UNCHANGED <<worker, driven>>
          ELSE worker' = Route(tag) /\ Driven(Route(tag), "spawn")
  BY DEF Spawn
<1>5. Route(tag) \in Providers /\ (project.private => Route(tag) \in Local)
  BY RouteIsKnown, GuardsAssumption DEF IInv, ShapeInv, Route
<1>6. worker' \in Providers \cup {None} /\ driven' \subseteq Drive
  <2>1. [provider |-> Route(tag), by |-> "spawn"] \in Drive
    BY <1>5 DEF Drive
  <2>2. QED BY <1>4, <1>5, <2>1 DEF IInv, ShapeInv, Driven
<1>7. WorkerInv'
  BY <1>2, <1>3, <1>4, <1>5 DEF IInv, WorkerInv, PrivateStaysLocal, Driven
<1>8. ShapeInv'
  BY <1>2, <1>3, <1>6 DEF IInv, ShapeInv
<1>9. ReviewInv' /\ EndInv'
  BY <1>2, <1>3 DEF ReviewInv, EndInv, Replied
<1>10. SpendInv'
  BY <1>2, <1>3, NothingSpent
<1>11. QED
  BY <1>7, <1>8, <1>9, <1>10 DEF IInv

LEMMA WorkerEndsSafe == ASSUME IInv, WorkerEnds PROVE IInv'
<1>1. /\ worker' = None
      /\ UNCHANGED <<run, spent, used, work, hit, saved, parked, driven, budget, now, project, crashes>>
  BY DEF WorkerEnds, settingsUnchanged
<1>2. ShapeInv'
  BY <1>1 DEF IInv, ShapeInv
<1>3. ReviewInv' /\ EndInv'
  BY <1>1 DEF IInv, ReviewInv, Traced, EndInv, Replied, Over
<1>4. SpendInv'
  BY <1>1, SameRun
<1>5. WorkerInv'
  BY <1>1 DEF IInv, WorkerInv, PrivateStaysLocal
<1>6. QED
  BY <1>2, <1>3, <1>4, <1>5 DEF IInv

LEMMA ApproveWorkerSafe == ASSUME IInv, ApproveWorker PROVE IInv'
<1>1. /\ run.at = "gate" /\ parked' = FALSE
      /\ UNCHANGED <<run, spent, used, work, hit, saved, worker, budget, now, project, crashes>>
  BY DEF ApproveWorker, At, settingsUnchanged
<1>2. PICK provider \in Providers : Driven(provider, "approval")
  BY DEF ApproveWorker
<1>3. [provider |-> provider, by |-> "approval"] \in Drive
  BY DEF Drive
<1>4. ShapeInv'
  BY <1>1, <1>2, <1>3 DEF IInv, ShapeInv, Driven
<1>5. ReviewInv' /\ EndInv'
  BY <1>1 DEF IInv, ReviewInv, Traced, EndInv, Replied, Over
<1>6. SpendInv'
  BY <1>1, SameRun
<1>7. WorkerInv'
  BY <1>1, <1>2 DEF IInv, WorkerInv, PrivateStaysLocal, Driven
<1>8. QED
  BY <1>4, <1>5, <1>6, <1>7 DEF IInv

\* The project changes while no worker lives.
LEMMA EditProjectSafe == ASSUME IInv, EditProject PROVE IInv'
<1>1. /\ run.at = "gate"
      /\ UNCHANGED <<run, budget, spent, used, work, hit, saved, now, worker, parked, driven, crashes>>
  BY DEF EditProject, At, workers
<1>2. project' \in Project
  <2>1. project \in Project
    BY DEF EditProject, IInv, ShapeInv, NoProject
  <2>2. CASE \E tag \in Tags, provider \in Providers \cup {None} :
               project' = [project EXCEPT !.overrides[tag] = provider]
    BY <2>1, <2>2 DEF Project
  <2>3. CASE \E flag \in BOOLEAN : project' = [project EXCEPT !.private = flag]
    BY <2>1, <2>3 DEF Project
  <2>4. CASE project' = [project EXCEPT !.overrides = [t \in Tags |-> None]]
    BY <2>1, <2>4 DEF Project
  <2>5. QED BY <2>2, <2>3, <2>4 DEF EditProject
<1>3. ShapeInv'
  BY <1>1, <1>2 DEF IInv, ShapeInv
<1>4. ReviewInv' /\ EndInv'
  BY <1>1 DEF IInv, ReviewInv, Traced, EndInv, Replied, Over
<1>5. SpendInv'
  BY <1>1, SameRun
<1>6. WorkerInv'
  BY <1>1 DEF IInv, WorkerInv, PrivateStaysLocal
<1>7. QED
  BY <1>3, <1>4, <1>5, <1>6 DEF IInv

LEMMA ReviewSafe == ASSUME IInv, Review PROVE IInv'
<1>1. PICK opinion \in {0, PauseAt} :
          IF Drift(opinion) >= PauseAt THEN Halt("drift") ELSE UNCHANGED run
  BY DEF Review
<1>2. /\ run.at = "reviewing" /\ run.status = "live" /\ run.gates = {} /\ saved.hit = {}
      /\ run.plan \in Plans /\ worker = None
      /\ UNCHANGED <<spent, used, work, saved, worker, parked, driven, budget, now, project, crashes>>
  BY DEF Review, At, settingsUnchanged, workers, IInv, ReviewInv, EndInv, WorkerInv
<1>3. hit' \subseteq Thresholds
  <2>1. Crossed(spent) \subseteq Thresholds /\ Crossed(spent) \ hit # {}
    BY DEF Crossed, Review
  <2>2. \E t \in Crossed(spent) \ hit : \A u \in Crossed(spent) \ hit : t <= u
    BY <2>1 DEF Thresholds
  <2>3. QED BY <2>1, <2>2 DEF Review, IInv, ShapeInv
<1>4. WorkerInv'
  BY <1>2 DEF IInv, WorkerInv, PrivateStaysLocal
<1>5. CASE Drift(opinion) >= PauseAt
  <2>1. run' \in Run /\ run'.at = "end" /\ run'.status = "killed"
    BY <1>1, <1>5, HaltShape DEF IInv, ShapeInv
  <2>2. ShapeInv'
    BY <1>2, <1>3, <2>1 DEF IInv, ShapeInv
  <2>3. ReviewInv' /\ EndInv'
    BY <1>2, <2>1 DEF ReviewInv, EndInv, Replied
  <2>4. SpendInv'
    <3>1. WithinCaps /\ Forgotten
      BY <1>2 DEF IInv, SpendInv
    <3>2. JustPast' /\ Forgotten'
      BY <1>2, <3>1, CapsAreNumbers DEF WithinCaps, JustPast, Forgotten, IInv, ShapeInv, Spent
    <3>3. QED BY <2>1, <3>2 DEF SpendInv
  <2>5. QED
    BY <1>4, <2>2, <2>3, <2>4 DEF IInv
<1>6. CASE ~ (Drift(opinion) >= PauseAt)
  <2>1. UNCHANGED run
    BY <1>1, <1>6
  <2>2. PlanVsAction(StepsOf(run.plan), work) \in Int
    <3>1. MaxSteps \in Nat
      BY GuardsAssumption
    <3>2. run.plan.steps \subseteq 1..MaxSteps
      BY PlansHaveSteps DEF IInv, ShapeInv, Run, Step
    <3>3. QED BY <3>1, <3>2, PlanVsActionIsInteger
  <2>3. Traced
    BY <1>6, <2>2, DriftBoundsPlan DEF Traced
  <2>4. Traced'
    BY <1>2, <2>1, <2>3 DEF Traced
  <2>5. ShapeInv'
    BY <1>2, <1>3, <2>1 DEF IInv, ShapeInv
  <2>6. ReviewInv' /\ EndInv'
    BY <1>2, <2>1, <2>4 DEF ReviewInv, EndInv, Replied
  <2>7. SpendInv'
    BY <1>2, <2>1, SameRun
  <2>8. QED
    BY <1>4, <2>5, <2>6, <2>7 DEF IInv
<1>7. QED
  BY <1>5, <1>6

LEMMA ReviewedSafe == ASSUME IInv, Reviewed PROVE IInv'
<1>1. /\ run.at = "reviewing" /\ run.status = "live" /\ run.gates = {} /\ worker = None
      /\ run.plan \in Plans
      /\ UNCHANGED <<spent, used, work, hit, worker, parked, driven, budget, now, project, crashes>>
      /\ saved' = [spent |-> spent', work |-> work', hit |-> hit'] /\ Goto("respond")
  BY DEF Reviewed, At, Checkpoint, settingsUnchanged, workers, IInv, EndInv, ReviewInv, WorkerInv
<1>2. run' \in Run /\ run'.at = "respond" /\ run'.status = "live" /\ run'.gates = {}
      /\ run'.plan = run.plan
  BY <1>1, GotoShape DEF IInv, ShapeInv, Nodes
<1>3. Traced' <=> Traced
  BY <1>1, <1>2 DEF Traced
<1>4. ShapeInv'
  BY <1>1, <1>2 DEF IInv, ShapeInv
<1>5. ReviewInv' /\ EndInv'
  BY <1>1, <1>2, <1>3 DEF IInv, ReviewInv, EndInv, Replied
<1>6. SpendInv'
  <2>1. saved'.spent = spent' /\ run'.at \notin Working
    BY <1>1, <1>2 DEF Working
  <2>2. QED BY <1>1, <1>2, <2>1, NothingSpent
<1>7. WorkerInv'
  BY <1>1 DEF IInv, WorkerInv, PrivateStaysLocal
<1>8. QED
  BY <1>4, <1>5, <1>6, <1>7 DEF IInv

LEMMA RespondedSafe == ASSUME IInv, Responded PROVE IInv'
<1>1. PICK cost \in 0..MaxCost : spent' = Charged(cost) /\ UseText(cost) /\ Settle(cost)
  BY DEF Responded
<1>2. /\ run.at = "responding" /\ run.status = "live" /\ run.gates = {} /\ worker = None
      /\ run.plan \in Plans
      /\ UNCHANGED <<work, hit, saved, worker, parked, driven, budget, now, project, crashes>>
  BY DEF Responded, At, settingsUnchanged, workers, IInv, EndInv, ReviewInv, WorkerInv
<1>3. spent' \in Spent /\ spent'.seconds = now /\ used' \in [tokens : Nat, iterations : Nat]
  BY <1>1, ChargeShape DEF IInv
<1>4. /\ run' \in Run /\ run'.at = "end" /\ run'.plan = run.plan
      /\ \/ run'.status = "killed"
         \/ run'.status \in {"completed", "errored"} /\ run'.gates = {} /\ ~Over(spent')
  <2>1. CASE Over(Charged(cost))
    BY <1>1, <2>1, HaltShape DEF Settle, IInv, ShapeInv
  <2>2. CASE ~Over(Charged(cost))
    BY <1>1, <1>2, <2>2, FinishShape DEF Settle, IInv, ShapeInv
  <2>3. QED BY <2>1, <2>2
<1>5. Traced' <=> Traced
  BY <1>2, <1>4 DEF Traced
<1>6. Over(spent') <=> Over(spent)'
  BY <1>2 DEF Over
<1>7. ShapeInv'
  BY <1>2, <1>3, <1>4 DEF IInv, ShapeInv
<1>8. ReviewInv'
  BY <1>2, <1>4, <1>5 DEF IInv, ReviewInv
<1>9. EndInv'
  BY <1>2, <1>3, <1>4, <1>6 DEF EndInv, Replied
<1>10. SpendInv'
  BY <1>1, <1>2, <1>4, TextSpends
<1>11. WorkerInv'
  BY <1>2 DEF IInv, WorkerInv, PrivateStaysLocal
<1>12. QED
  BY <1>7, <1>8, <1>9, <1>10, <1>11 DEF IInv

LEMMA TickSafe == ASSUME IInv, Tick PROVE IInv'
<1>1. /\ now' = now + 1 /\ run.status = "live"
      /\ UNCHANGED <<run, budget, spent, used, work, hit, saved, project, worker, parked, driven, crashes>>
  BY DEF Tick, workers
<1>2. ShapeInv'
  BY <1>1 DEF IInv, ShapeInv
<1>3. ReviewInv' /\ EndInv' /\ WorkerInv'
  BY <1>1 DEF IInv, ReviewInv, Traced, EndInv, Replied, WorkerInv, PrivateStaysLocal
<1>4. SpendInv'
  BY <1>1, SameRun
<1>5. QED
  BY <1>2, <1>3, <1>4 DEF IInv

\* The node is entered again as the checkpoint before it left things: without a
\* review for execute and critic, with all of them for respond; its entry and its
\* text are forgotten.
LEMMA CrashSafe == ASSUME IInv, Crash PROVE IInv'
<1>1. /\ spent' = saved.spent /\ work' = saved.work /\ hit' = saved.hit /\ crashes' = crashes + 1
      /\ UNCHANGED <<budget, saved, now, project>> /\ BootWorker
  BY DEF Crash
<1>2. PICK node \in {"plan", "gate", "critic", "respond"}, cost \in 0..MaxCost :
        /\ Goto(node) /\ run.status = "live"
        /\ UseText(cost) \/ UNCHANGED used
        /\ \/ run.at = "planning" /\ node = "plan"
           \/ run.at = "executing" /\ node = "gate"
           \/ run.at = "reviewing" /\ node = "critic"
           \/ run.at = "responding" /\ node = "respond"
  <2>0. 0 \in 0..MaxCost
    BY GuardsAssumption
  <2>1. CASE At("planning") /\ Goto("plan") /\ \E cost \in 0..MaxCost : UseText(cost)
    BY <2>1 DEF At
  <2>2. CASE At("executing") /\ Goto("gate") /\ UNCHANGED used
    BY <2>0, <2>2 DEF At
  <2>3. CASE At("reviewing") /\ Goto("critic") /\ UNCHANGED used
    BY <2>0, <2>3 DEF At
  <2>4. CASE At("responding") /\ Goto("respond") /\ \E cost \in 0..MaxCost : UseText(cost)
    BY <2>4 DEF At
  <2>5. QED BY <2>1, <2>2, <2>3, <2>4 DEF Crash
<1>3. /\ run' \in Run /\ run'.at = node /\ run'.status = "live"
      /\ run'.plan = run.plan /\ run'.gates = run.gates
  BY <1>2, GotoShape DEF IInv, ShapeInv, Nodes
<1>4. /\ used' \in [tokens : Nat, iterations : Nat]
      /\ used'.tokens <= used.tokens + MaxCost /\ used'.iterations = used.iterations
  <2>1. cost \in Nat /\ cost <= MaxCost /\ MaxCost \in Nat
    BY GuardsAssumption
  <2>2. used \in [tokens : Nat, iterations : Nat]
    BY DEF IInv, ShapeInv
  <2>3. CASE UNCHANGED used
    BY <2>1, <2>2, <2>3
  <2>4. CASE UseText(cost)
    BY <2>1, <2>2, <2>4 DEF UseText
  <2>5. QED BY <1>2, <2>3, <2>4
<1>5. /\ worker' = None /\ parked' \in BOOLEAN /\ driven' \subseteq Drive
      /\ \A d \in driven' : d \in driven \/ d.provider \in Local
  <2>1. CASE worker = None
    BY <1>1, <2>1 DEF BootWorker, IInv, ShapeInv
  <2>2. CASE worker # None
    <3>1. [provider |-> worker, by |-> "boot"] \in Drive
      BY <2>2 DEF IInv, ShapeInv, Drive
    <3>2. project.private => worker \in Local
      BY <2>2 DEF IInv, WorkerInv
    <3>3. worker' = None /\ parked' \in BOOLEAN /\ (UNCHANGED driven \/ Driven(worker, "boot"))
      BY <1>1, <2>2 DEF BootWorker, Recorded, IInv, ShapeInv
    <3>4. CASE UNCHANGED driven
      BY <3>3, <3>4 DEF IInv, ShapeInv
    <3>5. CASE Driven(worker, "boot")
      BY <3>1, <3>2, <3>3, <3>5 DEF Driven, IInv, ShapeInv
    <3>6. QED BY <3>3, <3>4, <3>5
  <2>3. QED BY <2>1, <2>2
<1>6. ShapeInv'
  BY <1>1, <1>3, <1>4, <1>5 DEF IInv, ShapeInv
<1>7. ReviewInv'
  <2>1. CASE node = "respond"
    <3>1. hit' = hit /\ work' = work /\ saved.work = work /\ saved.hit = hit
      BY <1>1, <1>2, <2>1 DEF IInv, ReviewInv
    <3>2. Traced' <=> Traced
      BY <1>3, <3>1 DEF Traced
    <3>3. QED
      BY <1>1, <1>2, <1>3, <2>1, <3>1, <3>2 DEF IInv, ReviewInv
  <2>2. CASE node # "respond"
    <3>1. hit' = {} /\ saved' = saved /\ saved.hit = {} /\ (node # "plan" => run.plan \in Plans)
      BY <1>1, <1>2, <2>2 DEF IInv, ReviewInv
    <3>2. QED
      BY <1>2, <1>3, <2>2, <3>1 DEF ReviewInv
  <2>3. QED BY <2>1, <2>2
<1>8. EndInv'
  BY <1>2, <1>3 DEF IInv, EndInv, Replied
<1>9. SpendInv'
  <2>1. WithinCaps /\ Resumable /\ Forgotten /\ run.at \in Working
    BY <1>2 DEF IInv, SpendInv, Working
  <2>2. /\ spent'.tokens = spent.tokens /\ spent.iterations = spent'.iterations + 1
        /\ spent \in Spent /\ spent' \in Spent /\ saved'.spent = spent'
    BY <1>1, <2>1 DEF Resumable, IInv, ShapeInv
  <2>3. WithinCaps'
    BY <1>1, <2>1, <2>2, CapsAreNumbers DEF WithinCaps, IInv, Spent
  <2>4. Resumable'
    BY <1>2, <1>3, <2>2 DEF Resumable, Working
  <2>5. Forgotten'
    <3>1. \A m, c \in Nat : m * (c + 1) = m * c + m
      OBVIOUS
    <3>2. MaxCost \in Nat /\ crashes \in Nat /\ MaxCost * crashes \in Nat
      BY CapsAreNumbers DEF IInv
    <3>3. MaxCost * crashes' = MaxCost * crashes + MaxCost
      BY <1>1, <3>1, <3>2
    <3>4. used \in [tokens : Nat, iterations : Nat]
      BY DEF IInv, ShapeInv
    <3>5. used'.tokens <= spent'.tokens + MaxCost * crashes'
      BY <1>4, <2>1, <2>2, <3>2, <3>3, <3>4 DEF Forgotten, Spent
    <3>6. used'.iterations <= spent'.iterations + crashes'
      BY <1>1, <1>4, <2>1, <2>2, <3>2, <3>4 DEF Forgotten, Spent
    <3>7. QED
      BY <3>5, <3>6 DEF Forgotten
  <2>6. QED
    BY <1>3, <2>3, <2>4, <2>5 DEF SpendInv
<1>10. WorkerInv'
  BY <1>5 DEF IInv, WorkerInv, PrivateStaysLocal
<1>11. QED
  BY <1>6, <1>7, <1>8, <1>9, <1>10 DEF IInv

LEMMA IInvStep == IInv /\ [Next]_vars => IInv'
<1> SUFFICES ASSUME IInv, [Next]_vars PROVE IInv'
  OBVIOUS
<1>1. CASE Plan
  BY <1>1, EnterSafe DEF Plan, settingsUnchanged
<1>2. CASE Execute
  BY <1>2, EnterSafe DEF Execute, settingsUnchanged
<1>3. CASE Critic
  BY <1>3, EnterSafe DEF Critic, settingsUnchanged
<1>4. CASE Respond
  BY <1>4, EnterSafe DEF Respond, settingsUnchanged
<1>5. CASE Planned \/ Approve \/ EditProject \/ Executed
  BY <1>5, PlannedSafe, ApproveSafe, EditProjectSafe, ExecutedSafe
<1>6. CASE Spawn \/ WorkerEnds \/ ApproveWorker
  BY <1>6, SpawnSafe, WorkerEndsSafe, ApproveWorkerSafe
<1>7. CASE Review \/ Reviewed \/ Responded
  BY <1>7, ReviewSafe, ReviewedSafe, RespondedSafe
<1>8. CASE Tick \/ Crash
  BY <1>8, TickSafe, CrashSafe
<1>9. CASE UNCHANGED vars
  <2>1. UNCHANGED <<run, budget, spent, used, work, hit, saved, now, project, worker,
                    parked, driven, crashes>>
    BY <1>9 DEF vars, workers
  <2>2. ShapeInv'
    BY <2>1 DEF IInv, ShapeInv
  <2>3. ReviewInv' /\ EndInv' /\ WorkerInv'
    BY <2>1 DEF IInv, ReviewInv, Traced, EndInv, Replied, Over, WorkerInv, PrivateStaysLocal
  <2>4. SpendInv'
    BY <2>1, SameRun
  <2>5. QED
    BY <2>2, <2>3, <2>4 DEF IInv
<1>10. QED
  BY <1>1, <1>2, <1>3, <1>4, <1>5, <1>6, <1>7, <1>8, <1>9 DEF Next, Ended

\* The invariant holds in every reachable state.
THEOREM GuardsSound == Spec => []IInv
<1>1. Init => IInv
  BY IInvInit
<1>2. IInv /\ [Next]_vars => IInv'
  BY IInvStep
<1>3. QED
  BY <1>1, <1>2, PTL DEF Spec

\* Every reachable state is well-typed.
THEOREM TypeCorrect == Spec => []TypeOK
<1>1. IInv => TypeOK
  <2> SUFFICES ASSUME IInv PROVE TypeOK
    OBVIOUS
  <2>1. run.plan.steps \subseteq Step
    BY PlansHaveSteps DEF IInv, ShapeInv, Run
  <2>2. QED
    BY <2>1 DEF IInv, ShapeInv, Run, Nodes, Spent, TypeOK
<1>2. QED
  BY <1>1, GuardsSound, PTL

\* What a run really uses, that which its crashes made it forget included, is
\* bounded by its caps and one text or node more, for itself and for each crash
\* (graph.py: _halt_if_over_budget, with the checkpoints of storage.py).
THEOREM SpendingIsBounded == Spec => []SpendingBounded
<1>1. IInv => SpendingBounded
  <2> SUFFICES ASSUME IInv PROVE SpendingBounded
    OBVIOUS
  <2>1. spent \in Spent /\ used \in [tokens : Nat, iterations : Nat]
    BY DEF IInv, ShapeInv
  <2>2. /\ MaxCost \in Nat /\ crashes \in Nat /\ MaxCost * crashes \in Nat
        /\ budget.tokens # None => budget.tokens \in Nat
        /\ budget.iterations # None => budget.iterations \in Nat
    BY CapsAreNumbers DEF IInv
  <2>3. Forgotten
    BY DEF IInv, SpendInv
  <2>4. CASE Replied
    <3>1. /\ budget.tokens # None => spent.tokens <= budget.tokens
          /\ budget.seconds # None => now <= budget.seconds
          /\ budget.iterations # None => spent.iterations <= budget.iterations
      BY <2>1, <2>4, NotOverIsWithin DEF IInv, EndInv
    <3>2. Excess = crashes
      BY <2>2, <2>4 DEF Excess
    <3>3. QED
      BY <2>1, <2>2, <2>3, <3>1, <3>2 DEF Forgotten, Spent, SpendingBounded
  <2>5. CASE ~Replied
    <3>1. JustPast
      BY <2>1, <2>2 DEF IInv, SpendInv, WithinCaps, JustPast, Spent
    <3>2. Excess = crashes + 1
      BY <2>5 DEF Excess
    <3>3. \A m, c \in Nat : m * (c + 1) = m * c + m
      OBVIOUS
    <3>4. MaxCost * Excess = MaxCost * crashes + MaxCost
      BY <2>2, <3>2, <3>3
    <3>5. budget.tokens # None => used.tokens <= budget.tokens + MaxCost * Excess
      BY <2>1, <2>2, <2>3, <3>1, <3>4 DEF JustPast, Forgotten, Spent
    <3>6. budget.iterations # None => used.iterations <= budget.iterations + Excess
      BY <2>1, <2>2, <2>3, <3>1, <3>2 DEF JustPast, Forgotten, Spent
    <3>7. QED
      BY <2>5, <3>5, <3>6 DEF SpendingBounded
  <2>6. QED
    BY <2>4, <2>5
<1>2. QED
  BY <1>1, GuardsSound, PTL

\* A run with work to show, but none for seven tenths of its plan, does not reply
\* once the critic has looked at it (graph.py: _critic_node; drift.py).
THEOREM DriftIsStopped == Spec => []DriftStops
<1>1. IInv => DriftStops
  <2> SUFFICES ASSUME IInv, hit # {}, work # {}, run.status # "killed",
                      run.at \in {"respond", "responding"} \/ run.status = "completed"
               PROVE  100 * Cardinality(Untraced) < PauseAt * Cardinality(StepsOf(run.plan))
    BY DEF DriftStops, IInv, EndInv
  <2>1. Traced /\ run.plan \in Plans
    BY DEF IInv, ReviewInv, EndInv
  <2> DEFINE S == StepsOf(run.plan)
             seen == {s \in S : \E e \in work : e.step = s.id \/ e.words \cap s.words # {}}
             n == Cardinality(S)
             c == Cardinality(Untraced)
  <2>2. S \ seen = Untraced
    BY DEF Untraced
  <2>3. IsFiniteSet(S) /\ S # {}
    <3>1. PICK k \in Step : run.plan.steps = 1..k
      BY <2>1 DEF Plans
    <3>2. k \in Nat /\ 1 \in run.plan.steps
      BY <3>1, GuardsAssumption DEF Step
    <3>3. QED
      BY <3>1, <3>2, StepsAreFinite DEF StepsOf
  <2>4. n \in Nat \ {0} /\ c \in Nat
    <3>1. IsFiniteSet(Untraced)
      BY <2>2, <2>3, FS_Difference
    <3>2. QED BY <2>3, <3>1, FS_CardinalityType, FS_EmptySet
  <2>5. (100 * c) \div n < 70
    BY <2>1, <2>2, <2>3 DEF Traced, PauseAt, PlanVsAction, Missing
  <2>6. \A a \in Nat, m \in Nat \ {0} : a \div m < 70 => a < 70 * m
    OBVIOUS
  <2>7. 100 * c < 70 * n
    <3> HIDE DEF n, c
    <3>1. QED BY <2>4, <2>5, <2>6
  <2>8. QED
    BY <2>7 DEF PauseAt
<1>2. QED
  BY <1>1, GuardsSound, PTL

\* While a project is local-only a provider that is not local drives a worker of
\* its runs only by an approval of that worker, whatever the router is told and
\* whatever a crash leaves to the boot pass (worker_router.py; runner.py: resume).
THEOREM PrivateWorkersStayLocal == Spec => []PrivateStaysLocal
<1>1. IInv => PrivateStaysLocal
  BY DEF IInv, WorkerInv
<1>2. QED
  BY <1>1, GuardsSound, PTL
===============================================================================
