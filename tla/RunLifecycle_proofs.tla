------------------------- MODULE RunLifecycle_proofs -------------------------
(* Theorems about RunLifecycle, for every number of runs, depth cap, set of   *)
(* plans, number of decisions and number of crashes: the types, that plans    *)
(* are granted, and that what the runs index says of a run is true (LifeInv). *)
EXTENDS RunLifecycle, TLAPS

USE DEF Run, NoRun

-------------------------------------------------------------------------------
(* What the small steps of a coroutine do to the typed state. *)

LEMMA GotoType ==
    ASSUME task \in [Run -> Task], NEW r \in Run, NEW label \in Pc, Goto(r, label)
    PROVE  task' \in [Run -> Task]
  BY DEF Goto, Task

LEMMA SaveType ==
    ASSUME ckpt \in [Run -> Checkpoint], NEW r \in Run,
           NEW node \in Node \cup {"none", "end"}, NEW s \in Status,
           NEW p \in Plans \cup {NoPlan}, Save(r, node, s, p)
    PROVE  ckpt' \in [Run -> Checkpoint]
  BY DEF Save, Checkpoint

LEMMA EmitType ==
    ASSUME ui \in [Run -> Status \cup {"absent"}], NEW r \in Run, NEW s \in Status,
           Emit(r, s)
    PROVE  ui' \in [Run -> Status \cup {"absent"}]
  BY DEF Emit

LEMMA RowType ==
    ASSUME header \in [Run -> Header], NEW r \in Run, NEW s \in Status
    PROVE  /\ [header EXCEPT ![r].status = s] \in [Run -> Header]
           /\ \A p \in Plans \cup {NoPlan} :
                [header EXCEPT ![r].status = s, ![r].plan = p] \in [Run -> Header]
           /\ \A p \in Plans \cup {NoPlan} :
                [header EXCEPT ![r] = [status |-> s, completed |-> TRUE, plan |-> p]]
                  \in [Run -> Header]
  BY DEF Header

LEMMA MarkType ==
    ASSUME header \in [Run -> Header], NEW r \in Run, NEW s \in Status
    PROVE  [header EXCEPT ![r].status = s, ![r].completed = TRUE] \in [Run -> Header]
  BY DEF Header

LEMMA CheckpointFields ==
    ASSUME ckpt \in [Run -> Checkpoint], NEW r \in Run
    PROVE  /\ ckpt[r].status \in Status /\ ckpt[r].plan \in Plans \cup {NoPlan}
           /\ ckpt[r].next \in Node \cup {"none", "end"}
           /\ \A n \in Node \cup {"none", "end"} :
                [ckpt EXCEPT ![r].next = n] \in [Run -> Checkpoint]
           /\ \A p \in Plans :
                [ckpt EXCEPT ![r].plan = p] \in [Run -> Checkpoint]
  BY DEF Checkpoint

LEMMA FreshTask ==
    ASSUME task \in [Run -> Task], NEW r \in Run,
           NEW d \in {"none", "rpc", "scheduler"},
           NEW c \in {"none", "run", "approve", "resume", "worker"}, NEW l \in Pc
    PROVE  /\ [task EXCEPT ![r] = [driver |-> d, call |-> c, pc |-> l, todo |-> 0]]
                \in [Run -> Task]
           /\ [task EXCEPT ![r] = NoTask] \in [Run -> Task]
           /\ NoTask \in Task
  BY DEF Task, NoTask, Pc

LEMMA TodoType ==
    ASSUME task \in [Run -> Task], NEW r \in Run
    PROVE  /\ task[r].todo \in Nat
           /\ \A n \in Nat :
                /\ [task EXCEPT ![r].todo = n] \in [Run -> Task]
                /\ [task EXCEPT ![r].pc = "spawn", ![r].todo = n] \in [Run -> Task]
  BY DEF Task, Pc

LEMMA ProceedType ==
    ASSUME task \in [Run -> Task], NEW r \in Run, Proceed(r),
           task[r].pc \in {"execute", "critic", "respond"}
    PROVE  task' \in [Run -> Task]
  BY GotoType DEF Proceed, After, Pc, Node

LEMMA AfterType ==
    ASSUME NEW node PROVE After(node) \in Node \cup {"none", "end"}
  BY DEF After, Node

LEMMA EntryType ==
    ASSUME ckpt \in [Run -> Checkpoint], NEW r \in Run, ckpt[r].next # "none"
    PROVE  Entry(r) \in Pc
  BY DEF Checkpoint, Entry, Pc, Node

LEMMA DecisionFields ==
    ASSUME inbox \in Seq(Decision), inbox # <<>>
    PROVE  /\ Head(inbox).run \in Run /\ Tail(inbox) \in Seq(Decision)
           /\ Head(inbox).act = "edit" => Head(inbox).plan \in Plans
<1>1. Head(inbox) \in Decision /\ Tail(inbox) \in Seq(Decision)
  OBVIOUS
<1>2. QED BY <1>1 DEF Decision

-------------------------------------------------------------------------------
(* Type correctness: the stores, the coroutines and the queue keep their      *)
(* shapes through every step of runner.py, resume.py and the request loop.    *)
THEOREM TypeCorrect == Spec => []TypeOK
<1>1. Init => TypeOK
  BY BoundsAssumption, PlansAssumption
  DEF Init, TypeOK, Header, Checkpoint, Task, Origin, NoHeader, NoCheckpoint,
      NoTask, NoOrigin, Status, Unfinished, Terminal, Pc, Node
<1>2. TypeOK /\ [Next]_vars => TypeOK'
  <2> SUFFICES ASSUME TypeOK, [Next]_vars PROVE TypeOK'
    OBVIOUS
  <2> USE DEF stores, history
  <2>1. ASSUME NEW d \in {"rpc", "scheduler"}, NEW k \in {"chat", "schedule"},
               BeginRun(d, k)
        PROVE TypeOK'
    <3>1. created + 1 \in Run /\ created' \in 0..MaxRuns
      BY <2>1, BoundsAssumption DEF BeginRun, TypeOK
    <3>2. header' \in [Run -> Header]
      BY <2>1, <3>1, RowType DEF BeginRun, TypeOK, Status, Unfinished
    <3>3. task' \in [Run -> Task]
      BY <2>1, <3>1, FreshTask DEF BeginRun, TypeOK, Pc
    <3>4. origin' \in [Run -> Origin]
      BY <2>1, <3>1 DEF BeginRun, TypeOK, Origin
    <3>5. ui' \in [Run -> Status \cup {"absent"}]
      BY <2>1, <3>1 DEF BeginRun, TypeOK, Status, Unfinished
    <3>6. QED BY <2>1, <3>1, <3>2, <3>3, <3>4, <3>5 DEF BeginRun, TypeOK
  <2>2. ASSUME NEW r \in Run, WriteInput(r) PROVE TypeOK'
    <3>1. task' \in [Run -> Task]
      BY <2>2, GotoType DEF WriteInput, TypeOK, Pc, Node
    <3>2. ckpt' \in [Run -> Checkpoint]
      BY <2>2, SaveType DEF WriteInput, TypeOK, Node, Status, Unfinished
    <3>3. QED BY <2>2, <3>1, <3>2 DEF WriteInput, TypeOK
  <2>3. ASSUME NEW r \in Run, PlanNode(r) PROVE TypeOK'
    <3>1. AfterPlan(r, TRUE) \in Pc /\ AfterPlan(r, FALSE) \in Pc
      BY DEF AfterPlan, Pc, Node
    <3>2. task' \in [Run -> Task]
      BY <2>3, <3>1, GotoType DEF PlanNode, TypeOK
    <3>3. ckpt' \in [Run -> Checkpoint]
      BY <2>3, SaveType, CheckpointFields
      DEF PlanNode, TypeOK, Node, Status, Terminal
    <3>4. ui' \in [Run -> Status \cup {"absent"}]
      BY <2>3, EmitType DEF PlanNode, TypeOK, Status, Unfinished, Terminal
    <3>5. QED BY <2>3, <3>2, <3>3, <3>4 DEF PlanNode, TypeOK
  <2>4. ASSUME NEW r \in Run, ParkNotify(r) PROVE TypeOK'
    <3>1. task' \in [Run -> Task]
      BY <2>4, GotoType DEF ParkNotify, TypeOK, Pc
    <3>2. ui' \in [Run -> Status \cup {"absent"}]
      BY <2>4, EmitType DEF ParkNotify, TypeOK, Status, Unfinished
    <3>3. QED BY <2>4, <3>1, <3>2 DEF ParkNotify, TypeOK
  <2>5. ASSUME NEW r \in Run, ParkWrite(r) PROVE TypeOK'
    <3>1. task' \in [Run -> Task]
      BY <2>5, FreshTask DEF ParkWrite, TypeOK, Pc
    <3>2. header' \in [Run -> Header]
      BY <2>5, RowType, CheckpointFields DEF ParkWrite, TypeOK, Status, Unfinished
    <3>3. QED BY <2>5, <3>1, <3>2 DEF ParkWrite, TypeOK
  <2>6. ASSUME NEW r \in Run, SkipHalted(r) PROVE TypeOK'
    <3>1. task' \in [Run -> Task]
      BY <2>6, ProceedType DEF SkipHalted, TypeOK
    <3>2. ckpt' \in [Run -> Checkpoint]
      BY <2>6, AfterType, CheckpointFields DEF SkipHalted, TypeOK
    <3>3. QED BY <2>6, <3>1, <3>2 DEF SkipHalted, TypeOK
  <2>7. ASSUME NEW r \in Run, HaltAt(r) PROVE TypeOK'
    <3>1. task' \in [Run -> Task]
      BY <2>7, ProceedType DEF HaltAt, TypeOK
    <3>2. ckpt' \in [Run -> Checkpoint]
      BY <2>7, SaveType, AfterType, CheckpointFields
      DEF HaltAt, TypeOK, Status, Terminal
    <3>3. ui' \in [Run -> Status \cup {"absent"}]
      BY <2>7, EmitType DEF HaltAt, TypeOK, Status, Terminal
    <3>4. QED BY <2>7, <3>1, <3>2, <3>3 DEF HaltAt, TypeOK
  <2>8. ASSUME NEW r \in Run, ExecuteEnter(r) PROVE TypeOK'
    <3>1. StepsOf(ckpt[r].plan) \in Nat
      BY PlansAssumption, CheckpointFields DEF StepsOf, TypeOK
    <3>2. task' \in [Run -> Task]
      BY <2>8, <3>1, TodoType DEF ExecuteEnter, TypeOK
    <3>3. ui' \in [Run -> Status \cup {"absent"}]
      BY <2>8, EmitType DEF ExecuteEnter, TypeOK, Status, Unfinished
    <3>4. started' \in [Run -> Nat]
      BY <2>8 DEF ExecuteEnter, TypeOK
    <3>5. QED BY <2>8, <3>2, <3>3, <3>4 DEF ExecuteEnter, TypeOK
  <2>9. ASSUME NEW r \in Run, SpawnWorker(r) PROVE TypeOK'
    <3>1. created + 1 \in Run /\ created' \in 0..MaxRuns
      BY <2>9, BoundsAssumption DEF SpawnWorker, TypeOK
    <3>2. header' \in [Run -> Header]
      BY <2>9, <3>1, RowType DEF SpawnWorker, TypeOK, Status, Unfinished
    <3>3. task' \in [Run -> Task]
      <4>0. task[r].todo \in Nat /\ task[r].driver \in {"none", "rpc", "scheduler"}
        BY DEF TypeOK, Task
      <4>1. task[r].todo - 1 \in Nat
        BY <2>9, <4>0 DEF SpawnWorker
      <4>2. [task EXCEPT ![r].todo = @ - 1] \in [Run -> Task]
        BY <4>1, TodoType DEF TypeOK
      <4>3. [driver |-> task[r].driver, call |-> "worker", pc |-> "input", todo |-> 0]
              \in Task
        BY <4>0 DEF Task, Pc
      <4>4. QED BY <2>9, <3>1, <4>2, <4>3 DEF SpawnWorker
    <3>4. origin' \in [Run -> Origin]
      BY <2>9, <3>1 DEF SpawnWorker, TypeOK, Origin
    <3>5. ui' \in [Run -> Status \cup {"absent"}]
      BY <2>9, <3>1 DEF SpawnWorker, TypeOK, Status, Unfinished
    <3>6. QED BY <2>9, <3>1, <3>2, <3>3, <3>4, <3>5 DEF SpawnWorker, TypeOK
  <2>10. ASSUME NEW r \in Run, SkipSpawn(r) PROVE TypeOK'
    <3>1. task' \in [Run -> Task]
      <4>0. task[r].todo \in Nat
        BY TodoType DEF TypeOK
      <4>1. task[r].todo - 1 \in Nat
        BY <2>10, <4>0 DEF SkipSpawn
      <4>2. QED BY <2>10, <4>1, TodoType DEF SkipSpawn, TypeOK
    <3>2. QED BY <2>10, <3>1 DEF SkipSpawn, TypeOK
  <2>11. ASSUME NEW r \in Run, ExecuteEnd(r) PROVE TypeOK'
    <3>1. task' \in [Run -> Task]
      BY <2>11, GotoType DEF ExecuteEnd, TypeOK, Pc, Node
    <3>2. ckpt' \in [Run -> Checkpoint]
      BY <2>11, CheckpointFields DEF ExecuteEnd, TypeOK, Node
    <3>3. QED BY <2>11, <3>1, <3>2 DEF ExecuteEnd, TypeOK
  <2>12. ASSUME NEW r \in Run, CriticNode(r) PROVE TypeOK'
    <3>1. task' \in [Run -> Task]
      BY <2>12, GotoType DEF CriticNode, TypeOK, Pc, Node
    <3>2. ckpt' \in [Run -> Checkpoint]
      BY <2>12, CheckpointFields DEF CriticNode, TypeOK, Node
    <3>3. QED BY <2>12, <3>1, <3>2 DEF CriticNode, TypeOK
  <2>13. ASSUME NEW r \in Run, RespondNode(r) PROVE TypeOK'
    <3>1. task' \in [Run -> Task]
      BY <2>13, GotoType DEF RespondNode, TypeOK, Pc
    <3>2. ckpt' \in [Run -> Checkpoint]
      BY <2>13, SaveType, CheckpointFields
      DEF RespondNode, TypeOK, Status, Terminal
    <3>3. ui' \in [Run -> Status \cup {"absent"}]
      BY <2>13, EmitType DEF RespondNode, TypeOK, Status, Terminal
    <3>4. QED BY <2>13, <3>1, <3>2, <3>3 DEF RespondNode, TypeOK
  <2>14. ASSUME NEW r \in Run, Finalize(r) PROVE TypeOK'
    <3>1. task' \in [Run -> Task]
      BY <2>14, FreshTask DEF Finalize, TypeOK, Pc
    <3>2. header' \in [Run -> Header]
      BY <2>14, RowType, CheckpointFields DEF Finalize, TypeOK
    <3>3. QED BY <2>14, <3>1, <3>2 DEF Finalize, TypeOK
  <2>15. ASSUME NEW r \in Run, NodeRaises(r) PROVE TypeOK'
    <3>1. NoTask \in Task
      BY DEF NoTask, Task, Pc
    <3>2. task' \in [Run -> Task]
      BY <2>15, <3>1 DEF NodeRaises, TypeOK
    <3>3. header' \in [Run -> Header]
      BY <2>15, MarkType DEF NodeRaises, TypeOK, Status, Terminal
    <3>4. cut' \in SUBSET Run
      BY <2>15 DEF NodeRaises, TypeOK, Driving
    <3>5. QED BY <2>15, <3>2, <3>3, <3>4 DEF NodeRaises, TypeOK
  <2>16. CASE ClickSomething
    <3>1. PICK r \in Run, act \in {"approve", "reject", "kill", "edit"},
               p \in Plans \cup {NoPlan} :
            /\ Click(r, act, p)
            /\ [act |-> act, run |-> r, plan |-> p] \in Decision
      BY <2>16 DEF ClickSomething, Decision
    <3>2. inbox' \in Seq(Decision)
      BY <3>1 DEF Click, TypeOK
    <3>3. clicks' \in 0..MaxClicks
      BY <3>1, BoundsAssumption DEF Click, TypeOK
    <3>4. QED BY <3>1, <3>2, <3>3 DEF Click, TypeOK
  <2>17. ASSUME NEW r \in Run, Reinvoke(r)
         PROVE task' \in [Run -> Task] /\ granted' \in [Run -> Nat]
    BY <2>17, EntryType, FreshTask DEF Reinvoke, TypeOK
  <2>18. CASE HandleApprove
    BY <2>17, <2>18, DecisionFields DEF HandleApprove, Serving, TypeOK
  <2>19. CASE HandleEdit
    BY <2>17, <2>19, DecisionFields, CheckpointFields
    DEF HandleEdit, Serving, TypeOK
  <2>20. CASE HandleReject
    BY <2>20, DecisionFields, CheckpointFields, RowType
    DEF HandleReject, Serving, TypeOK, Status, Terminal
  <2>21. CASE HandleKill
    BY <2>21, DecisionFields, MarkType
    DEF HandleKill, Serving, TypeOK, Status, Terminal
  <2>22. CASE Crash
    <3>1. task' \in [Run -> Task]
      BY <2>22 DEF Crash, NoTask, Task, Pc
    <3>2. crashes' \in 0..MaxCrashes
      BY <2>22, BoundsAssumption DEF Crash, TypeOK
    <3>3. cut' \in SUBSET Run
      BY <2>22 DEF Crash, TypeOK
    <3>4. QED BY <2>22, <3>1, <3>2, <3>3 DEF Crash, TypeOK
  <2>23. CASE Restart
    BY <2>23 DEF Restart, TypeOK
  <2>24. ASSUME NEW r \in Run, ResumeNext(r) PROVE TypeOK'
    <3>1. task' \in [Run -> Task]
      BY <2>24, EntryType, FreshTask DEF ResumeNext, TypeOK
    <3>2. header' \in [Run -> Header]
      <4>1. \/ header' = header
            \/ header' = [header EXCEPT ![r].status = "errored", ![r].completed = TRUE]
        BY <2>24 DEF ResumeNext
      <4>2. "errored" \in Status
        BY DEF Status, Terminal
      <4>3. header \in [Run -> Header]
        BY DEF TypeOK
      <4>4. [header EXCEPT ![r].status = "errored", ![r].completed = TRUE]
              \in [Run -> Header]
        BY <4>2, <4>3, MarkType
      <4>5. QED BY <4>1, <4>3, <4>4
    <3>3. QED BY <2>24, <3>1, <3>2 DEF ResumeNext, TypeOK
  <2>25. CASE BootDone
    BY <2>25 DEF BootDone, TypeOK
  <2>26. CASE UNCHANGED vars
    BY <2>26 DEF vars, TypeOK
  <2>27. QED
    BY <2>1, <2>2, <2>3, <2>4, <2>5, <2>6, <2>7, <2>8, <2>9, <2>10, <2>11,
       <2>12, <2>13, <2>14, <2>15, <2>16, <2>18, <2>19, <2>20, <2>21, <2>22,
       <2>23, <2>24, <2>25, <2>26
    DEF Next, Advance, Serve, Boot, ChatSend, ScheduleFires
<1>3. QED
  BY <1>1, <1>2, PTL DEF Spec

-------------------------------------------------------------------------------
(* The grant invariant. *)

LEMMA GotoFields ==
    ASSUME task \in [Run -> Task], NEW r \in Run, NEW label, Goto(r, label)
    PROVE  /\ task'[r].pc = label /\ task'[r].call = task[r].call
           /\ task'[r].driver = task[r].driver
           /\ \A x \in Run \ {r} : task'[x] = task[x]
  BY DEF Goto, Task

(* A top-level run never begins to execute more often than the user approved   *)
(* it (Runner.approve_plan), whatever crashes, restarts and duplicate          *)
(* decisions come in between.                                                  *)
THEOREM ExecutionIsGranted == Spec => []ExecutionNeedsGrant
<1>1. Init => GrantInv
  BY DEF Init, GrantInv, NoTask, NoOrigin
<1>2. TypeOK /\ TypeOK' /\ GrantInv /\ [Next]_vars => GrantInv'
  <2> SUFFICES ASSUME TypeOK, TypeOK', GrantInv, [Next]_vars PROVE GrantInv'
    OBVIOUS
  <2> USE DEF stores, history
  <2>0. /\ task \in [Run -> Task] /\ origin \in [Run -> Origin]
        /\ \A r \in Run : started[r] \in Nat /\ granted[r] \in Nat
        /\ created \in Nat
    BY BoundsAssumption DEF TypeOK
  <2>1. ASSUME NEW r \in Run, NEW label \in Pc, Goto(r, label),
               label = "execute" => task[r].pc = "execute" \/ task[r].call = "worker",
               UNCHANGED <<origin, created, started, granted>>
        PROVE  GrantInv'
    BY <2>0, <2>1, GotoFields DEF GrantInv
  <2>2. ASSUME NEW d \in {"rpc", "scheduler"}, NEW k \in {"chat", "schedule"},
               BeginRun(d, k)
        PROVE GrantInv'
    <3>1. created + 1 \in Run
      BY <2>2, BoundsAssumption DEF BeginRun, TypeOK
    <3>2. \A x \in Run \ {created + 1} : task'[x] = task[x] /\ origin'[x] = origin[x]
      BY <2>0, <2>2, <3>1 DEF BeginRun
    <3>3. task'[created + 1].call = "run" /\ task'[created + 1].pc = "input"
      BY <2>0, <2>2, <3>1 DEF BeginRun
    <3>4. started' = started /\ granted' = granted /\ created' = created + 1
      BY <2>2 DEF BeginRun
    <3>5. started[created + 1] <= granted[created + 1]
      <4>1. origin[created + 1].kind = "none"
        BY <2>0, <3>1 DEF GrantInv
      <4>2. QED BY <3>1, <4>1 DEF GrantInv
    <3>6. QED BY <2>0, <3>1, <3>2, <3>3, <3>4, <3>5 DEF GrantInv
  <2>3. ASSUME NEW r \in Run, WriteInput(r) PROVE GrantInv'
    BY <2>1, <2>3 DEF WriteInput, Pc, Node
  <2>4. ASSUME NEW r \in Run, PlanNode(r) PROVE GrantInv'
    <3>1. AfterPlan(r, TRUE) \in Pc /\ AfterPlan(r, FALSE) \in Pc
      BY DEF AfterPlan, Pc, Node
    <3>2. \/ AfterPlan(r, TRUE) # "execute" /\ AfterPlan(r, FALSE) # "execute"
          \/ task[r].call = "worker"
      BY DEF AfterPlan
    <3>3. QED BY <2>1, <2>4, <3>1, <3>2 DEF PlanNode
  <2>5. ASSUME NEW r \in Run, ParkNotify(r) PROVE GrantInv'
    BY <2>1, <2>5 DEF ParkNotify, Pc
  <2>6. ASSUME NEW r \in Run, ParkWrite(r) \/ Finalize(r) PROVE GrantInv'
    <3>1. /\ \A x \in Run \ {r} : task'[x] = task[x]
          /\ task'[r] = NoTask
      BY <2>0, <2>6 DEF ParkWrite, Finalize
    <3>2. UNCHANGED <<origin, created, started, granted>>
      BY <2>6 DEF ParkWrite, Finalize
    <3>3. NoTask.call # "worker" /\ NoTask.pc # "execute"
      BY DEF NoTask
    <3>4. QED BY <3>1, <3>2, <3>3 DEF GrantInv
  <2>7. ASSUME NEW r \in Run, SkipHalted(r) \/ HaltAt(r) PROVE GrantInv'
    <3>1. PICK label \in Pc : Goto(r, label) /\ label # "execute"
      BY <2>7 DEF SkipHalted, HaltAt, Proceed, After, Pc, Node
    <3>2. QED BY <2>1, <2>7, <3>1 DEF SkipHalted, HaltAt
  <2>8. ASSUME NEW r \in Run, ExecuteEnter(r) PROVE GrantInv'
    BY <2>0, <2>8 DEF ExecuteEnter, GrantInv, Task
  <2>9. ASSUME NEW r \in Run, SpawnWorker(r) PROVE GrantInv'
    <3>1. created + 1 \in Run
      BY <2>9, BoundsAssumption DEF SpawnWorker, TypeOK
    <3>2. \A x \in Run \ {created + 1} :
            /\ task'[x].pc = task[x].pc /\ task'[x].call = task[x].call
            /\ origin'[x] = origin[x]
      BY <2>0, <2>9, <3>1 DEF SpawnWorker, Task
    <3>3. origin'[created + 1].kind = "worker"
      BY <2>0, <2>9, <3>1 DEF SpawnWorker
    <3>4. task'[created + 1].call = "worker"
      BY <2>0, <2>9, <3>1 DEF SpawnWorker
    <3>5. started' = started /\ granted' = granted /\ created' = created + 1
      BY <2>9 DEF SpawnWorker
    <3>6. QED BY <2>0, <3>1, <3>2, <3>3, <3>4, <3>5 DEF GrantInv
  <2>10. ASSUME NEW r \in Run, SkipSpawn(r) PROVE GrantInv'
    <3>1. \A x \in Run : task'[x].pc = task[x].pc /\ task'[x].call = task[x].call
      BY <2>0, <2>10 DEF SkipSpawn, Task
    <3>2. QED BY <2>10, <3>1 DEF SkipSpawn, GrantInv
  <2>11. ASSUME NEW r \in Run, ExecuteEnd(r) \/ CriticNode(r) \/ RespondNode(r)
         PROVE GrantInv'
    <3>1. PICK label \in Pc : Goto(r, label) /\ label # "execute"
      BY <2>11 DEF ExecuteEnd, CriticNode, RespondNode, Pc, Node
    <3>2. QED BY <2>1, <2>11, <3>1 DEF ExecuteEnd, CriticNode, RespondNode
  <2>12. ASSUME NEW r \in Run, NodeRaises(r) PROVE GrantInv'
    BY <2>0, <2>12 DEF NodeRaises, GrantInv, NoTask
  <2>13. ASSUME NEW r \in Run, Reinvoke(r), UNCHANGED <<origin, created, started>>
         PROVE GrantInv'
    <3>1. /\ \A x \in Run \ {r} : task'[x] = task[x] /\ granted'[x] = granted[x]
          /\ task'[r].call = "approve" /\ granted'[r] = granted[r] + 1
      BY <2>0, <2>13 DEF Reinvoke, TypeOK
    <3>2. QED BY <2>0, <2>13, <3>1 DEF GrantInv
  <2>14. CASE Serve
    BY <2>13, <2>14, DecisionFields
    DEF Serve, HandleApprove, HandleEdit, HandleReject, HandleKill, Serving,
        TypeOK, GrantInv
  <2>15. ASSUME NEW r \in Run, ResumeNext(r) PROVE GrantInv'
    <3>1. Entry(r) # "execute" \/ task' = task
      BY <2>15 DEF ResumeNext, Entry
    <3>2. CASE task' = task
      BY <2>15, <3>2 DEF ResumeNext, GrantInv
    <3>3. CASE task' # task
      <4>0. task' = [task EXCEPT ![r] = [driver |-> "rpc", call |-> "resume",
                                         pc |-> Entry(r), todo |-> 0]]
        BY <2>15, <3>3 DEF ResumeNext
      <4>1. /\ \A x \in Run \ {r} : task'[x] = task[x]
            /\ task'[r].call = "resume" /\ task'[r].pc = Entry(r)
        BY <2>0, <4>0
      <4>2. QED BY <2>15, <3>1, <3>3, <4>1 DEF ResumeNext, GrantInv
    <3>4. QED BY <3>2, <3>3
  <2>16. CASE ClickSomething \/ Restart \/ BootDone \/ UNCHANGED vars
    BY <2>16 DEF ClickSomething, Click, Restart, BootDone, vars, GrantInv
  <2>17. CASE Crash
    BY <2>0, <2>17 DEF Crash, GrantInv, NoTask
  <2>18. QED
    BY <2>2, <2>3, <2>4, <2>5, <2>6, <2>7, <2>8, <2>9, <2>10, <2>11, <2>12,
       <2>14, <2>15, <2>16, <2>17
    DEF Next, Advance, Boot, ChatSend, ScheduleFires
<1>3. GrantInv => ExecutionNeedsGrant
  BY DEF GrantInv, ExecutionNeedsGrant
<1>4. QED
  BY <1>1, <1>2, <1>3, TypeCorrect, PTL DEF Spec

-------------------------------------------------------------------------------
(* Steps and the runs they touch *)

Same(x) ==
    /\ task'[x] = task[x] /\ ckpt'[x] = ckpt[x] /\ header'[x] = header[x]
    /\ ui'[x] = ui[x] \/ ui'[x] = "absent"
OnlyRun(r) == \A x \in Run : x # r => Same(x)

\* A run nobody touches keeps its invariant.
LEMMA Untouched ==
    ASSUME NEW x \in Run, RunInv(x), Same(x), phase' = phase, cut \subseteq cut',
           x \in bootq' => x \in bootq
    PROVE  RunInv(x)'
<1>1. TaskInv(x)'
  BY DEF RunInv, Same, TaskInv, Active, Halted, PastPlan
<1>2. CheckpointInv(x)'
  BY DEF RunInv, Same, CheckpointInv, PastPlan
<1>3. HeaderInv(x)'
  BY DEF RunInv, Same, HeaderInv, PastPlan, Idle, Active, Halted
<1>4. BootInv(x)'
  BY DEF RunInv, Same, BootInv, Idle, Active
<1>5. QED
  BY <1>1, <1>2, <1>3, <1>4 DEF RunInv

LEMMA ActiveIsCreated ==
    ASSUME TypeOK, LifeInv, NEW r \in Run, Active(r) \/ PastPlan(r) \/ header[r].status # "absent"
                                           \/ ui[r] # "absent"
    PROVE  r <= created
<1>1. ~ (r > created)
  BY DEF LifeInv, FreshInv, Active, PastPlan, NoTask, NoHeader, NoCheckpoint
<1>2. created \in Nat
  BY BoundsAssumption DEF TypeOK
<1>3. QED
  BY <1>1, <1>2

\* Until it reaches its end a run is not called completed anywhere.
LEMMA NotOver ==
    ASSUME LifeInv, NEW r \in Run, task[r].pc \in Pc \ {"idle", "finalize"}
    PROVE  /\ ckpt[r].next # "end" /\ ckpt[r].status # "completed"
           /\ header[r].status # "completed"
<1>1. TaskInv(r) /\ CheckpointInv(r) /\ HeaderInv(r)
  BY DEF LifeInv, RunInv
<1>2. ckpt[r].next # "end"
  BY <1>1 DEF TaskInv, Pc, Node
<1>3. QED
  BY <1>1, <1>2 DEF CheckpointInv, HeaderInv

LEMMA EmitFields ==
    ASSUME ui \in [Run -> Status \cup {"absent"}], NEW r \in Run, NEW s, Emit(r, s)
    PROVE  /\ ui'[r] = ui[r] \/ ui'[r] = s
           /\ \A x \in Run : x # r => ui'[x] = ui[x]
  BY DEF Emit

\* A step of run r's own coroutine, to which the others are blind.
LEMMA CoroutineStep ==
    ASSUME TypeOK, LifeInv, NEW r \in Run, Active(r), OnlyRun(r),
           UNCHANGED <<phase, bootq, created, inbox, cut>>,
           PastPlan(r) => PastPlan(r)',
           TaskInv(r)', CheckpointInv(r)', HeaderInv(r)',
           Active(r)' => header'[r] = header[r]
    PROVE  LifeInv'
<1>1. RunInv(r) /\ r <= created
  BY ActiveIsCreated DEF LifeInv
<1>2. BootInv(r)'
  BY <1>1 DEF RunInv, BootInv, Idle, Active
<1>3. \A x \in Run : RunInv(x)'
  <2>1. ASSUME NEW x \in Run, x # r PROVE RunInv(x)'
    BY <2>1, Untouched DEF LifeInv, OnlyRun
  <2>2. QED BY <1>2, <2>1 DEF RunInv
<1>4. FreshInv'
  <2>1. created \in Nat
    BY BoundsAssumption DEF TypeOK
  <2>2. \A x \in Run : x > created => x # r
    BY <1>1, <2>1
  <2>3. QED BY <2>2 DEF LifeInv, FreshInv, OnlyRun, Same
<1>5. InboxInv'
  <2>1. \A x \in Run : PastPlan(x) => PastPlan(x)'
    BY DEF OnlyRun, Same, PastPlan
  <2>2. \A i \in 1..Len(inbox) : inbox[i].run \in Run
    BY DEF TypeOK, Decision
  <2>3. QED BY <2>1, <2>2 DEF LifeInv, InboxInv
<1>6. QED
  BY <1>3, <1>4, <1>5 DEF LifeInv

\* One that stays on its way, so that the index is not written.
LEMMA OnTheWay ==
    ASSUME TypeOK, LifeInv, NEW r \in Run, task[r].pc \in Pc \ {"idle", "finalize"},
           UNCHANGED <<header, phase, bootq, created, inbox, cut>>,
           \A x \in Run : x # r => task'[x] = task[x] /\ ckpt'[x] = ckpt[x] /\ ui'[x] = ui[x],
           task'[r].pc # "idle",
           PastPlan(r) => PastPlan(r)',
           ui'[r] = ui[r] \/ (ui'[r] = "awaiting_approval" => PastPlan(r)'),
           TaskInv(r)', CheckpointInv(r)'
    PROVE  LifeInv'
<1>1. Active(r) /\ OnlyRun(r)
  BY DEF Active, OnlyRun, Same
<1>2. HeaderInv(r)'
  <2>1. HeaderInv(r) /\ header[r].status # "completed"
    BY NotOver DEF LifeInv, RunInv
  <2>2. QED BY <2>1 DEF HeaderInv, Idle, Active
<1>3. QED
  BY <1>1, <1>2, CoroutineStep

-------------------------------------------------------------------------------
(* The coroutine's steps *)

LEMMA LifeInit == Init => LifeInv
  BY DEF Init, LifeInv, FreshInv, InboxInv, RunInv, TaskInv, CheckpointInv, HeaderInv, BootInv,
         NoTask, NoHeader, NoCheckpoint, Active, Idle, PastPlan, Unfinished, Terminal, Node

LEMMA LifeWay ==
    ASSUME TypeOK, LifeInv, NEW r \in Run,
           WriteInput(r) \/ PlanNode(r) \/ ParkNotify(r) \/ SkipHalted(r) \/ HaltAt(r)
           \/ ExecuteEnter(r) \/ SkipSpawn(r) \/ ExecuteEnd(r) \/ CriticNode(r) \/ RespondNode(r)
    PROVE  LifeInv'
<1> USE DEF stores, history
<1>0. /\ task \in [Run -> Task] /\ ckpt \in [Run -> Checkpoint]
      /\ ui \in [Run -> Status \cup {"absent"}]
      /\ TaskInv(r) /\ CheckpointInv(r)
      /\ task[r].call \in {"none", "run", "approve", "resume", "worker"}
  BY DEF TypeOK, LifeInv, RunInv, Task
<1>1. CASE WriteInput(r)
  <2>1. /\ task[r].pc = "input" /\ ckpt[r].next = "none"
        /\ ckpt' = [ckpt EXCEPT ![r] = [next |-> "plan", status |-> "pending", plan |-> NoPlan]]
    BY <1>0, <1>1 DEF WriteInput, Save, TaskInv
  <2>2. task'[r].pc = "plan" /\ task'[r].call = task[r].call /\ task'[r].driver = task[r].driver
        /\ \A x \in Run : x # r => task'[x] = task[x]
    BY <1>0, <1>1, GotoFields DEF WriteInput
  <2>3. ~ PastPlan(r)
    BY <2>1 DEF PastPlan
  <2>4. task[r].call # "approve"
    BY <1>0, <2>1 DEF TaskInv, PastPlan
  <2>5. QED
    BY <1>0, <1>1, <2>1, <2>2, <2>3, <2>4, OnTheWay
    DEF WriteInput, TaskInv, CheckpointInv, PastPlan, Active, Pc, Node, Halted, Terminal
<1>2. CASE PlanNode(r)
  <2>1. task[r].pc = "plan" /\ ckpt[r].next = "plan" /\ ckpt[r].status = "pending"
        /\ task[r].call # "approve"
    BY <1>0, <1>2 DEF PlanNode, TaskInv, CheckpointInv, PastPlan, Node
  <2>2. PICK s \in {"pending", "killed"}, label \in {"execute", "parkNotify", "finalize"} :
        /\ Goto(r, label)
        /\ \E p \in Plans \cup {NoPlan} : Save(r, "execute", s, p)
        /\ \E e \in {"planning", "killed"} : Emit(r, e)
        /\ label = "parkNotify" => s = "pending"
        /\ label = "finalize" /\ s = "pending" => task[r].call \notin {"worker", "run"}
    BY <1>0, <1>2, <2>1, CheckpointFields DEF PlanNode, AfterPlan
  <2>3. task'[r].pc = label /\ task'[r].call = task[r].call /\ task'[r].driver = task[r].driver
        /\ \A x \in Run : x # r => task'[x] = task[x]
    BY <1>0, <2>2, GotoFields
  <2>4. ckpt'[r].next = "execute" /\ ckpt'[r].status = s /\ \A x \in Run : x # r => ckpt'[x] = ckpt[x]
    BY <1>0, <2>2 DEF Save
  <2>5. ui'[r] \in {ui[r], "planning", "killed"} /\ \A x \in Run : x # r => ui'[x] = ui[x]
    BY <1>0, <2>2, EmitFields
  <2>6. UNCHANGED <<header, phase, bootq, created, inbox, cut>>
    BY <1>2 DEF PlanNode
  <2>7. TaskInv(r)'
    <3>1. task[r].call # "none" /\ task[r].driver # "none"
      BY <1>0, <2>1 DEF TaskInv, Active
    <3>2. task[r].call = "resume" => r \in cut
      BY <1>0 DEF TaskInv
    <3>3. (label = "finalize" /\ s = "pending") => r \in cut
      BY <1>0, <2>1, <2>2, <3>1, <3>2
    <3>4. QED
      BY <2>1, <2>2, <2>3, <2>4, <2>6, <3>1, <3>2, <3>3
      DEF TaskInv, Active, Halted, Stopped, PastPlan, Node
  <2>8. CheckpointInv(r)' /\ PastPlan(r)'
    BY <2>4 DEF CheckpointInv, PastPlan, Terminal
  <2>9. QED BY <2>1, <2>3, <2>4, <2>5, <2>6, <2>7, <2>8, OnTheWay DEF Pc, Node
<1>3. CASE ParkNotify(r)
  <2>1. task[r].pc = "parkNotify" /\ ckpt[r].next = "execute" /\ ~ Halted(r) /\ PastPlan(r)
    BY <1>0, <1>3 DEF ParkNotify, TaskInv, PastPlan
  <2>2. /\ task'[r].pc = "parkWrite" /\ task'[r].call = task[r].call
        /\ task'[r].driver = task[r].driver /\ \A x \in Run : x # r => task'[x] = task[x]
        /\ \A x \in Run : x # r => ui'[x] = ui[x]
    BY <1>0, <1>3, GotoFields, EmitFields DEF ParkNotify
  <2>3. UNCHANGED <<ckpt, header, phase, bootq, created, inbox, cut>>
    BY <1>3 DEF ParkNotify
  <2>4. TaskInv(r)' /\ CheckpointInv(r)' /\ PastPlan(r)'
    BY <1>0, <2>1, <2>2, <2>3 DEF TaskInv, CheckpointInv, PastPlan, Active, Halted, Node
  <2>5. QED BY <2>1, <2>2, <2>3, <2>4, OnTheWay DEF Pc
<1>4. CASE SkipHalted(r) \/ HaltAt(r)
  <2>1. PICK n \in {"critic", "respond", "end"}, s \in Stopped :
        /\ task[r].pc \in {"execute", "critic", "respond"}
        /\ ckpt'[r].next = n /\ ckpt'[r].status = s /\ \A x \in Run : x # r => ckpt'[x] = ckpt[x]
        /\ Goto(r, IF n = "end" THEN "finalize" ELSE n)
        /\ ui'[r] \in {ui[r], "killed"} /\ \A x \in Run : x # r => ui'[x] = ui[x]
    <3>1. CASE SkipHalted(r)
      <4>1. ckpt'[r].next = After(task[r].pc) /\ ckpt'[r].status = ckpt[r].status
            /\ \A x \in Run : x # r => ckpt'[x] = ckpt[x]
        BY <1>0, <3>1 DEF SkipHalted, Checkpoint
      <4>2. QED BY <3>1, <4>1 DEF SkipHalted, Halted, Proceed, After
    <3>2. CASE HaltAt(r)
      <4>1. ckpt'[r].next = After(task[r].pc) /\ ckpt'[r].status = "killed"
            /\ \A x \in Run : x # r => ckpt'[x] = ckpt[x]
        BY <1>0, <3>2 DEF HaltAt, Save
      <4>2. QED BY <1>0, <3>2, <4>1, EmitFields DEF HaltAt, Stopped, Proceed, After
    <3>3. QED BY <1>4, <3>1, <3>2
  <2>2. /\ task'[r].pc = IF n = "end" THEN "finalize" ELSE n
        /\ task'[r].call = task[r].call
        /\ task'[r].driver = task[r].driver /\ \A x \in Run : x # r => task'[x] = task[x]
    BY <1>0, <2>1, GotoFields
  <2>3. UNCHANGED <<header, phase, bootq, created, inbox, cut>>
    BY <1>4 DEF SkipHalted, HaltAt
  <2>4. TaskInv(r)' /\ CheckpointInv(r)' /\ PastPlan(r)'
    BY <1>0, <2>1, <2>2, <2>3
    DEF TaskInv, CheckpointInv, PastPlan, Active, Halted, Stopped, Terminal, Node
  <2>5. QED BY <2>1, <2>2, <2>3, <2>4, OnTheWay DEF Pc, Node
<1>5. CASE ExecuteEnter(r) \/ SkipSpawn(r)
  <2>1. /\ task[r].pc \in {"execute", "spawn"} /\ ckpt[r].next = "execute" /\ ~ Halted(r)
    BY <1>0, <1>5 DEF ExecuteEnter, SkipSpawn, AtSpawn, TaskInv, Node
  <2>2. /\ task'[r].pc = "spawn" /\ task'[r].call = task[r].call
        /\ task'[r].driver = task[r].driver /\ \A x \in Run : x # r => task'[x] = task[x]
    BY <1>0, <1>5 DEF ExecuteEnter, SkipSpawn, AtSpawn, Task
  <2>3. /\ UNCHANGED <<ckpt, header, phase, bootq, created, inbox, cut>>
        /\ ui'[r] \in {ui[r], "running"} /\ \A x \in Run : x # r => ui'[x] = ui[x]
    BY <1>0, <1>5, EmitFields DEF ExecuteEnter, SkipSpawn
  <2>4. TaskInv(r)' /\ CheckpointInv(r)' /\ PastPlan(r)'
    BY <1>0, <2>1, <2>2, <2>3 DEF TaskInv, CheckpointInv, PastPlan, Active, Halted, Node
  <2>5. QED BY <2>1, <2>2, <2>3, <2>4, OnTheWay DEF Pc, Node
<1>6. CASE ExecuteEnd(r) \/ CriticNode(r)
  <2>1. PICK n \in {"critic", "respond"} :
        /\ task[r].pc \in {"spawn", "critic"} /\ Goto(r, n)
        /\ ckpt' = [ckpt EXCEPT ![r].next = n]
        /\ UNCHANGED <<header, phase, bootq, created, inbox, cut, ui>>
    BY <1>6 DEF ExecuteEnd, CriticNode, AtSpawn
  <2>2. /\ ckpt'[r].next = n /\ ckpt'[r].status = ckpt[r].status
        /\ \A x \in Run : x # r => ckpt'[x] = ckpt[x]
    BY <1>0, <2>1 DEF Checkpoint
  <2>3. /\ task'[r].pc = n /\ task'[r].call = task[r].call
        /\ task'[r].driver = task[r].driver /\ \A x \in Run : x # r => task'[x] = task[x]
    BY <1>0, <2>1, GotoFields
  <2>4. TaskInv(r)' /\ CheckpointInv(r)' /\ PastPlan(r)'
    <3>1. ckpt[r].next # "end"
      BY <1>0, <2>1 DEF TaskInv, Node
    <3>2. QED BY <1>0, <2>1, <2>2, <2>3, <3>1
              DEF TaskInv, CheckpointInv, PastPlan, Active, Node
  <2>5. QED BY <2>1, <2>2, <2>3, <2>4, OnTheWay DEF Pc, Node
<1>7. CASE RespondNode(r)
  <2>1. PICK s \in {"completed", "errored"} : Save(r, "end", s, ckpt[r].plan) /\ Emit(r, s)
    BY <1>7 DEF RespondNode
  <2>2. /\ ckpt'[r].next = "end" /\ ckpt'[r].status = s /\ ui'[r] \in {ui[r], s}
        /\ \A x \in Run : x # r => ckpt'[x] = ckpt[x] /\ ui'[x] = ui[x]
    BY <1>0, <2>1, EmitFields DEF Save
  <2>3. /\ task[r].pc = "respond" /\ task'[r].pc = "finalize" /\ task'[r].call = task[r].call
        /\ task'[r].driver = task[r].driver /\ \A x \in Run : x # r => task'[x] = task[x]
        /\ UNCHANGED <<header, phase, bootq, created, inbox, cut>>
    BY <1>0, <1>7, GotoFields DEF RespondNode
  <2>4. TaskInv(r)' /\ CheckpointInv(r)' /\ PastPlan(r)'
    BY <1>0, <2>2, <2>3 DEF TaskInv, CheckpointInv, PastPlan, Active, Terminal, Node
  <2>5. QED BY <2>2, <2>3, <2>4, OnTheWay DEF Pc, Node
<1>8. QED
  BY <1>1, <1>2, <1>3, <1>4, <1>5, <1>6, <1>7

\* A coroutine that leaves Runner has written the index: either the gate it
\* stopped at, or what its graph's state says.
LEMMA LifeEnd ==
    ASSUME TypeOK, LifeInv, NEW r \in Run, ParkWrite(r) \/ Finalize(r)
    PROVE  LifeInv'
<1>0. /\ task \in [Run -> Task] /\ header \in [Run -> Header]
      /\ TaskInv(r) /\ CheckpointInv(r) /\ HeaderInv(r)
  BY DEF TypeOK, LifeInv, RunInv
<1>1. /\ \A x \in Run : x # r => task'[x] = task[x] /\ header'[x] = header[x]
      /\ task'[r] = NoTask /\ task'[r].pc = "idle" /\ task'[r].call = "none"
      /\ UNCHANGED <<ckpt, phase, bootq, created, inbox, cut, ui>> /\ Active(r)
  <2>1. CASE ParkWrite(r)
    BY <1>0, <2>1 DEF ParkWrite, Active, NoTask, history
  <2>2. CASE Finalize(r)
    BY <1>0, <2>2 DEF Finalize, Active, NoTask, history
  <2>3. QED BY <2>1, <2>2
<1>2. header'[r].plan = ckpt[r].plan
      /\ header'[r].status = IF task[r].pc = "parkWrite" THEN "awaiting_approval" ELSE ckpt[r].status
  <2>1. CASE ParkWrite(r)
    BY <1>0, <2>1 DEF ParkWrite, Header
  <2>2. CASE Finalize(r)
    BY <1>0, <2>2 DEF Finalize, Header
  <2>3. QED BY <2>1, <2>2
<1>3. task[r].pc \in {"parkWrite", "finalize"}
  BY DEF ParkWrite, Finalize
<1>4. task[r].pc = "finalize" => header'[r].completed
  <2>1. CASE ParkWrite(r)
    BY <2>1 DEF ParkWrite
  <2>2. CASE Finalize(r)
    BY <1>0, <2>2 DEF Finalize, Header
  <2>3. QED BY <2>1, <2>2
<1>5. TaskInv(r)' /\ CheckpointInv(r)'
  BY <1>0, <1>1 DEF TaskInv, CheckpointInv, PastPlan, Active, Node
<1>6. HeaderInv(r)'
  <2>1. CASE task[r].pc = "parkWrite"
    <3>1. ckpt[r].next = "execute" /\ ~ Halted(r)
      BY <1>0, <2>1 DEF TaskInv
    <3>2. QED BY <1>0, <1>1, <1>2, <2>1, <3>1 DEF HeaderInv, PastPlan, Halted
  <2>2. CASE task[r].pc = "finalize"
    <3>1. ckpt[r].status \in Unfinished => r \in cut
      BY <1>0, <2>2 DEF TaskInv, CheckpointInv, Terminal, Unfinished
    <3>2. ckpt[r].status # "awaiting_approval"
      BY <1>0 DEF CheckpointInv, Terminal
    <3>3. QED BY <1>0, <1>1, <1>2, <1>4, <2>2, <3>1, <3>2 DEF HeaderInv, PastPlan
  <2>3. QED BY <1>3, <2>1, <2>2
<1>7. OnlyRun(r) /\ ~ Active(r)' /\ (PastPlan(r) => PastPlan(r)')
  BY <1>1 DEF OnlyRun, Same, Active, PastPlan
<1>8. QED
  BY <1>1, <1>5, <1>6, <1>7, CoroutineStep

\* A run that is created leaves the others alone and starts on fresh ground.
LEMMA LifeCreate ==
    ASSUME TypeOK, LifeInv, NEW w \in Run, w = created + 1, created' = w,
           phase \in {"up", "boot"},
           \A x \in Run : x # w =>
               /\ task'[x].pc = task[x].pc /\ task'[x].call = task[x].call
               /\ task'[x].driver = task[x].driver /\ header'[x] = header[x] /\ ui'[x] = ui[x]
               /\ (x > created => task'[x] = task[x]),
           task'[w].pc = "input", task'[w].call \in {"run", "worker"}, task'[w].driver # "none",
           header'[w].status = "planning", ui'[w] \in {ui[w], "pending"},
           UNCHANGED <<ckpt, phase, bootq, inbox, cut>>
    PROVE  LifeInv'
<1>0. created \in Nat
  BY BoundsAssumption DEF TypeOK
<1>1. header[w] = NoHeader /\ ckpt[w] = NoCheckpoint /\ task[w] = NoTask /\ ui[w] = "absent"
  BY <1>0 DEF LifeInv, FreshInv
<1>2. ASSUME NEW x \in Run, x # w PROVE RunInv(x)'
  BY <1>2 DEF LifeInv, RunInv, TaskInv, CheckpointInv, HeaderInv, BootInv, PastPlan, Active, Idle, Halted
<1>3. RunInv(w)'
  <2>1. w \notin bootq
    BY <1>1 DEF LifeInv, RunInv, BootInv, NoHeader, Unfinished
  <2>2. TaskInv(w)' /\ CheckpointInv(w)'
    BY <1>1 DEF TaskInv, CheckpointInv, PastPlan, Active, NoCheckpoint, Terminal, Node
  <2>3. HeaderInv(w)' /\ BootInv(w)'
    BY <1>1, <2>1 DEF HeaderInv, BootInv, Active, Idle, Unfinished
  <2>4. QED BY <2>2, <2>3 DEF RunInv
<1>4. FreshInv'
  BY <1>0 DEF LifeInv, FreshInv
<1>5. InboxInv'
  <2>1. \A i \in 1..Len(inbox) : inbox[i].run \in Run
    BY DEF TypeOK, Decision
  <2>2. QED BY <1>0, <2>1 DEF LifeInv, InboxInv, PastPlan
<1>6. QED
  BY <1>2, <1>3, <1>4, <1>5 DEF LifeInv

LEMMA LifeBegin ==
    ASSUME TypeOK, LifeInv, NEW d \in {"rpc", "scheduler"}, NEW k, BeginRun(d, k)
    PROVE  LifeInv'
<1>1. created + 1 \in Run
  BY BoundsAssumption DEF BeginRun, TypeOK
<1> PICK w \in Run : w = created + 1
  BY <1>1
<1>2. /\ task \in [Run -> Task] /\ header \in [Run -> Header]
      /\ ui \in [Run -> Status \cup {"absent"}]
  BY DEF TypeOK
<1>3. \A x \in Run : x # w =>
         task'[x] = task[x] /\ header'[x] = header[x] /\ ui'[x] = ui[x]
  BY <1>2 DEF BeginRun
<1>4. /\ task'[w] = [driver |-> d, call |-> "run", pc |-> "input", todo |-> 0]
      /\ header'[w].status = "planning" /\ ui'[w] \in {ui[w], "pending"}
  BY <1>2 DEF BeginRun, Header
<1>5. phase = "up" /\ created' = w /\ UNCHANGED <<ckpt, phase, bootq, inbox, cut>>
  BY DEF BeginRun, history
<1>6. QED
  BY <1>3, <1>4, <1>5, LifeCreate

LEMMA LifeSpawn ==
    ASSUME TypeOK, LifeInv, NEW r \in Run, SpawnWorker(r)
    PROVE  LifeInv'
<1>1. created + 1 \in Run /\ created \in Nat
  BY BoundsAssumption DEF SpawnWorker, TypeOK
<1> PICK w \in Run : w = created + 1
  BY <1>1
<1>2. /\ task \in [Run -> Task] /\ header \in [Run -> Header]
      /\ ui \in [Run -> Status \cup {"absent"}]
  BY DEF TypeOK
<1>3. task[r].pc = "spawn" /\ task[r].driver # "none" /\ phase \in {"up", "boot"}
  <2>1. task[r].pc = "spawn"
    BY DEF SpawnWorker, AtSpawn
  <2>2. QED BY <2>1 DEF LifeInv, RunInv, TaskInv, BootInv, Active, Idle, TypeOK
<1>4. r <= created /\ r # w
  BY <1>1, <1>3, ActiveIsCreated DEF Active
<1>5. \A x \in Run : x # w =>
         /\ task'[x].pc = task[x].pc /\ task'[x].call = task[x].call
         /\ task'[x].driver = task[x].driver /\ header'[x] = header[x] /\ ui'[x] = ui[x]
         /\ (x > created => task'[x] = task[x])
  <2>1. \A x \in Run : x # w => header'[x] = header[x] /\ ui'[x] = ui[x]
    BY <1>2 DEF SpawnWorker
  <2>2. task' = [task EXCEPT ![r].todo = @ - 1,
                             ![w] = [driver |-> task[r].driver, call |-> "worker",
                                     pc |-> "input", todo |-> 0]]
    BY DEF SpawnWorker
  <2>3. \A x \in Run : x # w /\ x # r => task'[x] = task[x]
    BY <1>2, <2>2
  <2>4. task'[r].pc = task[r].pc /\ task'[r].call = task[r].call /\ task'[r].driver = task[r].driver
    BY <1>2, <1>4, <2>2 DEF Task
  <2>5. ~ (r > created)
    BY <1>1, <1>4
  <2>6. QED BY <2>1, <2>3, <2>4, <2>5
<1>6. /\ task'[w] = [driver |-> task[r].driver, call |-> "worker", pc |-> "input", todo |-> 0]
      /\ header'[w].status = "planning" /\ ui'[w] \in {ui[w], "pending"}
  BY <1>2 DEF SpawnWorker, Header
<1>7. created' = w /\ UNCHANGED <<ckpt, phase, bootq, inbox, cut>>
  BY DEF SpawnWorker, history
<1>8. QED
  BY <1>3, <1>5, <1>6, <1>7, LifeCreate

\* An exception leaves every run it unwinds idle and cut off.
LEMMA LifeRaise ==
    ASSUME TypeOK, LifeInv, NEW r \in Run, NodeRaises(r)
    PROVE  LifeInv'
<1>0. header \in [Run -> Header] /\ created \in Nat
  BY BoundsAssumption DEF TypeOK
<1>1. Active(r) /\ r <= created
  BY ActiveIsCreated DEF NodeRaises, AtSpawn, Active
<1>2. /\ UNCHANGED <<ckpt, created, phase, bootq, inbox, ui>> /\ cut \subseteq cut'
      /\ \A x \in Run : IF task[x].driver = task[r].driver
                        THEN task'[x] = NoTask /\ x \in cut' ELSE task'[x] = task[x]
      /\ \A x \in Run : x # r => header'[x] = header[x]
      /\ header'[r] = header[r] \/ header'[r].status = "errored"
  BY <1>0 DEF NodeRaises, Driving, Header
<1>3. ASSUME NEW x \in Run PROVE RunInv(x)'
  <2>0. RunInv(x)
    BY DEF LifeInv
  <2>1. CASE task[x].driver # task[r].driver
    <3>1. Same(x)
      BY <1>2, <2>1 DEF Same
    <3>2. QED BY <1>2, <2>0, <3>1, Untouched
  <2>2. CASE task[x].driver = task[r].driver
    <3>1. task'[x].pc = "idle" /\ task'[x].call = "none" /\ x \in cut'
      BY <1>2, <2>2 DEF NoTask
    <3>2. TaskInv(x)' /\ CheckpointInv(x)'
      BY <1>2, <2>0, <3>1 DEF RunInv, TaskInv, CheckpointInv, Active, PastPlan, Node
    <3>3. HeaderInv(x)'
      BY <1>2, <2>0, <3>1 DEF RunInv, HeaderInv, PastPlan, Unfinished
    <3>4. BootInv(x)'
      <4>1. x = r => x \notin bootq
        BY <1>1, <2>0 DEF RunInv, BootInv, Idle
      <4>2. QED BY <1>2, <2>0, <3>1, <4>1 DEF RunInv, BootInv, Idle, Active
    <3>5. QED BY <3>2, <3>3, <3>4 DEF RunInv
  <2>3. QED BY <2>1, <2>2
<1>4. FreshInv'
  <2>1. \A x \in Run : x > created => x # r
    BY <1>0, <1>1
  <2>2. QED BY <1>2, <2>1 DEF LifeInv, FreshInv
<1>5. InboxInv'
  BY <1>2 DEF LifeInv, InboxInv, PastPlan
<1>6. QED
  BY <1>3, <1>4, <1>5 DEF LifeInv

LEMMA LifeAdvance == ASSUME TypeOK, LifeInv, NEW r \in Run, Advance(r) PROVE LifeInv'
  BY LifeWay, LifeEnd, LifeSpawn, LifeRaise DEF Advance

-------------------------------------------------------------------------------
(* Decisions *)

\* Only a run past its plan node is offered for approval, edit or rejection.
LEMMA LifeClick ==
    ASSUME TypeOK, LifeInv, ClickSomething
    PROVE  LifeInv'
<1>1. PICK r \in Run, act \in {"approve", "reject", "kill", "edit"}, p \in Plans \cup {NoPlan} :
         Click(r, act, p)
  BY DEF ClickSomething
<1> DEFINE d == [act |-> act, run |-> r, plan |-> p]
<1>2. /\ inbox' = Append(inbox, d)
      /\ UNCHANGED <<header, ckpt, task, created, phase, bootq, ui, cut>>
      /\ Shows(r, IF act = "kill" THEN Unfinished ELSE {"awaiting_approval"})
  BY <1>1 DEF Click, stores, history
<1>3. r <= created
  <2>1. "absent" \notin Unfinished
    BY DEF Unfinished
  <2>2. header[r].status # "absent" \/ ui[r] # "absent"
    BY <1>2, <2>1 DEF Shows
  <2>3. QED BY <2>2, ActiveIsCreated
<1>4. act # "kill" => PastPlan(r)
  BY <1>2 DEF Shows, LifeInv, RunInv, HeaderInv
<1>5. InboxInv'
  <2>1. inbox \in Seq(Decision)
    BY DEF TypeOK
  <2>2. ASSUME NEW i \in 1..Len(inbox')
        PROVE  inbox'[i] = d \/ (i \in 1..Len(inbox) /\ inbox'[i] = inbox[i])
    BY <1>2, <2>1, <2>2
  <2>3. d.run = r /\ d.act = act
    OBVIOUS
  <2> HIDE DEF d
  <2>4. ASSUME NEW i \in 1..Len(inbox')
        PROVE  (inbox[i].run <= created /\ (inbox[i].act # "kill" => PastPlan(inbox[i].run)))'
    <3>1. CASE inbox'[i] = d
      BY <1>2, <1>3, <1>4, <2>3, <3>1 DEF PastPlan
    <3>2. CASE i \in 1..Len(inbox) /\ inbox'[i] = inbox[i]
      BY <1>2, <3>2 DEF LifeInv, InboxInv, PastPlan
    <3>3. QED BY <2>2, <2>4, <3>1, <3>2
  <2>5. QED BY <2>4 DEF InboxInv
<1>6. FreshInv' /\ \A x \in Run : RunInv(x)'
  BY <1>2 DEF LifeInv, FreshInv, RunInv, TaskInv, CheckpointInv, HeaderInv, BootInv,
              Active, Idle, Halted, PastPlan
<1>7. QED
  BY <1>5, <1>6 DEF LifeInv

\* The request loop takes the oldest decision off the queue.
LEMMA InboxShrinks ==
    ASSUME TypeOK, LifeInv, inbox # <<>>, inbox' = Tail(inbox), created' = created,
           \A x \in Run : PastPlan(x) => PastPlan(x)'
    PROVE  InboxInv'
<1>1. inbox \in Seq(Decision)
  BY DEF TypeOK
<1>2. \A i \in 1..Len(inbox') : i + 1 \in 1..Len(inbox) /\ inbox'[i] = inbox[i + 1]
  BY <1>1
<1>3. \A i \in 1..Len(inbox) : inbox[i].run \in Run
  BY <1>1 DEF Decision
<1>4. QED
  BY <1>2, <1>3 DEF LifeInv, InboxInv

LEMMA HeadIsMeant ==
    ASSUME TypeOK, LifeInv, inbox # <<>>
    PROVE  /\ Head(inbox).run \in Run /\ Head(inbox).run <= created
           /\ Head(inbox).act # "kill" => PastPlan(Head(inbox).run)
<1>1. inbox \in Seq(Decision) /\ 1 \in 1..Len(inbox) /\ Head(inbox) = inbox[1]
  BY DEF TypeOK
<1>2. QED
  BY <1>1, DecisionFields DEF LifeInv, InboxInv

LEMMA LifeApprove ==
    ASSUME TypeOK, LifeInv, HandleApprove \/ HandleEdit
    PROVE  LifeInv'
<1> USE DEF stores, history
<1>1. inbox # <<>> /\ Head(inbox).act # "kill" /\ inbox' = Tail(inbox) /\ phase = "up"
  BY DEF HandleApprove, HandleEdit, Serving
<1>2. PICK r \in Run : r = Head(inbox).run /\ r <= created /\ PastPlan(r)
  BY <1>1, HeadIsMeant
<1>3. /\ task \in [Run -> Task] /\ ckpt \in [Run -> Checkpoint] /\ created \in Nat
  BY BoundsAssumption DEF TypeOK
<1>4. UNCHANGED <<header, created, phase, bootq, ui, cut>>
  BY DEF HandleApprove, HandleEdit
<1>5. /\ task'[r].call = "approve" /\ task'[r].driver = "rpc"
      /\ task'[r].pc = IF ckpt[r].next = "end" THEN "finalize" ELSE ckpt[r].next
      /\ \A x \in Run : x # r => task'[x] = task[x]
  <2>1. Reinvoke(r)
    BY <1>2 DEF HandleApprove, HandleEdit
  <2>2. task' = [task EXCEPT ![r] = [driver |-> "rpc", call |-> "approve",
                                     pc |-> Entry(r), todo |-> 0]]
    BY <2>1 DEF Reinvoke
  <2>3. QED BY <1>3, <2>2 DEF Entry
<1>6. /\ \A x \in Run : ckpt'[x].next = ckpt[x].next /\ ckpt'[x].status = ckpt[x].status
      /\ \A x \in Run : x # r => ckpt'[x] = ckpt[x]
  <2>1. CASE HandleApprove
    BY <2>1 DEF HandleApprove
  <2>2. CASE HandleEdit
    BY <1>2, <1>3, <2>2 DEF HandleEdit, Checkpoint
  <2>3. QED BY <2>1, <2>2
<1>7. ASSUME NEW x \in Run, x # r PROVE RunInv(x)'
  <2>1. Same(x)
    BY <1>4, <1>5, <1>6, <1>7 DEF Same
  <2>2. QED BY <1>4, <2>1, Untouched DEF LifeInv
<1>8. RunInv(r)'
  <2>1. RunInv(r) /\ ckpt[r].next \in {"execute", "critic", "respond", "end"}
    BY <1>2, <1>3 DEF LifeInv, PastPlan, Checkpoint, Node
  <2>2. TaskInv(r)'
    BY <1>5, <1>6, <2>1 DEF RunInv, TaskInv, CheckpointInv, PastPlan, Active, Terminal, Node
  <2>3. CheckpointInv(r)'
    BY <1>6, <2>1 DEF RunInv, CheckpointInv, PastPlan
  <2>4. HeaderInv(r)'
    BY <1>4, <1>5, <1>6, <2>1 DEF RunInv, HeaderInv, PastPlan, Idle, Active
  <2>5. BootInv(r)'
    BY <1>1, <1>4, <2>1 DEF RunInv, BootInv
  <2>6. QED BY <2>2, <2>3, <2>4, <2>5 DEF RunInv
<1>9. FreshInv'
  <2>1. \A x \in Run : x > created => x # r
    BY <1>2, <1>3
  <2>2. QED BY <1>4, <1>5, <1>6, <2>1 DEF LifeInv, FreshInv
<1>10. InboxInv'
  BY <1>1, <1>4, <1>6, InboxShrinks DEF PastPlan
<1>11. QED
  BY <1>7, <1>8, <1>9, <1>10 DEF LifeInv

\* A row marked killed says nothing that could be false.
LEMMA LifeKill ==
    ASSUME TypeOK, LifeInv, HandleReject \/ HandleKill
    PROVE  LifeInv'
<1> USE DEF stores, history
<1>1. /\ inbox # <<>> /\ inbox' = Tail(inbox) /\ phase = "up"
      /\ UNCHANGED <<ckpt, task, created, phase, bootq, cut>>
  BY DEF HandleReject, HandleKill, Serving
<1>2. PICK r \in Run : r = Head(inbox).run /\ r <= created
  BY <1>1, HeadIsMeant
<1>3. header \in [Run -> Header] /\ ui \in [Run -> Status \cup {"absent"}] /\ created \in Nat
  BY BoundsAssumption DEF TypeOK
<1>4. /\ header'[r].status = "killed" /\ ui'[r] = "killed"
      /\ \A x \in Run : x # r => header'[x] = header[x] /\ ui'[x] = ui[x]
  <2>1. CASE HandleReject
    BY <1>2, <1>3, <2>1 DEF HandleReject
  <2>2. CASE HandleKill
    BY <1>2, <1>3, <2>2 DEF HandleKill, Header
  <2>3. QED BY <2>1, <2>2
<1>5. ASSUME NEW x \in Run, x # r PROVE RunInv(x)'
  <2>1. Same(x)
    BY <1>1, <1>4, <1>5 DEF Same
  <2>2. QED BY <1>1, <2>1, Untouched DEF LifeInv
<1>6. RunInv(r)'
  <2>1. RunInv(r)
    BY DEF LifeInv
  <2>2. TaskInv(r)' /\ CheckpointInv(r)'
    BY <1>1, <2>1 DEF RunInv, TaskInv, CheckpointInv, PastPlan, Active, Halted
  <2>3. HeaderInv(r)'
    BY <1>4 DEF HeaderInv, Unfinished
  <2>4. BootInv(r)'
    BY <1>1, <2>1 DEF RunInv, BootInv
  <2>5. QED BY <2>2, <2>3, <2>4 DEF RunInv
<1>7. FreshInv'
  <2>1. \A x \in Run : x > created => x # r
    BY <1>2, <1>3
  <2>2. QED BY <1>1, <1>4, <2>1 DEF LifeInv, FreshInv
<1>8. InboxInv'
  BY <1>1, InboxShrinks DEF PastPlan
<1>9. QED
  BY <1>5, <1>6, <1>7, <1>8 DEF LifeInv

-------------------------------------------------------------------------------
(* Crash and restart *)

\* A crash cuts off whatever was driven, so that no idle row is blamed.
LEMMA LifeCrash ==
    ASSUME TypeOK, LifeInv, Crash
    PROVE  LifeInv'
<1>1. /\ UNCHANGED <<header, ckpt, created>> /\ phase' = "down" /\ bootq' = {} /\ inbox' = <<>>
      /\ \A x \in Run : task'[x] = NoTask /\ ui'[x] = "absent" /\ (Active(x) => x \in cut')
      /\ cut \subseteq cut'
  BY DEF Crash, stores
<1>2. ASSUME NEW x \in Run PROVE RunInv(x)'
  <2>1. RunInv(x) /\ task'[x].pc = "idle" /\ task'[x].call = "none"
    BY <1>1 DEF LifeInv, NoTask
  <2>2. TaskInv(x)' /\ CheckpointInv(x)'
    BY <1>1, <2>1 DEF RunInv, TaskInv, CheckpointInv, PastPlan, Active, Node
  <2>3. HeaderInv(x)'
    BY <1>1, <2>1 DEF RunInv, HeaderInv, PastPlan, Idle, Halted
  <2>4. BootInv(x)'
    BY <1>1, <2>1 DEF BootInv, Idle, Active
  <2>5. QED BY <2>2, <2>3, <2>4 DEF RunInv
<1>3. FreshInv' /\ InboxInv'
  BY <1>1 DEF LifeInv, FreshInv, InboxInv
<1>4. QED
  BY <1>2, <1>3 DEF LifeInv

\* The boot pass drives only rows that are unfinished, and that is so because
\* one coroutine runs at a time and stdin is closed to the user's decisions.
LEMMA LifeBoot ==
    ASSUME TypeOK, LifeInv, Boot
    PROVE  LifeInv'
<1> USE DEF stores, history
<1>1. CASE Restart
  <2>1. /\ UNCHANGED <<header, ckpt, task, created, inbox, ui, cut>>
        /\ phase = "down" /\ phase' = "boot"
        /\ bootq' = {r \in Run : header[r].status \in Unfinished}
    BY <1>1 DEF Restart
  <2>2. ASSUME NEW x \in Run PROVE RunInv(x)'
    BY <2>1 DEF LifeInv, RunInv, TaskInv, CheckpointInv, HeaderInv, BootInv,
                Active, Idle, Halted, PastPlan
  <2>3. FreshInv' /\ InboxInv'
    BY <2>1 DEF LifeInv, FreshInv, InboxInv, PastPlan
  <2>4. QED BY <2>2, <2>3 DEF LifeInv
<1>2. ASSUME NEW r \in Run, ResumeNext(r) PROVE LifeInv'
  <2>1. /\ UNCHANGED <<ckpt, created, inbox, ui, cut, phase>> /\ phase = "boot"
        /\ r \in bootq /\ bootq' = bootq \ {r}
    BY <1>2 DEF ResumeNext
  <2>2. /\ task \in [Run -> Task] /\ header \in [Run -> Header] /\ ckpt \in [Run -> Checkpoint]
    BY DEF TypeOK
  <2>3. RunInv(r) /\ Idle(r) /\ header[r].status \in Unfinished
    BY <2>1 DEF LifeInv, RunInv, BootInv
  <2>4. /\ \A x \in Run : x # r => header'[x] = header[x] /\ task'[x] = task[x]
        /\ \/ header'[r].status = "errored" /\ task'[r] = task[r]
           \/ header'[r] = header[r] /\ task'[r] = task[r]
           \/ /\ header'[r] = header[r] /\ r \in cut
              /\ ckpt[r].next \notin {"none", "execute"}
              /\ task'[r].call = "resume" /\ task'[r].driver = "rpc"
              /\ task'[r].pc = IF ckpt[r].next = "end" THEN "finalize" ELSE ckpt[r].next
    <3>1. CASE ckpt[r].next = "none"
      BY <1>2, <2>2, <3>1 DEF ResumeNext, Header
    <3>2. CASE ckpt[r].next = "execute"
      BY <1>2, <3>2 DEF ResumeNext
    <3>3. CASE ckpt[r].next \notin {"none", "execute"}
      <4>1. r \in cut
        BY <2>3, <3>3 DEF RunInv, HeaderInv
      <4>2. /\ header' = header
            /\ task' = [task EXCEPT ![r] = [driver |-> "rpc", call |-> "resume",
                                            pc |-> Entry(r), todo |-> 0]]
        BY <1>2, <3>3 DEF ResumeNext
      <4>3. QED BY <2>2, <3>3, <4>1, <4>2 DEF Entry
    <3>4. QED BY <3>1, <3>2, <3>3
  <2>5. ASSUME NEW x \in Run, x # r PROVE RunInv(x)'
    <3>1. Same(x)
      BY <2>1, <2>4, <2>5 DEF Same
    <3>2. QED BY <2>1, <3>1, Untouched DEF LifeInv
  <2>6. RunInv(r)'
    <3>1. CheckpointInv(r)'
      BY <2>1, <2>3 DEF RunInv, CheckpointInv, PastPlan
    <3>2. CASE task'[r] = task[r]
      <4>1. TaskInv(r)' /\ BootInv(r)'
        BY <2>1, <2>3, <3>2 DEF RunInv, TaskInv, BootInv, Active, Idle, Halted, PastPlan
      <4>2. HeaderInv(r)'
        <5>1. CASE header'[r].status = "errored"
          BY <2>1, <2>3, <5>1 DEF RunInv, HeaderInv, PastPlan, Unfinished
        <5>2. CASE header'[r] = header[r]
          BY <2>1, <2>3, <3>2, <5>2 DEF RunInv, HeaderInv, PastPlan, Idle, Active, Halted
        <5>3. QED BY <2>3, <2>4, <3>2, <5>1, <5>2 DEF Idle, Active
      <4>3. QED BY <3>1, <4>1, <4>2 DEF RunInv
    <3>3. CASE task'[r].call = "resume" /\ header'[r] = header[r] /\ r \in cut
               /\ ckpt[r].next \notin {"none", "execute"} /\ task'[r].driver = "rpc"
               /\ task'[r].pc = IF ckpt[r].next = "end" THEN "finalize" ELSE ckpt[r].next
      <4>1. ckpt[r].next \in {"plan", "critic", "respond", "end"}
        BY <2>2, <3>3 DEF Checkpoint, Node
      <4>2. TaskInv(r)'
        BY <2>1, <2>3, <3>3, <4>1 DEF RunInv, TaskInv, CheckpointInv, Active, Terminal, Node
      <4>3. HeaderInv(r)' /\ BootInv(r)'
        BY <2>1, <2>3, <3>3 DEF RunInv, HeaderInv, BootInv, PastPlan
      <4>4. QED BY <3>1, <4>2, <4>3 DEF RunInv
    <3>4. QED BY <2>4, <3>2, <3>3
  <2>7. FreshInv'
    <3>1. r <= created /\ created \in Nat
      BY <2>3, ActiveIsCreated, BoundsAssumption DEF Unfinished, TypeOK
    <3>2. \A x \in Run : x > created => x # r
      BY <3>1
    <3>3. QED BY <2>1, <2>4, <3>2 DEF LifeInv, FreshInv
  <2>8. InboxInv'
    BY <2>1 DEF LifeInv, InboxInv, PastPlan
  <2>9. QED BY <2>5, <2>6, <2>7, <2>8 DEF LifeInv
<1>3. CASE BootDone
  <2>1. /\ UNCHANGED <<header, ckpt, task, created, inbox, ui, cut, bootq>>
        /\ bootq = {} /\ phase' = "up"
    BY <1>3 DEF BootDone
  <2>2. ASSUME NEW x \in Run PROVE RunInv(x)'
    BY <2>1 DEF LifeInv, RunInv, TaskInv, CheckpointInv, HeaderInv, BootInv,
                Active, Idle, Halted, PastPlan
  <2>3. FreshInv' /\ InboxInv'
    BY <2>1 DEF LifeInv, FreshInv, InboxInv, PastPlan
  <2>4. QED BY <2>2, <2>3 DEF LifeInv
<1>4. QED
  BY <1>1, <1>2, <1>3 DEF Boot

-------------------------------------------------------------------------------
(* The theorems *)

LEMMA LifeStep == TypeOK /\ LifeInv /\ [Next]_vars => LifeInv'
<1> SUFFICES ASSUME TypeOK, LifeInv, [Next]_vars PROVE LifeInv'
  OBVIOUS
<1>1. CASE ChatSend \/ ScheduleFires
  BY <1>1, LifeBegin DEF ChatSend, ScheduleFires
<1>2. CASE \E r \in Run : Advance(r)
  BY <1>2, LifeAdvance
<1>3. CASE ClickSomething
  BY <1>3, LifeClick
<1>4. CASE Serve
  BY <1>4, LifeApprove, LifeKill DEF Serve
<1>5. CASE Crash \/ Boot
  BY <1>5, LifeCrash, LifeBoot
<1>6. CASE UNCHANGED vars
  <2>1. ASSUME NEW x \in Run PROVE RunInv(x)'
    BY <1>6 DEF vars, LifeInv, RunInv, TaskInv, CheckpointInv, HeaderInv, BootInv,
                Active, Idle, Halted, PastPlan
  <2>2. FreshInv' /\ InboxInv'
    BY <1>6 DEF vars, LifeInv, FreshInv, InboxInv, PastPlan
  <2>3. QED BY <2>1, <2>2 DEF LifeInv
<1>7. QED
  BY <1>1, <1>2, <1>3, <1>4, <1>5, <1>6 DEF Next

\* The index, the checkpoints, the coroutines and the queued decisions of
\* runner.py and resume.py stay consistent with one another, through crashes.
THEOREM LifeSound == Spec => []LifeInv
<1>1. QED
  BY TypeCorrect, LifeInit, LifeStep, PTL DEF Spec

\* A row _finalize marked completed is a run whose graph reached its end with
\* that status: no crash, rejection, kill or boot pass makes it up.
THEOREM CompletedIsTold == Spec => []CompletedIsTrue
<1>1. LifeInv => CompletedIsTrue
  BY DEF LifeInv, RunInv, HeaderInv, CheckpointInv, CompletedIsTrue
<1>2. QED
  BY LifeSound, <1>1, PTL

\* A gate that the runs index shows after _handle_interrupt is open in the
\* checkpoint database and carries the plan the user is shown.
THEOREM GatesAreOpen == Spec => []GateShownIsOpen
<1>1. LifeInv => GateShownIsOpen
  BY DEF LifeInv, RunInv, HeaderInv, GateShownIsOpen, Unfinished
<1>2. QED
  BY LifeSound, <1>1, PTL

\* No row is left behind unfinished: what Runner does not drive waits for the
\* user, or was interrupted by a crash or an exception.
THEOREM NoneLeftBehind == Spec => []UnfinishedIsDrivenOrGated
<1>1. LifeInv => UnfinishedIsDrivenOrGated
  BY DEF LifeInv, RunInv, HeaderInv, UnfinishedIsDrivenOrGated
<1>2. QED
  BY LifeSound, <1>1, PTL

\* resume_unfinished_runs never rewrites the row of a run that has ended.
THEOREM BootSparesTerminal == Spec => BootKeepsTerminal
<1> USE DEF stores, history
<1>1. ASSUME TypeOK, LifeInv, [Next]_vars, phase = "boot", NEW x \in Run,
             header[x].status \in Terminal
      PROVE  header'[x] = header[x]
  <2>0. header \in [Run -> Header] /\ header[x].status \notin Unfinished
    BY <1>1 DEF TypeOK, Terminal, Unfinished
  <2>1. ~ Active(x) /\ x \notin bootq
    BY <1>1, <2>0 DEF LifeInv, RunInv, BootInv
  <2>2. ~ (x > created) /\ created \in Nat /\ created + 1 # x
    <3>1. x <= created
      BY <1>1, ActiveIsCreated DEF Terminal
    <3>2. QED BY <3>1, BoundsAssumption, <1>1 DEF TypeOK
  <2>3. ASSUME NEW r \in Run, Advance(r) PROVE header'[x] = header[x]
    <3>1. Active(r)
      BY <2>3 DEF Advance, WriteInput, PlanNode, ParkNotify, ParkWrite, SkipHalted, HaltAt,
                  ExecuteEnter, SpawnWorker, SkipSpawn, ExecuteEnd, CriticNode, RespondNode,
                  Finalize, NodeRaises, AtSpawn, Active
    <3>2. r # x
      BY <2>1, <3>1
    <3>3. CASE ParkWrite(r) \/ Finalize(r) \/ NodeRaises(r)
      BY <2>0, <3>2, <3>3 DEF ParkWrite, Finalize, NodeRaises
    <3>4. CASE SpawnWorker(r)
      BY <2>0, <2>2, <3>4 DEF SpawnWorker
    <3>5. CASE ~ (ParkWrite(r) \/ Finalize(r) \/ NodeRaises(r) \/ SpawnWorker(r))
      BY <2>3, <3>5 DEF Advance, WriteInput, PlanNode, ParkNotify, SkipHalted, HaltAt,
                        ExecuteEnter, SkipSpawn, ExecuteEnd, CriticNode, RespondNode
    <3>6. QED BY <3>3, <3>4, <3>5
  <2>4. CASE ChatSend \/ ScheduleFires \/ ClickSomething \/ Serve
    BY <1>1, <2>4 DEF ChatSend, ScheduleFires, BeginRun, ClickSomething, Click, Serve, Serving,
                      HandleApprove, HandleEdit, HandleReject, HandleKill
  <2>5. CASE Crash \/ Restart \/ BootDone \/ UNCHANGED vars
    BY <2>5 DEF Crash, Restart, BootDone, vars
  <2>6. ASSUME NEW r \in Run, ResumeNext(r) PROVE header'[x] = header[x]
    <3>1. r # x
      BY <2>1, <2>6 DEF ResumeNext
    <3>2. QED BY <2>0, <2>6, <3>1 DEF ResumeNext
  <2>7. QED
    BY <1>1, <2>3, <2>4, <2>5, <2>6 DEF Next, Boot
<1>2. TypeOK /\ LifeInv /\ [Next]_vars
        => [phase = "boot" => \A r \in Run :
              header[r].status \in Terminal => header'[r] = header[r]]_vars
  BY <1>1
<1>3. QED
  BY TypeCorrect, LifeSound, <1>2, PTL DEF Spec, BootKeepsTerminal

\* What a step may do to the checkpoint of x.
Follows(n) == CASE n = "none"    -> {"none", "plan"}
                [] n = "plan"    -> {"plan", "execute"}
                [] n = "execute" -> {"execute", "critic"}
                [] n = "critic"  -> {"critic", "respond"}
                [] OTHER         -> {n, "end"}
MovesOn(x) == /\ ckpt'[x].next \in Follows(ckpt[x].next)
              /\ Halted(x) => ckpt'[x].status = ckpt[x].status

LEMMA KeptMovesOn == ASSUME NEW x \in Run, ckpt'[x] = ckpt[x] PROVE MovesOn(x)
  BY DEF MovesOn, Follows

LEMMA CoroutineMovesOn ==
    ASSUME TypeOK, LifeInv, NEW r \in Run, Advance(r)
    PROVE  MovesOn(r)
<1> USE DEF stores, history
<1>0. ckpt \in [Run -> Checkpoint] /\ TaskInv(r) /\ CheckpointInv(r)
  BY DEF TypeOK, LifeInv, RunInv
<1>1. CASE WriteInput(r)
  <2>1. ckpt[r].next = "none" /\ ckpt'[r].next = "plan" /\ ~ Halted(r)
    BY <1>0, <1>1 DEF WriteInput, Save, TaskInv, CheckpointInv, PastPlan, Halted, Stopped
  <2>2. QED BY <2>1 DEF MovesOn, Follows
<1>2. CASE PlanNode(r)
  <2>1. ckpt[r].next = "plan" /\ ~ Halted(r)
    BY <1>0, <1>2 DEF PlanNode, TaskInv, CheckpointInv, PastPlan, Halted, Stopped, Node
  <2>2. PICK s, p : Save(r, "execute", s, p)
    BY <1>2 DEF PlanNode
  <2>3. ckpt'[r].next = "execute"
    BY <1>0, <2>2 DEF Save
  <2>4. QED BY <2>1, <2>3 DEF MovesOn, Follows
<1>3. CASE SkipHalted(r) \/ HaltAt(r)
  <2>1. ckpt[r].next \in {"execute", "critic", "respond"} /\ ckpt[r].next = task[r].pc
    BY <1>0, <1>3 DEF SkipHalted, HaltAt, TaskInv, Node
  <2>2. ckpt'[r].next = After(ckpt[r].next) /\ (Halted(r) => ckpt'[r].status = ckpt[r].status)
    <3>1. CASE SkipHalted(r)
      BY <1>0, <2>1, <3>1 DEF SkipHalted, Checkpoint
    <3>2. CASE HaltAt(r)
      BY <1>0, <2>1, <3>2 DEF HaltAt, Save
    <3>3. QED BY <1>3, <3>1, <3>2
  <2>3. QED BY <2>1, <2>2 DEF After, MovesOn, Follows
<1>4. CASE ExecuteEnd(r) \/ CriticNode(r)
  BY <1>0, <1>4 DEF ExecuteEnd, CriticNode, AtSpawn, TaskInv, Node, Checkpoint, MovesOn, Follows
<1>5. CASE RespondNode(r)
  <2>1. ckpt[r].next = "respond" /\ ckpt'[r].next = "end" /\ ~ Halted(r)
    BY <1>0, <1>5 DEF RespondNode, Save, TaskInv, Node
  <2>2. QED BY <2>1 DEF MovesOn, Follows
<1>6. CASE ParkNotify(r) \/ ParkWrite(r) \/ ExecuteEnter(r) \/ SpawnWorker(r) \/ SkipSpawn(r)
           \/ Finalize(r) \/ NodeRaises(r)
  <2>1. ckpt' = ckpt
    BY <1>6 DEF ParkNotify, ParkWrite, ExecuteEnter, SpawnWorker, SkipSpawn, Finalize, NodeRaises
  <2>2. QED BY <2>1, KeptMovesOn
<1>7. QED
  BY <1>1, <1>2, <1>3, <1>4, <1>5, <1>6 DEF Advance

LEMMA StepMovesOn ==
    ASSUME TypeOK, LifeInv, [Next]_vars, NEW x \in Run
    PROVE  MovesOn(x)
<1> USE DEF stores, history
<1>1. ASSUME NEW r \in Run, Advance(r), r # x PROVE ckpt'[x] = ckpt[x]
  <2>0. ckpt \in [Run -> Checkpoint]
    BY DEF TypeOK
  <2>1. CASE WriteInput(r) \/ PlanNode(r) \/ SkipHalted(r) \/ HaltAt(r) \/ ExecuteEnd(r)
             \/ CriticNode(r) \/ RespondNode(r)
    BY <1>1, <2>0, <2>1 DEF WriteInput, PlanNode, SkipHalted, HaltAt, ExecuteEnd, CriticNode,
                            RespondNode, Save
  <2>2. CASE ParkNotify(r) \/ ParkWrite(r) \/ ExecuteEnter(r) \/ SpawnWorker(r)
             \/ SkipSpawn(r) \/ Finalize(r) \/ NodeRaises(r)
    BY <2>2 DEF ParkNotify, ParkWrite, ExecuteEnter, SpawnWorker, SkipSpawn, Finalize, NodeRaises
  <2>3. QED BY <1>1, <2>1, <2>2 DEF Advance
<1>2. CASE \E r \in Run : Advance(r)
  BY <1>1, <1>2, KeptMovesOn, CoroutineMovesOn
<1>3. CASE HandleEdit
  BY <1>3 DEF HandleEdit, TypeOK, Checkpoint, MovesOn, Follows
<1>4. CASE \/ ChatSend \/ ScheduleFires \/ ClickSomething
           \/ HandleApprove \/ HandleReject \/ HandleKill
           \/ Crash \/ Boot \/ UNCHANGED vars
  <2>1. ckpt' = ckpt
    <3>1. CASE ChatSend \/ ScheduleFires \/ ClickSomething
      BY <3>1 DEF ChatSend, ScheduleFires, BeginRun, ClickSomething, Click
    <3>2. CASE HandleApprove \/ HandleReject \/ HandleKill
      BY <3>2 DEF HandleApprove, HandleReject, HandleKill
    <3>3. CASE Crash \/ Boot
      BY <3>3 DEF Crash, Boot, Restart, ResumeNext, BootDone
    <3>4. CASE UNCHANGED vars
      BY <3>4 DEF vars
    <3>5. QED BY <1>4, <3>1, <3>2, <3>3, <3>4
  <2>2. QED BY <2>1, KeptMovesOn
<1>5. QED
  BY <1>2, <1>3, <1>4 DEF Next, Serve

\* A graph is never rewound, not even by an edited plan or a restart, and a
\* run that was halted stays halted: aupdate_state and ainvoke only go on.
THEOREM CheckpointsMoveOn == Spec => CheckpointMonotone
<1>1. ASSUME TypeOK, LifeInv, [Next]_vars, NEW x \in Run
      PROVE  /\ Rank[ckpt[x].next] <= Rank[ckpt'[x].next]
             /\ Halted(x) => ckpt'[x].status = ckpt[x].status
  <2>1. MovesOn(x)
    BY <1>1, StepMovesOn
  <2>2. ckpt[x].next \in {"none", "plan", "execute", "critic", "respond", "end"}
    BY <1>1 DEF TypeOK, Checkpoint, Node
  <2>3. QED BY <2>1, <2>2 DEF MovesOn, Follows, Rank
<1>2. TypeOK /\ LifeInv /\ [Next]_vars
        => [\A r \in Run : /\ Rank[ckpt[r].next] <= Rank[ckpt'[r].next]
                           /\ Halted(r) => ckpt'[r].status = ckpt[r].status]_vars
  BY <1>1
<1>3. QED
  BY TypeCorrect, LifeSound, <1>2, PTL DEF Spec, CheckpointMonotone


-------------------------------------------------------------------------------
(* The tree of active runs *)

\* Workers are driven for requests only: a scheduled run stops at its gate, and
\* no coroutine of Runner.run gets beyond it.
DriveInv(r) ==
    /\ task[r].driver = "scheduler" => task[r].call = "run"
    /\ task[r].call = "run" =>
         task[r].pc \in {"input", "plan", "parkNotify", "parkWrite", "finalize"}

NestInv ==
    /\ WorkersNest
    /\ \A r \in Run : DriveInv(r)
    /\ \A r \in Run : r > created => origin[r].parent = NoRun

NestsAt(w, p) ==
    /\ p \in Run /\ task[p].pc = "spawn"
    /\ task[p].driver = task[w].driver
    /\ ActiveWorkers(p) = {w}
    /\ origin[w].depth = origin[p].depth + 1 /\ origin[w].depth <= DepthCap

LEMMA NestOf ==
    ASSUME WorkersNest, NEW w \in Run, Active(w), task[w].call = "worker"
    PROVE  NestsAt(w, origin[w].parent)
  BY DEF WorkersNest, NestsAt

\* While no request is served no worker is at work.
LEMMA NoWorkers ==
    ASSUME LifeInv, TypeOK, NestInv, Driving("rpc") = {}, NEW w \in Run, Active(w)
    PROVE  task[w].call # "worker"
<1>1. task[w].driver # "none" /\ task[w].driver # "rpc"
  BY DEF LifeInv, RunInv, TaskInv, Driving
<1>2. task[w].driver \in {"none", "rpc", "scheduler"}
  BY DEF TypeOK, Task
<1>3. QED
  BY <1>1, <1>2 DEF NestInv, DriveInv

\* A step that starts nothing, and leaves those who wait for a worker where they
\* are as long as it is at work.
LEMMA NestKept ==
    ASSUME WorkersNest, UNCHANGED origin,
           \A x \in Run : Active(x)' => /\ Active(x)
                                        /\ task'[x].call = task[x].call
                                        /\ task'[x].driver = task[x].driver,
           \A w, p \in Run : /\ Active(w)' /\ task[w].call = "worker" /\ NestsAt(w, p)
                             => task'[p].pc = "spawn" /\ task'[p].driver = task[p].driver
    PROVE  WorkersNest'
<1> SUFFICES ASSUME NEW w \in Run, Active(w)', task'[w].call = "worker"
             PROVE  NestsAt(w, origin[w].parent)'
  BY DEF WorkersNest, NestsAt
<1>1. Active(w) /\ task[w].call = "worker" /\ task'[w].driver = task[w].driver
  OBVIOUS
<1> PICK p : p = origin[w].parent
  OBVIOUS
<1>2. NestsAt(w, p)
  BY <1>1, NestOf
<1>3. p \in Run /\ task'[p].pc = "spawn" /\ task'[p].driver = task[p].driver
  BY <1>1, <1>2 DEF NestsAt
<1>4. ActiveWorkers(p)' = {w}
  <2>1. ActiveWorkers(p)' \subseteq ActiveWorkers(p)
    BY DEF ActiveWorkers
  <2>2. w \in ActiveWorkers(p)'
    BY DEF ActiveWorkers
  <2>3. QED BY <1>2, <2>1, <2>2 DEF NestsAt
<1>5. QED
  BY <1>1, <1>2, <1>3, <1>4 DEF NestsAt

\* A step of run r's coroutine: it is waiting for nobody.
LEMMA NestStep ==
    ASSUME TypeOK, NestInv, NEW r \in Run, Active(r),
           task[r].pc = "spawn" => ActiveWorkers(r) = {},
           UNCHANGED <<origin, created>>,
           \A x \in Run : x # r => task'[x] = task[x],
           task'[r] = NoTask \/ (/\ task'[r].call = task[r].call
                                 /\ task'[r].driver = task[r].driver),
           task'[r].call = "run" => task'[r].pc \in {"parkNotify", "parkWrite", "plan", "finalize"}
    PROVE  NestInv'
<1>1. \A x \in Run : Active(x)' => /\ Active(x)
                                   /\ task'[x].call = task[x].call
                                   /\ task'[x].driver = task[x].driver
  BY DEF Active, NoTask
<1>2. ASSUME NEW w \in Run, NEW p \in Run, NestsAt(w, p) PROVE task'[p] = task[p]
  <2>1. p # r
    BY <1>2 DEF NestsAt
  <2>2. QED BY <2>1
<1>3. \A w, p \in Run : /\ Active(w)' /\ task[w].call = "worker" /\ NestsAt(w, p)
                        => task'[p].pc = "spawn" /\ task'[p].driver = task[p].driver
  BY <1>2 DEF NestsAt
<1>4. WorkersNest'
  BY <1>1, <1>3, NestKept DEF NestInv
<1>5. DriveInv(r)'
  <2>1. CASE task'[r] = NoTask
    BY <2>1 DEF DriveInv, NoTask
  <2>2. CASE task'[r].call = task[r].call /\ task'[r].driver = task[r].driver
    BY <2>2 DEF NestInv, DriveInv
  <2>3. QED BY <2>1, <2>2
<1>6. \A x \in Run : DriveInv(x)'
  BY <1>5 DEF NestInv, DriveInv
<1>7. QED
  BY <1>4, <1>6 DEF NestInv

LEMMA NestAdvance ==
    ASSUME TypeOK, NestInv, NEW r \in Run, Advance(r), ~ SpawnWorker(r), ~ NodeRaises(r)
    PROVE  NestInv'
<1> USE DEF stores, history
<1>0. task \in [Run -> Task] /\ DriveInv(r)
  BY DEF TypeOK, NestInv
<1>1. ASSUME NEW label, Goto(r, label), Active(r), UNCHANGED <<origin, created>>,
             task[r].pc = "spawn" => ActiveWorkers(r) = {},
             task[r].call = "run" => label \in {"parkNotify", "parkWrite", "plan", "finalize"}
      PROVE  NestInv'
  BY <1>0, <1>1, GotoFields, NestStep
<1>2. CASE WriteInput(r) \/ ParkNotify(r)
  BY <1>1, <1>2 DEF WriteInput, ParkNotify, Active
<1>3. CASE PlanNode(r)
  BY <1>1, <1>3 DEF PlanNode, AfterPlan, Active
<1>4. CASE ParkWrite(r) \/ Finalize(r)
  <2>1. /\ Active(r) /\ task[r].pc # "spawn" /\ task'[r] = NoTask
        /\ \A x \in Run : x # r => task'[x] = task[x]
    BY <1>0, <1>4 DEF ParkWrite, Finalize, Active
  <2>2. task'[r].call # "run"
    BY <2>1 DEF NoTask
  <2>3. QED BY <1>4, <2>1, <2>2, NestStep DEF ParkWrite, Finalize
<1>5. CASE SkipHalted(r) \/ HaltAt(r) \/ ExecuteEnd(r) \/ CriticNode(r) \/ RespondNode(r)
  <2>1. /\ task[r].pc \in {"execute", "critic", "respond", "spawn"}
        /\ task[r].pc = "spawn" => ActiveWorkers(r) = {}
    BY <1>5 DEF SkipHalted, HaltAt, ExecuteEnd, CriticNode, RespondNode, AtSpawn
  <2>2. task[r].call # "run" /\ Active(r)
    BY <1>0, <2>1 DEF DriveInv, Active
  <2>3. PICK label : Goto(r, label)
    BY <1>5 DEF SkipHalted, HaltAt, ExecuteEnd, CriticNode, RespondNode, Proceed
  <2>4. UNCHANGED <<origin, created>>
    BY <1>5 DEF SkipHalted, HaltAt, ExecuteEnd, CriticNode, RespondNode
  <2>5. QED BY <1>1, <2>1, <2>2, <2>3, <2>4
<1>6. CASE ExecuteEnter(r) \/ SkipSpawn(r)
  <2>1. /\ task[r].pc \in {"execute", "spawn"}
        /\ task[r].pc = "spawn" => ActiveWorkers(r) = {}
    BY <1>6 DEF ExecuteEnter, SkipSpawn, AtSpawn
  <2>2. task[r].call # "run" /\ Active(r)
    BY <1>0, <2>1 DEF DriveInv, Active
  <2>3. /\ task'[r].call = task[r].call /\ task'[r].driver = task[r].driver
        /\ \A x \in Run : x # r => task'[x] = task[x]
    BY <1>0, <1>6 DEF ExecuteEnter, SkipSpawn, Task
  <2>4. UNCHANGED <<origin, created>>
    BY <1>6 DEF ExecuteEnter, SkipSpawn
  <2>5. QED BY <2>1, <2>2, <2>3, <2>4, NestStep
<1>7. QED
  BY <1>2, <1>3, <1>4, <1>5, <1>6 DEF Advance

LEMMA NestSpawn ==
    ASSUME TypeOK, LifeInv, NestInv, NEW r \in Run, SpawnWorker(r)
    PROVE  NestInv'
<1>1. created + 1 \in Run /\ created \in Nat
  BY BoundsAssumption DEF SpawnWorker, TypeOK
<1> PICK w \in Run : w = created + 1
  BY <1>1
<1>2. /\ task \in [Run -> Task] /\ origin \in [Run -> Origin]
      /\ task[w] = NoTask /\ task[r].pc = "spawn" /\ ActiveWorkers(r) = {}
  BY <1>1 DEF TypeOK, LifeInv, FreshInv, SpawnWorker, AtSpawn
<1>3. r # w
  BY <1>2 DEF NoTask
<1>4. /\ task'[w] = [driver |-> task[r].driver, call |-> "worker", pc |-> "input", todo |-> 0]
      /\ task'[r].pc = "spawn" /\ task'[r].call = task[r].call
      /\ task'[r].driver = task[r].driver
      /\ \A x \in Run : x # r /\ x # w => task'[x] = task[x]
  BY <1>2, <1>3 DEF SpawnWorker, Task
<1>5. /\ origin'[w] = [kind |-> "worker", parent |-> r, depth |-> origin[r].depth + 1]
      /\ \A x \in Run : x # w => origin'[x] = origin[x]
      /\ origin[r].depth + 1 <= DepthCap /\ created' = w
  BY <1>2 DEF SpawnWorker
<1>6. NestsAt(w, r)'
  <2>1. ActiveWorkers(r)' = {w}
    BY <1>2, <1>3, <1>4, <1>5 DEF ActiveWorkers, Active
  <2>2. QED BY <1>3, <1>4, <1>5, <2>1 DEF NestsAt
<1>7. ASSUME NEW v \in Run, v # w, Active(v)', task'[v].call = "worker"
      PROVE  NestsAt(v, origin[v].parent)' /\ origin'[v] = origin[v]
  <2> PICK p : p = origin[v].parent
    OBVIOUS
  <2>1. /\ Active(v) /\ task[v].call = "worker" /\ task'[v].driver = task[v].driver
        /\ origin'[v] = origin[v]
    BY <1>2, <1>4, <1>5, <1>7 DEF Active
  <2>2. NestsAt(v, p)
    BY <2>1, NestOf DEF NestInv
  <2>3. p # r /\ p # w
    <3>1. v \in ActiveWorkers(p) /\ task[p].pc = "spawn"
      BY <2>2 DEF NestsAt
    <3>2. v \notin ActiveWorkers(r) /\ task[w].pc # "spawn"
      BY <1>2 DEF NoTask
    <3>3. QED BY <3>1, <3>2
  <2>4. task'[p] = task[p] /\ origin'[p] = origin[p]
    BY <1>4, <1>5, <2>2, <2>3 DEF NestsAt
  <2>5. ActiveWorkers(p)' = ActiveWorkers(p)
    <3>1. \A x \in Run : x # w => /\ origin'[x].parent = origin[x].parent
                                  /\ Active(x)' = Active(x)
      BY <1>2, <1>4, <1>5 DEF Active
    <3>2. w \notin ActiveWorkers(p) /\ w \notin ActiveWorkers(p)'
      BY <1>2, <1>5, <2>3 DEF ActiveWorkers, Active, NoTask
    <3>3. QED BY <3>1, <3>2 DEF ActiveWorkers
  <2>6. QED BY <2>1, <2>2, <2>4, <2>5 DEF NestsAt
<1>8. WorkersNest'
  BY <1>4, <1>5, <1>6, <1>7 DEF WorkersNest, NestsAt
<1>9. \A x \in Run : DriveInv(x)'
  <2>1. task[r].call # "run" /\ task[r].driver # "scheduler"
    BY <1>2 DEF NestInv, DriveInv
  <2>2. QED BY <1>4, <2>1 DEF NestInv, DriveInv
<1>10. QED
  BY <1>1, <1>5, <1>8, <1>9 DEF NestInv

LEMMA NestRaise ==
    ASSUME TypeOK, LifeInv, NestInv, NEW r \in Run, NodeRaises(r)
    PROVE  NestInv'
<1>1. /\ UNCHANGED <<origin, created>>
      /\ \A x \in Run : task'[x] = IF task[x].driver = task[r].driver THEN NoTask ELSE task[x]
  BY DEF NodeRaises, Driving
<1>2. \A x \in Run : Active(x)' => task'[x] = task[x] /\ task[x].driver # task[r].driver
  BY <1>1 DEF Active, NoTask
<1>3. \A w, p \in Run : /\ Active(w)' /\ task[w].call = "worker" /\ NestsAt(w, p)
                        => task'[p].pc = "spawn" /\ task'[p].driver = task[p].driver
  BY <1>1, <1>2 DEF NestsAt
<1>4. WorkersNest'
  BY <1>1, <1>2, <1>3, NestKept DEF NestInv, Active
<1>5. \A x \in Run : DriveInv(x)'
  BY <1>1 DEF NestInv, DriveInv, NoTask
<1>6. QED
  BY <1>1, <1>4, <1>5 DEF NestInv

\* A run nobody waits for is created or driven on.
LEMMA NestDriven ==
    ASSUME TypeOK, LifeInv, NestInv, NEW r \in Run,
           \A x \in Run : x # r => task'[x] = task[x],
           \/ task'[r].call = "run" /\ task'[r].pc = "input" /\ r > created
           \/ /\ task'[r].call \in {"approve", "resume"} /\ task'[r].driver = "rpc"
              /\ Driving("rpc") = {},
           \A x \in Run : origin'[x].parent = origin[x].parent /\ origin'[x].depth = origin[x].depth,
           created' \in {created, created + 1}
    PROVE  NestInv'
<1>0. created \in Nat
  BY BoundsAssumption DEF TypeOK
<1>2. WorkersNest'
  <2> SUFFICES ASSUME NEW w \in Run, Active(w)', task'[w].call = "worker"
               PROVE  NestsAt(w, origin[w].parent)'
    BY DEF WorkersNest, NestsAt
  <2>1. w # r /\ task'[w] = task[w] /\ Active(w) /\ task[w].call = "worker"
    BY DEF Active
  <2>2. r > created
    BY <2>1, NoWorkers
  <2>3. task[r] = NoTask /\ origin[r].parent = NoRun
    BY <2>2 DEF LifeInv, FreshInv, NestInv
  <2> PICK p : p = origin[w].parent
    OBVIOUS
  <2>4. NestsAt(w, p)
    BY <2>1, NestOf DEF NestInv
  <2>5. p # r /\ p # NoRun
    BY <2>3, <2>4 DEF NestsAt, NoTask, NoRun
  <2>6. ActiveWorkers(p)' = ActiveWorkers(p)
    <3>1. r \notin ActiveWorkers(p) /\ r \notin ActiveWorkers(p)'
      BY <2>3, <2>5 DEF ActiveWorkers
    <3>2. QED BY <3>1 DEF ActiveWorkers, Active
  <2>7. QED BY <2>1, <2>4, <2>5, <2>6 DEF NestsAt
<1>3. \A x \in Run : DriveInv(x)'
  <2>1. DriveInv(r)'
    BY DEF DriveInv
  <2>2. QED BY <2>1 DEF NestInv, DriveInv
<1>4. \A x \in Run : x > created' => origin'[x].parent = NoRun
  BY <1>0 DEF NestInv
<1>5. QED
  BY <1>2, <1>3, <1>4 DEF NestInv

LEMMA NestStays ==
    ASSUME NestInv, UNCHANGED <<task, origin, created>>
    PROVE  NestInv'
  BY DEF NestInv, WorkersNest, DriveInv, Active, ActiveWorkers

LEMMA NestStart ==
    ASSUME TypeOK, LifeInv, NestInv, NEW d \in {"rpc", "scheduler"}, NEW k, BeginRun(d, k)
    PROVE  NestInv'
<1>1. created + 1 \in Run /\ created \in Nat /\ created + 1 > created
  BY BoundsAssumption DEF BeginRun, TypeOK
<1> PICK w \in Run : w = created + 1
  BY <1>1
<1>2. /\ task'[w] = [driver |-> d, call |-> "run", pc |-> "input", todo |-> 0]
      /\ \A x \in Run : x # w => task'[x] = task[x]
      /\ created' = w
  BY DEF BeginRun, TypeOK
<1>3. \A x \in Run : origin'[x].parent = origin[x].parent /\ origin'[x].depth = origin[x].depth
  <2>1. origin \in [Run -> Origin] /\ origin' = [origin EXCEPT ![w].kind = k]
    BY DEF TypeOK, BeginRun
  <2>2. QED BY <2>1 DEF Origin
<1>4. QED
  BY <1>1, <1>2, <1>3, NestDriven

LEMMA NestServe ==
    ASSUME TypeOK, LifeInv, NestInv, Serve
    PROVE  NestInv'
<1> USE DEF stores, history
<1>0. created \in Nat
  BY BoundsAssumption DEF TypeOK
<1>1. CASE HandleApprove \/ HandleEdit
  <2>1. Driving("rpc") = {} /\ Head(inbox).run \in Run
    BY <1>1, DecisionFields DEF HandleApprove, HandleEdit, Serving, TypeOK
  <2> PICK r \in Run : r = Head(inbox).run
    BY <2>1
  <2>2. Reinvoke(r) /\ UNCHANGED <<origin, created>>
    BY <1>1 DEF HandleApprove, HandleEdit
  <2>3. /\ task'[r].call = "approve" /\ task'[r].driver = "rpc"
        /\ \A x \in Run : x # r => task'[x] = task[x]
    BY <2>2 DEF Reinvoke, TypeOK
  <2>4. QED BY <1>0, <2>1, <2>2, <2>3, NestDriven
<1>2. CASE HandleReject \/ HandleKill
  BY <1>2, NestStays DEF HandleReject, HandleKill
<1>3. QED
  BY <1>1, <1>2 DEF Serve

LEMMA NestBoot ==
    ASSUME TypeOK, LifeInv, NestInv, Boot
    PROVE  NestInv'
<1> USE DEF stores, history
<1>0. created \in Nat
  BY BoundsAssumption DEF TypeOK
<1>1. CASE Restart \/ BootDone
  BY <1>1, NestStays DEF Restart, BootDone
<1>2. ASSUME NEW r \in Run, ResumeNext(r) PROVE NestInv'
  <2>1. CASE task' = task
    BY <1>2, <2>1, NestStays DEF ResumeNext
  <2>2. CASE task' # task
    <3>1. /\ task' = [task EXCEPT ![r] = [driver |-> "rpc", call |-> "resume",
                                          pc |-> Entry(r), todo |-> 0]]
          /\ Driving("rpc") = {} /\ UNCHANGED <<origin, created>>
      BY <1>2, <2>2 DEF ResumeNext
    <3>2. /\ task'[r].call = "resume" /\ task'[r].driver = "rpc"
          /\ \A x \in Run : x # r => task'[x] = task[x]
      BY <3>1 DEF TypeOK
    <3>3. QED BY <1>0, <3>1, <3>2, NestDriven
  <2>3. QED BY <2>1, <2>2
<1>3. QED
  BY <1>1, <1>2 DEF Boot

LEMMA NestCrash ==
    ASSUME NestInv, Crash
    PROVE  NestInv'
  BY DEF Crash, NestInv, WorkersNest, DriveInv, Active, NoTask

LEMMA NestNext == TypeOK /\ LifeInv /\ NestInv /\ [Next]_vars => NestInv'
<1> SUFFICES ASSUME TypeOK, LifeInv, NestInv, [Next]_vars PROVE NestInv'
  OBVIOUS
<1> USE DEF stores, history
<1>1. CASE ChatSend \/ ScheduleFires
  BY <1>1, NestStart DEF ChatSend, ScheduleFires
<1>2. CASE \E r \in Run : Advance(r)
  BY <1>2, NestAdvance, NestSpawn, NestRaise
<1>3. CASE ClickSomething \/ UNCHANGED vars
  BY <1>3, NestStays DEF ClickSomething, Click, vars
<1>4. CASE Serve \/ Crash \/ Boot
  BY <1>4, NestServe, NestCrash, NestBoot
<1>5. QED
  BY <1>1, <1>2, <1>3, <1>4 DEF Next

\* The runs Runner drives for a request are a call stack: each worker at work is
\* the only one its parent's execute node waits for, at any depth up to the cap,
\* through approvals out of turn, exceptions, crashes and boot passes.
THEOREM ActiveWorkersNest == Spec => []WorkersNest
<1>1. Init => NestInv
  BY DEF Init, NestInv, WorkersNest, DriveInv, Active, NoTask, NoOrigin
<1>2. NestInv => WorkersNest
  BY DEF NestInv
<1>3. QED
  BY <1>1, <1>2, NestNext, TypeCorrect, LifeSound, PTL DEF Spec
===============================================================================
