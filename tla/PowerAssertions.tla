---------------------------- MODULE PowerAssertions ----------------------------
(***************************************************************************)
(* The core keeps the machine awake while a run works.  lib.rs turns every *)
(* forwarded run.status into a task of its own (update_power_assertion);   *)
(* the tasks of a run interleave at their awaits over two maps: which      *)
(* token a run holds (assertions) and which tokens hold a child process    *)
(* (PowerManager, power.rs).  A notification is forwarded once by each     *)
(* streaming call in flight, so up to Copies tasks see the same status.    *)
(***************************************************************************)
EXTENDS Naturals, Sequences, FiniteSets

CONSTANTS
    Runs,      \* the runs whose status is forwarded
    Life,      \* the statuses each run goes through, in order
    Copies,    \* bound: streaming calls in flight at once
    NoToken

ASSUME PowerAssumption ==
    /\ Life \in [Runs -> Seq({"pending", "planning", "running", "awaiting_approval",
                              "completed", "errored", "killed"})]
    /\ Copies \in Nat \ {0}
    /\ NoToken \notin Nat

VARIABLES
    told,     \* how many statuses of each run were forwarded
    task,     \* the update tasks, per run, status and copy
    lock,     \* who holds the mutex of the assertions map
    assertions, \* token of each run
    held,     \* tokens whose child process runs
    issued    \* tokens issued so far

vars == <<told, task, lock, assertions, held, issued>>

Awake == {"running", "planning", "pending"}
Asleep == {"completed", "errored", "killed", "awaiting_approval"}

\* One task per run, status and copy.
Task == UNION {{r} \X (DOMAIN Life[r]) \X (1..Copies) : r \in Runs}
StatusOf(t) == Life[t[1]][t[2]]
Token == 1..Cardinality(Task)
Free == <<>>

TypeOK ==
    /\ told \in [Runs -> Nat]
    /\ task \in [Task ->
          [pc : {"none", "check", "acquire", "remove", "done"}, token : Token \cup {NoToken}]
          \cup [pc : {"insert", "release"}, token : Token]]
    /\ lock \in {Free} \cup Task
    /\ assertions \in [Runs -> Token \cup {NoToken}]
    /\ held \subseteq Token
    /\ issued \in 0..Cardinality(Task)

Init ==
    /\ told = [r \in Runs |-> 0]
    /\ task = [t \in Task |-> [pc |-> "none", token |-> NoToken]]
    /\ lock = Free
    /\ assertions = [r \in Runs |-> NoToken]
    /\ held = {}
    /\ issued = 0

\* Every streaming call in flight forwards the next status of the run.
Forward(r) ==
    /\ told[r] < Len(Life[r])
    /\ told' = [told EXCEPT ![r] = @ + 1]
    /\ \E n \in 1..Copies :
          task' = [t \in Task |->
                      IF t[1] = r /\ t[2] = told[r] + 1 /\ t[3] <= n
                      THEN [task[t] EXCEPT !.pc = IF StatusOf(t) \in Awake
                                                  THEN "check" ELSE "remove"]
                      ELSE task[t]]
    /\ UNCHANGED <<lock, assertions, held, issued>>

To(t, label) == task' = [task EXCEPT ![t].pc = label]

\* Mutant of Check: the guard is not dropped before the acquire.
CheckHolding(t) ==
    /\ task[t].pc = "check" /\ lock = Free
    /\ IF assertions[t[1]] # NoToken
       THEN To(t, "done") /\ UNCHANGED lock
       ELSE To(t, "acquire") /\ lock' = t
    /\ UNCHANGED <<told, assertions, held, issued>>
\* contains_key under the lock, which is dropped again before the acquire.
Check(t) ==
    /\ task[t].pc = "check" /\ lock = Free
    /\ To(t, IF assertions[t[1]] # NoToken THEN "done" ELSE "acquire")
    /\ UNCHANGED <<told, lock, assertions, held, issued>>

\* PowerManager::acquire spawns the child, or fails and is logged.
Acquire(t) ==
    /\ task[t].pc = "acquire"
    /\ \/ /\ issued' = issued + 1
          /\ held' = held \cup {issued + 1}
          /\ task' = [task EXCEPT ![t] = [pc |-> "insert", token |-> issued + 1]]
       \/ /\ To(t, "done")
          /\ UNCHANGED <<held, issued>>
    /\ UNCHANGED <<told, lock, assertions>>

Insert(t) ==
    /\ task[t].pc = "insert" /\ lock = Free
    /\ assertions' = [assertions EXCEPT ![t[1]] = task[t].token]
    /\ To(t, "done")
    /\ UNCHANGED <<told, lock, held, issued>>

\* Mutant of Remove: the token is read, not taken out.
RemoveNothing(t) ==
    /\ task[t].pc = "remove" /\ lock = Free
    /\ task' = [task EXCEPT ![t] =
          IF assertions[t[1]] = NoToken THEN [pc |-> "done", token |-> NoToken]
          ELSE [pc |-> "release", token |-> assertions[t[1]]]]
    /\ UNCHANGED <<told, lock, assertions, held, issued>>
Remove(t) ==
    /\ task[t].pc = "remove" /\ lock = Free
    /\ assertions' = [assertions EXCEPT ![t[1]] = NoToken]
    /\ task' = [task EXCEPT ![t] =
          IF assertions[t[1]] = NoToken THEN [pc |-> "done", token |-> NoToken]
          ELSE [pc |-> "release", token |-> assertions[t[1]]]]
    /\ UNCHANGED <<told, lock, held, issued>>

\* PowerManager::release kills the child; an unknown token is ignored.
Release(t) ==
    /\ task[t].pc = "release"
    /\ held' = held \ {task[t].token}
    /\ To(t, "done")
    /\ UNCHANGED <<told, lock, assertions, issued>>

Step(t) == Check(t) \/ Acquire(t) \/ Insert(t) \/ Remove(t) \/ Release(t)

Next == (\E r \in Runs : Forward(r)) \/ \E t \in Task : Step(t)

Spec == Init /\ [][Next]_vars
FairSpec == Spec /\ \A t \in Task : WF_vars(Step(t))

-------------------------------------------------------------------------------
(* Properties *)

\* The map never offers a token whose child is gone: the run's next status
\* would take it for awake (contains_key).
MapIsHeld == \A r \in Runs : assertions[r] # NoToken => assertions[r] \in held

\* No token belongs to two runs, and none is both in the map and on its way to
\* be released: releasing one run never puts another to sleep.
TokensApart ==
    /\ \A r, q \in Runs : r # q /\ assertions[r] # NoToken => assertions[r] # assertions[q]
    /\ \A t \in Task, r \in Runs :
          task[t].pc = "release" => task[t].token # assertions[r]

\* No task waits for ever: a spawned update finishes (the map's lock is never
\* held across an await that needs it).
TasksEnd == \A t \in Task : (task[t].pc = "check") ~> (task[t].pc = "done")

Over(r) == /\ told[r] = Len(Life[r])
           /\ Life[r] # <<>> /\ Life[r][Len(Life[r])] \in Asleep
Idle == \A t \in Task : task[t].pc \in {"none", "done"}

\* power.rs: "We acquire a per-run power assertion when a brain notification
\* reports run.status = running, and release it on a terminal status": once
\* every run has ended and every update is done, nothing keeps the machine
\* awake.
EndedRunsSleep == (\A r \in Runs : Over(r)) /\ Idle => held = {}
===============================================================================
