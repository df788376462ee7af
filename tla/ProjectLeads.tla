------------------------------ MODULE ProjectLeads ------------------------------
(***************************************************************************)
(* Projects and the leads that own them: project_rpc.py, lead_lifecycle.py *)
(* and project_merge.py over the tables projects, agent_records,           *)
(* memory_entries, routing_overrides and the connector grants in app.db.   *)
(*                                                                         *)
(* A top-level lead and its project point at each other, in two tables     *)
(* that are written one after the other.  The request loop is serial, so   *)
(* requests interleave only with crashes; a merge is one transaction       *)
(* between two lines of its audit file.                                    *)
(***************************************************************************)
EXTENDS Naturals, Sequences, FiniteSets

CONSTANTS
    Projects,    \* the projects ever created
    Default,     \* the one the migrations create (proj_default), with its lead
    Memories,    \* rows of memory_entries (thread turns differ in having no author)
    MaxAgents,   \* bound: agents ever spawned, numbered in order of creation
    DepthCap,    \* DEPTH_CAP (2)
    MaxMerges,   \* bound: merges begun
    MaxCrashes,  \* bound: crashes
    None

ASSUME LeadsAssumption ==
    /\ Default \in Projects
    /\ MaxAgents \in Nat \ {0} /\ DepthCap \in Nat \ {0}
    /\ MaxMerges \in Nat /\ MaxCrashes \in Nat
    /\ None \notin Projects \cup Nat

VARIABLES
    project,  \* projects: status (active and paused are "open"), lead_agent_id,
              \* connector grants
    agent,    \* agent_records
    spawned,  \* number of agents created
    memory,   \* project and authoring agent of each memory row
    routed,   \* projects with a routing override of the one task tag
    job,      \* what is left of the request being served
    log,      \* lines of the merges' audit files
    crashes,
    cut,      \* history: projects whose link to their lead a crash cut in half
    deep      \* history: agents for which the cap was overridden

vars == <<project, agent, spawned, memory, routed, job, log, crashes, cut, deep>>

Agent == 1..MaxAgents
Idle == [step |-> "idle"]
NoAgent == [kind |-> "none", status |-> "none", parent |-> None, project |-> None]
Working == {"active", "paused"}

TypeOK ==
    /\ project \in [Projects -> [status : {"absent", "open", "archived"},
                                 lead : Agent \cup {None}, granted : SUBSET Projects]]
    /\ agent \in [Agent -> {NoAgent} \cup
                     [kind : {"lead", "sub_lead"}, status : Working \cup {"archived"},
                      parent : Agent \cup {None}, project : Projects \cup {None}]]
    /\ spawned \in 0..MaxAgents
    /\ memory \in [Memories -> [project : Projects \cup {None}, author : Agent \cup {None}]]
    /\ routed \subseteq Projects
    /\ job \in {Idle} \cup [step : {"link"}, project : Projects, lead : Agent]
                      \cup [step : {"unlink"}, project : Projects, retire : Projects \cup {None}]
                      \cup [step : {"retire"}, project : Projects]
                      \cup [step : {"apply", "outcome"}, from : Projects, into : Projects]
    /\ log \in Seq({"plan", "outcome"})
    /\ crashes \in 0..MaxCrashes
    /\ cut \subseteq Projects
    /\ deep \subseteq Agent

Init ==
    /\ project = [p \in Projects |->
          IF p = Default THEN [status |-> "open", lead |-> 1, granted |-> {}]
          ELSE [status |-> "absent", lead |-> None, granted |-> {}]]
    /\ agent = [a \in Agent |->
          IF a = 1 THEN [kind |-> "lead", status |-> "active", parent |-> None, project |-> Default]
          ELSE NoAgent]
    /\ spawned = 1
    /\ memory = [m \in Memories |-> [project |-> None, author |-> None]]
    /\ routed = {}
    /\ job = Idle
    /\ log = <<>>
    /\ crashes = 0
    /\ cut = {} /\ deep = {}

-------------------------------------------------------------------------------
(* Reads *)

Serving == job = Idle
Exists(p) == project[p].status # "absent"

\* The top-level leads on duty (_active_or_paused_lead, _find_lead).
LeadsOf(p) == {a \in Agent : /\ agent[a].kind = "lead" /\ agent[a].project = p
                             /\ agent[a].status \in Working}

\* A sub-lead's chain of parents, as _depth_under walks it.
Depth[a \in Agent] == IF agent[a].parent = None THEN 1 ELSE 1 + Depth[agent[a].parent]

SubLeadsOf(a) == {b \in Agent : agent[b].parent = a /\ agent[b].status \in Working
                                /\ agent[b].project = agent[a].project}

-------------------------------------------------------------------------------
(* Projects and their contents *)

\* project.create; the grants it comes with are its own.
CreateProject(p) ==
    /\ Serving
    /\ ~ Exists(p)
    /\ project' = [project EXCEPT ![p].status = "open", ![p].granted = {p}]
    /\ UNCHANGED <<agent, spawned, memory, routed, job, log, crashes, cut, deep>>

\* project.pause and project.resume flip the row, from whatever it was: both
\* open an archived project again, with no lead.
Reopen(p) ==
    /\ Serving
    /\ project[p].status = "archived"
    /\ project' = [project EXCEPT ![p].status = "open"]
    /\ UNCHANGED <<agent, spawned, memory, routed, job, log, crashes, cut, deep>>

\* A lead on duty, or nobody in particular, notes something for its project.
WriteMemory(m) ==
    /\ Serving
    /\ memory[m].project = None
    /\ \E p \in Projects :
          /\ Exists(p)
          /\ \E a \in {None} \cup {b \in Agent : agent[b].project = p /\ agent[b].status = "active"} :
                memory' = [memory EXCEPT ![m] = [project |-> p, author |-> a]]
    /\ UNCHANGED <<project, agent, spawned, routed, job, log, crashes, cut, deep>>

RouteProject(p) ==
    /\ Serving
    /\ Exists(p) /\ p \notin routed
    /\ routed' = routed \cup {p}
    /\ UNCHANGED <<project, agent, spawned, memory, job, log, crashes, cut, deep>>

-------------------------------------------------------------------------------
(* lead.* *)

Insert(record) ==
    /\ spawned < MaxAgents
    /\ spawned' = spawned + 1
    /\ agent' = [agent EXCEPT ![spawned + 1] = record]

\* lead.spawn: any existing project will do, an archived one too.
SpawnLead(p) ==
    /\ Serving
    /\ Exists(p) /\ LeadsOf(p) = {}
    /\ Insert([kind |-> "lead", status |-> "active", parent |-> None, project |-> p])
    /\ job' = [step |-> "link", project |-> p, lead |-> spawned + 1]
    /\ UNCHANGED <<project, memory, routed, log, crashes, cut, deep>>

Link ==
    /\ job.step = "link"
    /\ project' = [project EXCEPT ![job.project].lead = job.lead]
    /\ cut' = cut \ {job.project}
    /\ job' = Idle
    /\ UNCHANGED <<agent, spawned, memory, routed, log, crashes, deep>>

\* Mutant of Deep: the chain is not walked.
DeepByKind(a) == agent[a].kind = "lead" /\ DepthCap < 2
\* Whether a sub-lead under a would exceed the cap.
Deep(a) == Depth[a] + 1 > DepthCap

\* lead.spawn_sub_lead and the conversational action; the latter never
\* overrides the cap.
SpawnSubLead(a, override) ==
    /\ Serving
    /\ agent[a].status = "active" /\ agent[a].project # None
    /\ override \/ ~ Deep(a)
    /\ Insert([kind |-> "sub_lead", status |-> "active", parent |-> a,
               project |-> agent[a].project])
    /\ deep' = IF Deep(a) THEN deep \cup {spawned + 1} ELSE deep
    /\ UNCHANGED <<project, memory, routed, job, log, crashes, cut>>

\* lead.pause and lead.resume.
Transition(a, from, to) ==
    /\ Serving
    /\ agent[a].status = from
    /\ agent' = [agent EXCEPT ![a].status = to]
    /\ UNCHANGED <<project, spawned, memory, routed, job, log, crashes, cut, deep>>

Retire(a) == agent' = [agent EXCEPT ![a].status = "archived"]

ArchiveLead(a) ==
    /\ Serving
    /\ agent[a].status \in Working
    /\ Retire(a)
    /\ job' = IF agent[a].kind = "lead" /\ agent[a].project # None
              THEN [step |-> "unlink", project |-> agent[a].project, retire |-> None]
              ELSE Idle
    /\ UNCHANGED <<project, spawned, memory, routed, log, crashes, cut, deep>>

\* project.archive takes along the lead its row points at, if that one is
\* still on duty.
ArchiveProject(p) ==
    /\ Serving
    /\ Exists(p)
    /\ LET a == project[p].lead IN
          IF a # None /\ agent[a].status \in Working
          THEN /\ Retire(a)
               /\ job' = [step |-> "unlink", project |-> agent[a].project, retire |-> p]
          ELSE /\ job' = [step |-> "retire", project |-> p]
               /\ UNCHANGED agent
    /\ UNCHANGED <<project, spawned, memory, routed, log, crashes, cut, deep>>

\* Mutant of Unlink: the pointer is left to the next spawn.
UnlinkLater ==
    /\ job.step = "unlink"
    /\ job' = IF job.retire = None THEN Idle ELSE [step |-> "retire", project |-> job.retire]
    /\ UNCHANGED <<project, agent, spawned, memory, routed, log, crashes, cut, deep>>
Unlink ==
    /\ job.step = "unlink"
    /\ project' = [project EXCEPT ![job.project].lead = None]
    /\ cut' = cut \ {job.project}
    /\ job' = IF job.retire = None THEN Idle ELSE [step |-> "retire", project |-> job.retire]
    /\ UNCHANGED <<agent, spawned, memory, routed, log, crashes, deep>>

RetireProject ==
    /\ job.step = "retire"
    /\ project' = [project EXCEPT ![job.project].status = "archived"]
    /\ job' = Idle
    /\ UNCHANGED <<agent, spawned, memory, routed, log, crashes, cut, deep>>

-------------------------------------------------------------------------------
(* project.merge *)

OrphanedSubs(from) == UNION {SubLeadsOf(a) : a \in LeadsOf(from)}

\* The plan is read and logged; sub-leads without a lead to go to refuse it.
Merge(from, into) ==
    /\ Serving
    /\ Cardinality({i \in DOMAIN log : log[i] = "plan"}) < MaxMerges
    /\ from # into /\ Exists(from)
    /\ Exists(into) /\ project[into].status # "archived"
    /\ log' = Append(log, "plan")
    /\ job' = IF OrphanedSubs(from) # {} /\ LeadsOf(into) = {} THEN Idle
              ELSE [step |-> "apply", from |-> from, into |-> into]
    /\ UNCHANGED <<project, agent, spawned, memory, routed, crashes, cut, deep>>

\* The lead the absorbed one's rows and sub-leads go to.
Heir(into) == IF LeadsOf(into) = {} THEN None ELSE CHOOSE a \in LeadsOf(into) : TRUE

\* Mutant of Reanchored: only the project of a row is rewritten.
ReanchoredByProject(from, into) ==
    [m \in Memories |-> IF memory[m].project = from
                        THEN [memory[m] EXCEPT !.project = into] ELSE memory[m]]
Reanchored(from, into) ==
    [m \in Memories |->
        [project |-> IF memory[m].project = from THEN into ELSE memory[m].project,
         author  |-> IF memory[m].author \in LeadsOf(from) THEN Heir(into)
                     ELSE memory[m].author]]

\* The absorbed lead is archived without a project, its own sub-leads on duty
\* get the surviving lead for a parent.
Restaffed(from, into) ==
    [a \in Agent |->
        IF a \in LeadsOf(from) THEN [agent[a] EXCEPT !.status = "archived", !.project = None]
        ELSE IF a \in OrphanedSubs(from)
             THEN [agent[a] EXCEPT !.parent = Heir(into), !.project = into]
        ELSE agent[a]]

\* One BEGIN IMMEDIATE transaction; the surviving project wins on conflicts.
Apply ==
    /\ job.step = "apply"
    /\ LET from == job.from
           into == job.into
       IN /\ memory' = Reanchored(from, into)
          /\ agent' = Restaffed(from, into)
          /\ routed' = IF from \in routed THEN (routed \ {from}) \cup {into} ELSE routed
          /\ project' = [project EXCEPT ![into].granted = @ \cup project[from].granted,
                                       ![from].status = "archived", ![from].lead = None]
          /\ cut' = cut \ {from}
    /\ job' = [job EXCEPT !.step = "outcome"]
    /\ UNCHANGED <<spawned, log, crashes, deep>>

LogOutcome ==
    /\ job.step = "outcome"
    /\ log' = Append(log, "outcome")
    /\ job' = Idle
    /\ UNCHANGED <<project, agent, spawned, memory, routed, crashes, cut, deep>>

\* The request is lost between two commits.
Crash ==
    /\ crashes < MaxCrashes
    /\ job # Idle
    /\ crashes' = crashes + 1
    /\ cut' = IF job.step \in {"link", "unlink"} THEN cut \cup {job.project} ELSE cut
    /\ job' = Idle
    /\ UNCHANGED <<project, agent, spawned, memory, routed, log, deep>>

ProjectRequest ==
    \E p \in Projects :
        \/ CreateProject(p) \/ Reopen(p) \/ ArchiveProject(p) \/ RouteProject(p)
        \/ \E into \in Projects : Merge(p, into)

LeadRequest ==
    \/ \E p \in Projects : SpawnLead(p)
    \/ \E a \in Agent :
          \/ \E override \in BOOLEAN : SpawnSubLead(a, override)
          \/ Transition(a, "active", "paused") \/ Transition(a, "paused", "active")
          \/ ArchiveLead(a)

Handler == Link \/ Unlink \/ RetireProject \/ Apply \/ LogOutcome

Next ==
    \/ ProjectRequest \/ LeadRequest
    \/ \E m \in Memories : WriteMemory(m)
    \/ Handler \/ Crash

Spec == Init /\ [][Next]_vars

-------------------------------------------------------------------------------
(* Properties *)

\* No project ever has two leads on duty, across pauses, crashes between the
\* two tables and merges (lead_lifecycle.py: "Refused if the project already
\* has an active or paused lead").
OneLead == \A p \in Projects : Cardinality(LeadsOf(p)) <= 1

\* Between requests the two tables agree: a project points at its lead on duty
\* and at nothing else, unless a crash cut the pair of writes in half and
\* neither a spawn nor an archive nor a merge has mended it since.
LinkIsMutual ==
    job = Idle => \A p \in Projects \ cut :
        LeadsOf(p) = IF project[p].lead = None THEN {} ELSE {project[p].lead}

\* A merge leaves nothing behind: no row, override or lead on duty stays with
\* the absorbed project.  And it leaves nothing dangling, then or later: no
\* row's author and no working sub-lead's parent is a lead merged away.
MergeIsComplete ==
    /\ job.step = "outcome" =>
          /\ \A m \in Memories : memory[m].project # job.from
          /\ job.from \notin routed /\ LeadsOf(job.from) = {}
    /\ \A m \in Memories :
          memory[m].author # None => agent[memory[m].author].project # None
    /\ \A a \in Agent : (agent[a].status \in Working /\ agent[a].parent # None)
          => agent[agent[a].parent].project # None

\* An agent sits deeper than the cap only if the cap was overridden for it:
\* neither a chain of sub-leads nor a merge gets around it (_depth_under).
DepthCapped == \A a \in Agent : Depth[a] > DepthCap => a \in deep

\* lead_lifecycle.py: "the data model holds even under merge: the parent's
\* project_id is the sub-lead's project_id".
SubLeadSharesProject ==
    \A a \in Agent : (agent[a].status \in Working /\ agent[a].parent # None)
        => agent[a].project = agent[agent[a].parent].project
===============================================================================
