------------------------- MODULE Conversation_proofs -------------------------
(* Theorems about ProjectLeads, AgentMemory and Delegation, for any projects, *)
(* memory rows, depth cap and number of agents, merges and crashes.           *)
EXTENDS Conversation, TLAPS, FiniteSetTheorems, WellFoundedInduction

USE DEF Agent

Record == [kind : {"lead", "sub_lead"}, status : Working \cup {"archived"},
           parent : Agent \cup {None}, project : Projects \cup {None}]

\* A project never points at somebody else's lead on duty.
PointerInv ==
    \A p \in Projects : project[p].lead # None =>
        LET a == project[p].lead IN
        agent[a].kind = "lead" /\ (agent[a].status \in Working => agent[a].project = p)

LEMMA NoneIsNobody == None \notin Agent /\ None \notin Projects
  BY LeadsAssumption

LEMMA OnDuty ==
    ASSUME TypeOK, NEW a \in Agent, agent[a].status \in {"active", "paused", "archived"}
    PROVE  agent[a] \in Record
  BY DEF TypeOK, Record, NoAgent, Working

LEMMA LeadIn == ASSUME NEW p, NEW a \in Agent
                PROVE  a \in LeadsOf(p) <=> /\ agent[a].kind = "lead" /\ agent[a].project = p
                                            /\ agent[a].status \in Working
  BY DEF LeadsOf

LEMMA HeirIn == ASSUME NEW p, LeadsOf(p) # {}
                PROVE  Heir(p) \in LeadsOf(p) /\ Heir(p) \in Agent
  BY DEF Heir, LeadsOf

LEMMA HeirType == ASSUME NEW p PROVE Heir(p) \in Agent \cup {None}
  BY HeirIn DEF Heir

\* What the request in progress has been told.
LEMMA JobFields ==
    ASSUME TypeOK
    PROVE  /\ job.step = "link" => job.project \in Projects /\ job.lead \in Agent
           /\ job.step = "unlink" => job.project \in Projects /\ job.retire \in Projects \cup {None}
           /\ job.step = "retire" => job.project \in Projects
           /\ job.step \in {"apply", "outcome"} =>
                 /\ job.from \in Projects /\ job.into \in Projects
                 /\ job = [step |-> job.step, from |-> job.from, into |-> job.into]
  BY DEF TypeOK, Idle

\* Who is on duty where, as far as only agents and memory rows tell.
StaffInv ==
    /\ \A a \in Agent : a > spawned => agent[a] = NoAgent
    /\ \A a \in Agent : agent[a].kind = "lead" => agent[a].parent = None
    /\ \A a \in Agent : (agent[a].kind = "sub_lead" \/ agent[a].status \in Working)
          => agent[a].project # None
    /\ \A p \in Projects : \A a, b \in LeadsOf(p) : a = b
    /\ \A b \in Agent : (agent[b].status \in Working /\ agent[b].parent # None) =>
          LET a == agent[b].parent IN
          /\ agent[a].project # None
          /\ agent[a].kind = "lead" => agent[a].project = agent[b].project
    /\ \A m \in Memories : memory[m].author # None => agent[memory[m].author].project # None

Mutual(p) == \A a \in Agent : a \in LeadsOf(p) <=> a = project[p].lead

\* The pair of tables, and what the request in progress still owes them.
LinkInv ==
    /\ PointerInv
    /\ \A p \in Projects \ cut :
          Mutual(p) \/ (job.step \in {"link", "unlink"} /\ job.project = p)
    /\ job.step = "link" =>
          \A a \in Agent : a \in LeadsOf(job.project) <=> a = job.lead
    /\ job.step = "unlink" => LeadsOf(job.project) = {}
    /\ job.step = "apply" =>
          /\ job.from # job.into
          /\ OrphanedSubs(job.from) # {} => LeadsOf(job.into) # {}
    /\ job.step = "outcome" =>
          /\ \A m \in Memories : memory[m].project # job.from
          /\ job.from \notin routed /\ LeadsOf(job.from) = {}

-------------------------------------------------------------------------------
(* Types *)

LEMMA TypeInit == Init => TypeOK
  BY LeadsAssumption DEF Init, TypeOK, Idle, NoAgent, Working

LEMMA TypeStep == TypeOK /\ PointerInv /\ [Next]_vars => TypeOK'
<1> SUFFICES ASSUME TypeOK, PointerInv, [Next]_vars PROVE TypeOK'
  OBVIOUS
<1>0. /\ project \in [Projects -> [status : {"absent", "open", "archived"},
                                   lead : Agent \cup {None}, granted : SUBSET Projects]]
      /\ agent \in [Agent -> {NoAgent} \cup Record]
      /\ memory \in [Memories -> [project : Projects \cup {None}, author : Agent \cup {None}]]
  BY DEF TypeOK, Record
<1>1. ASSUME NEW p \in Projects, CreateProject(p) \/ Reopen(p) PROVE TypeOK'
  <2>1. project' \in [Projects -> [status : {"absent", "open", "archived"},
                                   lead : Agent \cup {None}, granted : SUBSET Projects]]
    <3>1. CASE CreateProject(p)
      BY <1>0, <3>1 DEF CreateProject
    <3>2. CASE Reopen(p)
      BY <1>0, <3>2 DEF Reopen
    <3>3. QED BY <1>1, <3>1, <3>2
  <2>2. UNCHANGED <<agent, spawned, memory, routed, job, log, crashes, cut, deep>>
    BY <1>1 DEF CreateProject, Reopen
  <2>3. QED BY <2>1, <2>2 DEF TypeOK
<1>2. ASSUME NEW p \in Projects, RouteProject(p) PROVE TypeOK'
  BY <1>2 DEF RouteProject, TypeOK
<1>3. ASSUME NEW m \in Memories, WriteMemory(m) PROVE TypeOK'
  BY <1>0, <1>3 DEF WriteMemory, TypeOK
<1>4. ASSUME NEW r \in Record, Insert(r)
      PROVE  /\ agent' \in [Agent -> {NoAgent} \cup Record] /\ spawned' \in 0..MaxAgents
             /\ spawned + 1 \in Agent
  BY <1>0, <1>4, LeadsAssumption DEF Insert, TypeOK
<1>5. ASSUME NEW p \in Projects, SpawnLead(p) PROVE TypeOK'
  <2>1. [kind |-> "lead", status |-> "active", parent |-> None, project |-> p] \in Record
    BY DEF Record, Working
  <2>2. /\ agent' \in [Agent -> {NoAgent} \cup Record] /\ spawned' \in 0..MaxAgents
        /\ spawned + 1 \in Agent
    BY <1>4, <1>5, <2>1 DEF SpawnLead
  <2>3. job' \in [step : {"link"}, project : Projects, lead : Agent]
    BY <1>5, <2>2 DEF SpawnLead
  <2>4. UNCHANGED <<project, memory, routed, log, crashes, cut, deep>>
    BY <1>5 DEF SpawnLead
  <2>5. QED BY <2>2, <2>3, <2>4 DEF TypeOK, Record
<1>6. ASSUME NEW a \in Agent, NEW override \in BOOLEAN, SpawnSubLead(a, override) PROVE TypeOK'
  <2>1. agent[a].project \in Projects
    BY <1>6, OnDuty DEF SpawnSubLead, Record
  <2>2. [kind |-> "sub_lead", status |-> "active", parent |-> a, project |-> agent[a].project]
          \in Record
    BY <2>1 DEF Record, Working
  <2>3. /\ agent' \in [Agent -> {NoAgent} \cup Record] /\ spawned' \in 0..MaxAgents
        /\ spawned + 1 \in Agent
    BY <1>4, <1>6, <2>2 DEF SpawnSubLead
  <2>4. deep' \subseteq Agent /\ UNCHANGED <<project, memory, routed, job, log, crashes, cut>>
    BY <1>6, <2>3 DEF SpawnSubLead, TypeOK
  <2>5. QED BY <2>3, <2>4 DEF TypeOK, Record
<1>7. ASSUME NEW a \in Agent, NEW s \in Working \cup {"archived"}, agent[a] \in Record
      PROVE  [agent EXCEPT ![a].status = s] \in [Agent -> {NoAgent} \cup Record]
  BY <1>0, <1>7 DEF Record
<1>8. ASSUME NEW a \in Agent, NEW from \in Working, NEW to \in Working, Transition(a, from, to)
      PROVE  TypeOK'
  <2>1. agent[a] \in Record
    BY <1>8, OnDuty DEF Transition, Working
  <2>2. QED BY <1>7, <1>8, <2>1 DEF Transition, TypeOK, Record
<1>9. ASSUME NEW a \in Agent, ArchiveLead(a) PROVE TypeOK'
  <2>1. agent[a] \in Record
    BY <1>9, OnDuty DEF ArchiveLead, Working
  <2>2. job' \in {Idle} \cup [step : {"unlink"}, project : Projects, retire : Projects \cup {None}]
    BY <1>9, <2>1 DEF ArchiveLead, Record
  <2>3. agent' \in [Agent -> {NoAgent} \cup Record]
    BY <1>7, <1>9, <2>1 DEF ArchiveLead, Retire
  <2>4. UNCHANGED <<project, spawned, memory, routed, log, crashes, cut, deep>>
    BY <1>9 DEF ArchiveLead
  <2>5. QED BY <2>2, <2>3, <2>4 DEF TypeOK, Record
<1>10. ASSUME NEW p \in Projects, ArchiveProject(p) PROVE TypeOK'
  <2> DEFINE a == project[p].lead
  <2>1. a \in Agent \cup {None}
    BY <1>0
  <2>2. CASE a # None /\ agent[a].status \in Working
    <3>1. agent[a] \in Record /\ agent[a].project = p
      BY <2>1, <2>2, OnDuty DEF PointerInv, Working
    <3>2. job' \in [step : {"unlink"}, project : Projects, retire : Projects \cup {None}]
      BY <1>10, <2>2, <3>1 DEF ArchiveProject
    <3>3. agent' \in [Agent -> {NoAgent} \cup Record]
      BY <1>7, <1>10, <2>1, <2>2, <3>1 DEF ArchiveProject, Retire
    <3>4. UNCHANGED <<project, spawned, memory, routed, log, crashes, cut, deep>>
      BY <1>10 DEF ArchiveProject
    <3>5. QED BY <3>2, <3>3, <3>4 DEF TypeOK, Record
  <2>3. CASE ~ (a # None /\ agent[a].status \in Working)
    BY <1>10, <2>3 DEF ArchiveProject, TypeOK
  <2>4. QED BY <2>2, <2>3
<1>11. CASE Link \/ Unlink \/ RetireProject
  <2>1. CASE Link
    BY <1>0, <2>1, JobFields DEF Link, TypeOK
  <2>2. CASE Unlink
    <3>1. job' \in {Idle} \cup [step : {"retire"}, project : Projects]
      BY <2>2, JobFields DEF Unlink
    <3>2. project' \in [Projects -> [status : {"absent", "open", "archived"},
                                     lead : Agent \cup {None}, granted : SUBSET Projects]]
      BY <1>0, <2>2, JobFields DEF Unlink
    <3>3. cut' \subseteq Projects /\ UNCHANGED <<agent, spawned, memory, routed, log, crashes, deep>>
      BY <2>2 DEF Unlink, TypeOK
    <3>4. QED BY <3>1, <3>2, <3>3 DEF TypeOK
  <2>3. CASE RetireProject
    BY <1>0, <2>3, JobFields DEF RetireProject, TypeOK
  <2>4. QED BY <1>11, <2>1, <2>2, <2>3
<1>12. ASSUME NEW from \in Projects, NEW into \in Projects, Merge(from, into) PROVE TypeOK'
  <2>1. log' \in Seq({"plan", "outcome"})
    BY <1>12 DEF Merge, TypeOK
  <2>2. job' \in {Idle} \cup [step : {"apply", "outcome"}, from : Projects, into : Projects]
    BY <1>12 DEF Merge
  <2>3. QED BY <1>12, <2>1, <2>2 DEF Merge, TypeOK
<1>13. CASE Apply
  <2>1. job.from \in Projects /\ job.into \in Projects
        /\ job = [step |-> "apply", from |-> job.from, into |-> job.into]
    BY <1>13, JobFields DEF Apply
  <2> PICK from \in Projects, into \in Projects : from = job.from /\ into = job.into
    BY <2>1
  <2>2. Heir(into) \in Agent \cup {None}
    BY HeirType
  <2>3. memory' \in [Memories -> [project : Projects \cup {None}, author : Agent \cup {None}]]
    BY <1>0, <1>13, <2>2 DEF Apply, Reanchored
  <2>4. agent' \in [Agent -> {NoAgent} \cup Record]
    <3>1. agent' = Restaffed(from, into)
      BY <1>13 DEF Apply
    <3>2. ASSUME NEW a \in Agent PROVE Restaffed(from, into)[a] \in {NoAgent} \cup Record
      <4>1. CASE a \in LeadsOf(from)
        <5>1. agent[a] \in Record
          BY <4>1, OnDuty DEF LeadsOf, Working
        <5>2. Restaffed(from, into)[a] = [agent[a] EXCEPT !.status = "archived", !.project = None]
          BY <4>1 DEF Restaffed
        <5>3. QED BY <5>1, <5>2 DEF Record
      <4>2. CASE a \notin LeadsOf(from) /\ a \in OrphanedSubs(from)
        <5>1. agent[a] \in Record
          BY <4>2, OnDuty DEF OrphanedSubs, SubLeadsOf, Working
        <5>2. Restaffed(from, into)[a] = [agent[a] EXCEPT !.parent = Heir(into), !.project = into]
          BY <4>2 DEF Restaffed
        <5>3. QED BY <2>2, <5>1, <5>2 DEF Record
      <4>3. CASE a \notin LeadsOf(from) /\ a \notin OrphanedSubs(from)
        BY <1>0, <4>3 DEF Restaffed
      <4>4. QED BY <4>1, <4>2, <4>3
    <3>3. QED BY <3>1, <3>2 DEF Restaffed
  <2>5. routed' \subseteq Projects /\ cut' \subseteq Projects
    BY <1>13 DEF Apply, TypeOK
  <2>6. project' \in [Projects -> [status : {"absent", "open", "archived"},
                                   lead : Agent \cup {None}, granted : SUBSET Projects]]
    <3>1. project' = [project EXCEPT ![into].granted = @ \cup project[from].granted,
                                     ![from].status = "archived", ![from].lead = None]
      BY <1>13 DEF Apply
    <3>2. [project EXCEPT ![into].granted = @ \cup project[from].granted]
            \in [Projects -> [status : {"absent", "open", "archived"},
                              lead : Agent \cup {None}, granted : SUBSET Projects]]
      BY <1>0
    <3>3. QED BY <3>1, <3>2
  <2>7. job' \in [step : {"apply", "outcome"}, from : Projects, into : Projects]
    BY <1>13, <2>1 DEF Apply
  <2>8. UNCHANGED <<spawned, log, crashes, deep>>
    BY <1>13 DEF Apply
  <2>9. QED BY <2>3, <2>4, <2>5, <2>6, <2>7, <2>8 DEF TypeOK, Record
<1>14. CASE LogOutcome
  BY <1>14 DEF LogOutcome, TypeOK
<1>15. CASE Crash
  <2>1. cut' \subseteq Projects
    BY <1>15, JobFields DEF Crash, TypeOK
  <2>2. crashes' \in 0..MaxCrashes
    BY <1>15, LeadsAssumption DEF Crash, TypeOK
  <2>3. QED BY <1>15, <2>1, <2>2 DEF Crash, TypeOK
<1>16. CASE UNCHANGED vars
  BY <1>16 DEF vars, TypeOK
<1>17. QED
  BY <1>1, <1>2, <1>3, <1>5, <1>6, <1>8, <1>9, <1>10, <1>11, <1>12, <1>13, <1>14, <1>15, <1>16
  DEF Next, ProjectRequest, LeadRequest, Handler, Working

-------------------------------------------------------------------------------
(* Staff *)

LEMMA StaffInit == Init => StaffInv
  BY LeadsAssumption DEF Init, StaffInv, NoAgent, LeadsOf, Working

\* An agent's status changes and nobody comes on duty.
LEMMA StatusStaff ==
    ASSUME TypeOK, StaffInv, UNCHANGED <<spawned, memory>>, NEW a \in Agent,
           agent[a].status \in Working, NEW s,
           agent' = [agent EXCEPT ![a].status = s]
    PROVE  StaffInv' /\ \A p : LeadsOf(p)' \subseteq LeadsOf(p)
<1>0. agent \in [Agent -> {NoAgent} \cup Record]
  BY DEF TypeOK, Record
<1>1. /\ \A b \in Agent : /\ agent'[b].kind = agent[b].kind
                          /\ agent'[b].parent = agent[b].parent
                          /\ agent'[b].project = agent[b].project
                          /\ agent'[b].status \in Working => agent[b].status \in Working
      /\ \A b \in Agent : b # a => agent'[b] = agent[b]
  BY <1>0 DEF Record, NoAgent
<1>2. a <= spawned /\ spawned \in Nat
  BY LeadsAssumption DEF TypeOK, StaffInv, NoAgent, Working
<1>3. \A b \in Agent : b > spawned => b # a
  BY <1>2
<1>4. \A p : LeadsOf(p)' \subseteq LeadsOf(p)
  BY <1>1 DEF LeadsOf
<1>5. \A b \in Agent : agent[b].parent \in Agent \cup {None}
  BY <1>0, NoneIsNobody DEF Record, NoAgent
<1>6. \A m \in Memories : memory[m].author \in Agent \cup {None}
  BY DEF TypeOK
<1>7. \A b \in Agent : b > spawned' => agent'[b] = NoAgent
  BY <1>1, <1>3 DEF StaffInv
<1>8. \A p \in Projects : \A b, c \in LeadsOf(p)' : b = c
  BY <1>4 DEF StaffInv
<1>9. \A b \in Agent : (agent'[b].status \in Working /\ agent'[b].parent # None) =>
          /\ agent'[agent'[b].parent].project # None
          /\ agent'[agent'[b].parent].kind = "lead"
               => agent'[agent'[b].parent].project = agent'[b].project
  BY <1>1, <1>5 DEF StaffInv
<1>10. \A m \in Memories : memory'[m].author # None => agent'[memory'[m].author].project # None
  BY <1>1, <1>6 DEF StaffInv
<1>11. /\ \A b \in Agent : agent'[b].kind = "lead" => agent'[b].parent = None
       /\ \A b \in Agent : (agent'[b].kind = "sub_lead" \/ agent'[b].status \in Working)
            => agent'[b].project # None
  BY <1>1 DEF StaffInv
<1>12. QED
  BY <1>4, <1>7, <1>8, <1>9, <1>10, <1>11 DEF StaffInv

\* A new agent is nobody's parent and no row's author yet.
LEMMA InsertStaff ==
    ASSUME TypeOK, StaffInv, UNCHANGED memory, NEW r \in Record, Insert(r),
           r.status = "active", r.project # None,
           \/ r.kind = "lead" /\ r.parent = None /\ LeadsOf(r.project) = {}
           \/ r.kind = "sub_lead" /\ r.parent \in Agent /\ agent[r.parent].project = r.project
    PROVE  /\ StaffInv' /\ spawned + 1 \in Agent
           /\ \A a \in Agent : a # spawned + 1 => agent'[a] = agent[a]
           /\ agent'[spawned + 1] = r /\ agent[spawned + 1] = NoAgent
<1>0. agent \in [Agent -> {NoAgent} \cup Record]
  BY DEF TypeOK, Record
<1>1. spawned \in Nat /\ spawned + 1 \in Agent /\ spawned' = spawned + 1
  BY LeadsAssumption DEF TypeOK, Insert
<1> PICK n \in Agent : n = spawned + 1
  BY <1>1
<1>2. /\ agent[n] = NoAgent /\ agent'[n] = r
      /\ \A a \in Agent : a # n => agent'[a] = agent[a]
  BY <1>0, <1>1 DEF Insert, StaffInv
<1>3. \A b \in Agent : agent[b].parent \in Agent \cup {None}
  BY <1>0, NoneIsNobody DEF Record, NoAgent
<1>4. \A m \in Memories : memory[m].author \in Agent \cup {None}
  BY DEF TypeOK
<1>5. \A b \in Agent : b > spawned' => agent'[b] = NoAgent
  BY <1>1, <1>2 DEF StaffInv
<1>6. \A p \in Projects : \A b, c \in LeadsOf(p)' : b = c
  <2>1. ASSUME NEW p \in Projects, NEW b \in LeadsOf(p)', NEW c \in LeadsOf(p)' PROVE b = c
    <3>1. b # n => b \in LeadsOf(p)
      BY <2>1, <1>2 DEF LeadsOf
    <3>2. c # n => c \in LeadsOf(p)
      BY <2>1, <1>2 DEF LeadsOf
    <3>3. (b = n \/ c = n) => LeadsOf(p) = {}
      BY <2>1, <1>2 DEF LeadsOf
    <3>4. QED BY <3>1, <3>2, <3>3 DEF StaffInv
  <2>2. QED BY <2>1
<1>7. ASSUME NEW b \in Agent, agent'[b].status \in Working, agent'[b].parent # None
      PROVE  /\ agent'[agent'[b].parent].project # None
             /\ agent'[agent'[b].parent].kind = "lead"
                  => agent'[agent'[b].parent].project = agent'[b].project
  <2>1. PICK a \in Agent : a = agent'[b].parent
    BY <1>2, <1>3, <1>7
  <2>2. agent[a].project # None
    BY <1>2, <1>7, <2>1 DEF StaffInv
  <2>3. a # n
    BY <1>2, <2>2 DEF NoAgent
  <2>4. QED BY <1>2, <1>7, <2>1, <2>2, <2>3 DEF StaffInv
<1>8. \A m \in Memories : memory'[m].author # None => agent'[memory'[m].author].project # None
  <2>1. ASSUME NEW m \in Memories, memory'[m].author # None
        PROVE  agent'[memory'[m].author].project # None
    <3>1. memory[m].author \in Agent /\ agent[memory[m].author].project # None
      BY <1>4, <2>1 DEF StaffInv
    <3>2. memory[m].author # n
      BY <1>2, <3>1 DEF NoAgent
    <3>3. QED BY <1>2, <3>1, <3>2
  <2>2. QED BY <2>1
<1>9. /\ \A b \in Agent : agent'[b].kind = "lead" => agent'[b].parent = None
      /\ \A b \in Agent : (agent'[b].kind = "sub_lead" \/ agent'[b].status \in Working)
           => agent'[b].project # None
  BY <1>2 DEF StaffInv
<1>10. StaffInv'
  BY <1>5, <1>6, <1>7, <1>8, <1>9 DEF StaffInv
<1>11. QED
  BY <1>1, <1>2, <1>10

\* What a merge does to the agents, one by one.
LEMMA MergedStaff ==
    ASSUME TypeOK, StaffInv, LinkInv, Apply
    PROVE  /\ job.from \in Projects /\ job.into \in Projects /\ job.from # job.into
           /\ \A p : p # job.from => LeadsOf(p)' = LeadsOf(p)
           /\ \A p : p = job.from => LeadsOf(p)' = {}
           /\ \A a \in Agent :
                 \/ /\ a \in LeadsOf(job.from)
                    /\ agent'[a] = [agent[a] EXCEPT !.status = "archived", !.project = None]
                 \/ /\ a \notin LeadsOf(job.from) /\ a \in OrphanedSubs(job.from)
                    /\ agent'[a] = [agent[a] EXCEPT !.parent = Heir(job.into), !.project = job.into]
                    /\ Heir(job.into) \in LeadsOf(job.into)
                 \/ /\ a \notin LeadsOf(job.from) /\ a \notin OrphanedSubs(job.from)
                    /\ agent'[a] = agent[a]
<1>1. job.step = "apply" /\ job.from \in Projects /\ job.into \in Projects /\ job.from # job.into
  BY JobFields DEF Apply, LinkInv
<1> PICK from \in Projects, into \in Projects : from = job.from /\ into = job.into
  BY <1>1
<1>2. agent' = Restaffed(from, into)
  BY DEF Apply
<1>3. agent \in [Agent -> {NoAgent} \cup Record]
  BY DEF TypeOK, Record
<1>4. ASSUME NEW a \in OrphanedSubs(from)
      PROVE  /\ a \in Agent /\ agent[a].kind # "lead" /\ agent[a] \in Record
             /\ Heir(into) \in LeadsOf(into)
  <2>1. PICK b \in LeadsOf(from) : a \in SubLeadsOf(b)
    BY <1>4 DEF OrphanedSubs
  <2>2. a \in Agent /\ agent[a].parent = b /\ b \in Agent /\ agent[a].status \in Working
    BY <2>1 DEF SubLeadsOf, LeadsOf
  <2>3. agent[a].kind # "lead" /\ agent[a] \in Record
    BY <2>2, NoneIsNobody, OnDuty DEF StaffInv, Working
  <2>4. LeadsOf(into) # {}
    BY <1>1, <1>4 DEF LinkInv
  <2>5. QED BY <2>2, <2>3, <2>4, HeirIn
<1>5. ASSUME NEW a \in Agent
      PROVE  \/ /\ a \in LeadsOf(from)
                /\ agent'[a] = [agent[a] EXCEPT !.status = "archived", !.project = None]
             \/ /\ a \notin LeadsOf(from) /\ a \in OrphanedSubs(from)
                /\ agent'[a] = [agent[a] EXCEPT !.parent = Heir(into), !.project = into]
                /\ Heir(into) \in LeadsOf(into)
             \/ /\ a \notin LeadsOf(from) /\ a \notin OrphanedSubs(from)
                /\ agent'[a] = agent[a]
  BY <1>2, <1>4, <1>5 DEF Restaffed
<1>6. ASSUME NEW a \in Agent
      PROVE  /\ a \notin LeadsOf(from)'
             /\ \A p : p # from => (a \in LeadsOf(p)' <=> a \in LeadsOf(p))
  <2>1. CASE a \in LeadsOf(from)
    <3>1. agent[a] \in Record /\ agent[a].project = from
      BY <2>1, OnDuty DEF LeadsOf, Working
    <3>2. agent'[a].status = "archived"
      BY <1>5, <2>1, <3>1 DEF Record
    <3>3. QED BY <3>1, <3>2 DEF LeadsOf, Working
  <2>2. CASE a \notin LeadsOf(from) /\ a \in OrphanedSubs(from)
    <3>1. agent'[a].kind = agent[a].kind /\ agent[a].kind # "lead"
      BY <1>4, <1>5, <2>2 DEF Record
    <3>2. QED BY <3>1 DEF LeadsOf
  <2>3. CASE a \notin LeadsOf(from) /\ a \notin OrphanedSubs(from)
    <3>1. agent'[a] = agent[a]
      BY <1>5, <2>3
    <3>2. QED BY <2>3, <3>1 DEF LeadsOf
  <2>4. QED BY <2>1, <2>2, <2>3
<1>7. (\A p : p # from => LeadsOf(p)' = LeadsOf(p)) /\ LeadsOf(from)' = {}
  <2>1. \A p : LeadsOf(p) \subseteq Agent /\ LeadsOf(p)' \subseteq Agent
    BY DEF LeadsOf
  <2>2. QED BY <1>6, <2>1
<1>8. QED
  BY <1>1, <1>5, <1>7

LEMMA MergeStaff ==
    ASSUME TypeOK, StaffInv, LinkInv, Apply
    PROVE  StaffInv'
<1>1. job.step = "apply" /\ job.from \in Projects /\ job.into \in Projects /\ job.from # job.into
  BY MergedStaff DEF Apply
<1> PICK from \in Projects, into \in Projects : from = job.from /\ into = job.into
  BY <1>1
<1>2. /\ from # into /\ \A p : p # from => LeadsOf(p)' = LeadsOf(p)
      /\ LeadsOf(from)' = {}
  BY <1>1, MergedStaff
<1>3. ASSUME NEW a \in Agent
      PROVE  /\ a \in LeadsOf(from) =>
                  /\ agent'[a].kind = "lead" /\ agent'[a].status = "archived"
                  /\ agent'[a].project = None /\ agent'[a].parent = agent[a].parent
                  /\ agent[a].kind = "lead"
             /\ (a \notin LeadsOf(from) /\ a \in OrphanedSubs(from)) =>
                  /\ agent'[a].kind = "sub_lead" /\ agent'[a].status = agent[a].status
                  /\ agent'[a].project = into /\ agent'[a].parent = Heir(into)
                  /\ Heir(into) \in LeadsOf(into) /\ agent[a].kind = "sub_lead"
                  /\ agent[a].status \in Working
             /\ (a \notin LeadsOf(from) /\ a \notin OrphanedSubs(from)) => agent'[a] = agent[a]
  <2>1. CASE a \in LeadsOf(from)
    <3>1. agent[a] \in Record /\ agent[a].kind = "lead"
      BY <2>1, OnDuty DEF LeadsOf, Working
    <3>2. agent'[a] = [agent[a] EXCEPT !.status = "archived", !.project = None]
      BY <2>1, MergedStaff
    <3>3. QED BY <2>1, <3>1, <3>2 DEF Record
  <2>2. CASE a \notin LeadsOf(from) /\ a \in OrphanedSubs(from)
    <3>1. PICK b \in LeadsOf(from) : a \in SubLeadsOf(b)
      BY <2>2 DEF OrphanedSubs
    <3>2. agent[a].parent = b /\ b \in Agent /\ agent[a].status \in Working
      BY <3>1 DEF SubLeadsOf, LeadsOf
    <3>3. agent[a].kind = "sub_lead" /\ agent[a] \in Record
      BY <3>2, NoneIsNobody, OnDuty DEF StaffInv, Working, Record
    <3>4. agent'[a] = [agent[a] EXCEPT !.parent = Heir(into), !.project = into]
          /\ Heir(into) \in LeadsOf(into)
      BY <2>2, MergedStaff
    <3>5. QED BY <2>2, <3>2, <3>3, <3>4 DEF Record
  <2>3. CASE a \notin LeadsOf(from) /\ a \notin OrphanedSubs(from)
    BY <2>3, MergedStaff
  <2>4. QED BY <2>1, <2>2, <2>3
<1>4. \A p : \A a \in LeadsOf(p) : a \in Agent /\ agent[a].kind = "lead" /\ agent[a].project = p
                                    /\ agent[a].status \in Working
  BY DEF LeadsOf
<1>5. LeadsOf(into) # {} => /\ Heir(into) \in Agent /\ Heir(into) \in LeadsOf(into)
                            /\ agent'[Heir(into)].project = into
  BY <1>2, HeirIn, LeadIn DEF LeadsOf
<1>6. \A a \in Agent : agent[a].parent \in Agent \cup {None}
  BY NoneIsNobody DEF TypeOK, NoAgent
<1>7. \A a \in Agent : a > spawned' => agent'[a] = NoAgent
  <2>1. \A a \in Agent : agent[a] = NoAgent => a \notin LeadsOf(from) /\ a \notin OrphanedSubs(from)
    BY DEF NoAgent, LeadsOf, OrphanedSubs, SubLeadsOf, Working
  <2>2. spawned' = spawned
    BY DEF Apply
  <2>3. QED BY <1>3, <2>1, <2>2 DEF StaffInv
<1>8. \A a \in Agent : agent'[a].kind = "lead" => agent'[a].parent = None
  BY <1>3 DEF StaffInv
<1>9. \A a \in Agent : (agent'[a].kind = "sub_lead" \/ agent'[a].status \in Working)
          => agent'[a].project # None
  BY <1>3, NoneIsNobody DEF StaffInv, Working
<1>10. \A p \in Projects : \A a, b \in LeadsOf(p)' : a = b
  BY <1>2 DEF StaffInv
<1>11. ASSUME NEW b \in Agent, agent'[b].status \in Working, agent'[b].parent # None
       PROVE  /\ agent'[agent'[b].parent].project # None
              /\ agent'[agent'[b].parent].kind = "lead"
                   => agent'[agent'[b].parent].project = agent'[b].project
  <2>0. b \notin LeadsOf(from)
    BY <1>3, <1>11 DEF Working
  <2>1. CASE b \in OrphanedSubs(from)
    BY <1>3, <1>5, <2>0, <2>1, NoneIsNobody
  <2>2. CASE b \notin OrphanedSubs(from)
    <3>1. agent'[b] = agent[b]
      BY <1>3, <2>0, <2>2
    <3>2. PICK a \in Agent : a = agent[b].parent
      BY <1>6, <1>11, <3>1
    <3>3. agent[a].project # None /\ (agent[a].kind = "lead" => agent[a].project = agent[b].project)
      BY <1>11, <3>1, <3>2 DEF StaffInv
    <3>4. a \notin LeadsOf(from)
      <4>1. ASSUME a \in LeadsOf(from) PROVE FALSE
        BY <1>11, <2>2, <3>1, <3>2, <3>3, <4>1, <1>4 DEF OrphanedSubs, SubLeadsOf
      <4>2. QED BY <4>1
    <3>5. CASE a \in OrphanedSubs(from)
      BY <1>3, <3>1, <3>2, <3>4, <3>5, NoneIsNobody
    <3>6. CASE a \notin OrphanedSubs(from)
      BY <1>3, <3>1, <3>2, <3>3, <3>4, <3>6
    <3>7. QED BY <3>5, <3>6
  <2>3. QED BY <2>1, <2>2
<1>12. ASSUME NEW m \in Memories, memory'[m].author # None
       PROVE  agent'[memory'[m].author].project # None
  <2>1. memory'[m].author = IF memory[m].author \in LeadsOf(from) THEN Heir(into)
                            ELSE memory[m].author
    BY DEF Apply, Reanchored
  <2>2. memory[m].author \in Agent \cup {None}
    BY DEF TypeOK
  <2>3. CASE memory[m].author \in LeadsOf(from)
    BY <1>5, <1>12, <2>1, <2>3, NoneIsNobody DEF Heir
  <2>4. CASE memory[m].author \notin LeadsOf(from)
    <3>1. PICK a \in Agent : a = memory[m].author
      BY <1>12, <2>1, <2>2, <2>4
    <3>2. agent[a].project # None
      BY <1>12, <2>1, <2>4, <3>1 DEF StaffInv
    <3>3. agent'[a].project # None
      BY <1>3, <2>4, <3>1, <3>2, NoneIsNobody
    <3>4. QED BY <2>1, <2>4, <3>1, <3>3
  <2>5. QED BY <2>3, <2>4
<1>13. QED
  BY <1>7, <1>8, <1>9, <1>10, <1>11, <1>12 DEF StaffInv

LEMMA StaffStep == TypeOK /\ StaffInv /\ LinkInv /\ [Next]_vars => StaffInv'
<1> SUFFICES ASSUME TypeOK, StaffInv, LinkInv, [Next]_vars PROVE StaffInv'
  OBVIOUS
<1>1. ASSUME NEW p \in Projects, SpawnLead(p) PROVE StaffInv'
  <2>1. [kind |-> "lead", status |-> "active", parent |-> None, project |-> p] \in Record
    BY DEF Record, Working
  <2>2. QED BY <1>1, <2>1, InsertStaff, NoneIsNobody DEF SpawnLead
<1>2. ASSUME NEW a \in Agent, NEW override \in BOOLEAN, SpawnSubLead(a, override) PROVE StaffInv'
  <2>1. agent[a].project \in Projects
    BY <1>2, OnDuty DEF SpawnSubLead, Record
  <2>2. [kind |-> "sub_lead", status |-> "active", parent |-> a, project |-> agent[a].project]
          \in Record
    BY <2>1 DEF Record, Working
  <2>3. QED BY <1>2, <2>1, <2>2, InsertStaff, NoneIsNobody DEF SpawnSubLead
<1>3. ASSUME NEW a \in Agent, NEW from \in Working, NEW to \in Working, Transition(a, from, to)
      PROVE  StaffInv'
  BY <1>3, StatusStaff DEF Transition
<1>4. ASSUME NEW a \in Agent, ArchiveLead(a) PROVE StaffInv'
  BY <1>4, StatusStaff DEF ArchiveLead, Retire
<1>5. ASSUME NEW p \in Projects, ArchiveProject(p) PROVE StaffInv'
  <2>1. CASE project[p].lead # None /\ agent[project[p].lead].status \in Working
    <3>1. project[p].lead \in Agent
      BY <2>1 DEF TypeOK
    <3>2. QED BY <1>5, <2>1, <3>1, StatusStaff DEF ArchiveProject, Retire
  <2>2. CASE ~ (project[p].lead # None /\ agent[project[p].lead].status \in Working)
    BY <1>5, <2>2 DEF ArchiveProject, StaffInv, LeadsOf
  <2>3. QED BY <2>1, <2>2
<1>6. ASSUME NEW m \in Memories, WriteMemory(m) PROVE StaffInv'
  <2>1. PICK p \in Projects, a \in Agent \cup {None} :
           /\ a # None => agent[a].project = p
           /\ memory' = [memory EXCEPT ![m] = [project |-> p, author |-> a]]
    BY <1>6 DEF WriteMemory
  <2>2. a # None => agent[a].project # None
    BY <2>1, NoneIsNobody
  <2>3. \A x \in Memories : memory'[x].author = IF x = m THEN a ELSE memory[x].author
    BY <2>1 DEF TypeOK
  <2>4. UNCHANGED <<agent, spawned>>
    BY <1>6 DEF WriteMemory
  <2>5. QED BY <2>2, <2>3, <2>4 DEF StaffInv, LeadsOf
<1>7. CASE Apply
  BY <1>7, MergeStaff
<1>8. ASSUME UNCHANGED <<agent, spawned, memory>> PROVE StaffInv'
  BY <1>8 DEF StaffInv, LeadsOf
<1>9. ASSUME NEW p \in Projects,
             \/ CreateProject(p) \/ Reopen(p) \/ RouteProject(p)
             \/ \E into \in Projects : Merge(p, into)
      PROVE  UNCHANGED <<agent, spawned, memory>>
  BY <1>9 DEF CreateProject, Reopen, RouteProject, Merge
<1>10. CASE Link \/ Unlink \/ RetireProject \/ LogOutcome \/ Crash \/ UNCHANGED vars
  <2>1. UNCHANGED <<agent, spawned, memory>>
    BY <1>10 DEF Link, Unlink, RetireProject, LogOutcome, Crash, vars
  <2>2. QED BY <2>1, <1>8
<1>11. QED
  BY <1>1, <1>2, <1>3, <1>4, <1>5, <1>6, <1>7, <1>8, <1>9, <1>10
  DEF Next, ProjectRequest, LeadRequest, Handler, Working

-------------------------------------------------------------------------------
(* Links *)

LEMMA LinkInit == Init => LinkInv
<1> SUFFICES ASSUME Init PROVE LinkInv
  OBVIOUS
<1>1. 1 \in Agent /\ job.step = "idle"
  BY LeadsAssumption DEF Init, Idle
<1>2. \A p \in Projects : Mutual(p)
  BY <1>1, NoneIsNobody, LeadIn DEF Init, Mutual, NoAgent, Working
<1>3. PointerInv
  BY <1>1 DEF Init, PointerInv
<1>4. QED
  BY <1>1, <1>2, <1>3 DEF LinkInv

\* A request that is served while none is in progress, and ends at once.
LEMMA SingleCommit ==
    ASSUME LinkInv, job = Idle, job' = Idle, cut' = cut, PointerInv',
           \A p \in Projects : Mutual(p) => Mutual(p)'
    PROVE  LinkInv'
<1>1. job.step = "idle" /\ job'.step = "idle"
  BY DEF Idle
<1>2. QED
  BY <1>1 DEF LinkInv

\* Nobody's post changes, nor any pointer.
LEMMA SamePosts ==
    ASSUME UNCHANGED cut, LinkInv,
           \A p \in Projects : project'[p].lead = project[p].lead,
           \A p : LeadsOf(p)' = LeadsOf(p),
           \A p \in Projects : project[p].lead # None =>
               LET a == project[p].lead IN
               /\ agent'[a].kind = agent[a].kind /\ agent'[a].project = agent[a].project
               /\ agent'[a].status \in Working => agent[a].status \in Working
    PROVE  PointerInv' /\ \A p \in Projects : Mutual(p) => Mutual(p)'
  BY DEF LinkInv, PointerInv, Mutual

LEMMA PointerType ==
    ASSUME TypeOK, NEW p \in Projects
    PROVE  project[p].lead \in Agent \cup {None}
  BY DEF TypeOK

\* A lead taken off duty leaves its project without one.
LEMMA RetireLead ==
    ASSUME TypeOK, StaffInv, LinkInv, NEW a \in Agent, agent[a].status \in Working, Retire(a)
    PROVE  /\ \A p : \A b \in Agent : b \in LeadsOf(p)' <=> b \in LeadsOf(p) /\ b # a
           /\ \A p \in Projects : a \in LeadsOf(p) => LeadsOf(p)' = {}
           /\ project' = project => PointerInv'
<1>1. agent \in [Agent -> {NoAgent} \cup Record] /\ agent[a] \in Record
  BY OnDuty DEF TypeOK, Record, Working
<1>2. /\ agent'[a].status = "archived"
      /\ agent'[a].kind = agent[a].kind /\ agent'[a].project = agent[a].project
      /\ \A b \in Agent : b # a => agent'[b] = agent[b]
  BY <1>1 DEF Retire, Record
<1>3. \A p : \A b \in Agent : b \in LeadsOf(p)' <=> b \in LeadsOf(p) /\ b # a
  BY <1>2 DEF LeadsOf, Working
<1>4. \A p \in Projects : a \in LeadsOf(p) => LeadsOf(p)' = {}
  <2>1. ASSUME NEW p \in Projects, a \in LeadsOf(p) PROVE LeadsOf(p)' = {}
    <3>1. LeadsOf(p)' \subseteq Agent
      BY DEF LeadsOf
    <3>2. QED BY <1>3, <2>1, <3>1 DEF StaffInv
  <2>2. QED BY <2>1
<1>5. project' = project => PointerInv'
  BY <1>2, PointerType DEF LinkInv, PointerInv, Working
<1>6. QED
  BY <1>3, <1>4, <1>5

LEMMA SpawnLink ==
    ASSUME TypeOK, StaffInv, LinkInv, NEW p \in Projects, SpawnLead(p)
    PROVE  LinkInv'
<1> DEFINE r == [kind |-> "lead", status |-> "active", parent |-> None, project |-> p]
<1>0. r \in Record /\ r.kind = "lead" /\ r.status = "active" /\ r.parent = None /\ r.project = p
  BY DEF Record, Working
<1>1. /\ spawned + 1 \in Agent /\ agent'[spawned + 1] = r /\ agent[spawned + 1] = NoAgent
      /\ \A a \in Agent : a # spawned + 1 => agent'[a] = agent[a]
  <2>1. Insert(r) /\ LeadsOf(p) = {} /\ UNCHANGED memory
    BY DEF SpawnLead
  <2> HIDE DEF r
  <2>2. QED BY <1>0, <2>1, InsertStaff, NoneIsNobody
<1> HIDE DEF r
<1> PICK n \in Agent : n = spawned + 1
  BY <1>1
<1>2. /\ job = Idle /\ job'.step = "link" /\ job'.project = p /\ job'.lead = n
      /\ UNCHANGED <<project, cut>> /\ LeadsOf(p) = {}
  BY DEF SpawnLead, Serving
<1>3. job.step = "idle"
  BY <1>2 DEF Idle
<1>4. \A a \in Agent : \A q : a \in LeadsOf(q)' <=> (a = n /\ q = p) \/ (a # n /\ a \in LeadsOf(q))
  BY <1>0, <1>1 DEF LeadsOf, Working
<1>5. \A a \in Agent : a \in LeadsOf(p)' <=> a = n
  BY <1>2, <1>4
<1>6. \A q : n \notin LeadsOf(q)
  BY <1>1 DEF LeadsOf, NoAgent
<1>7. PointerInv'
  <2>1. \A q \in Projects : project[q].lead # n
    <3>1. agent[n].kind # "lead" /\ n # None
      BY <1>1, NoneIsNobody DEF NoAgent
    <3>2. QED BY <3>1 DEF LinkInv, PointerInv
  <2>2. QED BY <1>1, <1>2, <2>1, PointerType DEF LinkInv, PointerInv
<1>8. \A q \in Projects : q # p /\ Mutual(q) => Mutual(q)'
  BY <1>2, <1>4, <1>6 DEF Mutual
<1>9. QED
  BY <1>2, <1>3, <1>5, <1>7, <1>8 DEF LinkInv

LEMMA ArchiveLink ==
    ASSUME TypeOK, StaffInv, LinkInv, NEW a \in Agent, agent[a].status \in Working, Retire(a),
           job = Idle, UNCHANGED <<project, cut>>,
           \/ /\ agent[a].kind = "lead" /\ agent[a].project \in Projects
              /\ job'.step = "unlink" /\ job'.project = agent[a].project
           \/ agent[a].kind # "lead" /\ job' = Idle
    PROVE  LinkInv'
<1>1. /\ \A p : \A b \in Agent : b \in LeadsOf(p)' <=> b \in LeadsOf(p) /\ b # a
      /\ \A p \in Projects : a \in LeadsOf(p) => LeadsOf(p)' = {}
      /\ PointerInv' /\ job.step = "idle"
  BY RetireLead DEF Idle
<1>2. CASE agent[a].kind = "lead"
  <2>1. PICK p \in Projects : p = agent[a].project /\ job'.step = "unlink" /\ job'.project = p
    BY <1>2
  <2>2. a \in LeadsOf(p) /\ \A q : q # p => a \notin LeadsOf(q)
    BY <1>2, <2>1 DEF LeadsOf
  <2>3. LeadsOf(p)' = {}
    BY <1>1, <2>2
  <2>4. \A q \in Projects : q # p /\ Mutual(q) => Mutual(q)'
    BY <1>1, <2>2 DEF Mutual
  <2>5. QED BY <1>1, <2>1, <2>3, <2>4 DEF LinkInv
<1>3. CASE agent[a].kind # "lead"
  <2>1. \A q : a \notin LeadsOf(q)
    BY <1>3 DEF LeadsOf
  <2>2. \A q \in Projects : Mutual(q) => Mutual(q)'
    BY <1>1, <2>1 DEF Mutual
  <2>3. QED BY <1>1, <1>3, <2>2, SingleCommit
<1>4. QED
  BY <1>2, <1>3

LEMMA HandlerLink ==
    ASSUME TypeOK, StaffInv, LinkInv, Handler
    PROVE  LinkInv'
<1>0. project \in [Projects -> [status : {"absent", "open", "archived"},
                                lead : Agent \cup {None}, granted : SUBSET Projects]]
  BY DEF TypeOK
<1>1. CASE Link
  <2>1. PICK p \in Projects, n \in Agent :
           /\ job.step = "link" /\ p = job.project /\ n = job.lead
           /\ project' = [project EXCEPT ![p].lead = n] /\ cut' = cut \ {p} /\ job' = Idle
           /\ agent' = agent
    BY <1>1, JobFields DEF Link
  <2>2. /\ \A q \in Projects : project'[q].lead = IF q = p THEN n ELSE project[q].lead
        /\ \A q : LeadsOf(q)' = LeadsOf(q)
        /\ \A a \in Agent : a \in LeadsOf(p) <=> a = n
    BY <1>0, <2>1 DEF LeadsOf, LinkInv
  <2>3. PointerInv'
    <3>1. n \in LeadsOf(p)
      BY <2>2
    <3>2. agent[n].kind = "lead" /\ agent[n].project = p
      BY <3>1 DEF LeadsOf
    <3>3. QED BY <2>1, <2>2, <3>2 DEF LinkInv, PointerInv
  <2>4. Mutual(p)' /\ \A q \in Projects : q # p /\ Mutual(q) => Mutual(q)'
    BY <2>2 DEF Mutual
  <2>5. \A q \in Projects : q # p /\ q \notin cut => Mutual(q)
    BY <2>1 DEF LinkInv
  <2>6. job'.step = "idle"
    BY <2>1 DEF Idle
  <2>7. QED BY <2>1, <2>3, <2>4, <2>5, <2>6 DEF LinkInv
<1>2. CASE Unlink
  <2>1. PICK p \in Projects :
           /\ job.step = "unlink" /\ p = job.project
           /\ project' = [project EXCEPT ![p].lead = None] /\ cut' = cut \ {p}
           /\ job'.step \in {"idle", "retire"} /\ agent' = agent
    BY <1>2, JobFields DEF Unlink, Idle
  <2>2. /\ \A q \in Projects : project'[q].lead = IF q = p THEN None ELSE project[q].lead
        /\ \A q : LeadsOf(q)' = LeadsOf(q)
        /\ LeadsOf(p) = {}
    BY <1>0, <2>1 DEF LeadsOf, LinkInv
  <2>3. PointerInv'
    BY <2>1, <2>2 DEF LinkInv, PointerInv
  <2>4. Mutual(p)' /\ \A q \in Projects : q # p /\ Mutual(q) => Mutual(q)'
    BY <2>2, NoneIsNobody DEF Mutual
  <2>5. \A q \in Projects : q # p /\ q \notin cut => Mutual(q)
    BY <2>1 DEF LinkInv
  <2>6. QED BY <2>1, <2>3, <2>4, <2>5 DEF LinkInv
<1>3. CASE RetireProject
  <2>1. /\ job.step = "retire" /\ job' = Idle /\ UNCHANGED <<agent, cut>>
        /\ \A q \in Projects : project'[q].lead = project[q].lead
    BY <1>0, <1>3, JobFields DEF RetireProject
  <2>2. \A q : LeadsOf(q)' = LeadsOf(q)
    BY <2>1 DEF LeadsOf
  <2>3. PointerInv' /\ \A q \in Projects : Mutual(q) => Mutual(q)'
    BY <2>1, <2>2, SamePosts
  <2>4. job'.step = "idle"
    BY <2>1 DEF Idle
  <2>5. QED BY <2>1, <2>3, <2>4 DEF LinkInv
<1>4. CASE Apply
  <2>1. PICK from \in Projects, into \in Projects :
           /\ job.step = "apply" /\ from = job.from /\ into = job.into /\ from # into
           /\ \A q : q # from => LeadsOf(q)' = LeadsOf(q)
           /\ LeadsOf(from)' = {}
    BY <1>4, MergedStaff DEF Apply
  <2>2. job'.step = "outcome" /\ job'.from = from /\ cut' = cut \ {from}
    BY <1>4, <2>1, JobFields DEF Apply
  <2>3. \A q \in Projects : project'[q].lead = IF q = from THEN None ELSE project[q].lead
    <3>1. project' = [project EXCEPT ![into].granted = @ \cup project[from].granted,
                                     ![from].status = "archived", ![from].lead = None]
      BY <1>4, <2>1 DEF Apply
    <3>2. QED BY <1>0, <3>1
  <2>4. Mutual(from)' /\ \A q \in Projects : q # from /\ Mutual(q) => Mutual(q)'
    BY <2>1, <2>3, NoneIsNobody DEF Mutual
  <2>5. PointerInv'
    <3>1. ASSUME NEW q \in Projects, q # from, project[q].lead # None
          PROVE  LET a == project[q].lead IN
                 agent'[a].kind = "lead" /\ (agent'[a].status \in Working => agent'[a].project = q)
      <4>1. PICK a \in Agent : a = project[q].lead
        BY <3>1, PointerType
      <4>2. agent[a].kind = "lead" /\ (agent[a].status \in Working => agent[a].project = q)
        BY <3>1, <4>1 DEF LinkInv, PointerInv
      <4>3. a \notin LeadsOf(from)
        BY <3>1, <4>2 DEF LeadsOf
      <4>4. a \notin OrphanedSubs(from)
        BY <4>2, NoneIsNobody DEF OrphanedSubs, SubLeadsOf, LeadsOf, StaffInv
      <4>5. agent'[a] = agent[a]
        BY <1>4, <2>1, <4>3, <4>4, MergedStaff
      <4>6. QED BY <4>1, <4>2, <4>5
    <3>2. QED BY <2>3, <3>1 DEF PointerInv
  <2>6. /\ \A m \in Memories : memory'[m].project # from
        /\ from \notin routed'
    BY <1>4, <2>1 DEF Apply, Reanchored
  <2>7. \A q \in Projects \ cut : Mutual(q)
    BY <2>1 DEF LinkInv
  <2>8. QED BY <2>1, <2>2, <2>4, <2>5, <2>6, <2>7 DEF LinkInv
<1>5. CASE LogOutcome
  <2>1. job.step = "outcome" /\ job' = Idle /\ UNCHANGED <<agent, project, cut>>
    BY <1>5 DEF LogOutcome
  <2>2. \A q : LeadsOf(q)' = LeadsOf(q)
    BY <2>1 DEF LeadsOf
  <2>3. PointerInv' /\ \A q \in Projects : Mutual(q) => Mutual(q)'
    BY <2>1, <2>2, SamePosts
  <2>4. job'.step = "idle"
    BY <2>1 DEF Idle
  <2>5. QED BY <2>1, <2>3, <2>4 DEF LinkInv
<1>6. QED
  BY <1>1, <1>2, <1>3, <1>4, <1>5 DEF Handler

LEMMA LinkStep == TypeOK /\ StaffInv /\ LinkInv /\ [Next]_vars => LinkInv'
<1> SUFFICES ASSUME TypeOK, StaffInv, LinkInv, [Next]_vars PROVE LinkInv'
  OBVIOUS
<1>0. /\ project \in [Projects -> [status : {"absent", "open", "archived"},
                                   lead : Agent \cup {None}, granted : SUBSET Projects]]
      /\ agent \in [Agent -> {NoAgent} \cup Record]
  BY DEF TypeOK, Record
<1>1. ASSUME NEW p \in Projects,
             CreateProject(p) \/ Reopen(p) \/ RouteProject(p) \/ \E m \in Memories : WriteMemory(m)
      PROVE  LinkInv'
  <2>1. UNCHANGED <<agent, cut, job>> /\ job = Idle
    BY <1>1 DEF CreateProject, Reopen, RouteProject, WriteMemory, Serving
  <2>2. \A q \in Projects : project'[q].lead = project[q].lead
    <3>1. CASE CreateProject(p)
      BY <1>0, <3>1 DEF CreateProject
    <3>2. CASE Reopen(p)
      BY <1>0, <3>2 DEF Reopen
    <3>3. CASE RouteProject(p) \/ \E m \in Memories : WriteMemory(m)
      BY <3>3 DEF RouteProject, WriteMemory
    <3>4. QED BY <1>1, <3>1, <3>2, <3>3
  <2>3. \A q : LeadsOf(q)' = LeadsOf(q)
    BY <2>1 DEF LeadsOf
  <2>4. PointerInv' /\ \A q \in Projects : Mutual(q) => Mutual(q)'
    BY <2>1, <2>2, <2>3, SamePosts
  <2>5. QED BY <2>1, <2>4, SingleCommit
<1>2. ASSUME NEW a \in Agent, NEW from \in Working, NEW to \in Working, Transition(a, from, to)
      PROVE  LinkInv'
  <2>1. UNCHANGED <<project, cut, job>> /\ job = Idle
    BY <1>2 DEF Transition, Serving
  <2>2. \A b \in Agent : /\ agent'[b].kind = agent[b].kind
                         /\ agent'[b].project = agent[b].project
                         /\ agent'[b].status \in Working <=> agent[b].status \in Working
    <3>1. agent[a] \in Record /\ agent' = [agent EXCEPT ![a].status = to]
      BY <1>2, OnDuty DEF Transition, Working
    <3>2. QED BY <1>0, <1>2, <3>1 DEF Transition, Record
  <2>3. \A q : LeadsOf(q)' = LeadsOf(q)
    BY <2>2 DEF LeadsOf
  <2>4. PointerInv' /\ \A q \in Projects : Mutual(q) => Mutual(q)'
    BY <2>1, <2>2, <2>3, SamePosts, PointerType
  <2>5. QED BY <2>1, <2>4, SingleCommit
<1>3. ASSUME NEW a \in Agent, NEW override \in BOOLEAN, SpawnSubLead(a, override) PROVE LinkInv'
  <2> DEFINE r == [kind |-> "sub_lead", status |-> "active", parent |-> a,
                   project |-> agent[a].project]
  <2>0. agent[a].project \in Projects
    BY <1>3, OnDuty DEF SpawnSubLead, Record
  <2>1. r \in Record /\ r.kind = "sub_lead" /\ r.status = "active" /\ r.parent = a
        /\ r.project = agent[a].project /\ Insert(r)
    BY <1>3, <2>0 DEF Record, Working, SpawnSubLead
  <2> HIDE DEF r
  <2>2. /\ spawned + 1 \in Agent /\ agent'[spawned + 1] = r /\ agent[spawned + 1] = NoAgent
        /\ \A b \in Agent : b # spawned + 1 => agent'[b] = agent[b]
    BY <1>3, <2>0, <2>1, InsertStaff, NoneIsNobody DEF SpawnSubLead
  <2>3. UNCHANGED <<project, cut, job>> /\ job = Idle
    BY <1>3 DEF SpawnSubLead, Serving
  <2>4. \A b \in Agent : agent'[b] = agent[b] \/ (agent'[b].kind # "lead" /\ agent[b].kind # "lead")
    BY <2>1, <2>2 DEF NoAgent
  <2>5. \A q : LeadsOf(q)' = LeadsOf(q)
    BY <2>4 DEF LeadsOf
  <2>6. \A q \in Projects : project[q].lead # None => agent'[project[q].lead] = agent[project[q].lead]
    BY <2>4, PointerType DEF LinkInv, PointerInv
  <2>7. PointerInv' /\ \A q \in Projects : Mutual(q) => Mutual(q)'
    BY <2>3, <2>5, <2>6, SamePosts
  <2>8. QED BY <2>3, <2>7, SingleCommit
<1>4. ASSUME NEW a \in Agent, ArchiveLead(a) PROVE LinkInv'
  <2>1. agent[a].project \in Projects
    BY <1>4 DEF ArchiveLead, TypeOK, StaffInv, Working, NoAgent
  <2>2. agent[a].kind = "lead" =>
          job'.step = "unlink" /\ job'.project = agent[a].project
    BY <1>4, <2>1, NoneIsNobody DEF ArchiveLead
  <2>3. agent[a].kind # "lead" => job' = Idle
    BY <1>4 DEF ArchiveLead
  <2>4. QED BY <1>4, <2>1, <2>2, <2>3, ArchiveLink DEF ArchiveLead, Serving
<1>5. ASSUME NEW p \in Projects, ArchiveProject(p) PROVE LinkInv'
  <2>1. CASE project[p].lead # None /\ agent[project[p].lead].status \in Working
    <3>1. PICK a \in Agent : a = project[p].lead
      BY <2>1, PointerType
    <3>2. agent[a].kind = "lead" /\ agent[a].project = p
      BY <2>1, <3>1 DEF LinkInv, PointerInv
    <3>3. Retire(a) /\ job = Idle /\ UNCHANGED <<project, cut>>
          /\ job'.step = "unlink" /\ job'.project = agent[a].project
      BY <1>5, <2>1, <3>1 DEF ArchiveProject, Serving
    <3>4. QED BY <2>1, <3>1, <3>2, <3>3, ArchiveLink
  <2>2. CASE ~ (project[p].lead # None /\ agent[project[p].lead].status \in Working)
    <3>1. job = Idle /\ job'.step = "retire" /\ UNCHANGED <<agent, project, cut>>
      BY <1>5, <2>2 DEF ArchiveProject, Serving
    <3>2. job.step = "idle"
      BY <3>1 DEF Idle
    <3>3. \A q : LeadsOf(q)' = LeadsOf(q)
      BY <3>1 DEF LeadsOf
    <3>4. PointerInv' /\ \A q \in Projects : Mutual(q) => Mutual(q)'
      BY <3>1, <3>3, SamePosts
    <3>5. QED BY <3>1, <3>2, <3>4 DEF LinkInv
  <2>3. QED BY <2>1, <2>2
<1>6. ASSUME NEW from \in Projects, NEW into \in Projects, Merge(from, into) PROVE LinkInv'
  <2>1. job = Idle /\ UNCHANGED <<agent, project, cut>> /\ from # into
    BY <1>6 DEF Merge, Serving
  <2>2. /\ job.step = "idle" /\ \A q : LeadsOf(q)' = LeadsOf(q)
        /\ OrphanedSubs(from)' = OrphanedSubs(from)
    BY <2>1 DEF Idle, LeadsOf, OrphanedSubs, SubLeadsOf
  <2>3. PointerInv' /\ \A q \in Projects : Mutual(q) => Mutual(q)'
    BY <2>1, <2>2, SamePosts
  <2>4. CASE job' = Idle
    BY <2>1, <2>3, <2>4, SingleCommit
  <2>5. CASE /\ job' = [step |-> "apply", from |-> from, into |-> into]
             /\ OrphanedSubs(from) # {} => LeadsOf(into) # {}
    <3>1. job'.step = "apply" /\ job'.from = from /\ job'.into = into
      BY <2>5
    <3>2. QED BY <2>1, <2>2, <2>3, <2>5, <3>1 DEF LinkInv
  <2>6. QED BY <1>6, <2>4, <2>5 DEF Merge
<1>7. CASE Crash
  <2>1. job' = Idle /\ UNCHANGED <<agent, project>>
        /\ cut' = IF job.step \in {"link", "unlink"} THEN cut \cup {job.project} ELSE cut
    BY <1>7 DEF Crash
  <2>2. job'.step = "idle" /\ \A q : LeadsOf(q)' = LeadsOf(q)
    BY <2>1 DEF Idle, LeadsOf
  <2>3. PointerInv' /\ \A q \in Projects : Mutual(q) => Mutual(q)'
    BY <2>1, <2>2 DEF LinkInv, PointerInv, Mutual
  <2>4. \A q \in Projects \ cut' : Mutual(q)
    BY <2>1 DEF LinkInv
  <2>5. QED BY <2>2, <2>3, <2>4 DEF LinkInv
<1>8. CASE UNCHANGED vars
  <2>1. UNCHANGED <<agent, project, cut, job, memory, routed>>
    BY <1>8 DEF vars
  <2>2. /\ \A q : LeadsOf(q)' = LeadsOf(q) /\ OrphanedSubs(q)' = OrphanedSubs(q)
        /\ \A q : Mutual(q)' = Mutual(q) /\ PointerInv' = PointerInv
    BY <2>1 DEF LeadsOf, OrphanedSubs, SubLeadsOf, Mutual, PointerInv
  <2>3. QED BY <2>1, <2>2 DEF LinkInv
<1>9. QED
  BY <1>1, <1>2, <1>3, <1>4, <1>5, <1>6, <1>7, <1>8, SpawnLink, HandlerLink, LeadsAssumption
  DEF Next, ProjectRequest, LeadRequest, Working

-------------------------------------------------------------------------------
(* The tree of agents: what Depth, Chain and the walk of VisibleFrom compute *)

Less == {p \in Nat \X Nat : p[1] < p[2]}

LEMMA LeastNumber ==
    ASSUME NEW T, T \subseteq Nat, T # {}
    PROVE  \E x \in T : \A y \in T : x <= y
<1>1. IsWellFoundedOn(Less, Nat)
  BY NatLessThanWellFounded DEF OpToRel, Less
<1>2. PICK x \in T : \A y \in T : ~ (<<y, x>> \in Less)
  BY <1>1, WFMin
<1>3. ASSUME NEW y \in T PROVE x <= y
  <2>1. x \in Nat /\ y \in Nat /\ <<y, x>> \notin Less
    BY <1>2
  <2>2. y < x => <<y, x>> \in Less
    BY <2>1 DEF Less
  <2>3. QED BY <2>1, <2>2
<1>4. QED
  BY <1>3

\* Every agent's parent is at the top or older than the agent itself: a merge
\* hands sub-leads to a younger lead, but to a lead only.
Tree(ag) ==
    \A b \in Agent : ag[b].parent # None =>
        /\ ag[b].parent \in Agent
        /\ ag[ag[b].parent].parent = None \/ ag[b].parent < b

Height(ag, a) == IF ag[a].parent = None THEN 0 ELSE a

LEMMA HeightFalls ==
    ASSUME NEW ag, Tree(ag)
    PROVE  /\ MaxAgents \in Nat
           /\ \A a \in Agent : Height(ag, a) \in 0..MaxAgents
           /\ \A a \in Agent : ag[a].parent # None =>
                 ag[a].parent \in Agent /\ Height(ag, ag[a].parent) < Height(ag, a)
  BY LeadsAssumption DEF Tree, Height

\* What holds of the agents at the top, and of every agent of whose parent it
\* holds, holds of all.
LEMMA TreeInduction ==
    ASSUME NEW ag, Tree(ag), NEW S,
           \A a \in Agent : (ag[a].parent = None \/ ag[a].parent \in S) => a \in S
    PROVE  Agent \subseteq S
<1> SUFFICES ASSUME ~ (Agent \subseteq S) PROVE FALSE
  OBVIOUS
<1> DEFINE T == {Height(ag, a) : a \in Agent \ S}
<1>1. T \subseteq Nat /\ T # {}
  BY HeightFalls
<1>2. PICK x \in T : \A y \in T : x <= y
  <2> HIDE DEF T
  <2>1. QED BY <1>1, LeastNumber
<1>3. PICK a \in Agent \ S : x = Height(ag, a)
  BY <1>2
<1>4. ag[a].parent # None /\ ag[a].parent \notin S
  BY <1>3
<1>5. ag[a].parent \in Agent \ S /\ Height(ag, ag[a].parent) < Height(ag, a)
  BY <1>3, <1>4, HeightFalls
<1>6. Height(ag, ag[a].parent) \in T
  BY <1>5
<1>7. Height(ag, a) <= Height(ag, ag[a].parent)
  BY <1>2, <1>3, <1>6
<1>8. Height(ag, a) \in Nat /\ Height(ag, ag[a].parent) \in Nat
  BY <1>3, <1>5, HeightFalls
<1>9. QED
  BY <1>5, <1>7, <1>8

\* A function may be defined by recursion along the parents.
Follows(f, ag, base, step) ==
    \A a \in Agent : f[a] = IF ag[a].parent = None THEN base[a] ELSE step[a][f[ag[a].parent]]

LEMMA TreeRecursion ==
    ASSUME NEW ag, Tree(ag), NEW V, NEW base \in [Agent -> V], NEW step \in [Agent -> [V -> V]]
    PROVE  \E f \in [Agent -> V] : Follows(f, ag, base, step)
<1> DEFINE Body(f, a) == IF ag[a].parent = None THEN base[a] ELSE step[a][f[ag[a].parent]]
           Good(f, n) == \A a \in Agent : Height(ag, a) < n => f[a] = Body(f, a)
           T == {n \in Nat : ~ \E f \in [Agent -> V] : Good(f, n)}
<1>1. \A f \in [Agent -> V], a \in Agent : Body(f, a) \in V
  BY HeightFalls
<1>2. 0 \notin T
  <2>1. base \in [Agent -> V] /\ Good(base, 0)
    BY HeightFalls
  <2>2. QED BY <2>1
<1>3. ASSUME NEW n \in Nat, n \notin T PROVE n + 1 \notin T
  <2>1. PICK f \in [Agent -> V] : Good(f, n)
    BY <1>3
  <2> DEFINE g == [a \in Agent |-> Body(f, a)]
  <2>2. g \in [Agent -> V] /\ \A a \in Agent : g[a] = Body(f, a)
    BY <1>1
  <2>3. ASSUME NEW a \in Agent, Height(ag, a) < n + 1 PROVE g[a] = Body(g, a)
    <3>1. CASE ag[a].parent = None
      BY <2>2, <3>1
    <3>2. CASE ag[a].parent # None
      <4>1. PICK p \in Agent : p = ag[a].parent /\ Height(ag, p) < Height(ag, a)
        BY <3>2, HeightFalls
      <4>2. Height(ag, p) \in Nat /\ Height(ag, a) \in Nat
        BY HeightFalls
      <4>3. Height(ag, p) < n
        BY <2>3, <4>1, <4>2
      <4>4. f[p] = Body(f, p)
        BY <2>1, <4>3
      <4>5. g[p] = f[p]
        BY <2>2, <4>4
      <4>6. Body(g, a) = Body(f, a)
        BY <3>2, <4>1, <4>5
      <4>7. QED BY <2>2, <4>6
    <3>3. QED BY <3>1, <3>2
  <2> HIDE DEF g, Body
  <2>4. Good(g, n + 1)
    BY <2>3
  <2>5. QED BY <2>2, <2>4
<1>4. T = {}
  <2> SUFFICES ASSUME T # {} PROVE FALSE
    OBVIOUS
  <2>1. T \subseteq Nat
    OBVIOUS
  <2> HIDE DEF T
  <2>2. PICK m \in T : \A y \in T : m <= y
    BY <2>1, LeastNumber
  <2>3. m \in Nat /\ m # 0
    BY <1>2, <2>1, <2>2
  <2>4. m - 1 \in Nat /\ m - 1 \notin T
    BY <2>2, <2>3
  <2>5. (m - 1) + 1 \notin T
    BY <1>3, <2>4
  <2>6. (m - 1) + 1 = m
    BY <2>3
  <2>7. QED BY <2>2, <2>5, <2>6
<1>5. PICK f \in [Agent -> V] : Good(f, MaxAgents + 1)
  <2>1. MaxAgents + 1 \in Nat
    BY HeightFalls
  <2>2. QED BY <1>4, <2>1
<1>6. \A a \in Agent : Height(ag, a) < MaxAgents + 1
  BY HeightFalls
<1>7. \A a \in Agent : f[a] = Body(f, a)
  BY <1>5, <1>6
<1>8. QED
  BY <1>7 DEF Follows

\* _depth_under.
DepthOf(ag) == CHOOSE f : f = [a \in Agent |-> IF ag[a].parent = None THEN 1
                                              ELSE 1 + f[ag[a].parent]]

LEMMA DepthOfIs ==
    ASSUME NEW ag, Tree(ag)
    PROVE  \A a \in Agent :
              /\ DepthOf(ag)[a] \in Nat \ {0}
              /\ ag[a].parent = None => DepthOf(ag)[a] = 1
              /\ ag[a].parent # None => DepthOf(ag)[a] = 1 + DepthOf(ag)[ag[a].parent]
              /\ DepthOf(ag)[a] <= 1 + Height(ag, a)
<1> DEFINE Eq(f) == f = [a \in Agent |-> IF ag[a].parent = None THEN 1
                                        ELSE 1 + f[ag[a].parent]]
           base == [a \in Agent |-> 1]
           step == [a \in Agent |-> [v \in Nat |-> 1 + v]]
<1>1. PICK f \in [Agent -> Nat] : Follows(f, ag, base, step)
  <2>1. base \in [Agent -> Nat] /\ step \in [Agent -> [Nat -> Nat]]
    OBVIOUS
  <2> HIDE DEF base, step
  <2>2. QED BY <2>1, TreeRecursion
<1>2. \A a \in Agent : f[a] = IF ag[a].parent = None THEN 1 ELSE 1 + f[ag[a].parent]
  BY <1>1, HeightFalls DEF Follows
<1>3. Eq(f)
  BY <1>2
<1>4. Eq(DepthOf(ag))
  <2> HIDE DEF Eq
  <2>1. Eq(CHOOSE g : Eq(g))
    BY <1>3
  <2>2. DepthOf(ag) = CHOOSE g : Eq(g)
    BY DEF DepthOf, Eq
  <2>3. QED BY <2>1, <2>2
<1> DEFINE D == DepthOf(ag)
<1>5. \A a \in Agent : D[a] = IF ag[a].parent = None THEN 1 ELSE 1 + D[ag[a].parent]
  BY <1>4
<1> HIDE DEF D, Eq, base, step
<1> DEFINE S == {a \in Agent : D[a] \in Nat \ {0} /\ D[a] <= 1 + Height(ag, a)}
<1>6. ASSUME NEW a \in Agent, ag[a].parent = None \/ ag[a].parent \in S PROVE a \in S
  <2>1. CASE ag[a].parent = None
    BY <1>5, <2>1 DEF Height
  <2>2. CASE ag[a].parent # None
    <3>1. PICK p \in Agent : p = ag[a].parent /\ Height(ag, p) < Height(ag, a)
      BY <2>2, HeightFalls
    <3>2. D[p] \in Nat \ {0} /\ D[p] <= 1 + Height(ag, p) /\ D[a] = 1 + D[p]
      BY <1>5, <1>6, <2>2, <3>1
    <3>3. Height(ag, p) \in Nat /\ Height(ag, a) \in Nat
      BY HeightFalls
    <3>4. QED BY <3>1, <3>2, <3>3
  <2>3. QED BY <2>1, <2>2
<1>7. Agent \subseteq S
  <2> HIDE DEF S
  <2>1. QED BY <1>6, TreeInduction
<1>8. QED
  BY <1>5, <1>7 DEF D

\* build_attribution_chain.
ChainOf(ag) == CHOOSE f : f = [a \in Agent |->
                  {a} \cup (IF ag[a].parent = None THEN {} ELSE f[ag[a].parent])]

LEMMA ChainOfIs ==
    ASSUME NEW ag, Tree(ag)
    PROVE  \A a \in Agent :
              /\ a \in ChainOf(ag)[a] /\ ChainOf(ag)[a] \subseteq Agent
              /\ ag[a].parent = None => ChainOf(ag)[a] = {a}
              /\ ag[a].parent # None => ChainOf(ag)[a] = {a} \cup ChainOf(ag)[ag[a].parent]
<1> DEFINE Eq(f) == f = [a \in Agent |->
                  {a} \cup (IF ag[a].parent = None THEN {} ELSE f[ag[a].parent])]
           base == [a \in Agent |-> {a}]
           step == [a \in Agent |-> [v \in SUBSET Agent |-> {a} \cup v]]
<1>1. PICK f \in [Agent -> SUBSET Agent] : Follows(f, ag, base, step)
  <2>1. base \in [Agent -> SUBSET Agent]
    OBVIOUS
  <2>2. step \in [Agent -> [SUBSET Agent -> SUBSET Agent]]
    OBVIOUS
  <2> HIDE DEF base, step
  <2>3. QED BY <2>1, <2>2, TreeRecursion
<1>2. ASSUME NEW a \in Agent
      PROVE  f[a] = {a} \cup (IF ag[a].parent = None THEN {} ELSE f[ag[a].parent])
  <2>1. CASE ag[a].parent = None
    BY <1>1, <2>1 DEF Follows
  <2>2. CASE ag[a].parent # None
    <3>1. f[ag[a].parent] \in SUBSET Agent
      BY <1>1, <2>2, HeightFalls
    <3>2. QED BY <1>1, <2>2, <3>1 DEF Follows
  <2>3. QED BY <2>1, <2>2
<1>3. Eq(f)
  BY <1>2
<1>4. Eq(ChainOf(ag))
  <2> HIDE DEF Eq
  <2>1. Eq(CHOOSE g : Eq(g))
    BY <1>3
  <2>2. ChainOf(ag) = CHOOSE g : Eq(g)
    BY DEF ChainOf, Eq
  <2>3. QED BY <2>1, <2>2
<1> DEFINE C == ChainOf(ag)
<1>5. \A a \in Agent : C[a] = {a} \cup (IF ag[a].parent = None THEN {} ELSE C[ag[a].parent])
  BY <1>4
<1> HIDE DEF C, Eq, base, step
<1> DEFINE S == {a \in Agent : C[a] \subseteq Agent}
<1>6. ASSUME NEW a \in Agent, ag[a].parent = None \/ ag[a].parent \in S PROVE a \in S
  BY <1>5, <1>6
<1>7. Agent \subseteq S
  <2> HIDE DEF S
  <2>1. QED BY <1>6, TreeInduction
<1>8. QED
  BY <1>5, <1>7 DEF C

\* Along a chain the depth falls.
LEMMA ChainRises ==
    ASSUME NEW ag, Tree(ag), NEW b \in Agent, NEW a \in ChainOf(ag)[b]
    PROVE  /\ a \in Agent
           /\ a # b => /\ DepthOf(ag)[a] < DepthOf(ag)[b]
                       /\ ag[b].parent # None /\ a \in ChainOf(ag)[ag[b].parent]
<1> DEFINE D == DepthOf(ag)
           C == ChainOf(ag)
           S == {c \in Agent : \A x \in C[c] : x \in Agent /\ (x # c => D[x] < D[c])}
<1>1. \A c \in Agent : /\ D[c] \in Nat
                       /\ ag[c].parent # None => D[c] = 1 + D[ag[c].parent]
  BY DepthOfIs
<1>2. \A c \in Agent : /\ C[c] \subseteq Agent
                       /\ ag[c].parent = None => C[c] = {c}
                       /\ ag[c].parent # None => C[c] = {c} \cup C[ag[c].parent]
  BY ChainOfIs
<1> HIDE DEF D, C
<1>3. ASSUME NEW c \in Agent, ag[c].parent = None \/ ag[c].parent \in S PROVE c \in S
  <2>1. CASE ag[c].parent = None
    BY <1>2, <2>1
  <2>2. CASE ag[c].parent # None
    <3>1. PICK p \in Agent : p = ag[c].parent /\ p \in S
      BY <1>3, <2>2
    <3>2. D[c] = 1 + D[p] /\ D[c] \in Nat /\ D[p] \in Nat /\ C[c] = {c} \cup C[p]
      BY <1>1, <1>2, <2>2, <3>1
    <3>3. ASSUME NEW x \in C[c], x # c PROVE x \in Agent /\ D[x] < D[c]
      <4>1. x \in C[p] /\ x \in Agent
        BY <1>2, <3>2, <3>3
      <4>2. x # p => D[x] < D[p]
        BY <3>1, <4>1
      <4>3. D[x] \in Nat
        BY <1>1, <4>1
      <4>4. QED BY <3>2, <4>1, <4>2, <4>3
    <3>4. QED BY <1>2, <3>3
  <2>3. QED BY <2>1, <2>2
<1>4. b \in S
  <2> HIDE DEF S
  <2>1. QED BY <1>3, TreeInduction
<1>5. QED
  BY <1>2, <1>4 DEF C, D

\* The breadth-first walk down finds, at its n-th round, the agents up to n levels
\* below on whose chains it began.
Walk(a) == CHOOSE f : f = [n \in Nat |->
              IF n = 0 THEN {a} ELSE f[n - 1] \cup ChildrenOf(f[n - 1])]

LEMMA WalkIs ==
    ASSUME Tree(agent)
    PROVE  \A a \in Agent : \A n \in Nat :
              Walk(a)[n] = {b \in Agent : /\ a \in ChainOf(agent)[b]
                                             /\ DepthOf(agent)[b] <= DepthOf(agent)[a] + n}
<1> DEFINE D == DepthOf(agent)
           C == ChainOf(agent)
           G(a, n) == {b \in Agent : a \in C[b] /\ D[b] <= D[a] + n}
<1>1. \A c \in Agent : /\ D[c] \in Nat
                       /\ agent[c].parent # None =>
                             agent[c].parent \in Agent /\ D[c] = 1 + D[agent[c].parent]
  BY DepthOfIs DEF Tree
<1>2. \A c \in Agent : /\ C[c] \subseteq Agent /\ c \in C[c]
                       /\ agent[c].parent # None => C[c] = {c} \cup C[agent[c].parent]
  BY ChainOfIs
<1>3. \A b \in Agent : \A a \in C[b] : a # b =>
         D[a] < D[b] /\ agent[b].parent # None /\ a \in C[agent[b].parent]
  BY ChainRises
<1> HIDE DEF D, C
<1>4. ASSUME NEW a \in Agent PROVE G(a, 0) = {a}
  <2>1. a \in G(a, 0)
    BY <1>1, <1>2
  <2>2. ASSUME NEW b \in G(a, 0) PROVE b = a
    <3>1. D[a] \in Nat /\ D[b] \in Nat /\ D[b] <= D[a]
      BY <1>1
    <3>2. QED BY <1>3, <3>1
  <2>3. QED BY <2>1, <2>2
<1>5. ASSUME NEW a \in Agent, NEW n \in Nat \ {0}
      PROVE  G(a, n) = G(a, n - 1) \cup ChildrenOf(G(a, n - 1))
  <2>0. n - 1 \in Nat /\ D[a] \in Nat
    BY <1>1
  <2>1. ASSUME NEW b \in G(a, n) PROVE b \in G(a, n - 1) \cup ChildrenOf(G(a, n - 1))
    <3>1. CASE b = a
      BY <1>1, <1>2, <2>0, <3>1
    <3>2. CASE b # a
      <4>1. PICK p \in Agent : p = agent[b].parent /\ a \in C[p] /\ D[b] = 1 + D[p]
        BY <1>1, <1>3, <3>2
      <4>2. D[p] \in Nat /\ D[b] <= D[a] + n
        BY <1>1
      <4>3. D[p] <= D[a] + (n - 1)
        BY <2>0, <4>1, <4>2
      <4>4. p \in G(a, n - 1)
        BY <4>1, <4>3
      <4>5. QED BY <4>1, <4>4 DEF ChildrenOf
    <3>3. QED BY <3>1, <3>2
  <2>2. ASSUME NEW b \in G(a, n - 1) PROVE b \in G(a, n)
    <3>1. D[b] \in Nat /\ D[b] <= D[a] + (n - 1)
      BY <1>1
    <3>2. D[b] <= D[a] + n
      BY <2>0, <3>1
    <3>3. QED BY <3>2
  <2>3. ASSUME NEW b \in ChildrenOf(G(a, n - 1)) PROVE b \in G(a, n)
    <3>1. PICK p \in G(a, n - 1) : b \in Agent /\ agent[b].parent = p
      BY DEF ChildrenOf
    <3>2. p \in Agent /\ p # None
      BY NoneIsNobody
    <3>3. D[b] = 1 + D[p] /\ C[b] = {b} \cup C[p] /\ D[p] \in Nat
      BY <1>1, <1>2, <3>1, <3>2
    <3>4. D[b] <= D[a] + n
      BY <2>0, <3>1, <3>3
    <3>5. QED BY <3>1, <3>3, <3>4
  <2>4. QED BY <2>1, <2>2, <2>3
<1> HIDE DEF G
<1> SUFFICES ASSUME NEW a \in Agent PROVE \A n \in Nat : Walk(a)[n] = G(a, n)
  BY DEF G, C, D
<1> DEFINE Eq(f) == f = [n \in Nat |->
                           IF n = 0 THEN {a} ELSE f[n - 1] \cup ChildrenOf(f[n - 1])]
           g == [n \in Nat |-> G(a, n)]
<1>6. ASSUME NEW n \in Nat
      PROVE  g[n] = IF n = 0 THEN {a} ELSE g[n - 1] \cup ChildrenOf(g[n - 1])
  <2>1. CASE n = 0
    BY <1>4, <2>1
  <2>2. CASE n # 0
    <3>1. n - 1 \in Nat /\ n \in Nat \ {0}
      BY <2>2
    <3>2. g[n] = G(a, n) /\ g[n - 1] = G(a, n - 1)
      BY <3>1
    <3> HIDE DEF g
    <3>3. QED BY <1>5, <2>2, <3>1, <3>2
  <2>3. QED BY <2>1, <2>2
<1>7. Eq(g)
  BY <1>6
<1>8. Eq(Walk(a))
  <2> HIDE DEF Eq
  <2>1. Eq(CHOOSE f : Eq(f))
    BY <1>7
  <2>2. Walk(a) = CHOOSE f : Eq(f)
    BY DEF Walk, Eq
  <2>3. QED BY <2>1, <2>2
<1>9. \A n \in Nat :
         Walk(a)[n] = IF n = 0 THEN {a} ELSE Walk(a)[n - 1] \cup ChildrenOf(Walk(a)[n - 1])
  BY <1>8
<1> HIDE DEF Eq, g
<1> SUFFICES ASSUME NEW k \in Nat, Walk(a)[k] # G(a, k) PROVE FALSE
  OBVIOUS
<1> DEFINE T == {n \in Nat : Walk(a)[n] # G(a, n)}
<1>10. T \subseteq Nat /\ k \in T
  OBVIOUS
<1>11. PICK m \in T : \A y \in T : m <= y
  <2> HIDE DEF T
  <2>1. QED BY <1>10, LeastNumber
<1>12. m \in Nat /\ Walk(a)[m] # G(a, m)
  BY <1>11
<1>13. CASE m = 0
  BY <1>4, <1>9, <1>12, <1>13
<1>14. CASE m # 0
  <2>1. m - 1 \in Nat /\ m \in Nat \ {0} /\ ~ (m <= m - 1)
    BY <1>12, <1>14
  <2>2. Walk(a)[m - 1] = G(a, m - 1)
    BY <1>11, <2>1
  <2>3. QED BY <1>5, <1>9, <1>12, <1>14, <2>1, <2>2
<1>15. QED BY <1>13, <1>14

\* The walk down and the walk up agree.
LEMMA WalksAgree ==
    ASSUME Tree(agent)
    PROVE  Chain = ChainOf(agent) /\ KinReadOnly
<1>1. Chain = ChainOf(agent)
  BY DEF Chain, ChainOf
<1>2. ASSUME NEW a \in Agent, NEW b \in Agent PROVE b \in VisibleFrom(a) <=> a \in Chain[b]
  <2>1. /\ DepthOf(agent)[a] \in Nat \ {0} /\ DepthOf(agent)[b] \in Nat
        /\ DepthOf(agent)[b] <= 1 + Height(agent, b)
        /\ Height(agent, b) \in 0..MaxAgents /\ MaxAgents \in Nat
    BY DepthOfIs, HeightFalls
  <2>2. DepthOf(agent)[b] <= DepthOf(agent)[a] + MaxAgents
    BY <2>1
  <2>3. Walk(a)[MaxAgents] = {c \in Agent : /\ a \in ChainOf(agent)[c]
                                 /\ DepthOf(agent)[c] <= DepthOf(agent)[a] + MaxAgents}
    BY <2>1, WalkIs
  <2>4. VisibleFrom(a) = Walk(a)[MaxAgents]
    BY DEF VisibleFrom, Walk
  <2>5. QED BY <1>1, <2>2, <2>3, <2>4
<1>3. QED
  BY <1>1, <1>2 DEF KinReadOnly

\* Two staffs in which every agent of K keeps its parent, or moves from one agent
\* at the top to another, have the same depths.
LEMMA SameDepths ==
    ASSUME NEW ag, NEW ag2, Tree(ag), Tree(ag2), NEW K,
           \A a \in Agent \cap K :
              \/ /\ ag2[a].parent = ag[a].parent
                 /\ ag[a].parent = None \/ ag[a].parent \in K
              \/ /\ ag[a].parent # None /\ ag[ag[a].parent].parent = None
                 /\ ag2[a].parent # None /\ ag2[ag2[a].parent].parent = None
    PROVE  \A a \in Agent \cap K : DepthOf(ag2)[a] = DepthOf(ag)[a]
<1> DEFINE D == DepthOf(ag)
           D2 == DepthOf(ag2)
           S == {a \in Agent : a \in K => D2[a] = D[a]}
<1>1. \A a \in Agent : /\ ag[a].parent = None => D[a] = 1
                       /\ ag[a].parent # None => D[a] = 1 + D[ag[a].parent]
  BY DepthOfIs
<1>2. \A a \in Agent : /\ ag2[a].parent = None => D2[a] = 1
                       /\ ag2[a].parent # None => D2[a] = 1 + D2[ag2[a].parent]
  BY DepthOfIs
<1>3. \A a \in Agent : /\ ag[a].parent # None => ag[a].parent \in Agent
                       /\ ag2[a].parent # None => ag2[a].parent \in Agent
  BY DEF Tree
<1> HIDE DEF D, D2
<1>4. ASSUME NEW a \in Agent, ag[a].parent = None \/ ag[a].parent \in S PROVE a \in S
  <2> SUFFICES ASSUME a \in K PROVE D2[a] = D[a]
    OBVIOUS
  <2>1. CASE ag2[a].parent = ag[a].parent /\ ag[a].parent = None
    BY <1>1, <1>2, <2>1
  <2>2. CASE ag2[a].parent = ag[a].parent /\ ag[a].parent # None /\ ag[a].parent \in K
    BY <1>1, <1>2, <1>4, <2>2
  <2>3. CASE /\ ag[a].parent # None /\ ag[ag[a].parent].parent = None
             /\ ag2[a].parent # None /\ ag2[ag2[a].parent].parent = None
    <3>1. D[ag[a].parent] = 1 /\ D2[ag2[a].parent] = 1
      BY <1>1, <1>2, <1>3, <2>3
    <3>2. QED BY <1>1, <1>2, <2>3, <3>1
  <2>4. QED BY <2>1, <2>2, <2>3
<1>5. Agent \subseteq S
  <2> HIDE DEF S
  <2>1. QED BY <1>4, TreeInduction
<1>6. QED
  BY <1>5 DEF D, D2

\* Nobody reports to an agent that has not been spawned.
TreeInv ==
    /\ Tree(agent)
    /\ \A b \in Agent : agent[b].parent # None => agent[b].parent <= spawned

\* What a step may do to the agents: nothing to their places, or one more of them,
\* or the moves of a merge.
Unmoved == /\ \A b \in Agent : agent'[b].parent = agent[b].parent
           /\ spawned' = spawned /\ deep' = deep
Joined(n, a) ==
    /\ n = spawned + 1 /\ spawned' = n
    /\ agent[n] = NoAgent /\ agent'[n].parent = a
    /\ \A b \in Agent : b # n => agent'[b] = agent[b]
    /\ a = None \/ (a \in Agent /\ a <= spawned)
    /\ deep' = IF a # None /\ Deep(a) THEN deep \cup {n} ELSE deep
Moves == Unmoved \/ (\E n \in Agent, a \in Agent \cup {None} : Joined(n, a)) \/ Apply

LEMMA StatusUnmoved ==
    ASSUME TypeOK, NEW a \in Agent, NEW s, agent' = [agent EXCEPT ![a].status = s],
           spawned' = spawned, deep' = deep,
           agent[a].status \in Working
    PROVE  Unmoved
<1>1. agent \in [Agent -> {NoAgent} \cup Record] /\ agent[a] \in Record
  BY OnDuty DEF TypeOK, Record, Working
<1>2. \A b \in Agent : agent'[b].parent = agent[b].parent
  BY <1>1 DEF Record
<1>3. QED
  BY <1>2 DEF Unmoved

LEMMA StepMoves ==
    ASSUME TypeOK, StaffInv, LinkInv, [Next]_vars
    PROVE  Moves
<1>1. ASSUME NEW p \in Projects, SpawnLead(p) PROVE Moves
  <2> DEFINE r == [kind |-> "lead", status |-> "active", parent |-> None, project |-> p]
  <2>1. /\ r \in Record /\ r.kind = "lead" /\ r.status = "active" /\ r.parent = None
        /\ r.project = p /\ Insert(r) /\ LeadsOf(p) = {} /\ UNCHANGED <<memory, deep>>
    BY <1>1 DEF Record, Working, SpawnLead
  <2> HIDE DEF r
  <2>2. /\ spawned + 1 \in Agent /\ agent'[spawned + 1] = r /\ agent[spawned + 1] = NoAgent
        /\ \A b \in Agent : b # spawned + 1 => agent'[b] = agent[b]
    BY <2>1, InsertStaff, NoneIsNobody
  <2>3. spawned' = spawned + 1
    BY <2>1 DEF Insert
  <2>4. Joined(spawned + 1, None)
    BY <2>1, <2>2, <2>3 DEF Joined
  <2>5. QED BY <2>2, <2>4 DEF Moves
<1>2. ASSUME NEW a \in Agent, NEW override \in BOOLEAN, SpawnSubLead(a, override) PROVE Moves
  <2> DEFINE r == [kind |-> "sub_lead", status |-> "active", parent |-> a,
                   project |-> agent[a].project]
  <2>0. agent[a].project \in Projects
    BY <1>2, OnDuty DEF SpawnSubLead, Record
  <2>1. /\ r \in Record /\ r.kind = "sub_lead" /\ r.status = "active" /\ r.parent = a
        /\ r.project = agent[a].project /\ Insert(r)
    BY <1>2, <2>0 DEF Record, Working, SpawnSubLead
  <2> HIDE DEF r
  <2>2. /\ spawned + 1 \in Agent /\ agent'[spawned + 1] = r /\ agent[spawned + 1] = NoAgent
        /\ \A b \in Agent : b # spawned + 1 => agent'[b] = agent[b]
    BY <1>2, <2>0, <2>1, InsertStaff, NoneIsNobody DEF SpawnSubLead
  <2>3. spawned' = spawned + 1 /\ spawned \in Nat
    BY <2>1, LeadsAssumption DEF Insert, TypeOK
  <2>4. a <= spawned
    BY <1>2, <2>3 DEF SpawnSubLead, StaffInv, NoAgent
  <2>5. deep' = IF Deep(a) THEN deep \cup {spawned + 1} ELSE deep
    BY <1>2 DEF SpawnSubLead
  <2>6. Joined(spawned + 1, a)
    BY <2>1, <2>2, <2>3, <2>4, <2>5, NoneIsNobody DEF Joined
  <2>7. QED BY <2>2, <2>6 DEF Moves
<1>3. ASSUME NEW a \in Agent, NEW from \in Working, NEW to \in Working, Transition(a, from, to)
      PROVE  Moves
  BY <1>3, StatusUnmoved DEF Transition, Moves
<1>4. ASSUME NEW a \in Agent, ArchiveLead(a) PROVE Moves
  BY <1>4, StatusUnmoved DEF ArchiveLead, Retire, Moves
<1>5. ASSUME NEW p \in Projects, ArchiveProject(p) PROVE Moves
  <2>1. CASE project[p].lead # None /\ agent[project[p].lead].status \in Working
    <3>1. project[p].lead \in Agent
      BY <2>1 DEF TypeOK
    <3>2. QED BY <1>5, <2>1, <3>1, StatusUnmoved DEF ArchiveProject, Retire, Moves
  <2>2. CASE ~ (project[p].lead # None /\ agent[project[p].lead].status \in Working)
    BY <1>5, <2>2 DEF ArchiveProject, Moves, Unmoved
  <2>3. QED BY <2>1, <2>2
<1>6. ASSUME UNCHANGED <<agent, spawned, deep>> PROVE Moves
  BY <1>6 DEF Moves, Unmoved
<1>7. ASSUME NEW p \in Projects,
             \/ CreateProject(p) \/ Reopen(p) \/ RouteProject(p)
             \/ \E into \in Projects : Merge(p, into)
      PROVE  UNCHANGED <<agent, spawned, deep>>
  BY <1>7 DEF CreateProject, Reopen, RouteProject, Merge
<1>8. ASSUME NEW m \in Memories, WriteMemory(m) PROVE UNCHANGED <<agent, spawned, deep>>
  BY <1>8 DEF WriteMemory
<1>9. CASE Link \/ Unlink \/ RetireProject \/ LogOutcome \/ Crash \/ UNCHANGED vars
  <2>1. UNCHANGED <<agent, spawned, deep>>
    BY <1>9 DEF Link, Unlink, RetireProject, LogOutcome, Crash, vars
  <2>2. QED BY <2>1, <1>6
<1>10. CASE Apply
  BY <1>10 DEF Moves
<1>11. QED
  BY <1>1, <1>2, <1>3, <1>4, <1>5, <1>6, <1>7, <1>8, <1>9, <1>10
  DEF Next, ProjectRequest, LeadRequest, Handler, Working

\* A merge takes nobody's parent away, and hands sub-leads from a lead to a lead.
LEMMA MergeMoves ==
    ASSUME TypeOK, StaffInv, LinkInv, Apply, NEW a \in Agent
    PROVE  \/ agent'[a].parent = agent[a].parent
           \/ /\ agent[a].parent \in Agent /\ agent[agent[a].parent].parent = None
              /\ agent'[a].parent \in Agent /\ agent'[agent'[a].parent].parent = None
              /\ agent'[a].parent <= spawned
              /\ agent[a].parent \in LeadsOf(job.from) /\ agent'[a].parent \in LeadsOf(job.into)
              /\ a \in OrphanedSubs(job.from)
<1>0. job.from \in Projects /\ job.into \in Projects /\ job.from # job.into
  BY MergedStaff
<1> PICK from \in Projects, into \in Projects : 
            from = job.from /\ into = job.into /\ from # into
  BY <1>0
<1>1. CASE a \in LeadsOf(from)
  <2>1. agent[a] \in Record
    BY <1>1, OnDuty DEF LeadsOf, Working
  <2>2. agent'[a] = [agent[a] EXCEPT !.status = "archived", !.project = None]
    BY <1>1, MergedStaff
  <2>3. QED BY <2>1, <2>2 DEF Record
<1>2. CASE a \notin LeadsOf(from) /\ a \in OrphanedSubs(from)
  <2>1. PICK b \in LeadsOf(from) : a \in SubLeadsOf(b)
    BY <1>2 DEF OrphanedSubs
  <2>2. /\ agent[a].parent = b /\ b \in Agent /\ agent[a].status \in Working
        /\ agent[b].kind = "lead"
    BY <2>1 DEF SubLeadsOf, LeadsOf
  <2>3. agent[a] \in Record /\ agent[b].parent = None
    BY <2>2, OnDuty DEF StaffInv, Working
  <2>4. PICK h \in Agent : h = Heir(into) /\ h \in LeadsOf(into)
    BY <1>2, MergedStaff DEF LeadsOf
  <2>5. agent'[a].parent = h
    BY <1>2, <2>3, <2>4, MergedStaff DEF Record
  <2>6. /\ agent[h].kind = "lead" /\ agent[h].parent = None /\ agent[h] # NoAgent
        /\ h \notin LeadsOf(from)
    BY <2>4 DEF LeadsOf, StaffInv, NoAgent, Working
  <2>7. h \notin OrphanedSubs(from)
    BY <2>6, NoneIsNobody DEF OrphanedSubs, SubLeadsOf, LeadsOf
  <2>8. agent'[h] = agent[h]
    BY <2>6, <2>7, MergedStaff
  <2>9. h <= spawned
    BY <2>6, LeadsAssumption DEF StaffInv, TypeOK
  <2>10. QED BY <1>2, <2>1, <2>2, <2>3, <2>4, <2>5, <2>6, <2>8, <2>9
<1>3. CASE a \notin LeadsOf(from) /\ a \notin OrphanedSubs(from)
  BY <1>3, MergedStaff
<1>4. QED
  BY <1>1, <1>2, <1>3

LEMMA TreeInit == Init => TreeInv
<1> SUFFICES ASSUME Init PROVE TreeInv
  OBVIOUS
<1>1. \A b \in Agent : agent[b].parent = None
  BY DEF Init, NoAgent
<1>2. QED
  BY <1>1 DEF TreeInv, Tree

LEMMA TreeStep ==
    ASSUME TypeOK, StaffInv, LinkInv, TreeInv, Moves
    PROVE  TreeInv'
<1>0. \A b \in Agent : agent[b].parent # None =>
         /\ agent[b].parent \in Agent /\ agent[b].parent <= spawned
         /\ agent[agent[b].parent].parent = None \/ agent[b].parent < b
  BY DEF TreeInv, Tree
<1>1. CASE Unmoved
  BY <1>0, <1>1 DEF Unmoved, TreeInv, Tree
<1>2. ASSUME NEW n \in Agent, NEW a \in Agent \cup {None}, Joined(n, a) PROVE TreeInv'
  <2>0. /\ n = spawned + 1 /\ spawned' = n /\ spawned \in Nat
        /\ agent[n] = NoAgent /\ agent'[n].parent = a
        /\ \A b \in Agent : b # n => agent'[b] = agent[b]
        /\ a # None => a \in Agent /\ a <= spawned
    BY <1>2, LeadsAssumption DEF Joined, TypeOK
  <2>1. ASSUME NEW b \in Agent, agent'[b].parent # None
        PROVE  /\ agent'[b].parent \in Agent /\ agent'[b].parent <= spawned'
               /\ agent'[agent'[b].parent].parent = None \/ agent'[b].parent < b
    <3>1. CASE b = n
      BY <2>0, <2>1, <3>1
    <3>2. CASE b # n
      <4>1. PICK p \in Agent : p = agent[b].parent /\ p <= spawned /\ agent'[b].parent = p
        BY <1>0, <2>0, <2>1, <3>2
      <4>2. p # n /\ p <= spawned'
        BY <2>0, <4>1
      <4>3. agent'[p] = agent[p]
        BY <2>0, <4>2
      <4>4. QED BY <1>0, <2>0, <2>1, <3>2, <4>1, <4>2, <4>3
    <3>3. QED BY <3>1, <3>2
  <2>2. QED BY <2>1 DEF TreeInv, Tree
<1>3. CASE Apply
  <2>0. spawned' = spawned
    BY <1>3 DEF Apply
  <2>1. ASSUME NEW b \in Agent, agent'[b].parent # None
        PROVE  /\ agent'[b].parent \in Agent /\ agent'[b].parent <= spawned'
               /\ agent'[agent'[b].parent].parent = None \/ agent'[b].parent < b
    <3>1. CASE agent'[b].parent = agent[b].parent
      <4>1. PICK p \in Agent : p = agent[b].parent
        BY <1>0, <2>1, <3>1
      <4>2. agent[p].parent = None => agent'[p].parent = None
        BY <1>3, MergeMoves, NoneIsNobody
      <4>3. QED BY <1>0, <2>0, <2>1, <3>1, <4>1, <4>2
    <3>2. CASE agent'[b].parent # agent[b].parent
      BY <1>3, <2>0, <3>2, MergeMoves
    <3>3. QED BY <3>1, <3>2
  <2>2. QED BY <2>1 DEF TreeInv, Tree
<1>4. QED
  BY <1>1, <1>2, <1>3 DEF Moves

\* Only a spawn under somebody deep puts an agent deeper than the cap.
LEMMA DepthStep ==
    ASSUME TypeOK, StaffInv, LinkInv, TreeInv, DepthCapped, Moves, TreeInv'
    PROVE  DepthCapped'
<1>0. Depth = DepthOf(agent) /\ Depth' = DepthOf(agent')
  BY DEF Depth, DepthOf
<1>1. Tree(agent) /\ Tree(agent')
  BY DEF TreeInv, Tree
<1>2. CASE Unmoved \/ Apply
  <2>1. deep' = deep
    BY <1>2 DEF Unmoved, Apply
  <2>2. \A a \in Agent :
           \/ /\ agent'[a].parent = agent[a].parent
              /\ agent[a].parent = None \/ agent[a].parent \in Agent
           \/ /\ agent[a].parent # None /\ agent[agent[a].parent].parent = None
              /\ agent'[a].parent # None /\ agent'[agent'[a].parent].parent = None
    BY <1>1, <1>2, MergeMoves, NoneIsNobody DEF Unmoved, Tree
  <2>3. \A a \in Agent : DepthOf(agent')[a] = DepthOf(agent)[a]
    <3>1. \A a \in Agent \cap Agent : DepthOf(agent')[a] = DepthOf(agent)[a]
      BY <1>1, <2>2, SameDepths
    <3>2. QED BY <3>1
  <2>4. QED BY <1>0, <2>1, <2>3 DEF DepthCapped
<1>3. ASSUME NEW n \in Agent, NEW b \in Agent \cup {None}, Joined(n, b) PROVE DepthCapped'
  <2>0. /\ n = spawned + 1 /\ spawned' = n /\ spawned \in Nat
        /\ agent[n] = NoAgent /\ agent'[n].parent = b
        /\ \A a \in Agent : a # n => agent'[a] = agent[a]
        /\ b # None => b \in Agent /\ b <= spawned
        /\ deep' = IF b # None /\ Deep(b) THEN deep \cup {n} ELSE deep
    BY <1>3, LeadsAssumption DEF Joined, TypeOK
  <2> DEFINE K == Agent \ {n}
  <2>1. \A a \in Agent \cap K :
           /\ agent'[a].parent = agent[a].parent
           /\ agent[a].parent = None \/ agent[a].parent \in K
    BY <2>0 DEF TreeInv, Tree
  <2>2. \A a \in Agent \cap K : DepthOf(agent')[a] = DepthOf(agent)[a]
    <3> HIDE DEF K
    <3>1. QED BY <1>1, <2>1, SameDepths
  <2>3. \A a \in Agent : a # n => DepthOf(agent')[a] = DepthOf(agent)[a]
    BY <2>2
  <2>4. DepthOf(agent')[n] > DepthCap => n \in deep'
    <3>1. CASE b = None
      <4>1. DepthOf(agent')[n] = 1
        BY <1>1, <2>0, <3>1, DepthOfIs
      <4>2. QED BY <4>1, LeadsAssumption
    <3>2. CASE b # None
      <4>1. b \in Agent /\ b # n
        BY <2>0, <3>2
      <4>2. DepthOf(agent')[n] = 1 + DepthOf(agent)[b] /\ DepthOf(agent)[b] \in Nat
        BY <1>1, <2>0, <2>3, <3>2, <4>1, DepthOfIs
      <4>3. DepthOf(agent')[n] > DepthCap => Deep(b)
        BY <1>0, <4>2 DEF Deep
      <4>4. QED BY <2>0, <3>2, <4>3
    <3>3. QED BY <3>1, <3>2
  <2>5. deep \subseteq deep'
    BY <2>0
  <2>6. QED BY <1>0, <2>3, <2>4, <2>5 DEF DepthCapped
<1>4. QED
  BY <1>2, <1>3 DEF Moves

LEMMA DepthInit == Init => DepthCapped
<1> SUFFICES ASSUME Init, NEW a \in Agent PROVE ~ (Depth[a] > DepthCap)
  BY DEF DepthCapped
<1>1. Tree(agent) /\ agent[a].parent = None
  BY TreeInit DEF TreeInv, Init, NoAgent
<1>2. DepthOf(agent)[a] = 1
  BY <1>1, DepthOfIs
<1>3. Depth = DepthOf(agent)
  BY DEF Depth, DepthOf
<1>4. QED
  BY <1>2, <1>3, LeadsAssumption

-------------------------------------------------------------------------------
(* The conversation: steps of the leads, of the memory and of thread.send *)

SoundStaff == TypeOK /\ StaffInv /\ LinkInv /\ TreeInv

LEMMA StaffIsSound == SoundStaff /\ [Next]_vars => SoundStaff'
<1>1. TypeOK /\ StaffInv /\ LinkInv /\ [Next]_vars => (TypeOK /\ StaffInv /\ LinkInv)'
  BY TypeStep, StaffStep, LinkStep DEF LinkInv
<1>2. SoundStaff /\ [Next]_vars => TreeInv'
  BY StepMoves, TreeStep DEF SoundStaff
<1>3. QED
  BY <1>1, <1>2 DEF SoundStaff

\* A row is inserted for nobody or for an agent on duty, and deleted whole.
LEMMA MemoryWrites ==
    ASSUME SoundStaff, MemoryRequest
    PROVE  /\ leadsUnchanged /\ job = Idle
           /\ \/ memory' = memory
              \/ \E m \in Memories, p \in Projects \cup {None}, a \in Agent \cup {None} :
                    /\ memory' = [memory EXCEPT ![m] = [project |-> p, author |-> a]]
                    /\ a # None => agent[a].project # None
<1> PICK m \in Memories :
       \/ Remember(m) \/ AddMemory(m) \/ DeleteMemory(m)
       \/ \E a \in Agent : RecordMemoryWrite(m, a)
       \/ \E sc \in Scopes : UpdateScope(m, sc)
  BY DEF MemoryRequest
<1> DEFINE Rewrites == \E p \in Projects \cup {None}, a \in Agent \cup {None} :
                          /\ memory' = [memory EXCEPT ![m] = [project |-> p, author |-> a]]
                          /\ a # None => agent[a].project # None
<1>1. CASE Remember(m)
  <2>1. memory' = [memory EXCEPT ![m] = [project |-> None, author |-> None]]
    BY <1>1 DEF Remember, InsertRow
  <2>2. Rewrites
    BY <2>1
  <2>3. QED BY <1>1, <2>2 DEF Remember, Serving
<1>2. CASE AddMemory(m)
  <2>1. PICK p \in Projects \cup {None} :
           memory' = [memory EXCEPT ![m] = [project |-> p, author |-> None]]
    BY <1>2 DEF AddMemory, InsertRow
  <2>2. Rewrites
    BY <2>1
  <2>3. QED BY <1>2, <2>2 DEF AddMemory, Serving
<1>3. CASE DeleteMemory(m)
  <2>1. memory' = [memory EXCEPT ![m] = [project |-> None, author |-> None]]
    BY <1>3 DEF DeleteMemory
  <2>2. Rewrites
    BY <2>1
  <2>3. QED BY <1>3, <2>2 DEF DeleteMemory, Serving
<1>4. ASSUME NEW a \in Agent, RecordMemoryWrite(m, a)
      PROVE  Rewrites /\ leadsUnchanged /\ job = Idle
  <2>1. agent[a].status = "active" /\ agent[a].project # None
    BY <1>4 DEF RecordMemoryWrite, SoundStaff, StaffInv, Working
  <2>2. agent[a].project \in Projects
    BY <2>1, OnDuty DEF SoundStaff, Record
  <2>3. PICK owner \in {a, None} :
           memory' = [memory EXCEPT ![m] = [project |-> agent[a].project, author |-> owner]]
    BY <1>4 DEF RecordMemoryWrite, InsertRow
  <2>4. Rewrites
    BY <2>1, <2>2, <2>3
  <2>5. QED BY <1>4, <2>4 DEF RecordMemoryWrite, Serving
<1>5. ASSUME NEW sc \in Scopes, UpdateScope(m, sc)
      PROVE  memory' = memory /\ leadsUnchanged /\ job = Idle
  BY <1>5 DEF UpdateScope, Serving
<1> HIDE DEF Rewrites
<1>6. Rewrites => \E n \in Memories, p \in Projects \cup {None}, a \in Agent \cup {None} :
                    /\ memory' = [memory EXCEPT ![n] = [project |-> p, author |-> a]]
                    /\ a # None => agent[a].project # None
  BY DEF Rewrites
<1>7. QED
  BY <1>1, <1>2, <1>3, <1>4, <1>5, <1>6

LEMMA MemoryKeepsStaff ==
    ASSUME SoundStaff, MemoryRequest
    PROVE  SoundStaff'
<1>1. /\ UNCHANGED <<project, agent, spawned, routed, job, log, crashes, cut, deep>>
      /\ job.step = "idle"
  BY MemoryWrites DEF leadsUnchanged, Idle
<1>2. memory \in [Memories -> [project : Projects \cup {None}, author : Agent \cup {None}]]
  BY DEF SoundStaff, TypeOK
<1>3. /\ memory' \in [Memories -> [project : Projects \cup {None}, author : Agent \cup {None}]]
      /\ \A m \in Memories :
            memory'[m].author # None => agent[memory'[m].author].project # None
  <2>1. CASE memory' = memory
    BY <1>2, <2>1 DEF SoundStaff, StaffInv
  <2>2. ASSUME NEW n \in Memories, NEW p \in Projects \cup {None}, NEW a \in Agent \cup {None},
               memory' = [memory EXCEPT ![n] = [project |-> p, author |-> a]],
               a # None => agent[a].project # None
        PROVE  <1>3!1 /\ <1>3!2
    <3>1. \A m \in Memories : memory'[m].author = IF m = n THEN a ELSE memory[m].author
      BY <1>2, <2>2
    <3>2. memory' \in [Memories -> [project : Projects \cup {None}, author : Agent \cup {None}]]
      BY <1>2, <2>2
    <3>3. QED BY <2>2, <3>1, <3>2 DEF SoundStaff, StaffInv
  <2>3. QED BY <2>1, <2>2, MemoryWrites
<1>4. TypeOK'
  BY <1>1, <1>3 DEF SoundStaff, TypeOK
<1>5. StaffInv'
  BY <1>1, <1>3 DEF SoundStaff, StaffInv, LeadsOf
<1>6. LinkInv'
  BY <1>1 DEF SoundStaff, LinkInv, PointerInv, Mutual, LeadsOf
<1>7. TreeInv'
  BY <1>1 DEF SoundStaff, TreeInv
<1>8. QED
  BY <1>4, <1>5, <1>6, <1>7 DEF SoundStaff

\* A message is served between requests; it has an addressee and a project, and at
\* most spawns a sub-lead.
LEMMA SendServes ==
    ASSUME Send
    PROVE  /\ Serving /\ paused' = paused
           /\ \E message \in Messages :
                 LET to == Addressed(message[1], message[2]) IN
                 \E tag \in Tags(to) : \/ Exchange(tag, to) /\ UNCHANGED vars
                                       \/ Act(tag, to)
  BY DEF Send

LEMMA SendIsNext == Send => [Next]_vars
<1> SUFFICES ASSUME Send PROVE [Next]_vars
  OBVIOUS
<1>1. PICK tag, to : (Exchange(tag, to) /\ UNCHANGED vars) \/ Act(tag, to)
  BY SendServes
<1>2. UNCHANGED vars \/ \E a \in Agent : SpawnSubLead(a, FALSE)
  BY <1>1 DEF Act
<1>3. QED
  BY <1>2 DEF Next, LeadRequest

LEMMA ConversationMoves == [ConversationNext]_allVars => [Next]_vars \/ MemoryRequest
<1> SUFFICES ASSUME [ConversationNext]_allVars PROVE [Next]_vars \/ MemoryRequest
  OBVIOUS
<1>1. CASE Send
  BY <1>1, SendIsNext
<1>2. CASE LeadRequest \/ Handler
  BY <1>2 DEF Next
<1>3. ASSUME NEW p \in Projects,
             CreateProject(p) \/ ArchiveProject(p) \/ \E into \in Projects : Merge(p, into)
      PROVE  Next
  BY <1>3 DEF Next, ProjectRequest
<1>4. ASSUME NEW p \in Projects, PauseProject(p) \/ ResumeProject(p) PROVE [Next]_vars
  <2>1. UNCHANGED vars \/ Reopen(p)
    BY <1>4 DEF PauseProject, ResumeProject
  <2>2. QED BY <2>1 DEF Next, ProjectRequest
<1>5. CASE UNCHANGED allVars
  BY <1>5 DEF allVars
<1>6. QED
  BY <1>1, <1>2, <1>3, <1>4, <1>5 DEF ConversationNext

LEMMA ConversationSound == ConversationSpec => []SoundStaff
<1>1. ConversationInit => SoundStaff
  BY TypeInit, StaffInit, LinkInit, TreeInit DEF ConversationInit, SoundStaff
<1>2. SoundStaff /\ [ConversationNext]_allVars => SoundStaff'
  BY ConversationMoves, StaffIsSound, MemoryKeepsStaff
<1>3. QED
  BY <1>1, <1>2, PTL DEF ConversationSpec

-------------------------------------------------------------------------------
(* Turns *)

LEMMA AddresseeOnDuty ==
    ASSUME NEW message \in Messages, Addressed(message[1], message[2]) # None
    PROVE  Addressed(message[1], message[2]) \in Addressable
<1>1. PICK named, mentioned :
         /\ message = <<named, mentioned>>
         /\ named \subseteq Addressable /\ mentioned \subseteq Addressable
  BY DEF Messages
<1> DEFINE matches == IF named # {} THEN named ELSE mentioned
<1>2. matches \subseteq Addressable
  BY <1>1
<1>3. Addressed(named, mentioned)
        = IF Cardinality(matches) = 1 THEN CHOOSE a \in matches : TRUE ELSE None
  BY DEF Addressed
<1>4. Cardinality(matches) = 1 => matches # {}
  BY FS_EmptySet
<1> HIDE DEF matches
<1>5. QED
  BY <1>1, <1>2, <1>3, <1>4

LEMMA JudgedIsCandidate ==
    ASSUME NEW opinion, Candidates # {}, Judged(opinion) # None
    PROVE  Judged(opinion) \in Candidates
  BY DEF Judged

\* The project of a turn is on duty, or the addressee's own, or the foreground's
\* when nothing is on duty.
LEMMA TagsAreLive ==
    ASSUME SoundStaff, NEW message \in Messages, NEW to, to = Addressed(message[1], message[2]),
           NEW tag \in Tags(to)
    PROVE  /\ to \in Agent \cup {None} /\ tag \in Projects \cup {None}
           /\ to # None => agent[to].status = "active" /\ agent[to].project = tag
           /\ to = None /\ tag # None => Active(tag) \/ \A p \in Projects : ~Active(p)
<1>1. PICK foreground \in Projects \cup {None}, opinion \in Opinions :
         tag = Tag(to, foreground, opinion)
  BY DEF Tags
<1>2. CASE to # None
  <2>1. to \in Agent /\ agent[to].status = "active"
    BY <1>2, AddresseeOnDuty DEF Addressable
  <2>2. agent[to].project \in Projects
    BY <2>1, OnDuty DEF SoundStaff, StaffInv, Working, Record
  <2>3. tag = agent[to].project
    BY <1>1, <1>2 DEF Tag
  <2>4. QED BY <1>2, <2>1, <2>2, <2>3
<1>3. CASE to = None
  <2>1. Candidates = {} => \A p \in Projects : ~Active(p)
    BY DEF Candidates
  <2>2. \A p \in Candidates : p \in Projects /\ Active(p)
    BY DEF Candidates
  <2>3. CASE Candidates = {}
    BY <1>1, <1>3, <2>1, <2>3 DEF Tag
  <2>4. CASE Candidates # {}
    BY <1>1, <1>3, <2>2, <2>4, JudgedIsCandidate DEF Tag
  <2>5. QED BY <2>3, <2>4
<1>4. QED
  BY <1>2, <1>3

\* What is left of a relayed reply, whatever the lead said.
Relays(t, tag, to) ==
    /\ t.tag = tag /\ t.to = to /\ t.status = "completed"
    /\ t.lead \in Level /\ t.brain = t.lead
    /\ t.notices \subseteq {"info_flow gate", "drawer"}
    /\ ("info_flow gate" \in t.notices) <=> (t.brain = "low")

LEMMA RelayLevels ==
    ASSUME NEW tag, NEW to, NEW reply \in Replies, NEW t,
           t = Relayed(tag, to, reply)
    PROVE  Relays(t, tag, to)
<1> DEFINE report == Audit(ReportedVsTruth(reply, NoFacts), NoScore, FALSE)
           relay == Audit(RelayedVsSource(reply, Wrapped(reply)), NoScore, FALSE)
           drift == ReportedVsTruth(reply, NoFacts)
<1>1. \A words \in {{}, Words} : Missing(words, words) = 0 /\ Missing(words, NoFacts) = 0
  <2>1. Missing({}, {}) = 0 /\ Missing({}, NoFacts) = 0
    BY DEF Missing
  <2>2. Missing(Words, Words) = 0
    <3>1. CASE Words = {}
      BY <2>1, <3>1
    <3>2. CASE Words # {}
      <4>1. Cardinality(Words \ Words) = 0
        BY FS_EmptySet
      <4>2. Cardinality(Words) \in Nat /\ Cardinality(Words) # 0
        BY <3>2, WordsAssumption, FS_CardinalityType, FS_EmptySet
      <4>3. (100 * 0) \div Cardinality(Words) = 0
        BY <4>2
      <4>4. QED BY <3>2, <4>1, <4>3 DEF Missing
    <3>3. QED BY <3>1, <3>2
  <2>3. QED BY <2>1, <2>2 DEF NoFacts
<1>2. /\ reply.words \in {{}, Words} /\ reply.blank \in BOOLEAN /\ reply.questions \in {0, 3}
      /\ reply.hedge \in Hedge
      /\ Wrapped(reply).words = reply.words /\ Wrapped(reply).questions = reply.questions
      /\ (Wrapped(reply).hedge # "no") <=> (reply.hedge # "no")
  <2>1. reply \in [blank : BOOLEAN, words : {{}, Words}, hedge : Hedge, questions : {0, 3}]
    <3>1. PICK blank \in BOOLEAN, words \in {{}, Words}, hedge \in Hedge, questions \in {0, 3} :
             reply = [blank |-> blank, words |-> words, hedge |-> hedge, questions |-> questions]
      BY Zenon DEF Replies, Hedge
    <3>2. QED BY <3>1
  <2>2. Wrapped(reply) = [reply EXCEPT !.blank = FALSE,
                             !.hedge = IF reply.hedge = "leading" THEN "inside" ELSE reply.hedge]
    BY <2>1 DEF Wrapped
  <2>3. QED BY <2>1, <2>2
<1>3. RelayedVsSource(reply, Wrapped(reply)) = 0
  <2>1. Hedged(Wrapped(reply)) <=> Hedged(reply)
    BY <1>2 DEF Hedged
  <2>2. Missing(reply.words, Wrapped(reply).words) = 0
    BY <1>1, <1>2
  <2>3. QED BY <2>1, <2>2 DEF RelayedVsSource, Larger
<1>4. drift \in {0, 55, 100}
  BY <1>1, <1>2 DEF ReportedVsTruth
<1>5. relay.score = 0 /\ relay.confidence = "high"
  BY <1>3 DEF Audit, NoScore, Larger, EscalateAt
<1>6. report.score = drift /\ report.confidence # "low"
  BY <1>4 DEF Audit, NoScore, Larger, EscalateAt
<1>7. /\ t.tag = tag /\ t.to = to /\ t.status = "completed"
      /\ t.lead = LevelFor(report.score) /\ t.brain = Combined(report, relay)
      /\ t.notices \subseteq {"info_flow gate", "drawer"}
      /\ "info_flow gate" \in t.notices <=> RaisesGate(report) \/ RaisesGate(relay)
  BY DEF Relayed
<1> HIDE DEF report, relay, drift
<1>8. ~ RaisesGate(relay) /\ LevelFor(relay.score) = "high"
  BY <1>5 DEF RaisesGate, LevelFor, GateAt, EscalateAt
<1>9. RaisesGate(report) <=> drift = 100
  BY <1>4, <1>6 DEF RaisesGate, GateAt
<1>10. LevelFor(report.score) = IF drift = 0 THEN "high" ELSE IF drift = 55 THEN "medium" ELSE "low"
  BY <1>4, <1>6 DEF LevelFor, GateAt
<1>11. Combined(report, relay) = LevelFor(report.score)
  <2>1. Rank("high") = 0 /\ Rank("medium") = 1 /\ Rank("low") = 2
    BY DEF Rank
  <2>2. ~ (Rank(LevelFor(relay.score)) > Rank(LevelFor(report.score)))
    BY <1>4, <1>8, <1>10, <2>1
  <2>3. QED BY <2>2 DEF Combined
<1>12. t.lead \in Level /\ t.brain = t.lead /\ (t.brain = "low" <=> drift = 100)
  <2>1. t.lead = LevelFor(report.score) /\ t.brain = t.lead
    BY <1>7, <1>11
  <2>2. CASE drift = 0
    BY <1>10, <2>1, <2>2 DEF Level
  <2>3. CASE drift = 55
    BY <1>10, <2>1, <2>3 DEF Level
  <2>4. CASE drift = 100
    BY <1>10, <2>1, <2>4 DEF Level
  <2>5. QED BY <1>4, <2>2, <2>3, <2>4
<1>13. "info_flow gate" \in t.notices <=> drift = 100
  BY <1>7, <1>8, <1>9
<1>14. ("info_flow gate" \in t.notices) <=> (t.brain = "low")
  BY <1>12, <1>13
<1>15. QED
  BY <1>7, <1>12, <1>14 DEF Relays

\* What is said of the exchange that has just ended.
TurnInv == MemoryTypeOK /\ DelegationTypeOK /\ TagIsLive /\ BrainNoSurer

LEMMA NoTurnSaysNothing ==
    ASSUME turn = NoTurn
    PROVE  turn \in Turn /\ TagIsLive /\ BrainNoSurer
  BY DEF NoTurn, Turn, TagIsLive, BrainNoSurer

LEMMA TurnInit == ConversationInit => TurnInv
  BY NoTurnSaysNothing
  DEF ConversationInit, MemoryInit, DelegationInit, TurnInv, MemoryTypeOK, DelegationTypeOK

LEMMA ScopeTyped ==
    ASSUME MemoryTypeOK, MemoryRequest
    PROVE  MemoryTypeOK'
<1> PICK m \in Memories :
       \/ Remember(m) \/ AddMemory(m) \/ DeleteMemory(m)
       \/ \E a \in Agent : RecordMemoryWrite(m, a)
       \/ \E sc \in Scopes : UpdateScope(m, sc)
  BY DEF MemoryRequest
<1>1. \E sc \in Scopes \cup {None} : scope' = [scope EXCEPT ![m] = sc]
  BY DEF Remember, AddMemory, DeleteMemory, RecordMemoryWrite, UpdateScope, InsertRow, Scopes
<1>2. QED
  BY <1>1 DEF MemoryTypeOK

LEMMA SendTurn ==
    ASSUME SoundStaff, TurnInv, Send
    PROVE  DelegationTypeOK' /\ TagIsLive' /\ BrainNoSurer'
<1> PICK message \in Messages :
       LET addressee == Addressed(message[1], message[2]) IN
       \E tag \in Tags(addressee) : \/ Exchange(tag, addressee) /\ UNCHANGED vars
                                   \/ Act(tag, addressee)
  BY SendServes
<1> PICK to : to = Addressed(message[1], message[2])
  OBVIOUS
<1> PICK tag \in Tags(to) : (Exchange(tag, to) /\ UNCHANGED vars) \/ Act(tag, to)
  OBVIOUS
<1>0. /\ to \in Agent \cup {None} /\ tag \in Projects \cup {None}
      /\ to # None => agent[to].status = "active" /\ agent[to].project = tag
      /\ to = None /\ tag # None => Active(tag) \/ \A p \in Projects : ~Active(p)
  BY TagsAreLive
<1>1. /\ paused' = paused /\ project' = project
      /\ to # None => agent'[to] = agent[to]
  <2>1. CASE UNCHANGED vars
    BY <2>1, SendServes DEF vars
  <2>2. CASE Act(tag, to)
    <3>1. PICK a \in Agent : SpawnSubLead(a, FALSE)
      BY <2>2 DEF Act
    <3>2. PICK r : project' = project /\ Insert(r)
      BY <3>1 DEF SpawnSubLead
    <3>3. agent' = [agent EXCEPT ![spawned + 1] = r] /\ spawned < MaxAgents
      BY <3>2 DEF Insert
    <3>4. spawned + 1 \in Agent /\ spawned + 1 > spawned
      BY <3>3, LeadsAssumption DEF SoundStaff, TypeOK
    <3>5. agent[spawned + 1] = NoAgent
      BY <3>4 DEF SoundStaff, StaffInv
    <3>6. to # None => to # spawned + 1
      BY <1>0, <3>5 DEF NoAgent
    <3>7. to # None => agent'[to] = agent[to]
      BY <1>0, <3>3, <3>6 DEF SoundStaff, TypeOK
    <3>8. QED BY <3>2, <3>7, SendServes
  <2>3. QED BY <2>1, <2>2
<1> DEFINE Fits == /\ turn'.tag = tag /\ turn'.to = to
                   /\ turn' \in Turn
                   /\ turn'.lead # None =>
                         /\ turn'.brain = turn'.lead
                         /\ ("info_flow gate" \in turn'.notices) <=> (turn'.brain = "low")
<1>2. Fits
  <2>1. CASE turn' = Answered(tag, to) \/ turn' = Failed(tag, to)
    <3>1. NoTurn \in Turn /\ NoTurn.lead = None
      BY DEF NoTurn, Turn
    <3>2. QED BY <1>0, <2>1, <3>1 DEF Answered, Failed, Turn, NoTurn
  <2>2. ASSUME NEW reply \in Replies, turn' = Relayed(tag, to, reply) PROVE Fits
    <3> PICK t : t = turn'
      OBVIOUS
    <3>0. t = Relayed(tag, to, reply)
      BY <2>2
    <3>1. Relays(t, tag, to)
      BY <3>0, RelayLevels
    <3>2. t = [tag |-> t.tag, to |-> t.to, status |-> t.status,
               lead |-> t.lead, brain |-> t.brain, notices |-> t.notices]
      BY <2>2 DEF Relayed
    <3>3. t \in Turn
      BY <1>0, <3>1, <3>2 DEF Turn, Relays
    <3>4. QED BY <3>1, <3>3 DEF Relays
  <2>3. QED BY <2>1, <2>2 DEF Exchange, Act
<1>3. DelegationTypeOK'
  BY <1>1, <1>2 DEF TurnInv, DelegationTypeOK
<1>4. \A p \in Projects : Active(p)' = Active(p)
  BY <1>1 DEF Active
<1>5. TagIsLive'
  BY <1>0, <1>1, <1>2, <1>4 DEF TagIsLive
<1>6. BrainNoSurer'
  BY <1>2 DEF BrainNoSurer
<1>7. QED
  BY <1>3, <1>5, <1>6

LEMMA TurnStep == SoundStaff /\ TurnInv /\ [ConversationNext]_allVars => TurnInv'
<1> SUFFICES ASSUME SoundStaff, TurnInv, [ConversationNext]_allVars PROVE TurnInv'
  OBVIOUS
<1>1. CASE Send /\ UNCHANGED scope
  BY <1>1, SendTurn DEF TurnInv, MemoryTypeOK
<1>2. CASE turn = NoTurn /\ MemoryRequest /\ UNCHANGED conversationVars
  <2>1. turn' = NoTurn /\ paused' = paused
    BY <1>2 DEF conversationVars
  <2>2. (turn \in Turn)' /\ TagIsLive' /\ BrainNoSurer'
    BY <2>1 DEF NoTurn, Turn, TagIsLive, BrainNoSurer
  <2>3. MemoryTypeOK'
    BY <1>2, ScopeTyped DEF TurnInv
  <2>4. QED BY <2>1, <2>2, <2>3 DEF TurnInv, DelegationTypeOK
<1>3. CASE turn' = NoTurn /\ scope' = scope /\ paused' \subseteq Projects
  <2>1. (turn \in Turn)' /\ TagIsLive' /\ BrainNoSurer'
    BY <1>3 DEF NoTurn, Turn, TagIsLive, BrainNoSurer
  <2>2. QED BY <1>3, <2>1 DEF TurnInv, DelegationTypeOK, MemoryTypeOK
<1>4. CASE UNCHANGED allVars
  <2>1. UNCHANGED <<project, agent, scope, paused, turn>>
    BY <1>4 DEF allVars, vars, conversationVars
  <2>2. \A p \in Projects : Active(p)' = Active(p)
    BY <2>1 DEF Active
  <2>3. TagIsLive' /\ BrainNoSurer'
    <3>0. turn.tag \in Projects \cup {None} /\ TagIsLive
      BY DEF TurnInv, DelegationTypeOK, Turn
    <3>1. TagIsLive'
      BY <2>1, <2>2, <3>0 DEF TagIsLive
    <3>2. BrainNoSurer'
      BY <2>1 DEF TurnInv, BrainNoSurer
    <3>3. QED BY <3>1, <3>2
  <2>4. QED BY <2>1, <2>3 DEF TurnInv, MemoryTypeOK, DelegationTypeOK
<1>5. ASSUME NEW p \in Projects, PauseProject(p) \/ ResumeProject(p) PROVE paused' \subseteq Projects
  BY <1>5 DEF PauseProject, ResumeProject, TurnInv, DelegationTypeOK
<1>6. paused \subseteq Projects
  BY DEF TurnInv, DelegationTypeOK
<1>7. QED
  BY <1>1, <1>2, <1>3, <1>4, <1>5, <1>6 DEF ConversationNext

LEMMA TurnsSound == ConversationSpec => []TurnInv
  BY TurnInit, TurnStep, ConversationSound, PTL DEF ConversationSpec

-------------------------------------------------------------------------------
(* Readers and merges *)

\* A request that goes from its plan to its outcome applies the merge.
LEMMA ApplyMerges ==
    ASSUME SoundStaff, [ConversationNext]_allVars, job.step = "apply", job'.step = "outcome"
    PROVE  Apply /\ scope' = scope
<1>1. job # Idle /\ ~ UNCHANGED job
  BY DEF Idle
<1>2. ~ Send
  BY <1>1, SendServes DEF Serving
<1>3. ~ MemoryRequest
  BY <1>1, MemoryWrites
<1>4. ~ LeadRequest
  BY <1>1 DEF LeadRequest, SpawnLead, SpawnSubLead, Transition, ArchiveLead, Serving
<1>5. \A p \in Projects :
         /\ ~ CreateProject(p) /\ ~ ArchiveProject(p)
         /\ \A into \in Projects : ~ Merge(p, into)
         /\ ~ PauseProject(p) /\ ~ ResumeProject(p)
  BY <1>1 DEF CreateProject, ArchiveProject, Merge, PauseProject, ResumeProject, Serving
<1>6. ~ UNCHANGED allVars
  BY <1>1 DEF allVars, vars
<1>7. ~ Link /\ ~ Unlink /\ ~ RetireProject /\ ~ LogOutcome
  BY DEF Link, Unlink, RetireProject, LogOutcome
<1>8. QED
  BY <1>2, <1>3, <1>4, <1>5, <1>6, <1>7 DEF ConversationNext, Handler

\* After the merge a row of the absorbed staff is its surviving lead's, or a moved
\* sub-lead's right below that lead.
LEMMA RowsMove ==
    ASSUME SoundStaff, Apply, NEW from, NEW into, from = job.from, into = job.into,
           NEW heir \in LeadsOf(into), NEW m \in Memories,
           memory[m].author \in LeadsOf(from) \cup OrphanedSubs(from)
    PROVE  LET owner == memory'[m].author IN
           /\ heir \in Agent /\ agent'[heir].parent = None
           /\ owner = heir \/ (/\ owner \in OrphanedSubs(from) /\ owner \in Agent
                               /\ agent'[owner].parent = heir)
<1>0. /\ job.from \in Projects /\ job.into \in Projects /\ job.from # job.into
      /\ job.step = "apply"
  BY MergedStaff DEF SoundStaff, Apply
<1>1. from \in Projects /\ into \in Projects /\ from # into
  BY <1>0
<1>2. heir \in Agent /\ agent[heir].kind = "lead" /\ agent[heir].project = into
  BY DEF LeadsOf
<1>3. Heir(into) = heir
  BY <1>1, HeirIn DEF SoundStaff, StaffInv
<1>4. agent[heir].parent = None
  BY <1>2 DEF SoundStaff, StaffInv
<1>5. agent'[heir].parent = None
  <2>1. agent'[heir].parent = agent[heir].parent \/ agent[heir].parent \in Agent
    BY <1>2, MergeMoves DEF SoundStaff
  <2>2. QED BY <1>4, <2>1, NoneIsNobody
<1>6. memory'[m].author = IF memory[m].author \in LeadsOf(from) THEN Heir(into)
                          ELSE memory[m].author
  BY DEF Apply, Reanchored
<1>7. CASE memory[m].author \in LeadsOf(from)
  BY <1>2, <1>3, <1>5, <1>6, <1>7
<1>8. CASE memory[m].author \notin LeadsOf(from)
  <2>1. PICK s \in OrphanedSubs(from) : s = memory[m].author
    BY <1>8
  <2>2. PICK b \in LeadsOf(from) : s \in SubLeadsOf(b)
    BY <2>1 DEF OrphanedSubs
  <2>3. s \in Agent /\ agent[s].status \in Working
    BY <2>2 DEF SubLeadsOf
  <2>4. agent[s] \in Record
    BY <2>3, OnDuty DEF SoundStaff, Working
  <2>5. s \notin LeadsOf(from)
    BY <1>8, <2>1
  <2>6. agent'[s] = [agent[s] EXCEPT !.parent = Heir(job.into), !.project = job.into]
    <3>1. s \in OrphanedSubs(job.from) /\ s \notin LeadsOf(job.from)
      BY <2>1, <2>5
    <3>2. QED BY <2>3, <3>1, MergedStaff DEF SoundStaff
  <2>7. agent'[s].parent = heir
    BY <1>3, <2>4, <2>6 DEF Record
  <2>8. QED BY <1>2, <1>5, <1>6, <1>8, <2>1, <2>3, <2>7
<1>9. QED
  BY <1>7, <1>8

LEMMA ReadersMove ==
    ASSUME SoundStaff, SoundStaff', KinReadOnly', Apply, scope' = scope,
           NEW heir \in LeadsOf(job.into), NEW m \in Memories, scope[m] = "agent",
           memory[m].author \in LeadsOf(job.from) \cup OrphanedSubs(job.from)
    PROVE  /\ MayRead(heir, m)'
           /\ \A a \in Agent \ (LeadsOf(job.from) \cup OrphanedSubs(job.from) \cup {heir}) :
                 ~MayRead(a, m)'
<1> PICK owner : owner = memory'[m].author
  OBVIOUS
<1>1. /\ heir \in Agent /\ agent'[heir].parent = None
      /\ owner = heir \/ (/\ owner \in OrphanedSubs(job.from) /\ owner \in Agent
                          /\ agent'[owner].parent = heir)
  BY RowsMove
<1>2. Chain' = ChainOf(agent') /\ Tree(agent')
  BY DEF Chain, ChainOf, SoundStaff, TreeInv, Tree
<1>3. heir # None /\ owner \in Agent
  BY <1>1, NoneIsNobody
<1>4. Chain'[heir] = {heir} /\ (owner # heir => Chain'[owner] = {owner, heir})
  BY <1>1, <1>2, <1>3, ChainOfIs
<1>5. \A a \in Agent : owner \in VisibleFrom(a)' <=> a \in Chain'[owner]
  BY <1>3 DEF KinReadOnly
<1>6. \A a \in Agent : MayRead(a, m)' <=> owner \in VisibleFrom(a)'
  BY DEF MayRead
<1>7. MayRead(heir, m)'
  BY <1>1, <1>4, <1>5, <1>6
<1>8. ASSUME NEW a \in Agent, a \notin OrphanedSubs(job.from), a # heir PROVE ~MayRead(a, m)'
  BY <1>1, <1>4, <1>5, <1>6, <1>8
<1>9. QED
  BY <1>7, <1>8

-------------------------------------------------------------------------------
(* The theorems *)

LEMMA LeadsSound == Spec => [](SoundStaff /\ DepthCapped)
<1>1. Init => SoundStaff /\ DepthCapped
  BY TypeInit, StaffInit, LinkInit, TreeInit, DepthInit DEF SoundStaff
<1>2. SoundStaff /\ DepthCapped /\ [Next]_vars => (SoundStaff /\ DepthCapped)'
  <2>1. SoundStaff /\ [Next]_vars => SoundStaff' /\ Moves
    BY StaffIsSound, StepMoves DEF SoundStaff
  <2>2. SoundStaff /\ DepthCapped /\ Moves /\ SoundStaff' => DepthCapped'
    BY DepthStep DEF SoundStaff
  <2>3. QED BY <2>1, <2>2
<1>3. QED
  BY <1>1, <1>2, PTL DEF Spec

\* The tables keep their shapes through every commit of project_rpc.py,
\* lead_lifecycle.py and project_merge.py.
THEOREM TypeCorrect == Spec => []TypeOK
  BY LeadsSound, PTL DEF SoundStaff

\* A project never has two leads on duty (lead_lifecycle.spawn's refusal),
\* whatever is paused, merged, archived or cut short by a crash.
THEOREM LeadsAreSingle == Spec => []OneLead
<1>1. StaffInv => OneLead
  <2> SUFFICES ASSUME StaffInv, NEW p \in Projects PROVE Cardinality(LeadsOf(p)) <= 1
    BY DEF OneLead
  <2>1. CASE LeadsOf(p) = {}
    BY <2>1, FS_EmptySet
  <2>2. CASE LeadsOf(p) # {}
    <3>1. PICK a \in LeadsOf(p) : TRUE
      BY <2>2
    <3>2. LeadsOf(p) = {a}
      BY <3>1 DEF StaffInv
    <3>3. Cardinality({a}) = 1
      BY FS_Singleton
    <3>4. QED BY <3>2, <3>3
  <2>3. QED BY <2>1, <2>2
<1>2. QED
  BY <1>1, LeadsSound, PTL DEF SoundStaff

\* Between requests agents and projects point at each other, except where a
\* crash fell between the two commits of spawn, archive or project.archive.
THEOREM LinksAreMutual == Spec => []LinkIsMutual
<1>1. TypeOK /\ LinkInv => LinkIsMutual
  <2> SUFFICES ASSUME TypeOK, LinkInv, job = Idle, NEW p \in Projects \ cut
               PROVE  LeadsOf(p) = IF project[p].lead = None THEN {} ELSE {project[p].lead}
    BY DEF LinkIsMutual
  <2>1. Mutual(p)
    BY DEF LinkInv, Idle
  <2>2. LeadsOf(p) \subseteq Agent
    BY DEF LeadsOf
  <2>3. QED BY <2>1, <2>2, PointerType, NoneIsNobody DEF Mutual
<1>2. QED
  BY <1>1, LeadsSound, PTL DEF SoundStaff

\* apply_merge leaves nothing with the absorbed project and nothing pointing at
\* the leads it retired.
THEOREM MergesAreComplete == Spec => []MergeIsComplete
<1>1. StaffInv /\ LinkInv => MergeIsComplete
  BY DEF StaffInv, LinkInv, MergeIsComplete
<1>2. QED
  BY <1>1, LeadsSound, PTL DEF SoundStaff

\* _depth_under's cap holds but where spawn_sub_lead was told to override it: a
\* merge, which hands sub-leads to another lead, makes nobody deeper.
THEOREM DepthsAreCapped == Spec => []DepthCapped
  BY LeadsSound, PTL

\* Projects, agents, rows and turns keep their shapes under the requests of the
\* conversation: memory_rpc.py, lead_rpc.py, project_rpc.py, thread_send.py.
THEOREM ConversationTyped == ConversationSpec => []ConversationTypes
<1>1. SoundStaff /\ TurnInv => ConversationTypes
  BY DEF SoundStaff, TurnInv, ConversationTypes
<1>2. QED
  BY <1>1, ConversationSound, TurnsSound, PTL

\* _collect_visible_agent_ids, walking down, and build_attribution_chain, walking
\* up, agree about who reads whose notes, however the tree has been changed.
THEOREM KinOnlyRead == ConversationSpec => []KinReadOnly
<1>1. SoundStaff => KinReadOnly
  BY WalksAgree DEF SoundStaff, TreeInv
<1>2. QED
  BY <1>1, ConversationSound, PTL

\* classify_with_verdict tags no turn with a project that is off duty while another
\* is on duty, unless the user has addressed somebody there.
THEOREM TagsLive == ConversationSpec => []TagIsLive
<1>1. TurnInv => TagIsLive
  BY DEF TurnInv
<1>2. QED
  BY <1>1, TurnsSound, PTL

\* _handle_delegated_reply leaves the brain exactly as sure as the lead it quotes,
\* and a gate means low confidence, for any vocabulary.
THEOREM BrainIsNoSurer == ConversationSpec => []BrainNoSurer
<1>1. TurnInv => BrainNoSurer
  BY DEF TurnInv
<1>2. QED
  BY <1>1, TurnsSound, PTL

\* _migrate_memory_entries and _reparent_sub_leads together hand the notes of an
\* absorbed project to the surviving lead, and to no other.
THEOREM ReadersAreKept == ConversationSpec => MergeKeepsReaders
<1>1. ASSUME SoundStaff, SoundStaff', KinReadOnly', [ConversationNext]_allVars
      PROVE  [job.step = "apply" /\ job'.step = "outcome" =>
                \A heir \in LeadsOf(job.into), m \in Memories :
                   LET left == LeadsOf(job.from) \cup OrphanedSubs(job.from) IN
                   scope[m] = "agent" /\ memory[m].author \in left =>
                       /\ MayRead(heir, m)'
                       /\ \A a \in Agent \ (left \cup {heir}) : ~MayRead(a, m)']_<<vars, scope>>
  <2> SUFFICES ASSUME job.step = "apply", job'.step = "outcome",
                      NEW heir \in LeadsOf(job.into), NEW m \in Memories,
                      scope[m] = "agent",
                      memory[m].author \in LeadsOf(job.from) \cup OrphanedSubs(job.from)
               PROVE  /\ MayRead(heir, m)'
                      /\ \A a \in Agent \ (LeadsOf(job.from) \cup OrphanedSubs(job.from) \cup {heir}) :
                            ~MayRead(a, m)'
    OBVIOUS
  <2>1. Apply /\ scope' = scope
    BY <1>1, ApplyMerges
  <2>2. QED BY <1>1, <2>1, ReadersMove
<1>2. SoundStaff => KinReadOnly
  BY WalksAgree DEF SoundStaff, TreeInv
<1>3. QED
  BY <1>1, <1>2, ConversationSound, PTL DEF ConversationSpec, MergeKeepsReaders

===============================================================================
