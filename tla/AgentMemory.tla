---------------------------- MODULE AgentMemory ----------------------------
(* Memory entries and who may read them (memory.py, memory_rpc.py,           *)
(* memory_writes.py, memory_actions.py), on top of the projects and agents   *)
(* of ProjectLeads, whose variable `memory' holds each row's project and     *)
(* agent_id and whose merges rewrite both.  Bodies, kinds and the wording of *)
(* searches are left out; "episodic" rows go the way of "project" ones.      *)

EXTENDS ProjectLeads

VARIABLE scope      \* of each row of memory_entries; None when there is no row

Scopes == {"personal", "project", "agent"}

MemoryInit == scope = [m \in Memories |-> None]
MemoryTypeOK == scope \in [Memories -> Scopes \cup {None}]

leadsUnchanged == UNCHANGED <<project, agent, spawned, routed, job, log, crashes, cut, deep>>

\* MemoryStore.insert refuses an agent's row that names no agent, and the row
\* is otherwise taken as it comes.
InsertRow(m, sc, p, owner) ==
    /\ scope[m] = None
    /\ sc = "agent" => owner # None
    /\ scope' = [scope EXCEPT ![m] = sc]
    /\ memory' = [memory EXCEPT ![m] = [project |-> p, author |-> owner]]

\* "Remember that ...", said in the thread or confirmed there.
Remember(m) ==
    /\ Serving
    /\ InsertRow(m, "personal", None, None)
    /\ leadsUnchanged

\* memory.add has no way to name an agent: it cannot add an agent's row.
AddMemory(m) ==
    /\ Serving
    /\ \E sc \in Scopes, p \in {q \in Projects : Exists(q)} :
          InsertRow(m, sc, IF sc = "personal" THEN None ELSE p, None)
    /\ leadsUnchanged

\* record_memory_write by an agent on duty, in its own scope or, as a worker
\* through it, in its project's.
RecordMemoryWrite(m, a) ==
    /\ Serving
    /\ agent[a].status = "active"
    /\ \/ InsertRow(m, "agent", agent[a].project, a)
       \/ InsertRow(m, "project", agent[a].project, None)
    /\ leadsUnchanged

\* memory.update gives a row any scope.
UpdateScope(m, sc) ==
    /\ Serving
    /\ scope[m] \notin {None, sc}
    /\ scope' = [scope EXCEPT ![m] = sc]
    /\ UNCHANGED memory /\ leadsUnchanged

DeleteMemory(m) ==
    /\ Serving
    /\ scope[m] # None
    /\ scope' = [scope EXCEPT ![m] = None]
    /\ memory' = [memory EXCEPT ![m] = [project |-> None, author |-> None]]
    /\ leadsUnchanged

MemoryRequest ==
    \E m \in Memories :
        \/ Remember(m) \/ AddMemory(m) \/ DeleteMemory(m)
        \/ \E a \in Agent : RecordMemoryWrite(m, a)
        \/ \E sc \in Scopes : UpdateScope(m, sc)

-----------------------------------------------------------------------------
(* Reading and writing *)

ChildrenOf(group) == {b \in Agent : agent[b].parent \in group}

\* Mutant of VisibleFrom: the walk stops at the children.
VisibleOneDown(a) == {a} \cup ChildrenOf({a})
\* _collect_visible_agent_ids: the agent and, breadth first, all below it,
\* whatever their status.
VisibleFrom(a) ==
    LET Reached[n \in Nat] ==
           IF n = 0 THEN {a} ELSE Reached[n - 1] \cup ChildrenOf(Reached[n - 1])
    IN Reached[MaxAgents]

\* build_attribution_chain (lead_delegation.py): an agent and those above it.
Chain[a \in Agent] ==
    {a} \cup (IF agent[a].parent = None THEN {} ELSE Chain[agent[a].parent])

\* list_visible_for_agent.
MayRead(a, m) == scope[m] = "agent" /\ memory[m].author \in VisibleFrom(a)

\* assert_writable_by.
MayWrite(a, m) == scope[m] # None /\ (scope[m] = "agent" => memory[m].author = a)

-----------------------------------------------------------------------------
(* Properties *)

\* A merge into a project with a lead hands everything over: what agents of
\* the absorbed project noted for themselves, its lead or the sub-leads on
\* duty under it, the surviving lead reads from then on, as does no other lead
\* (memory.py: "a re-parent immediately changes who can read what").
MergeKeepsReaders ==
    [][job.step = "apply" /\ job'.step = "outcome" =>
        \A heir \in LeadsOf(job.into), m \in Memories :
           LET left == LeadsOf(job.from) \cup OrphanedSubs(job.from) IN
           scope[m] = "agent" /\ memory[m].author \in left =>
               /\ MayRead(heir, m)'
               /\ \A a \in Agent \ (left \cup {heir}) : ~MayRead(a, m)']_<<vars, scope>>

\* The two walks over the tree of agents agree, through spawns, archived parents
\* and merges: an agent may read the notes of exactly those whose attribution
\* chain it is on (memory.py: "a parent lead can read its descendants' memory;
\* a sub-lead reads only its own").
KinReadOnly ==
    \A a, b \in Agent : b \in VisibleFrom(a) <=> a \in Chain[b]

\* memory.py: "Agent-scoped rows must name their owner so the parent-reads-
\* child / sibling-can't-read-sibling isolation rule has something to key off".
AgentRowsOwned ==
    \A m \in Memories : scope[m] = "agent" => \E a \in Agent : MayWrite(a, m)
=============================================================================
