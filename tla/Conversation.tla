---------------------------- MODULE Conversation ----------------------------
(* The conversation over projects, agents and memories: the requests that    *)
(* create, staff, pause, archive and merge projects, those that write and    *)
(* edit memory rows, and the messages of the user.                           *)
(*                                                                           *)
(* Bound: either there is a memory row, or projects are paused and a message *)
(* is sent.  Neither reads what the other writes, so only the product of the *)
(* two is left out.                                                          *)

EXTENDS AgentMemory, Delegation, TLC

allVars == <<vars, scope, conversationVars>>

NoRows == \A m \in Memories : scope[m] = None

ConversationNext ==
    \/ NoRows /\ turn = NoTurn /\ Send /\ UNCHANGED scope
    \/ turn = NoTurn /\ paused = {} /\ MemoryRequest /\ UNCHANGED conversationVars
    \/ /\ turn' = NoTurn
       /\ UNCHANGED scope
       /\ \/ (LeadRequest \/ Handler) /\ UNCHANGED paused
          \/ \E p \in Projects :
                \/ (CreateProject(p) \/ ArchiveProject(p)) /\ UNCHANGED paused
                \/ \E into \in Projects : Merge(p, into) /\ UNCHANGED paused
                \/ NoRows /\ (PauseProject(p) \/ ResumeProject(p))

ConversationInit == Init /\ MemoryInit /\ DelegationInit
ConversationSpec == ConversationInit /\ [][ConversationNext]_allVars

Interchangeable == Permutations(Projects \ {Default})

ConversationTypes == TypeOK /\ MemoryTypeOK /\ DelegationTypeOK
=============================================================================
