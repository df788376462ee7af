----------------------------- MODULE Delegation -----------------------------
(* Whom a message of the user goes to and what comes back: addressing and    *)
(* attribution (lead_delegation.py), classification (project_classifier.py), *)
(* and the reply paths of thread.send (thread_send.py).  Requests are served *)
(* one at a time, so an exchange is one step; what a crash leaves of its     *)
(* writes is the subject of EternalThread.                                   *)

EXTENDS ProjectLeads, InfoFlow

VARIABLES
    paused,     \* projects whose row says "paused"
    turn        \* the exchange that has just ended

conversationVars == <<paused, turn>>

\* `to' is the addressed agent; the levels are those of the lead's turn and of
\* the brain's; notices are what the renderer is told besides.
NoTurn == [tag |-> None, to |-> None, status |-> "none",
           lead |-> None, brain |-> None, notices |-> {}]
Turn == [tag: Projects \cup {None}, to: Agent \cup {None},
         status: {"none", "in_progress", "completed"},
         lead: Level \cup {None}, brain: Level \cup {None},
         notices: SUBSET {"info_flow gate", "drawer"}]

DelegationInit == paused = {} /\ turn = NoTurn
DelegationTypeOK == paused \subseteq Projects /\ turn \in Turn

Active(p) == project[p].status = "open" /\ p \notin paused

-----------------------------------------------------------------------------
(* Addressing *)

\* The agents a message can address (_maybe_address_lead).
Addressable == {a \in Agent : agent[a].status = "active"}

\* find_addressed_lead: `named' lead the message with their name, `mentioned'
\* are mentioned with an @; a name that fits several is nobody's.
Addressed(named, mentioned) ==
    LET matches == IF named # {} THEN named ELSE mentioned
    IN IF Cardinality(matches) = 1 THEN CHOOSE a \in matches : TRUE ELSE None

\* A message's two sets of matches; a further mention never matters once
\* somebody is named.
Messages ==
    LET few == {{}} \cup {{a} : a \in Addressable} \cup {Addressable}
    IN {<<named, {}>> : named \in few} \cup {<<{}, mentioned>> : mentioned \in few}

-----------------------------------------------------------------------------
(* Classification *)

Candidates == {p \in Projects : Active(p)}

\* What the judging model may be understood to say: a project, or nothing when
\* it declines, does not answer, or answers nonsense or a project it made up.
Opinions == Projects \cup {None}

\* LlmJudgeClassifier behind CompositeClassifier: the only candidate there is,
\* or the candidate the model is confident of.
Judged(opinion) ==
    IF Cardinality(Candidates) = 1 THEN CHOOSE p \in Candidates : TRUE
    ELSE IF opinion \in Candidates THEN opinion ELSE None

\* Mutant of Tag: the foreground project is not looked up.
TagForeground(to, foreground, opinion) ==
    IF to # None THEN agent[to].project
    ELSE IF Candidates # {} /\ Judged(opinion) # None THEN Judged(opinion)
    ELSE foreground
\* Step 4 of thread.send and classify_with_verdict: the project of a turn.
Tag(to, foreground, opinion) ==
    IF to # None THEN agent[to].project
    ELSE IF Candidates = {} THEN foreground
    ELSE IF Judged(opinion) # None THEN Judged(opinion)
    ELSE IF foreground \in Candidates THEN foreground
    ELSE None

\* Whatever project is in the foreground and whatever the model says.
Tags(to) == {Tag(to, foreground, opinion) :
                foreground \in {p \in Projects : Exists(p)} \cup {None},
                opinion \in Opinions}

-----------------------------------------------------------------------------
(* Replies *)

\* What leads reply, as far as the audits tell replies apart: nothing, with
\* doubts up front, with doubts inside, with questions, or plainly.
Replies ==
    {[blank |-> TRUE, words |-> {}, hedge |-> "no", questions |-> 0],
     [blank |-> FALSE, words |-> {}, hedge |-> "leading", questions |-> 0],
     [blank |-> FALSE, words |-> Words, hedge |-> "inside", questions |-> 0],
     [blank |-> FALSE, words |-> Words, hedge |-> "no", questions |-> 3],
     [blank |-> FALSE, words |-> Words, hedge |-> "no", questions |-> 0]}

\* The brain's wrap: a prefix, the reply word for word, and perhaps a note.
Wrapped(reply) ==
    [reply EXCEPT !.blank = FALSE,
                  !.hedge = IF @ = "leading" THEN "inside" ELSE @]

\* evaluate_lead_escalation.
Escalates(reply) == reply.questions >= 3

\* _handle_delegated_reply with an answer: two audits without a critic, the
\* gates they raise, and the levels of the two turns.
Relayed(tag, to, reply) ==
    LET report == Audit(ReportedVsTruth(reply, NoFacts), NoScore, FALSE)
        relay == Audit(RelayedVsSource(reply, Wrapped(reply)), NoScore, FALSE)
    IN [tag |-> tag, to |-> to, status |-> "completed",
        lead |-> LevelFor(report.score), brain |-> Combined(report, relay),
        notices |-> (IF RaisesGate(report) \/ RaisesGate(relay) THEN {"info_flow gate"} ELSE {})
                    \cup (IF Escalates(reply) THEN {"drawer"} ELSE {})]

\* A reply without a lead: the brain's own, an action's confirmation or a
\* question about its inputs; or the provider's error, which leaves the user's
\* turn in progress.
Answered(tag, to) == [NoTurn EXCEPT !.tag = tag, !.to = to, !.status = "completed"]
Failed(tag, to) == [NoTurn EXCEPT !.tag = tag, !.to = to, !.status = "in_progress"]

\* thread.send without an action that changes anything.  An addressed lead is
\* asked unless an action matches first.
Exchange(tag, to) ==
    \/ turn' = Answered(tag, to)
    \/ turn' = Failed(tag, to)
    \/ to # None /\ \E reply \in Replies : turn' = Relayed(tag, to, reply)

\* An action matches: "spawn a sub-lead ... under ..." respects the cap.  The
\* row of "remember that ..." is AgentMemory's.
Act(tag, to) ==
    /\ turn' = Answered(tag, to)
    /\ \E a \in Agent : SpawnSubLead(a, FALSE)

\* thread.send, of whatever message, with whatever project in the foreground
\* and whatever the classifying model says.
Send ==
    /\ Serving
    /\ \E message \in Messages :
          LET to == Addressed(message[1], message[2]) IN
          \E tag \in Tags(to) :
             \/ Exchange(tag, to) /\ UNCHANGED vars
             \/ Act(tag, to)
    /\ UNCHANGED paused

\* The project row's own status (project.pause, project.resume).
PauseProject(p) ==
    /\ Serving /\ Exists(p)
    /\ \/ Reopen(p)
       \/ project[p].status = "open" /\ UNCHANGED vars
    /\ paused' = paused \cup {p}

ResumeProject(p) ==
    /\ Serving /\ Exists(p)
    /\ \/ Reopen(p)
       \/ project[p].status = "open" /\ UNCHANGED vars
    /\ paused' = paused \ {p}

-----------------------------------------------------------------------------
(* Properties *)

\* A turn goes to a project that is on duty, unless the user has addressed
\* somebody who works for another, or no project is on duty at all: a stale
\* foreground or a made-up project tags nothing (classify_with_verdict: "so we
\* don't tag a turn against an archived row").
TagIsLive ==
    turn.tag # None =>
        \/ Active(turn.tag)
        \/ turn.to # None /\ agent[turn.to].project = turn.tag
        \/ \A p \in Projects : ~Active(p)

\* The brain never sounds surer than the lead it speaks for, nor, since it
\* relays word for word, less sure; and a reply that raises a gate reads as
\* low confidence in both turns (combine_confidence_payloads).
BrainNoSurer ==
    turn.lead # None =>
        /\ turn.brain = turn.lead
        /\ ("info_flow gate" \in turn.notices) <=> (turn.brain = "low")
=============================================================================
