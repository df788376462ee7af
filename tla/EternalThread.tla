----------------------------- MODULE EternalThread -----------------------------
(***************************************************************************)
(* The eternal thread: thread_send.py answers one message in a fixed order *)
(* of durable writes and notifications, threads.py keeps the rows and      *)
(* their full-text index, digest_runner.py folds old turns into digests    *)
(* and old digests into parents, pending_actions.py and action_rpc.py hold *)
(* the hard-gated actions a message asked for until the user decides.      *)
(*                                                                         *)
(* The stdio loop serves one request at a time, so the requests of the     *)
(* thread interleave only with crashes; a crash may fall between any two   *)
(* statements, inside an open transaction too.  Rows and digests survive   *)
(* it, staged actions and the open transaction do not.                     *)
(*                                                                         *)
(* Time is the order of the sends: message i is stamped 2i-1 and its       *)
(* replies 2i (the clock is taken to be monotone).                         *)
(***************************************************************************)
EXTENDS Naturals, Sequences, FiniteSets, FiniteSetsExt

CONSTANTS
    MaxSends,      \* bound: messages ever accepted
    MaxCrashes,    \* bound: crashes of the brain
    Kinds,         \* the ways thread.send may answer
    DigestBudget,  \* DEFAULT_DIGEST_BUDGET (40)
    BatchSize,     \* DEFAULT_COMPRESS_BATCH (10)
    MinTurns       \* MIN_TURNS_FOR_DIGEST (2)

ASSUME ThreadAssumption ==
    /\ MaxSends \in Nat
    /\ MaxCrashes \in Nat
    /\ Kinds \subseteq {"direct", "action", "staged", "delegated"}
    /\ DigestBudget \in Nat \ {0}
    /\ BatchSize \in Nat \ {0, 1}
    /\ MinTurns \in Nat \ {0}

VARIABLES
    db,        \* thread_turns and thread_turn_index, as committed
    work,      \* the same, as the open transaction sees them
    digests,   \* session_digests
    asked,     \* messages accepted so far
    pc, cur,   \* the request being served: its next step, its kind of reply
    marking,   \* children the compression still has to point at their parent
    kind,      \* how each message was answered
    pending,   \* the staged action of each message, in memory
    crashes,   \* crashes so far
    seen,      \* history: messages some chunk was emitted for
    told,      \* history: messages whose success response was sent
    withdrawn, \* history: messages a recovery dropped
    effects,   \* history: times the action of a message ran
    cutOff,    \* history: messages a crash interrupted
    raised     \* history: cut-off messages the renderer was told of

store == <<db, work>>
history == <<seen, told, withdrawn, effects, cutOff, raised>>
vars == <<db, work, digests, asked, pc, cur, marking, kind, pending, crashes,
          seen, told, withdrawn, effects, cutOff, raised>>

Send == 1..MaxSends
Row == {"user", "lead", "brain"} \X Send
RowStatus == {"absent", "in_progress", "completed"}
Store == [row : [Row -> RowStatus], index : SUBSET Row]
Step == {"idle", "digest", "compress", "mark", "begin", "dispatch", "stream",
         "flip", "lead", "brain", "commit", "reply"}
PendingStatus == {"none", "pending", "approved", "rejected"}
NoKind == "none"

At(row) == IF row[1] = "user" THEN 2 * row[2] - 1 ELSE 2 * row[2]
Now == 2 * MaxSends + 1     \* later than every turn

\* The rows an answered exchange consists of.
RowsOf(i, k) == {<<"user", i>>, <<"brain", i>>}
                \cup (IF k = "delegated" THEN {<<"lead", i>>} ELSE {})

Digest == [lo : 1..Now, hi : 1..Now, covers : SUBSET Row, parent : Nat]

TypeOK ==
    /\ db \in Store
    /\ work \in Store
    /\ digests \in Seq(Digest)
    /\ asked \in 0..MaxSends
    /\ pc \in Step
    /\ cur \in Kinds \cup {NoKind}
    /\ marking \in Seq(Nat)
    /\ kind \in [Send -> Kinds \cup {NoKind}]
    /\ pending \in [Send -> PendingStatus]
    /\ crashes \in 0..MaxCrashes
    /\ seen \subseteq Send
    /\ told \subseteq Send
    /\ withdrawn \subseteq Send
    /\ effects \in [Send -> Nat]
    /\ cutOff \subseteq Send
    /\ raised \subseteq Send

EmptyStore == [row |-> [r \in Row |-> "absent"], index |-> {}]

Init ==
    /\ db = EmptyStore /\ work = EmptyStore
    /\ digests = <<>>
    /\ asked = 0
    /\ pc = "idle" /\ cur = NoKind
    /\ marking = <<>>
    /\ kind = [i \in Send |-> NoKind]
    /\ pending = [i \in Send |-> "none"]
    /\ crashes = 0
    /\ seen = {} /\ told = {} /\ withdrawn = {}
    /\ effects = [i \in Send |-> 0]
    /\ cutOff = {} /\ raised = {}

-------------------------------------------------------------------------------
(* Reads *)

Completed == {r \in Row : db.row[r] = "completed"}

\* latest_digest: parents sort alongside leaves.
LatestEnd == Max({digests[d].hi : d \in DOMAIN digests} \cup {0})

\* Mutant of NewTurns: the last turn of the previous window is taken again.
NewTurnsInclusive == {r \in Completed : At(r) >= LatestEnd}
NewTurns == {r \in Completed : At(r) > LatestEnd}

\* _list_leaf_digests: the digests no parent has taken over.
Roots == {d \in DOMAIN digests : digests[d].parent = 0}

\* list_digests orders by window_end_ms alone: ties come in any order.
Oldest(batch) ==
    /\ \A n \in 1..(Len(batch) - 1) : digests[batch[n]].hi <= digests[batch[n + 1]].hi
    /\ \A d \in Roots : \/ \E n \in DOMAIN batch : batch[n] = d
                        \/ digests[d].hi >= digests[batch[Len(batch)]].hi
Batches ==
    {batch \in [1..Min({BatchSize, Cardinality(Roots)}) -> Roots] :
        /\ \A m, n \in DOMAIN batch : m # n => batch[m] # batch[n]
        /\ Oldest(batch)}

-------------------------------------------------------------------------------
(* thread.send *)

Goto(step) == pc' = step
Finish == pc' = "idle" /\ cur' = NoKind

\* A request is read from stdin only when the previous one has returned.
Serving == pc = "idle"

Ask(k) ==
    /\ Serving
    /\ asked < MaxSends
    /\ cur' = k
    /\ Goto("digest")
    /\ UNCHANGED <<store, digests, asked, marking, kind, pending, crashes, history>>

\* run_digest over the turns since the last digest: one leaf covering them.
InsertLeaf ==
    digests' = Append(digests, [lo     |-> Min({At(r) : r \in NewTurns}),
                                hi     |-> Max({At(r) : r \in NewTurns}),
                                covers |-> NewTurns,
                                parent |-> 0])
Digestible == Cardinality(NewTurns) >= MinTurns

\* maybe_run_idle_digest: whether the idle gap has passed is left open.
IdleDigest ==
    /\ pc = "digest"
    /\ \/ UNCHANGED digests
       \/ Digestible /\ InsertLeaf
    /\ Goto("compress")
    /\ UNCHANGED <<store, asked, cur, marking, kind, pending, crashes, history>>

OverBudget == Cardinality(Roots) > DigestBudget

\* A summarising provider that raises fails the message before it is stored.
DigestFails ==
    /\ \/ pc = "digest" /\ Digestible
       \/ pc = "compress" /\ OverBudget
    /\ Finish
    /\ UNCHANGED <<store, digests, asked, marking, kind, pending, crashes, history>>

\* Mutant of Parent: only the first child is summarised.
ParentOfFirst(batch) == [lo     |-> digests[batch[1]].lo,
                         hi     |-> digests[batch[Len(batch)]].hi,
                         covers |-> digests[batch[1]].covers,
                         parent |-> 0]
Parent(batch) == [lo     |-> digests[batch[1]].lo,
                  hi     |-> digests[batch[Len(batch)]].hi,
                  covers |-> UNION {digests[batch[n]].covers : n \in DOMAIN batch},
                  parent |-> 0]

\* maybe_compress_old_digests, up to and including the parent's INSERT.
Compress ==
    /\ pc = "compress"
    /\ IF OverBudget
       THEN \E batch \in Batches :
            /\ digests' = Append(digests, Parent(batch))
            /\ marking' = batch
            /\ Goto("mark")
       ELSE /\ Goto("begin")
            /\ UNCHANGED <<digests, marking>>
    /\ UNCHANGED <<store, asked, cur, kind, pending, crashes, history>>

\* _set_parent_digest: one committed UPDATE per child.
MarkChild ==
    /\ pc = "mark"
    /\ digests' = [digests EXCEPT ![Head(marking)].parent = Len(digests)]
    /\ marking' = Tail(marking)
    /\ Goto(IF Len(marking) = 1 THEN "begin" ELSE "mark")
    /\ UNCHANGED <<store, asked, cur, kind, pending, crashes, history>>

\* Mutant of Begin: the row is left to the transaction that answers it.
BeginUncommitted ==
    /\ pc = "begin"
    /\ asked' = asked + 1
    /\ kind' = [kind EXCEPT ![asked + 1] = cur]
    /\ work' = [db EXCEPT !.row[<<"user", asked + 1>>] = "in_progress"]
    /\ Goto("dispatch")
    /\ UNCHANGED <<db, digests, cur, marking, pending, crashes, history>>
\* begin_user_turn: the message is durable, in_progress, before anything shows.
Begin ==
    /\ pc = "begin"
    /\ asked' = asked + 1
    /\ kind' = [kind EXCEPT ![asked + 1] = cur]
    /\ db' = [db EXCEPT !.row[<<"user", asked + 1>>] = "in_progress"]
    /\ work' = db'
    /\ Goto("dispatch")
    /\ UNCHANGED <<digests, cur, marking, pending, crashes, history>>

\* No action matched, or one whose inputs the user must still supply (asked for
\* by a "direct" reply): nothing is done but answer.
NoAction ==
    /\ pc = "dispatch"
    /\ cur \in {"direct", "delegated"}
    /\ Goto("stream")
    /\ UNCHANGED <<store, digests, asked, cur, marking, kind, pending, crashes, history>>

\* A matched action without a hard gate runs at once.
RunAction ==
    /\ pc = "dispatch" /\ cur = "action"
    /\ effects' = [effects EXCEPT ![asked] = @ + 1]
    /\ Goto("stream")
    /\ UNCHANGED <<store, digests, asked, cur, marking, kind, pending, crashes,
                   seen, told, withdrawn, cutOff, raised>>

\* A hard-gated action is staged and the approval dialog opened.
StageAction ==
    /\ pc = "dispatch" /\ cur = "staged"
    /\ pending' = [pending EXCEPT ![asked] = "pending"]
    /\ Goto("stream")
    /\ UNCHANGED <<store, digests, asked, cur, marking, kind, crashes, history>>

Emit ==
    /\ pc = "stream"
    /\ seen' = seen \cup {asked}
    /\ Goto("flip")
    /\ UNCHANGED <<store, digests, asked, cur, marking, kind, pending, crashes,
                   told, withdrawn, effects, cutOff, raised>>

\* The provider's chunks, the relayed reply of a lead, or the confirmation of
\* an action, run or staged.
StreamDirect == cur = "direct" /\ Emit
StreamRelay == cur = "delegated" /\ Emit
StreamConfirmation == cur \in {"action", "staged"} /\ Emit

\* The executor, the context assembly or the provider raises: the message
\* stays in_progress, whether or not a chunk was emitted.
SendFails ==
    /\ \/ pc = "dispatch"
       \/ pc = "stream" /\ cur \in {"direct", "delegated"}
    /\ seen' \in {seen} \cup (IF pc = "stream" THEN {seen \cup {asked}} ELSE {})
    /\ Finish
    /\ UNCHANGED <<store, digests, asked, marking, kind, pending, crashes,
                   told, withdrawn, effects, cutOff, raised>>

-------------------------------------------------------------------------------
(* complete_turn_pair: one transaction, statement by statement.  Each row    *)
(* that becomes completed is mirrored in the index by a trigger.             *)

Complete(r) == work' = [row   |-> [work.row EXCEPT ![r] = "completed"],
                        index |-> work.index \cup {r}]

\* Mutant of Flip: the UPDATE commits on its own.
FlipCommitted ==
    /\ pc = "flip"
    /\ work.row[<<"user", asked>>] = "in_progress"
    /\ Complete(<<"user", asked>>)
    /\ db' = work'
    /\ Goto(IF cur = "delegated" THEN "lead" ELSE "brain")
    /\ UNCHANGED <<digests, asked, cur, marking, kind, pending, crashes, history>>
\* The UPDATE must find the message in_progress; else the request rolls back.
Flip ==
    /\ pc = "flip"
    /\ work.row[<<"user", asked>>] = "in_progress"
    /\ Complete(<<"user", asked>>)
    /\ Goto(IF cur = "delegated" THEN "lead" ELSE "brain")
    /\ UNCHANGED <<db, digests, asked, cur, marking, kind, pending, crashes, history>>

InsertLead ==
    /\ pc = "lead"
    /\ Complete(<<"lead", asked>>)
    /\ Goto("brain")
    /\ UNCHANGED <<db, digests, asked, cur, marking, kind, pending, crashes, history>>

InsertBrain ==
    /\ pc = "brain"
    /\ Complete(<<"brain", asked>>)
    /\ Goto("commit")
    /\ UNCHANGED <<db, digests, asked, cur, marking, kind, pending, crashes, history>>

Commit ==
    /\ pc = "commit"
    /\ db' = work
    /\ Goto("reply")
    /\ UNCHANGED <<work, digests, asked, cur, marking, kind, pending, crashes, history>>

Reply ==
    /\ pc = "reply"
    /\ told' = told \cup {asked}
    /\ Finish
    /\ UNCHANGED <<store, digests, asked, marking, kind, pending, crashes,
                   seen, withdrawn, effects, cutOff, raised>>

-------------------------------------------------------------------------------
(* The other requests of the thread *)

\* digest.run (/wrap): the same runner over everything so far.
DigestRun ==
    /\ Serving
    /\ Digestible
    /\ InsertLeaf
    /\ UNCHANGED <<store, asked, pc, cur, marking, kind, pending, crashes, history>>

OpenTurns == {i \in Send : db.row[<<"user", i>>] = "in_progress"}

\* thread.recovery_status: the client is told of the turns left open.
RecoveryStatus ==
    /\ Serving
    /\ ~ OpenTurns \subseteq raised
    /\ raised' = raised \cup OpenTurns
    /\ UNCHANGED <<store, digests, asked, pc, cur, marking, kind, pending, crashes,
                   seen, told, withdrawn, effects, cutOff>>

\* Mutant of Droppable: the DELETE has no status condition.
DroppableAny(i) == db.row[<<"user", i>>] # "absent"
\* abandon_in_progress deletes the row only while it is still in_progress.
Droppable(i) == db.row[<<"user", i>>] = "in_progress"

\* thread.recovery_resolve, "discard" or "retry" alike; the client may name any
\* turn, and a retry is a message of its own.
RecoveryResolve(i) ==
    /\ Serving
    /\ Droppable(i)
    /\ db' = [row   |-> [db.row EXCEPT ![<<"user", i>>] = "absent"],
              index |-> db.index \ {<<"user", i>>}]
    /\ work' = db'
    /\ withdrawn' = withdrawn \cup {i}
    /\ UNCHANGED <<digests, asked, pc, cur, marking, kind, pending, crashes,
                   seen, told, effects, cutOff, raised>>

\* Mutant of Approve: the entry is resolved only when the executor succeeds.
ApproveLate(i) ==
    /\ Serving
    /\ pending[i] = "pending"
    /\ effects' = [effects EXCEPT ![i] = @ + 1]
    /\ pending' \in {pending, [pending EXCEPT ![i] = "approved"]}
    /\ UNCHANGED <<store, digests, asked, pc, cur, marking, kind, crashes,
                   seen, told, withdrawn, cutOff, raised>>
\* action.approve resolves the entry first, then runs the executor, which may
\* raise; a resolved entry is refused.
Approve(i) ==
    /\ Serving
    /\ pending[i] = "pending"
    /\ pending' = [pending EXCEPT ![i] = "approved"]
    /\ effects' \in {effects, [effects EXCEPT ![i] = @ + 1]}
    /\ UNCHANGED <<store, digests, asked, pc, cur, marking, kind, crashes,
                   seen, told, withdrawn, cutOff, raised>>

Reject(i) ==
    /\ Serving
    /\ pending[i] = "pending"
    /\ pending' = [pending EXCEPT ![i] = "rejected"]
    /\ UNCHANGED <<store, digests, asked, pc, cur, marking, kind, crashes, history>>

\* kill -9 and restart: the open transaction and everything in memory is gone.
Crash ==
    /\ crashes < MaxCrashes
    /\ crashes' = crashes + 1
    /\ work' = db
    /\ Finish
    /\ marking' = <<>>
    /\ pending' = [i \in Send |-> "none"]
    /\ cutOff' = cutOff \cup OpenTurns
    /\ UNCHANGED <<db, digests, asked, kind, seen, told, withdrawn, effects, raised>>

Handler ==
    \/ IdleDigest \/ DigestFails \/ Compress \/ MarkChild \/ Begin
    \/ NoAction \/ RunAction \/ StageAction
    \/ StreamDirect \/ StreamRelay \/ StreamConfirmation
    \/ SendFails \/ Flip \/ InsertLead \/ InsertBrain \/ Commit \/ Reply

Next ==
    \/ Handler
    \/ \E k \in Kinds : Ask(k)
    \/ DigestRun \/ RecoveryStatus
    \/ \E i \in Send : RecoveryResolve(i) \/ Approve(i) \/ Reject(i)
    \/ Crash

Spec == Init /\ [][Next]_vars

-------------------------------------------------------------------------------
(* Properties *)

\* The exchange the database shows for message i; "torn" is never allowed.
ExchangeOf(i) ==
    IF i > asked THEN "unsent"
    ELSE IF \A r \in RowsOf(i, "delegated") : db.row[r] = "absent" THEN "withdrawn"
    ELSE IF \A r \in RowsOf(i, "delegated") :
                db.row[r] = IF r[1] = "user" THEN "in_progress" ELSE "absent" THEN "open"
    ELSE IF \A r \in RowsOf(i, "delegated") :
                db.row[r] = IF r \in RowsOf(i, kind[i]) THEN "completed" ELSE "absent"
         THEN "answered"
    ELSE "torn"

Abstract == INSTANCE AtomicTurns
            WITH exchange <- [i \in Send |-> ExchangeOf(i)]

\* Whatever crashes or recoveries happen, a message is answered as a whole or
\* withdrawn as a whole and an answered exchange is final (complete_turn_pair,
\* abandon_in_progress: "a race where the row already completed never
\* accidentally drops a durable turn").
AtomicExchange == Abstract!Spec

\* A client that was told "completed" finds every row of the exchange in the
\* thread and in search, for ever, and the action it was told of ran once.
AnsweredIsDurable ==
    \A i \in told :
        /\ \A r \in RowsOf(i, kind[i]) : db.row[r] = "completed" /\ r \in db.index
        /\ kind[i] = "action" => effects[i] = 1

\* At every commit point search knows exactly the completed turns (the
\* triggers of migration 006).
IndexIsCompleted == db.index = Completed

\* Write before emit, and before acting (ADR-0022): once a chunk of the reply was
\* shown, the action run or its dialog opened, the message is in the database and
\* stays there, open or answered, for a recovery to find, whatever crashes or
\* raises; it goes only when a recovery drops it (begin_user_turn).
Traces == {i \in Send : i \in seen \/ effects[i] > 0 \/ pending[i] # "none"}
TurnComesFirst ==
    \A i \in Traces : db.row[<<"user", i>>] # "absent" \/ i \in withdrawn

\* A hard-gated action runs at most once, only after its approval, and not at
\* all once it is rejected, across double clicks and restarts.
GatedOnce ==
    \A i \in Send : kind[i] = "staged" =>
        effects[i] <= (IF pending[i] \in {"pending", "rejected"} THEN 0 ELSE 1)

\* Compression loses nothing: every completed turn up to the latest digest is
\* covered by a digest no parent has replaced, also when a crash leaves a
\* compression half marked.
DigestCoverage ==
    \A r \in Completed : At(r) <= LatestEnd => \E d \in Roots : r \in digests[d].covers

\* No turn is summarised by two leaf digests: the windows of run_digest do not
\* overlap, whoever triggered them.
TurnsDigestedOnce ==
    [][\A n \in DOMAIN digests' \ DOMAIN digests : pc # "compress" =>
          \A d \in DOMAIN digests : digests'[n].covers \cap digests[d].covers = {}]_vars

\* ADR-0022: "On startup the brain scans for status='in_progress' rows and
\* surfaces a thread.recovery_required notification".
CutOffIsRaised ==
    \A i \in Send : (i \in cutOff) ~> (i \in raised \cup withdrawn \cup told)
===============================================================================
