---------------------------- MODULE BrainSupervisor ----------------------------
(***************************************************************************)
(* brain.rs: the core's end of the pipe to the brain.  Any number of       *)
(* callers register a slot, subscribe to the broadcast of notifications,   *)
(* write one request under the stdin mutex and wait; one reader task       *)
(* routes what comes back.  transport.py answers the requests one at a     *)
(* time, in the order written, and lsp.py sends what language servers say  *)
(* whether or not a request is being served.                               *)
(*                                                                         *)
(* A call is the index it takes from next_id.  The calls in Streaming pass *)
(* a callback that forwards notifications to the renderer under their own  *)
(* session (lib.rs); the callback of the others does nothing.              *)
(***************************************************************************)
EXTENDS Naturals, Sequences, FiniteSets

CONSTANTS
    MaxCalls,   \* bound: calls ever made
    Streaming,  \* the calls whose notifications are forwarded
    Pipe,       \* how many unread lines a pipe of the process takes
    Buffer,     \* NOTIFICATION_BUFFER (256)
    MayExit     \* whether the brain process may die

ASSUME SupervisorAssumption ==
    /\ MaxCalls \in Nat
    /\ Streaming \subseteq 1..MaxCalls
    /\ Pipe \in Nat \ {0}
    /\ Buffer \in Nat \ {0}
    /\ MayExit \in BOOLEAN

VARIABLES
    made,       \* next_id - 1
    pc,         \* where each caller stands
    result,     \* what its call returned
    pending,    \* ids with a slot in the shared map
    slot,       \* the oneshot of each call
    sub,        \* its receiver of the broadcast channel
    writer,     \* who holds the stdin mutex
    stdin,      \* requests written, not yet read by the brain
    stdout,     \* lines written by the brain, not yet read by the reader
    brain,      \* whether the process lives, what it serves, language servers
    reader,     \* whether the reader task runs
    handled     \* history: whose notifications each caller's callback received

vars == <<made, pc, result, pending, slot, sub, writer, stdin, stdout, brain,
          reader, handled>>

Call == 1..MaxCalls
None == 0
\* Whom a notification is for: a call, or nobody's request (lsp.message).
Origin == Call \cup {None}
Line == [kind : {"note"}, call : Origin] \cup [kind : {"response"}, call : Call]
Result == {"none", "ok", "eof", "timeout", "io"}

TypeOK ==
    /\ made \in 0..MaxCalls
    /\ pc \in [Call -> {"new", "registered", "subscribed", "writing", "waiting", "done"}]
    /\ result \in [Call -> Result]
    /\ pending \subseteq Call
    /\ slot \in [Call -> {<<"empty">>, <<"eof">>} \cup {<<"answer", c>> : c \in Call}]
    /\ sub \in [Call -> Seq(Origin)]
    /\ \A c \in Call : Len(sub[c]) <= Buffer
    /\ writer \in Origin
    /\ stdin \in Seq(Call)
    /\ stdout \in Seq(Line)
    /\ brain \in [up : BOOLEAN, serves : Origin, lsp : BOOLEAN]
    /\ reader \in BOOLEAN
    /\ handled \in [Call -> SUBSET Origin]

Init ==
    /\ made = 0
    /\ pc = [c \in Call |-> "new"]
    /\ result = [c \in Call |-> "none"]
    /\ pending = {}
    /\ slot = [c \in Call |-> <<"empty">>]
    /\ sub = [c \in Call |-> <<>>]
    /\ writer = None
    /\ stdin = <<>> /\ stdout = <<>>
    /\ brain = [up |-> TRUE, serves |-> None, lsp |-> FALSE]
    /\ reader = TRUE
    /\ handled = [c \in Call |-> {}]

-------------------------------------------------------------------------------
(* The callers: call_streaming, step by step *)

Register ==
    /\ made < MaxCalls
    /\ made' = made + 1
    /\ pc' = [pc EXCEPT ![made + 1] = "registered"]
    /\ pending' = pending \cup {made + 1}
    /\ UNCHANGED <<result, slot, sub, writer, stdin, stdout, brain, reader, handled>>

Subscribe(c) ==
    /\ pc[c] = "registered"
    /\ pc' = [pc EXCEPT ![c] = "subscribed"]
    /\ UNCHANGED <<made, result, pending, slot, sub, writer, stdin, stdout, brain,
                   reader, handled>>

Return(c, r) ==
    /\ pc' = [pc EXCEPT ![c] = "done"]
    /\ result' = [result EXCEPT ![c] = r]
    /\ sub' = [sub EXCEPT ![c] = <<>>]

Lock(c) ==
    /\ pc[c] = "subscribed" /\ writer = None
    /\ writer' = c
    /\ pc' = [pc EXCEPT ![c] = "writing"]
    /\ UNCHANGED <<made, result, pending, slot, sub, stdin, stdout, brain, reader, handled>>

\* The pipe to a live brain is full: whoever writes waits, without a deadline,
\* and whoever would write next waits for the mutex.
Full == brain.up /\ Len(stdin) = Pipe

Write(c) ==
    /\ pc[c] = "writing" /\ brain.up /\ ~Full
    /\ stdin' = Append(stdin, c)
    /\ pc' = [pc EXCEPT ![c] = "waiting"]
    /\ writer' = None
    /\ UNCHANGED <<made, result, pending, slot, sub, stdout, brain, reader, handled>>

\* A write to a dead process fails and returns at once: the slot stays in the
\* map.
WriteFails(c) ==
    /\ pc[c] = "writing" /\ ~ brain.up
    /\ Return(c, "io")
    /\ writer' = None
    /\ UNCHANGED <<made, pending, slot, stdin, stdout, brain, reader, handled>>

\* consume_response polls its three sources in order: the answer, then the
\* notifications, then the deadline, which every notification restarts.
Answered(c) ==
    /\ pc[c] = "waiting"
    /\ slot[c] # <<"empty">>
    /\ Return(c, IF slot[c] = <<"eof">> THEN "eof" ELSE "ok")
    /\ pending' = IF slot[c] = <<"eof">> THEN pending \ {c} ELSE pending
    /\ UNCHANGED <<made, slot, writer, stdin, stdout, brain, reader, handled>>

Notified(c) ==
    /\ pc[c] = "waiting"
    /\ slot[c] = <<"empty">>
    /\ sub[c] # <<>>
    /\ handled' = [handled EXCEPT ![c] = @ \cup {Head(sub[c])}]
    /\ sub' = [sub EXCEPT ![c] = Tail(@)]
    /\ UNCHANGED <<made, pc, result, pending, slot, writer, stdin, stdout, brain, reader>>

\* Mutants of Timeout: a call that streams has no deadline; a call that gives
\* up leaves its slot behind.
TimeoutUnlessStreaming(c) ==
    /\ pc[c] = "waiting"
    /\ c \notin Streaming
    /\ slot[c] = <<"empty">>
    /\ sub[c] = <<>>
    /\ Return(c, "timeout")
    /\ pending' = pending \ {c}
    /\ UNCHANGED <<made, slot, writer, stdin, stdout, brain, reader, handled>>
TimeoutKeepingSlot(c) ==
    /\ pc[c] = "waiting"
    /\ slot[c] = <<"empty">>
    /\ sub[c] = <<>>
    /\ Return(c, "timeout")
    /\ UNCHANGED <<made, pending, slot, writer, stdin, stdout, brain, reader, handled>>
Timeout(c) ==
    /\ pc[c] = "waiting"
    /\ slot[c] = <<"empty">>
    /\ sub[c] = <<>>
    /\ Return(c, "timeout")
    /\ pending' = pending \ {c}
    /\ UNCHANGED <<made, slot, writer, stdin, stdout, brain, reader, handled>>

Caller(c) ==
    \/ Subscribe(c) \/ Lock(c) \/ Write(c) \/ WriteFails(c)
    \/ Answered(c) \/ Notified(c) \/ Timeout(c)

-------------------------------------------------------------------------------
(* The brain's loop, one request at a time, and its language servers *)

\* lsp.start leaves a task behind that forwards what the server says.
Serve ==
    /\ brain.up /\ brain.serves = None /\ stdin # <<>>
    /\ \E starts \in BOOLEAN :
         brain' = [brain EXCEPT !.serves = Head(stdin), !.lsp = @ \/ starts]
    /\ stdin' = Tail(stdin)
    /\ UNCHANGED <<made, pc, result, pending, slot, sub, writer, stdout, reader, handled>>

\* A line is written to the end before anything else in the brain goes on.
WriteLine(line) ==
    /\ brain.up /\ Len(stdout) < Pipe
    /\ stdout' = Append(stdout, line)

Note(origin) ==
    /\ WriteLine([kind |-> "note", call |-> origin])
    /\ UNCHANGED <<made, pc, result, pending, slot, sub, writer, stdin, brain, reader,
                   handled>>

\* The handler of the request in service notifies of its progress.
Notify == brain.serves # None /\ Note(brain.serves)

\* A language server has spoken: no request need be in service.
LspMessage == brain.lsp /\ Note(None)

Respond ==
    /\ brain.serves # None
    /\ WriteLine([kind |-> "response", call |-> brain.serves])
    /\ brain' = [brain EXCEPT !.serves = None]
    /\ UNCHANGED <<made, pc, result, pending, slot, sub, writer, stdin, reader, handled>>

\* What it has written can still be read; what it has not read is lost.
Exit ==
    /\ MayExit /\ brain.up
    /\ brain' = [up |-> FALSE, serves |-> None, lsp |-> FALSE]
    /\ stdin' = <<>>
    /\ UNCHANGED <<made, pc, result, pending, slot, sub, writer, stdout, reader, handled>>

-------------------------------------------------------------------------------
(* The reader task *)

\* Mutant of ReadResponse: the oldest caller is taken to be the one answered.
ReadResponseInOrder ==
    /\ reader /\ stdout # <<>> /\ Head(stdout).kind = "response"
    /\ LET c == IF pending = {} THEN None
                ELSE CHOOSE p \in pending : \A q \in pending : p <= q
       IN /\ pending' = pending \ {c}
          /\ slot' = IF c = None THEN slot
                     ELSE [slot EXCEPT ![c] = <<"answer", Head(stdout).call>>]
    /\ stdout' = Tail(stdout)
    /\ UNCHANGED <<made, pc, result, sub, writer, stdin, brain, reader, handled>>
\* A response goes to its id's slot; a late one finds none and is dropped.
ReadResponse ==
    /\ reader /\ stdout # <<>> /\ Head(stdout).kind = "response"
    /\ LET c == Head(stdout).call IN
          /\ slot' = IF c \in pending THEN [slot EXCEPT ![c] = <<"answer", c>>] ELSE slot
          /\ pending' = pending \ {c}
    /\ stdout' = Tail(stdout)
    /\ UNCHANGED <<made, pc, result, sub, writer, stdin, brain, reader, handled>>

Subscribers == {c \in Call : pc[c] \in {"subscribed", "writing", "waiting"}}

\* A receiver that is full forgets its oldest notification.
Received(queue, origin) ==
    Append(IF Len(queue) = Buffer THEN Tail(queue) ELSE queue, origin)

\* A notification goes to every receiver.
ReadNote ==
    /\ reader /\ stdout # <<>> /\ Head(stdout).kind = "note"
    /\ sub' = [c \in Call |-> IF c \in Subscribers THEN Received(sub[c], Head(stdout).call)
                              ELSE sub[c]]
    /\ stdout' = Tail(stdout)
    /\ UNCHANGED <<made, pc, result, pending, slot, writer, stdin, brain, reader, handled>>

\* End of file: every registered caller gets an error, once and for all.
ReadEof ==
    /\ reader /\ ~ brain.up /\ stdout = <<>>
    /\ reader' = FALSE
    /\ slot' = [c \in Call |-> IF c \in pending THEN <<"eof">> ELSE slot[c]]
    /\ pending' = {}
    /\ UNCHANGED <<made, pc, result, sub, writer, stdin, stdout, brain, handled>>

Reader == ReadResponse \/ ReadNote \/ ReadEof

Next ==
    \/ Register \/ \E c \in Call : Caller(c)
    \/ Serve \/ Notify \/ LspMessage \/ Respond \/ Exit
    \/ Reader

Spec == Init /\ [][Next]_vars

\* Tokio polls a task that can go on; nothing is asked of the brain.
FairSpec == Spec /\ WF_vars(Reader) /\ \A c \in Call : WF_vars(Caller(c))

-------------------------------------------------------------------------------
(* Properties *)

\* A call that returns Ok returns the brain's answer to its own request, also
\* after others timed out and their answers came late (reader_loop).
OwnAnswer == \A c \in Call : result[c] = "ok" => slot[c] = <<"answer", c>>

\* A slot lives no longer than its call, timed out, answered late or drained;
\* the one exception is a call whose write failed, whose slot waits for the
\* reader's drain, or for ever (call_streaming's early return).
SlotsAreLive == \A c \in pending : pc[c] # "done" \/ result[c] = "io"

\* A call returns although the brain never answers, or dies.  It may wait for
\* ever in two cases only: notifications, its own or anybody's, restart its
\* deadline again and again, or the pipe to a live brain stays full and it can
\* not write, which has no deadline at all (call_streaming, consume_response).
CallsReturn ==
    \A c \in Call :
        \/ []<><<Notified(c)>>_vars
        \/ <>[](Full /\ pc[c] \in {"subscribed", "writing"})
        \/ (pc[c] = "registered") ~> (pc[c] = "done")

\* lib.rs: a per-call callback is "the way to bind notifications to a specific
\* session id": of the notifications that requests emit, what is forwarded under
\* a session was emitted for it.
NotesKeepSession == \A c \in Streaming : handled[c] \subseteq {c, None}
===============================================================================
