--------------------------- MODULE BrowserSession ---------------------------
(* The brain's browser session over the DevTools protocol (browser.py,       *)
(* browser_cdp.py, browser_rpc.py): one request at a time turns into one or  *)
(* more commands, each a future in the connection's pending map, while the   *)
(* reader task routes what Chromium sends and timers cancel what is late.    *)
(* A capture sends two commands at once; if one fails the other is left      *)
(* behind, still pending.                                                    *)

EXTENDS Naturals

CONSTANTS
    Runs,           \* runs that may set a capture directory
    NoRun,          \* no run
    MaxId,          \* bound on the commands of one connection
    MaxAttach       \* bound on the connections

ASSUME BrowserAssumption ==
    /\ NoRun \notin Runs
    /\ MaxId \in Nat /\ MaxAttach \in Nat

VARIABLES
    attached,       \* BrowserManager._session is set
    closed,         \* CdpConnection._closed
    reader,         \* the reader task runs
    chromium,       \* the other end of the WebSocket is there
    sockets,        \* the connections, by number, whose WebSocket is up
    killed,         \* history: those whose reader a cancelled future ended
    nextId,         \* CdpConnection._next_id
    pending,        \* CdpConnection._pending
    fut,            \* the future of each command
    asked,          \* commands Chromium has not answered
    wire,           \* answers on their way to the reader
    op,             \* the request being served, with the commands it awaits
    captureRun, stepSeq,    \* the capture directory's run and next number
    written,        \* history: how often each number was written to it
    attaches        \* connections opened

connection == <<closed, reader, chromium, sockets, killed, nextId, pending, fut, asked, wire>>
captures == <<captureRun, stepSeq, written>>
browserVars == <<attached, connection, op, captures, attaches>>

Ids == 1 .. MaxId
Numbers == 0 .. 2 * MaxId
Fut == {"none", "waiting", "result", "error", "cancelled"}

\* The commands of each request, in order: getTargets, attachToTarget, enable;
\* evaluate, mousePressed, mouseReleased; evaluate, insertText; or just one.
Script == [attach |-> 3, navigate |-> 1, get_text |-> 1, click |-> 3,
           type |-> 2, screenshot |-> 1]
Verb == DOMAIN Script

\* Requests that are captured once they have succeeded, and those whose first
\* answer may say that there is no such element.
Captured == {"navigate", "get_text", "click", "type"}
MayMiss == {"click", "type"}

Op == [verb: Verb \cup {"capture", "none"}, step: Nat, awaits: SUBSET Ids]
NoOp == [verb |-> "none", step |-> 0, awaits |-> {}]
NoRequest == op = NoOp

BrowserInit ==
    /\ attached = FALSE
    /\ closed = TRUE /\ reader = FALSE /\ chromium = FALSE
    /\ sockets = {} /\ killed = {}
    /\ nextId = 1 /\ pending = {} /\ asked = {} /\ wire = {}
    /\ fut = [i \in Ids |-> "none"]
    /\ op = NoOp
    /\ captureRun = NoRun /\ stepSeq = 0 /\ written = [n \in Numbers |-> 0]
    /\ attaches = 0

Await(verb, step, ids) == op' = [verb |-> verb, step |-> step, awaits |-> ids]

-----------------------------------------------------------------------------
(* The connection *)

\* CdpConnection._fail_pending, for the futures that are not done.
FailPending ==
    /\ pending' = {}
    /\ fut' = [i \in Ids |-> IF i \in pending /\ fut[i] = "waiting" THEN "error" ELSE fut[i]]

\* Mutant of ReaderEnds: only a connection closed by Chromium is marked.
ReaderEndsUnmarked ==
    /\ reader' = FALSE
    /\ closed' = (closed \/ ~chromium)
    /\ FailPending
    /\ UNCHANGED <<attached, chromium, sockets, nextId, asked, op, captures, attaches>>

\* The finally of the reader loop, however it ended; it leaves the WebSocket.
ReaderEnds ==
    /\ reader' = FALSE /\ closed' = TRUE
    /\ FailPending
    /\ UNCHANGED <<attached, chromium, sockets, nextId, asked, op, captures, attaches>>

\* CdpConnection.close: a connection marked closed, by its reader too, is left
\* as it is.
CloseConnection ==
    IF closed THEN UNCHANGED <<connection>>
    ELSE /\ closed' = TRUE /\ reader' = FALSE
         /\ sockets' = sockets \ {attaches}
         /\ FailPending
         /\ UNCHANGED <<chromium, killed, nextId, asked, wire>>

\* Its WebSockets end with it; earlier ones may lead to it or not.
ChromiumExits ==
    /\ chromium
    /\ chromium' = FALSE
    /\ \E gone \in SUBSET sockets : sockets' = sockets \ (gone \cup {attaches})
    /\ UNCHANGED <<attached, closed, reader, killed, nextId, pending, fut, asked, wire, op, captures, attaches>>

ReadEof ==
    /\ reader /\ ~chromium
    /\ ReaderEnds /\ UNCHANGED <<wire, killed>>

Answer(i) ==
    /\ chromium /\ i \in asked
    /\ asked' = asked \ {i} /\ wire' = wire \cup {i}
    /\ UNCHANGED <<attached, closed, reader, chromium, sockets, killed, nextId, pending, fut, op, captures, attaches>>

\* CdpConnection._dispatch.  A future that a timer has cancelled stays pending
\* until its task has run; setting it raises, and that ends the reader.
Dispatch(i) ==
    /\ reader /\ i \in wire
    /\ wire' = wire \ {i}
    /\ \/ /\ i \in pending /\ fut[i] = "waiting"
          /\ \E outcome \in {"result", "error"} : fut' = [fut EXCEPT ![i] = outcome]
          /\ UNCHANGED <<attached, closed, reader, chromium, sockets, killed, nextId, pending, asked, op, captures, attaches>>
       \/ /\ i \in pending /\ fut[i] = "cancelled"
          /\ ReaderEnds /\ killed' = killed \cup {attaches}
       \/ /\ i \notin pending
          /\ UNCHANGED <<attached, closed, reader, chromium, sockets, killed, nextId, pending, fut, asked, op, captures, attaches>>

\* Mutant of TimerFires: commands are awaited without a timeout.
NoTimer(i) == FALSE /\ i \in Ids /\ UNCHANGED browserVars

\* The 30 s of asyncio.wait_for have passed.
TimerFires(i) ==
    /\ fut[i] = "waiting"
    /\ fut' = [fut EXCEPT ![i] = "cancelled"]
    /\ UNCHANGED <<attached, closed, reader, chromium, sockets, killed, nextId, pending, asked, wire, op, captures, attaches>>

\* CdpConnection.send of n commands at once, each a new id.
Send(n) ==
    LET ids == nextId .. nextId + n - 1 IN
    /\ nextId + n - 1 <= MaxId
    /\ nextId' = nextId + n
    /\ pending' = pending \cup ids /\ asked' = asked \cup ids
    /\ fut' = [i \in Ids |-> IF i \in ids THEN "waiting" ELSE fut[i]]
    /\ Await(op.verb, op.step, ids)
    /\ UNCHANGED <<closed, reader, chromium, sockets, killed, wire>>

-----------------------------------------------------------------------------
(* The manager *)

\* BrowserManager.attach; a connector that cannot connect changes nothing.
Attach ==
    /\ NoRequest /\ ~attached /\ attaches < MaxAttach
    /\ attaches' = attaches + 1
    /\ closed' = FALSE /\ reader' = TRUE /\ chromium' = TRUE
    /\ sockets' = sockets \cup {attaches + 1}
    /\ nextId' = 1 /\ pending' = {} /\ asked' = {} /\ wire' = {}
    /\ fut' = [i \in Ids |-> "none"]
    /\ Await("attach", 0, {})
    /\ UNCHANGED <<attached, killed, captures>>

\* The tools and screenshot: refused without a session.
Request(verb) ==
    /\ NoRequest /\ attached /\ verb # "attach"
    /\ nextId + Script[verb] + 1 <= MaxId
    /\ Await(verb, 0, {})
    /\ UNCHANGED <<attached, connection, captures, attaches>>

\* BrowserManager.capture: the number is taken before the commands are sent.
BeginCapture ==
    /\ Await("capture", stepSeq, {})
    /\ stepSeq' = stepSeq + 1
    /\ UNCHANGED <<captureRun, written>>

Capture ==
    /\ NoRequest /\ attached /\ captureRun # NoRun /\ nextId < MaxId /\ stepSeq < MaxId
    /\ BeginCapture
    /\ UNCHANGED <<attached, connection, attaches>>

\* Mutant of Fail: a failed attach leaves its connection open.
FailOpen ==
    /\ op' = NoOp
    /\ UNCHANGED <<attached, connection, captures, attaches>>

\* The request raises.  A failed attach closes the connection it has opened; a
\* failed capture is nobody's error.
Fail ==
    /\ op' = NoOp
    /\ IF op.verb = "attach" THEN CloseConnection ELSE UNCHANGED connection
    /\ UNCHANGED <<attached, captures, attaches>>

\* The next command of the request, or both commands of a capture.  When
\* Chromium has just gone, the send fails or goes nowhere.
IssueNext ==
    /\ ~NoRequest /\ op.awaits = {}
    /\ \/ /\ closed \/ ~chromium
          /\ Fail
       \/ /\ ~closed
          /\ Send(IF op.verb = "capture" THEN 2 ELSE 1)
          /\ UNCHANGED <<attached, captures, attaches>>

\* The last command of a request is answered.
Succeed ==
    /\ attached' = (attached \/ op.verb = "attach")
    /\ IF op.verb \in Captured /\ captureRun # NoRun
       THEN BeginCapture
       ELSE op' = NoOp /\ UNCHANGED captures

\* The capture's two files are written under its number.
WriteCapture ==
    /\ op' = NoOp
    /\ written' = [written EXCEPT ![op.step] = @ + 1]
    /\ UNCHANGED <<attached, captureRun, stepSeq>>

Forget(i) ==
    /\ pending' = pending \ {i}
    /\ fut' = [fut EXCEPT ![i] = "none"]
    /\ UNCHANGED <<closed, reader, chromium, sockets, killed, nextId, asked, wire>>

\* The task that awaits a command runs again: what it awaited goes on, fails,
\* or, when the capture it was for has already failed, is forgotten.
Resume(i) ==
    /\ fut[i] \in {"result", "error", "cancelled"}
    /\ UNCHANGED attaches
    /\ \/ /\ i \notin op.awaits
          /\ Forget(i) /\ UNCHANGED <<attached, op, captures>>
       \/ /\ i \in op.awaits
          /\ \/ /\ fut[i] = "result" /\ op.verb = "capture"
                /\ Forget(i)
                /\ IF op.awaits = {i} THEN WriteCapture
                   ELSE Await("capture", op.step, op.awaits \ {i})
                        /\ UNCHANGED <<attached, captures>>
             \/ /\ fut[i] = "result" /\ op.verb # "capture"
                /\ Forget(i)
                /\ IF op.step + 1 = Script[op.verb] THEN Succeed
                   ELSE Await(op.verb, op.step + 1, {}) /\ UNCHANGED <<attached, captures>>
             \/ /\ fut[i] # "result" \/ (op.step = 0 /\ op.verb \in MayMiss)
                /\ op.verb # "attach"
                /\ Forget(i) /\ op' = NoOp /\ UNCHANGED <<attached, captures>>
             \/ /\ fut[i] # "result" \/ op.step < 2
                /\ op.verb = "attach"
                /\ Fail

ClearCaptures ==
    captureRun' = NoRun /\ stepSeq' = 0 /\ written' = [n \in Numbers |-> 0]

\* Mutant of SetCaptureDir: every call starts counting again.
SetCaptureDirResets(run) ==
    /\ NoRequest
    /\ captureRun' = run /\ stepSeq' = 0
    /\ IF run = captureRun THEN UNCHANGED written
       ELSE written' = [n \in Numbers |-> 0]
    /\ UNCHANGED <<attached, connection, op, attaches>>

\* BrowserManager.set_capture_dir: the same run goes on counting.
SetCaptureDir(run) ==
    /\ NoRequest
    /\ captureRun' = run
    /\ IF run = captureRun THEN UNCHANGED <<stepSeq, written>>
       ELSE stepSeq' = 0 /\ written' = [n \in Numbers |-> 0]
    /\ UNCHANGED <<attached, connection, op, attaches>>

ClearCaptureDir ==
    /\ NoRequest /\ ClearCaptures
    /\ UNCHANGED <<attached, connection, op, attaches>>

Detach ==
    /\ NoRequest /\ attached
    /\ attached' = FALSE
    /\ ClearCaptures
    /\ CloseConnection
    /\ UNCHANGED <<op, attaches>>

-----------------------------------------------------------------------------
Handler == IssueNext \/ \E i \in Ids : Resume(i)

BrowserNext ==
    \/ Attach \/ Detach \/ Capture \/ ClearCaptureDir
    \/ \E verb \in Verb : Request(verb)
    \/ \E run \in Runs : SetCaptureDir(run)
    \/ Handler
    \/ ChromiumExits \/ ReadEof
    \/ \E i \in Ids : Answer(i) \/ Dispatch(i) \/ TimerFires(i)

\* asyncio runs what is ready, and every command has a timer.
BrowserFairness == WF_browserVars(Handler) /\ WF_browserVars(\E i \in Ids : TimerFires(i))

BrowserSpec == BrowserInit /\ [][BrowserNext]_browserVars /\ BrowserFairness
-----------------------------------------------------------------------------
BrowserTypeOK ==
    /\ {attached, closed, reader, chromium} \subseteq BOOLEAN
    /\ sockets \cup killed \subseteq 0 .. MaxAttach
    /\ nextId \in 1 .. MaxId + 1
    /\ pending \subseteq Ids /\ asked \subseteq Ids /\ wire \subseteq Ids
    /\ fut \in [Ids -> Fut]
    /\ op \in Op
    /\ captureRun \in Runs \cup {NoRun}
    /\ stepSeq \in Nat
    /\ written \in [Numbers -> Nat]
    /\ attaches \in 0 .. MaxAttach

\* A connection that does not say it is closed has a reader: however the reader
\* task ends, even killed by an answer that comes in just after its timeout, no
\* later command waits for answers nobody reads (CdpConnection._reader_loop).
OpenMeansRead == ~closed => reader

\* A WebSocket is up only for the session or for the attach under way: after a
\* detach, or an attach that failed at any of its commands, none is left, except
\* where an answer behind its timer had killed the reader; close() takes such a
\* connection for closed (BrowserManager.attach, detach, CdpConnection.close).
NoStrayConnection ==
    \A c \in sockets \ killed : c = attaches /\ (attached \/ op.verb = "attach")

\* As long as a run keeps its capture directory no capture overwrites another,
\* also when earlier ones have failed (BrowserManager.capture, set_capture_dir).
CapturesKept == \A n \in Numbers : written[n] <= 1

\* Every request is answered, whatever Chromium does, as long as its commands
\* fit the socket's buffer: the write itself has no timeout (CdpConnection.send).
RequestsReturn == ~NoRequest ~> NoRequest
=============================================================================
