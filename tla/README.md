# A TLA+ development of Thalyn

Thalyn is a desktop application: a React renderer (`src/src`), a Rust core
(`src/src-tauri/src`) that owns the operating system, and a Python sidecar, the
"brain" (`src/brain/thalyn_brain`), that plans and executes agent runs.  This
directory models the parts whose correctness depends on the order in which
things happen, checks the models with TLC on small instances, and proves central
results with TLAPS for every value of the constants.

## 1. The system: inventory

How the parts talk.  The renderer invokes Tauri commands of the core
(`lib.rs`).  `brain.rs` frames each as one line of JSON-RPC on the brain's stdin
and routes what comes back on stdout: responses to a pending slot by id,
notifications to a broadcast channel.  The brain reads **one request at a time**
(`transport.py: serve_stdio`) and runs its handler to the end before it reads
the next line; the only other actors inside the brain are the scheduler task
(`schedules.py: SchedulerLoop`), the parent watchdog, and the tasks that read what
a language server (`lsp.py`) or Chromium (`browser_cdp.py`) has to say.  Everything durable is
in SQLite: `app.db` (runs index, threads, leads, projects, schedules, memory)
and one LangGraph checkpoint database per run.

| Component | State it keeps | Operations | What is hard about it |
|---|---|---|---|
| Run lifecycle (`orchestration/runner.py`, `graph.py`, `resume.py`, `runs.py`, `approval_rpc.py`, `runs_rpc.py`, `chat.py`) | row of each run in `app.db`, checkpoint of each run, coroutine driving it | run, approve_plan (approve, edit, reject), kill_run, spawn of workers, resume at boot | two stores written one after the other; request loop and scheduler concurrently; crash anywhere; decisions that arrive late or twice |
| Eternal thread (`thread_send.py`, `threads.py`, migrations 005-006) | turns with a status, full-text index of completed turns | thread.send, recovery (retry, discard), search | write-before-emit, crash between the user's turn and the reply |
| Rolling digest (`digest_runner.py`) | digests, windows of turns, second-level parents | session-boundary summary, compression | non-atomic compression, boundaries of windows |
| Hard gate (`pending_actions.py`, `action_registry.py`, `action_rpc.py`) | staged actions in memory | stage, approve, reject, execute | double decisions, execution failing after the approval is consumed |
| Scheduler (`schedules.py`, `schedules_rpc.py`, `orchestration/cron.py`) | schedules with next fire time | tick, fire, create, pause, delete | deletion while a dispatch is awaited, crash between dispatch and update, early fire |
| Lead lifecycle (`lead_lifecycle.py`, `lead_rpc.py`, `agents.py`, `sub_lead_actions.py`) | agent rows, the project's lead pointer | spawn, spawn_sub_lead, pause, resume, archive | two rows written separately, depth cap, status machine |
| Project merge (`project_merge.py`, `projects.py`, `project_rpc.py`) | projects and everything that names one | plan, apply | a plan that is stale when it is applied |
| Delegation (`lead_delegation.py`, `project_classifier.py`, `thread_send.py`) | project status; the turn being answered | address a lead, pick a turn's project, ask the lead, relay its reply | stale foreground, names that fit several, judge that errs |
| Information-flow audit (`orchestration/info_flow.py`, `drift.py`) | none of its own | score a reply, score its relay, combine the two | thresholds, and two scores with one voice |
| Memory (`memory.py`, `memory_rpc.py`, `memory_writes.py`, `memory_actions.py`) | rows with scope, project and owner | insert, update, delete, read by an agent | who may read changes when agents are re-parented |
| Budget, critic, drift, planner (`orchestration/budget.py`, `critic.py`, `planner.py`, `graph.py`) | consumption, crossed thresholds, work log, in the graph's state | check on entry and after work, review at quarters | a cap crossed inside a node, a crash that takes consumption back |
| Worker routing (`worker_router.py`, `routing.py`, `routing_table.py`, `routing_intents.py`) | per-project overrides, `local_only` | resolve a provider per spawn | a flag set after the overrides, a worker that a crash left and the next boot drives |
| Connectors (`mcp/`, `connector_actions.py`) | rows with grants, live sessions, last errors | install, set up, grant, enable, start, stop, call | a server that ends unnoticed, an uninstall that fails half-way |
| Email (`email/`) | accounts, credentials, cached tokens, drafts and approvals | add, remove, draft, approve, send | an answer lost after the provider accepted, a removed account's leftovers |
| Brain supervisor (`brain.rs`) | pending slots by request id, broadcast channel, stdin mutex | call, call_streaming, reader task | a call inserted after end-of-file, a timeout racing an answer, dropped or unsolicited notifications, a full pipe |
| Power assertions (`power.rs`) | a token per running run | acquire, release | release of what was never acquired |
| Sandboxes (`sandbox/`) | sandbox per run id | start, exec, teardown | a start that fails half-way, teardown races |
| Terminals (`terminal.rs`, `terminal_observer.py`) | pty sessions, ring buffers | open, write, close | reader thread against close |
| Voice (`voice/`) | capture thread, session map | start, feed, finish, cancel | frames that arrive after finish |
| Browser session (`browser.py`, `browser_cdp.py`, `browser_rpc.py`) | DevTools connection with pending futures, session, capture directory | attach, tools, capture, detach | timers against answers, half of a capture left behind |
| Browser engine (`cef/`) | process-global host state | start, attach, lose | native code, poll with a deadline |
| Language servers (`lsp.py`), inline suggestion, auth, secrets, renderer | subprocess sessions, view state | create, read, update, delete | mostly sequential |

What makes each part correct is in its hazards (`PROJECT.json`, "hazards").  In
short:

* Run lifecycle: no top-level run executes a plan the user did not approve; what
  the index says of a run is what its graph did; no row is left unfinished
  without a coroutine, a gate or a crash to explain it; a restart neither
  reopens a finished run nor gets stuck.
* Eternal thread and hard gate: an exchange is answered as a whole or not at
  all; what the client was told is durable; a gated action runs at most once.
* Digests: no completed turn is lost or summarised twice by leaves.
* Brain supervisor: a call returns with its own answer, an error or a timeout, and
  leaves no slot behind.
* Power assertions: no run puts another one's machine to sleep.
* Scheduler: due work fires, deleted work stops, slots do not repeat.
* Projects and leads: one lead per project, a mutual link, complete merges.
* Conversation: a turn goes to a project on duty, the brain sounds no surer than
  the lead it relays, memory is read along the chain of parents and survives a
  merge with its readers.
* Guards of a run: what it really uses is bounded, crashes included; no reply out of
  a run that has drifted; no worker of a private project on a remote provider.
* Services: sensitive tools need the user's grant, a draft goes out once per
  approval, nothing outlives its uninstall or removal.
* Browser session: every command is awaited by a live reader or fails, no WebSocket
  stays up unowned, every request returns, captures do not overwrite each other.

## 2. Plan

In order of importance; "done" marks what this directory holds.

1. `RunLifecycle` (done): the graph, its gate, its workers, the index, crashes.
2. `EternalThread` (done), refining `AtomicTurns`: thread.send statement by
   statement, recovery, and inside it the hard gate and the rolling digest,
   because they run within the same request and share its crashes.
3. `BrainSupervisor` (done): the core's end of the pipe.
4. `PowerAssertions` (done): the tasks that the forwarded statuses start.
5. `Scheduler` (done): ticks, dispatches, deletion, crash.
6. `ProjectLeads` (done): projects, leads, sub-leads, merges.
7. `Connectors` and `Email` (done), composed in `Services`: grants and sessions,
   and the two-step send, in one brain whose end empties both memories.
8. `Delegation` over `ProjectLeads` and `InfoFlow`, `AgentMemory` over
   `ProjectLeads`, composed in `Conversation` (done): addressing, classification,
   relayed replies, and who reads which memory.
9. `RunGuards` over `InfoFlow` (done): budget, critic and drift, worker routing.
10. `BrowserSession` (done): the DevTools connection and its manager.
11. Not yet: the core's devices (terminals, voice capture, sandboxes, the browser
    engine), language servers, the renderer's reducers.

Theorems: after each module its main invariants.  Done: types and every safety
property the passing runs check, invariants and action properties alike, in
`RunLifecycle`, `EternalThread` with its refinement of `AtomicTurns`,
`BrainSupervisor`, `PowerAssertions`, `Scheduler`, `ProjectLeads`, `Services`,
`BrowserSession`, `Conversation` and `RunGuards`.  Liveness stays with TLC.

Each module is written to be proved about: bounds are constants with named
assumptions, each operation is one action, and no module declares a RECURSIVE
operator.  Definitions named "Mutant of ..." are wrong versions of the definition
that follows them; `PROJECT.json` pairs each with the property it breaks.

## 3. The modules

| Run | Module | Bounds | What it shows |
|---|---|---|---|
| `run_crash` | `RunLifecycle` | 2 runs, depth 1, 2 decisions, 1 crash | gate, index and checkpoint survive every interleaving and a restart; active runs nest like calls; runs settle, decisions sent take effect, the boot pass ends |
| `thread` | `EternalThread` | 3 messages of 4 kinds, 1 crash, digest budget 1, batches of 2 | atomic exchanges, write-before-emit, the gate, digests |
| `supervisor` | `BrainSupervisor` | 2 calls, pipes of 1 line, buffer of 1, any number of notifications | own answers, slots end with calls; who never returns is kept up or stuck at the pipe |
| `power` | `PowerAssertions` | 2 runs, each status seen by up to 2 calls | the map offers only tokens that are held; updates end |
| `scheduler` | `Scheduler` | 2 schedules, slots 3 apart, clock to 6, 1 failure | no slot caught up one by one, deletion; due work fires unless the loop has died or hangs |
| `leads` | `ProjectLeads` | 2 projects, 3 agents, 1 memory row, 2 merges, 1 crash | mutual link, complete merges, depth cap |
| `services` | `Services` | 1 connector with a plain and a sensitive tool, 1 account, 2 drafts, 1 lost answer, 1 crash | grants, sessions, one copy per approval, silence of removed accounts |
| `browser` | `BrowserSession` | 1 run, 2 connections, 8 commands each | reader and connection, stray WebSockets, captures; requests return |
| `conversation` | `Conversation` | 3 projects, 3 agents, depth 2, 1 memory row, 1 merge | project tags, confidence of relayed replies, kinship and merges of memory |
| `guards` | `RunGuards` | plans of up to 4 steps, caps 0 to 3 or none, 1 crash | real consumption, drift gate, private workers from spawn to boot |
| `supervisor_sessions`, `power_leak` | | the smallest that shows it | what the repository says and the code does not do (section 5) |

Deadlock is checked in `leads` and `guards`; everywhere else each source of new
work is bounded and a behaviour that has used them up is over, as each `.cfg`
says.

Every module states a type invariant for its reader.  Those of the modules with
proofs are part of the inductive invariants or theorems of their own; they are not
among the runs' properties, which are kept for what the code could get wrong.

### 3.1 RunLifecycle

| Variable | In the code |
|---|---|
| `header` | the row of the run in `app.db` (`runs.py`): status, whether `completed_at_ms` is set, plan |
| `ckpt` | the last checkpoint of the run's own database: the node that comes next, the status and the plan in the graph's state |
| `task` | the coroutine inside Runner that drives the run: who awaits it (request loop or scheduler), through which method it came, where it stands, plan steps still to delegate |
| `origin` | who started the run: `chat.send`, a schedule, or a worker spawned by a parent |
| `phase`, `bootq` | brain up, dead, or in `resume_unfinished_runs` with the rows still to do |
| `inbox` | decisions written to the brain's stdin and not read yet |
| `ui` | the status the renderer was last notified of |
| `granted`, `started`, `cut` | history: approvals taken, entries into execute, runs cut off by a crash or an exception |

`BeginRun` to `ParkWrite` are `Runner.run` up to `_handle_interrupt`;
`ExecuteEnter` to `RespondNode` the nodes of the graph, each ending with its
checkpoint; `SpawnWorker` is `_spawn_subagent` up to its first await;
`SkipHalted` the early return of a node that finds the run halted; `HaltAt` the
budget or drift gate; `Finalize` the index update; `NodeRaises` an exception that
unwinds all awaiting coroutines.  `HandleApprove`, `HandleEdit`, `HandleReject`
and `HandleKill` are the request handlers; `Crash`, `Restart`, `ResumeNext` and
`BootDone` the process.  `Click` lets the user decide on whatever the renderer
shows, including what is no longer so.

Every step between two writes to a store is an action of its own, because that
is where the scheduler's coroutine, a kill or a crash can fall in.  Data the
control flow does not read (plans' text, logs, replies, token counts) is left
out: a plan is a model value with the number of steps it delegates, and a budget
is the possibility of a halt in the nodes that check it.

*Bounds.*  Two runs are what it takes for a scheduled run beside an interactive
one, or a parent with a worker; two decisions allow a duplicate, a late one and
one that crosses a kill; one crash falls at every step, and what a second would
find is what a first finds, as the boot pass writes the same two stores.  A
worker of a worker needs a third run and is beyond these bounds; that active
runs nest is proved for any depth (section 4).  Two plans suffice, one that
delegates a step and one that does not: that is all the execute node tells
apart.

*Fairness.*  Weak fairness of each run's coroutine (asyncio runs what is ready
and the nodes' awaits return: providers have timeouts), of the request loop
(stdin is read whenever no request is served) and of the boot pass (the core
starts the brain again).  Users, schedules, exceptions and crashes owe nothing.
`DecisionsTakeEffect` starts where a decision, of any of the four kinds, waits in
stdin behind others: it is read in the end, and by then its run ends.

### 3.2 EternalThread and AtomicTurns

| Variable | In the code |
|---|---|
| `db`, `work` | `thread_turns` and `thread_turn_index` as committed, and as the open transaction sees them |
| `digests`, `marking` | `session_digests`; the children a compression still has to re-parent |
| `pc`, `cur`, `kind` | the statement the request stands at, how it answers, how each message was answered |
| `pending` | `PendingActionStore`, in memory |
| `seen`, `told`, `withdrawn`, `effects`, `cutOff`, `raised` | history: chunks, success responses, recoveries, action runs, messages a crash interrupted, messages raised |

`Ask` to `Reply` are one thread.send: `IdleDigest`, `Compress` and `MarkChild` the
digest work before the message is stored, `Begin` its durable in_progress row,
`NoAction`/`RunAction`/`StageAction` the action registry, the three `Stream...`
actions the ways to answer, `Flip`, `InsertLead`, `InsertBrain` and `Commit` the
statements of `complete_turn_pair`.  `DigestFails` and `SendFails` are the
exceptions on the way.  `RecoveryStatus`, `RecoveryResolve`, `DigestRun`,
`Approve` and `Reject` are the other requests.  The request loop is serial, so
they interleave with crashes only, and `Crash` falls between any two statements.
Bodies are left out; times are the order of the sends, so a digest window is a
pair of numbers.  `AtomicTurns` is what the thread promises: a message goes from
unsent to open, and from open to answered or withdrawn, in single steps.

*Bounds.*  Three messages with a digest budget of 1 and batches of 2 reach leaf
digests, a parent over two leaves, and a compression of a parent with a leaf;
the code's 40 and 10 differ by scale only, as both are compared and never
computed with.  The four kinds cover every branch of the answer.  The clock is
taken to be monotone.

No fairness: the properties are about states and steps.  `TurnComesFirst` is the
write-before-emit rule: whatever the user saw of a reply, whatever ran or was
staged for it, the message it belongs to is in the database, or was withdrawn
in a recovery.

### 3.3 BrainSupervisor

`pc`, `result`, `slot` and `sub` are the callers inside `call_streaming` with
their oneshot and broadcast receiver; `pending` the shared map; `writer` the holder
of the stdin mutex; `stdin`, `stdout` the pipes, which hold `Pipe` lines; `brain` the
process (`transport.py` serves one request at a time); `reader` the reader task.
`Lock` takes the mutex, `Write` waits while the pipe to a live brain is full.
`Answered`, `Notified` and `Timeout` are the three arms of `consume_response` in the
order its biased select polls them, so a deadline passes only when nothing is
ready; every notification restarts it.  `Notify` is what the handler of the request
in service emits, `LspMessage` what a language server says, with or without a
request (`lsp.py`; the sink of scheduled runs in `__main__.py` drops theirs).
`ReadNote` drops the oldest of a full receiver (RecvError::Lagged).  `Exit` is the
death of the process, `ReadEof` the reader's drain.

`CallsReturn` asks for a return, and names the two ways in which the code lets a
call wait for ever: notifications restart its deadline again and again, its own or
anybody's, or the pipe of a live brain stays full, since the write is outside the
deadline.  `SlotsAreLive` excepts the call whose write failed, which returns early
and leaves its slot.

*Bounds.*  With two calls one waits behind the other, for the mutex or for its
answer, times out before or after it, and registers before or after the drain; one
line fills a pipe, two notifications overflow a buffer of one.  Notifications are
not bounded.  *Fairness.*  Weak fairness of the reader and of each caller (tokio
polls what is ready and the timers fire); the brain owes nothing, neither to read
nor to answer, which is what the deadline is for.

### 3.4 PowerAssertions

`task` is one `update_power_assertion` per forwarded status and per streaming
call that forwards it (tokio::spawn each), `assertions` the map from run to
token, `held` the tokens whose child process lives in `PowerManager`, `lock` the
mutex of the map.  `Check`, `Acquire`, `Insert`, `Remove` and `Release` are the
steps between a task's awaits.  *Bounds.*  Two runs and two calls in flight make
up to six tasks; a second task for one status is what the two useChat hooks of
the renderer can cause.  *Fairness.*  Weak fairness of each task.

### 3.5 Scheduler

`row` is the schedules table, `loop`, `due`, `firing`, `startedAt`, `wake` the
coroutine of `SchedulerLoop`, `stopping` the event of `stop()`.  A tick reads the
due rows once (`Scan`), dispatches them one after the other (`Fire`, `Record`)
and rests (`Rest`, `Wake`); `Create` and `Delete` come from the request loop at any
await in between.  A dispatch takes any time.  `StatementFails` is a database
error, which ends the loop.  *Bounds.*  Time is counted in thirds of a slot with a
drift of one: a schedule can fire early, be scanned twice, or sleep through a
slot; two slots fit.  *Fairness.*  Weak fairness of the clock and of `Polls`, the
loop but for `Record`, the end of a dispatch: a run and its provider are awaited
there, and nothing is assumed of them (the launcher starts the brain again).
`DueFires` therefore says when a due slot may starve: if a statement that raised
has ended the loop for good, or a dispatch never returns.  Against those the code
takes no measure; against everything else the slot fires.

### 3.6 ProjectLeads

`project`, `agent`, `memory` and `routed` are the tables of the same names, `job`
the rest of a request between its commits, `log` the lines of the merges' audit
files, `deep` the agents whose depth cap was overridden, `cut` the projects a
crash left with half a link.  `Link`, `Unlink` and `RetireProject` are the second
and third commits of lead.spawn, lead.archive and project.archive; `Merge` reads
and logs the plan, `Apply` is its one transaction, `LogOutcome` the audit line
after it.  *Bounds.*  Two projects to merge into each other and back, a lead and
two sub-leads or a lead on each side, one memory row written by any of them.
No fairness: the properties are about states.

### 3.7 Connectors, Email, Services

| Variable | In the code |
|---|---|
| `registry`, `session`, `failed` | the rows of `McpRegistry`, `McpManager._sessions` (a "dead" one is a session whose server has gone without anybody telling the manager), `_errors` |
| `account`, `creds`, `adapter` | `email_accounts`, `EmailCredentialsCache`, `EmailManager._adapters` with their cached tokens |
| `draft`, `from`, `sending` | drafts with their approvals and accounts, the draft handed to the provider |
| `optedIn`, `reached`, `clicked`, `copies`, `lost` | history: what the user granted and approved, what reached a server or a mailbox |

A request is one action, as the request loop is serial; a send is the exception:
`SendDraft` hands the draft to the adapter, and `Sent`, `AnswerLost` and `Refused`
are what the provider may make of it.  The code drops a draft only after the
answer, so that a lost answer leaves it approved: the user may send it again, and
`OneCopyPerClick` allows precisely the extra copies that were lost.  `Uninstall`,
`RemoveAccount` and `StopSession` may fail half-way.  `Services` puts both into one
process: `Crash` empties sessions, credentials, adapters and drafts, and keeps the
rows.  *Bounds.*  Grants of a connector do not depend on others, so one connector
with a plain and a sensitive tool tells all cases apart; two drafts of one account
let one be sent while the other waits, and a second loss adds what the first does.
No fairness: the properties are about states and steps.

### 3.8 BrowserSession

`pending`, `fut`, `nextId`, `closed` are the fields of `CdpConnection`, `reader` its
task, `sockets` the connections whose WebSocket is up, `killed` (history) those
whose reader an answer behind its timer ended, `asked` and `wire` what Chromium has still to answer and what is on its way;
`attached`, `captureRun`, `stepSeq` belong to `BrowserManager`.  `op` is the request
being served: its verb, how many of its commands are done, and those it awaits.
`IssueNext` sends, `Resume` is the awaiting task running again, `Dispatch` the
reader, `TimerFires` the deadline of a command.  A cancelled future stays pending
until its task runs, and an answer in that moment raises in the reader and ends
it: that is the branch `Dispatch` takes on "cancelled".  The reader then marks the connection closed, so that `close()` returns before it
closes the WebSocket (`CloseConnection`).  A capture awaits two commands and leaves
the other behind when one fails.  *Bounds.*  Eight commands
are an attach, a click and a capture in one connection, and two connections let
the second inherit whatever the first leaves; one run suffices, as a change of run
and its absence are told apart by `SetCaptureDir` and `ClearCaptureDir`.
*Fairness.*  Weak fairness of the handler (asyncio runs what is ready) and of the
timers; Chromium owes nothing.

### 3.9 InfoFlow, Delegation, AgentMemory, Conversation

`InfoFlow` holds the audit's algorithms as operators: a text is whether it is
blank, which words and claims it has, where it hedges and how many questions it
asks; scores are percentages.  `Delegation` adds to the projects and agents of
`ProjectLeads` the `paused` flag of a project's row and the last exchange, `turn`.
`Send` is thread.send as the conversation sees it: `Addressed` picks an agent,
`Tag` a project, `Exchange` a reply, and `Relayed` audits a lead's reply and its
relay and combines the two levels.  The steps of that request in the store are the
subject of `EternalThread`.  `AgentMemory` adds the `scope` of each memory row and
the two walks over the tree of agents, downwards (`VisibleFrom`) for reading,
upwards (`Chain`) for attribution.  `RecordMemoryWrite` and the visibility check
are code no caller of the program reaches yet; they are modelled as written.
`Conversation` composes all of it with every request of `ProjectLeads`.

*Bounds.*  Three projects, one of them the default, let a merge have a bystander;
three agents are a lead with two sub-leads or a chain of leads in two projects;
one memory row per behaviour is enough, as no rule relates two rows.  Either rows
are written or messages are sent and projects paused: neither reads what the other
writes.  A turn is forgotten by the next request.  Projects other than the default
are interchangeable (SYMMETRY; the only temporal property is an action property).
Crashes between two commits of a lead's requests are in `leads`.  One content word
distinguishes a relayed reply from an empty one; the audits' percentages between
them are those of the replies `Replies` lists.

### 3.10 RunGuards

| Variable | In the code |
|---|---|
| `run` | where the graph is, how it ended, the plan and the delegated steps left |
| `budget`, `spent`, `now` | caps of the run, `budget_consumed`, seconds since its start |
| `work`, `hit` | work entries of the action log, `critic_thresholds_hit` |
| `saved` | spent, work and hit in the last checkpoint |
| `project` | the project's `local_only` flag and overrides |
| `worker`, `parked` | the provider of the worker awaited, in its row; a worker of a crash that waits for an approval |
| `used`, `driven` | history: what the run really used, crashes or not; who drove its workers while it was private |

Each node is two or three actions: its entry with the first check (`Plan`, `Execute`,
`Critic`, `Respond`), its work (`Spawn`, `WorkerEnds`, `Review`), and its end with the
check after it (`Planned`, `Reviewed`, `Responded`), so that the clock and a crash
fall in between.  A crash enters the node again with what its checkpoint says,
which takes the consumption of the cut node back: `SpendingBounded` is about `used`,
not about the count the code keeps.  The worker a crash leaves is one of the boot
pass: driven on with the provider in its row, or parked (`BootWorker`), and then
approved like a run of its own, with the provider the user has active
(`ApproveWorker`).  Flag and overrides change at the gate only, since the request
loop serves the run's approval to its end and boot comes before it.  A run keeps
its project's id and no row is deleted, so the lookups of `runner.py` and
`worker_router.py` find what `project` holds; a merge leaves the absorbed row, flag
included, and takes its overrides.

`DriftStops` carves out what the heuristic does: with an empty log it scores 0, so a
plan whose steps are all inline replies without a trace.

*Bounds.*  Four steps give drift scores on either side of 70 (one step of four with
an entry is 75 % missing, two are 50 %); caps of 0 to 3 put every quarter and every
overrun within reach of single steps of cost 0, 1 or 2; two providers, one of them
local, are all the router tells apart; one crash takes back a node of any kind, and
the proofs (section 4) are for any number.  One tag stands for all, because rows of
tags are independent.  No fairness: how a run ends is the subject of `RunLifecycle`.

## 4. Proofs

The proofs assume the named assumptions of the modules (bounds are naturals, model
values such as `None` or `NoToken` are no numbers, the set of schedules and the
vocabulary of texts are finite), nothing else.

`RunLifecycle_proofs`, for every number of runs, depth cap, set of plans, number
of decisions and of crashes:

* `TypeCorrect`: one step per action.  Lemmas state what the helpers (`Goto`,
  `Save`, `Emit`, `Proceed`, `Entry`) do to the records.
* `ExecutionIsGranted`: the property is not inductive, as it says nothing of a
  coroutine about to enter execute.  `GrantInv` adds that such a coroutine of a
  top-level run holds a grant not used yet, that only workers are driven as
  workers, and that runs not created yet have no origin.  Approving takes the
  grant and enters execute in one step, resuming never enters execute, and
  nothing else jumps there.

In `RunLifecycle_proofs` too, on top of the types: `LifeInv`, one part per kind of
state.

* `TaskInv`: where a coroutine stands agrees with its checkpoint; a coroutine that
  reaches `_finalize` with a graph that has not run is one a crash has cut before.
* `CheckpointInv`: the status in a checkpoint follows from the node that is next.
* `HeaderInv`: what the row says follows from checkpoint and coroutine.  The
  properties are read off it.
* `InboxInv`: every decision waiting in stdin other than a kill is about a run past
  its plan node; without it an approval could start a graph in the middle of the
  plan.
* `BootInv`: the boot pass drives unfinished rows only, although it reads them once
  and `resume` does not look at the row again.
* `FreshInv`: runs not created yet have left no trace, so that creating one
  disturbs nothing.

`LifeSound` is the induction; lemmas reduce each step to the run it touches
(`Untouched`, `CoroutineStep`, `OnTheWay`).  `CompletedIsTold`, `GatesAreOpen` and
`NoneLeftBehind` follow from it; `BootSparesTerminal` and `CheckpointsMoveOn` are
action properties: every step taken from a state of `LifeInv` leaves terminal rows
alone during boot, and moves a checkpoint along one edge of the graph at most.

`NestInv`, on top of `LifeInv`, makes `WorkersNest` inductive.  `DriveInv` says that a
coroutine of `Runner.run` never gets beyond the gate and that the scheduler drives
no other, so workers are driven by requests alone; hence no worker is at work when
a decision or the boot pass drives a run (`NoWorkers`), which is why approving a
run out of turn cannot put a second coroutine under a waiting parent.  A run just
created has no parent yet.  `NestStep` covers the coroutine's own steps: who waits
for a worker takes none.  The result is `ActiveWorkersNest`, for chains of workers of
any depth, which the bounds of `run_crash` do not reach.

`EternalThread_proofs`, for every number of messages and crashes, every set of
kinds and every digest budget:

* `StoreInv`: a message is blank, open or whole; the one being answered is open
  until its transaction commits; the open transaction differs from the committed
  store by exactly its own rows (`With(db, Uncommitted)`).  The step lemmas say of
  each writing step which message it changes and that it leaves the others alone
  (`OnlyMessage`).  From it, `IndexFollows` and `ExchangesAreAtomic`, the
  refinement of `AtomicTurns`: Begin, Commit and RecoveryResolve map to Accept,
  Answer and Withdraw, every other step to a stutter.
* `HistoryInv`, on top of it: nobody is told before the commit, an ungated action
  has run once by the time its message is answered, a staged one has not run
  while its entry is undecided.  A chunk, an action run or one staged belongs to a message that is stored.
  From it, `AnswersAreDurable`, `TracesNeedTurns` and `GateHolds`.
* `DigestInv`: no digest reaches past the messages sent before the one being
  answered, so that a turn completed later lies in a later window; whatever a
  digest covers lies before the end of the latest; and while a compression marks
  its batch child by child, the parent is live and covers every child still to be
  marked, which is why a crash between two marks loses nothing.  From it,
  `DigestsCover` and `NoTurnTwice`.

`BrainSupervisor_proofs`, for every number of calls, capacity of the pipes and buffer:

* `TypeCorrect`, which includes that no receiver outgrows the buffer.
* `SlotInv`: a slot is empty, drained, or holds the answer to its own call, and is
  out of the map once filled or its call over.  From it `AnswersAreOwn` and
  `SlotsEndWithCalls`.

`PowerAssertions_proofs`, for any runs, lives and streaming calls: `TokenInv` says
that a token acquired and not in the map yet is in the hands of one task, and that
one taken out of the map is known to nobody else.  From it `MapStaysHeld` and
`TokensStayApart`.  What no invariant excludes is the leak of section 5.

`Scheduler_proofs`, for any schedules, slot length, drift, poll interval and number
of failures: `SchedInv` says that the slot after a time lies beyond it, that a
tick's list names a schedule once, and that a deleted schedule which has been
dispatched since is off the list.  From it `NextIsLater` and `DeletedStaysDeleted`.
`RefireInv`, on top of it, counts the dispatches of each slot against the failures
whose consequences are over (`Settled`): while a slot lies ahead it has been
dispatched once more than that at most, and only if the loop will look at the table
no earlier than the slot; once it has come, the extra dispatch must be the one being
made.  Slots beyond the row's next one have not been touched.  From it
`RefiresAreFew`.

`Conversation_proofs`, for any projects, rows, agents, merges and crashes, depth cap
and vocabulary.  About `ProjectLeads`:

* `StaffInv`, about agents and rows alone: a project has one lead on duty at most,
  leads have no parent, a working agent has a project and so have its parent and
  the author of any row.
* `LinkInv`: pointers are mutual except where a request still owes the second
  commit or a crash has cut it; the refusal of a merge without an heir still holds
  when the merge is applied.  `PointerInv`, a part of it, is needed for the types
  already: `project.archive` unlinks the project of whatever lead its row points at.

From them `LeadsAreSingle`, `LinksAreMutual` and `MergesAreComplete`.

`TreeInv` says that an agent's parent is older than the agent, or a lead without a
parent: a merge may hand a sub-lead to a younger lead, but to a lead only.  That
makes `Height` fall along every chain of parents (`HeightFalls`), so what holds of the
agents at the top and passes from parent to child holds of all (`TreeInduction`, by the
least height of a counterexample), and a recursion along the parents defines a
function (`TreeRecursion`).  `DepthOfIs`, `ChainOfIs` and `WalkIs` are the equations of
`Depth`, `Chain` and the rounds of `VisibleFrom`; they are stated for any staff `ag`, so
that they may be used before and after a step.

* `DepthsAreCapped`: a step leaves the agents where they are, adds one below an
  existing one, or moves sub-leads from a lead to a lead (`Moves`); the last changes
  no depth (`SameDepths`).
* `KinOnlyRead`: after n rounds the walk down has found exactly the agents with the
  start on their chain and at most n levels below it (`WalkIs`), and `MaxAgents`
  rounds reach all of them.
* `ReadersAreKept`, an action property: after a merge each row of the absorbed staff
  is the surviving lead's own or that of a sub-lead right below it (`RowsMove`), and
  by `KinReadOnly` in the new state their chains hold nobody else.

The specification of the conversation takes steps of `ProjectLeads` or of the memory
rows (`ConversationMoves`); both keep these invariants (`ConversationSound`).  `TurnInv`
adds the turn: `TagsAreLive` says what thread.send may tag a turn with, whoever is
addressed and whatever the judge answers; the spawn a message may cause leaves its
addressee and the projects alone.  `RelayLevels` computes the two audits for each reply:
the relay always scores 0, so the brain's level is the lead's.  From it `TagsLive` and
`BrainIsNoSurer`.

`Managers_proofs`, for any connectors, tools, accounts, drafts, lost answers and crashes
of `Services`:

* `GrantInv`: a connector without a row has no session, no grants and a clean history,
  and what is granted or was reached of the sensitive tools, the user has opted into
  since the install.  From it `SensitiveIsGranted` and `SessionsAreInstalled`.
* `SendInv`: a draft that is still there has gone out at most as often as answers were
  lost, one that is gone at most once more, and none before its approval; a send under
  way is of an approved draft of a stored account, and only stored accounts have
  adapters.  From it `CopiesAreClicked` and, as an action property, `SendersAreStored`.

and for any runs, connections and commands of `BrowserSession`: `BrowserInv` says that
the reader ends with the connection, that a request other than an attach has a session,
that numbers are written to the capture directory once they are taken, and that the
one being taken has not been written.  `Linked` ties the WebSockets to it: one that is
up is the current one, open and read, or had its reader killed by an answer.  From it
`OpenIsRead`, `ConnectionsAreOwned` and `CapturesStay`.

`RunGuards_proofs`, for any caps, plans, costs, tags, providers and crashes: `IInv`
joins the shapes of the variables to four parts.

* `ReviewInv`: no quarter is marked before the critic's node, in the checkpoint
  before it neither, and the checkpoint behind it holds the marks and the log the
  run goes on with, so that a crash goes back to something the invariant is true
  of.  Once a quarter is marked, the run was halted there or most of its plan has
  left traces: the review's score is never below the heuristic one
  (`DriftBoundsPlan`), and the log does not change after it.
* `EndInv`: a run that ended well is within its caps as of that moment, one that is
  live has raised no gate.
* `SpendInv`: the count of a live run is within its caps, one halted is past them by
  one text or node (`JustPast`); the checkpoint has the same tokens and lacks the entry
  of the node under way at most (`Resumable`), so that each crash makes the run
  forget one text and one entry (`Forgotten`), in product form for the texts.
* `WorkerInv`: a worker is awaited in execute only, while nobody can edit the project,
  so one routed under the flag is local, and still is when boot finds it in the row.

From `IInv` follow `SpendingIsBounded`, `DriftIsStopped` (by arithmetic: a percentage
rounded down below 70 is one below 70) and `PrivateWorkersStayLocal`.

Model-checked only: the liveness properties (`StartedRunsSettle`,
`DecisionsTakeEffect`, `BootEnds`, `RequestsReturn`, `CallsReturn`, `TasksEnd`, `DueFires`), which rest on
fairness and ENABLED and are beyond the prover.  Definitions by recursion are beyond its
induction theorems, which take an operator as a parameter; those along the parents are
proved from the induction on sets above, and no other module computes by recursion.

## 5. What the code does not do

Shown by a run that finds the violation:

* A notification is stamped with the session of whoever receives it: with two
  streaming calls in flight, one call forwards the other's chunks as its own
  (`supervisor_sessions`).
* A terminal status can overtake the acquire of an earlier one: the token is
  inserted after its removal and keeps the machine awake (`power_leak`).

Met while modelling; the models let it happen.  Where a module states what the
repository says, the definition is named; none of these is a property of a run.

* A kill is undone: `kill_run` flips the index, the coroutine of a scheduled run
  does not look and writes its own outcome later (`RunLifecycle!KilledInFlightStays`,
  from the docstring of `Runner.kill_run`).
* `approve_plan` has no status check, so a duplicate approval runs the graph's
  remaining nodes again.
* After a crash between checkpoint and index, the boot pass leaves the row at
  "planning" or "pending", with no gate shown and nobody driving it; a run cut off
  inside execute after its approval is parked at the gate again.
* Nothing scans for interrupted messages at startup; they are raised only when a
  client happens to ask (`EternalThread!CutOffIsRaised`, from ADR-0022).
* An action runs before the exchange is durable: after a crash the user is
  offered a retry that runs it again.
* The answer wins over notifications in the biased select: the last chunks of a
  reply can be lost when its response is read at once, although `call_streaming`
  speaks of every notification.
* A write to the brain waits for a full pipe under the stdin mutex and before its
  deadline starts; one language server that keeps talking keeps every call from
  timing out.
* `SchedulerLoop`'s docstring speaks of splitting long sleeps, the code sleeps for
  one poll interval; `stop()` re-raises the exception that ended the loop, in the
  `finally` that was to shut the other managers down.
* A sub-lead below a sub-lead stays in the absorbed project when a merge moves
  its parent (`ProjectLeads!SubLeadSharesProject`, from `lead_lifecycle.py`).
* A merge's plan counts memory rows of no project as the absorbed lead's; a
  refused merge leaves a plan line without an outcome.
* `project.archive` leaves the sub-leads of its lead on duty, and `project.pause`
  and `project.resume` revive an archived project.
* A memory row can be an agent's without naming one: `memory.update` changes any
  row's scope, and a merge into a project without a lead clears the owner
  (`AgentMemory!AgentRowsOwned`, from the docstring of `memory.py`).
  `memory_writes.py` says that every memory write flows through
  `record_memory_write`; nothing in the program calls it, nor the visibility check.
* When no project is on duty, a turn keeps the project in the foreground although
  that one is archived: the check of `classify_with_verdict` comes after the
  early return.
* A report can raise a gate because its confidence is low, while the level shown is
  computed from the score alone.
* The critic runs before the reply, not after it: a quarter first crossed by the
  reply is never reviewed (`RunGuards!ReviewedAfterRespond`, from `critic.py`).  A
  crash inside a node takes that node's consumption back; workers have no budget.
* `worker_router.py` refuses "rather than proceed" with a provider that is not
  local, but a worker that a crash cut off is parked by the boot pass, shown with
  its own gate, and approved with the user's active provider
  (`worker-surface.tsx`), which nobody routes (`ApproveWorker`;
  `PrivateStaysLocal` excepts exactly that).  A merge rewrites no `agent_runs.project_id`: a run of the absorbed
  project goes on under that project's flag, not the survivor's.
* `local_only` is looked at when a worker is routed; the run's own provider and
  the lead's are not checked against it.  Both local providers satisfy it, so the
  router's refusal is never reached.  An override stored under an unnormalised tag
  never applies.
* `McpManager.start` leaves a session alone whose server has gone; only stop and
  start bring it back.
* An answer dispatched after its timer kills the reader, which marks the connection
  closed; `close()` then returns before `ws.close()`, and after a detach or a failed
  attach that WebSocket stays up with no owner (`browser_cdp.py:95-96, 171-173`;
  `NoStrayConnection` excepts exactly those).
* A failed `mouseReleased` leaves the page with the button down; a failed half of a
  capture leaves its number unused.

## 6. Not modelled

Wording and layout, logs and traces, provider traffic, the text of plans and
messages, secrets, and time other than the scheduler's, the browser's deadlines
and the budget's clock.  Components with status `not_modelled` in `PROJECT.json`
are listed with their reasons there.  Voice, terminals, sandboxes and language
servers are left to later work: each is a table of sessions next to an operating
system resource.  The browser engine is native code behind a port file; providers,
keychain and migrations are external services and libraries.  Partly modelled are
the hard gate (matchers and executors are left out), the project actions spoken in
the conversation (of which "spawn a sub-lead" is modelled, the others being
requests of `ProjectLeads` under another name) and the planner (its plans, not its
parsing).
