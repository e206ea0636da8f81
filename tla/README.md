# capri-host in TLA+

Capri-host is a Go program that puts a grok agent on the network. It runs the
agent as a child process, speaks ACP (JSON-RPC over stdio) with it, serves a
browser UI over HTTP and SSE, and keeps an outgoing link to a hub through which
browsers elsewhere reach the same host. This directory holds TLA+ modules of
its concurrent core and of what it makes of the agent's files, the TLC runs that
check them, and proofs checked by TLAPS.

    browser ─ HTTP/SSE ─ server ─┐                       ┌─ stdio ─ grok agent
                                 ├─ acp.Bridge ──────────┤           │ writes
    browser ─ hub ─ hub.Client ──┘     │                 └─ reads ─ updates.jsonl
       (external)      │               ├─ config.toml, usage-ledger.jsonl
                   hub.Manager         └─ eventBus ─ subscribers: SSE, forwardLoop,
                       │                                          goal loops
                   config.json, hub.json

Paths below are relative to `src/internal/`; `bridge.go` is `acp/bridge.go`,
`client.go` is `hub/client.go`, and other files without a directory are in `acp/`.

## 1. The system

### Parts, their state and operations

| Part | State | Operations | What makes it correct |
|---|---|---|---|
| event bus (`event_bus.go`) | global `seq`, a channel and a bounded ring per subscriber, a pump goroutine each | publish, subscribe, unsubscribe, pump | order, no lost wake-up, terminal events survive a slow reader, a gone reader's pump ends |
| agent process (`bridge.go` 905–1060, 1404–1556, 3087–3139, 3524–3620) | `cmd`, `stdin`, `ready`, `bootOK`, `booting`, `bootDone`, the table of pending requests | ensureBooted, ensureProcess, waitProcess, readStdout, requestRaw, resetProcessRoster, RestartAgent | one process at a time, every caller gets an answer, a late exit never wipes a successor |
| requests of the agent (2662–3045) | `clientReqs`, each request's `done`, `AwaitingInput` of the rows | forward, respond, expire, cancel, retire | one reply per request, to the process that asked; an accepted answer is the one sent; the awaiting flag agrees with the table |
| sessions and turns (442–760, 3164–3465, 4303–4925) | roster rows (`Busy`, `busyCount`, `unloaded`), observed turns, active and last session | prompt, load, resume, new, close, update handling, settling of silent turns | busy never sticks and is never taken from a turn that runs |
| idle unload (`idle_unload.go`) | none of its own | sweep, unloadResident | never demotes what is in use |
| goal engine (`goal.go`, `server/http_goal.go`) | the goal, its status, the loop that owns it and its stop channel | set, pause, resume, clear, the loop, goalAnalyze, shutdown | one serving loop per goal; a control call is not undone by a late round; a claim is verified before it counts |
| session settings (`bridge.go` 3640–4100, 5600–5760, `models_config.go`, `server/http_models.go`) | mode, model, effort of the row, `permMode`, config.toml, a dismissed campaign | set mode, model, effort, permissions; edit and reload models; connect | host, agent and every browser end up with the same; no success is reported for what the agent refused |
| usage ledger (`usage_ledger.go`, `bridge_ext_usage.go`) | entries and cursors in memory, in two files on disk | sync, merge, save, report | each turn is counted once and for good |
| session history (`session_history.go`, `synth_tool_call.go`, `lite.go`) | a cache of the parsed file, a resolver of live tool calls | order, rewind filter, turns, ids, pages, lite pages | what is paged is what the agent goes on from; one id per call, live or read |
| background tasks (`session_tasks.go`) | the agent's last snapshot | running and detached tasks, the sidebar's census, a task's output | nothing the agent can stop is called detached; nothing running is missed |
| generation rate (`genrate.go`) | one segment per session | observe, tick, discard | throttled, and never more than was sent |
| hub uplink (`client.go` 600–1216, 1879–2121) | replay ring, `nextSeq`, `lastSentSeq`, `hubAckSeq`, `needCatchUp`, `enqueueMu`, `sendCh`, subscriber count and its generation | forwardLoop, replay, repair, hello/subscribers/ping handling | events reach the hub once, in order, across drops, reconnects and restarts of either side |
| hub link and pairing (`hub/manager.go`, `hub/control.go`, `client.go` 300–600, 1690) | configuration, current client, token, `hub.json`, QUIC cooldown | manager loop, Run, ensureToken, pair, reuse, disconnect | the right token at the right hub; a pairing or a move takes effect at once |
| hub relay plane (`client.go` 2123–2364, `hub/bridge.go`) | a goroutine per relayed request | handleRelay, respond | each request answered once on the session that asked |
| configuration (`config/`), extensions, statistics | files | read, edit, pass on | an update of one key keeps the others |
| HTTP server (`server/`) | none that outlives a request, but for an SSE stream | decode, call the bridge, stream | the snapshot and the stream fit together |
| main, trays, platform services | start-up order, supervised child | start, stop | — |

### Interactions

* The agent's stdout has one reader goroutine (`readStdout`). It handles every
  update and every request of the agent under `agentMessageMu`; a reset of the
  process takes the same lock, so no message of an old process is handled half
  way through a reset. Locks nest as `agentMessageMu` → `clientReqMu` → `b.mu`,
  and writing to the agent's stdin happens outside all three.
* Everything a browser sees goes through `eventBus.publish`, which must never
  wait: its caller is the agent's only reader. State is stored under `b.mu` and
  published after it is released, so the order of two publications is not that of
  the two stores.
* `hub.Client.forwardLoop` is one more subscriber of the bus, and so is each
  goal loop during its turn. `forwardLoop` shares `enqueueMu` and the ring with
  `readLoop`, and a reader of an ended session is cancelled but not waited for.
* `hub.Manager` runs one client after another; HTTP and tray calls reach into
  the running client beside it.
* The idle-unload supervisor looks at the roster of the bridge, the goal
  engine's pin and the queue snapshots, and closes sessions at the agent.
* The agent's pipe and its files tell of the same events, and nothing orders
  one against the other: the history, the ledger and the tasks read files that
  grow, are rewritten by a rewind and disappear while they are read.

### The hard behaviours

Requests in flight while the agent dies or is restarted; the same request
settled by a browser, a timer, a cancel and a reset; flags that are projections
of other state (`Busy`, `AwaitingInput`); copies of the agent's settings in the
host and in every browser; a control call between two sections of a loop that has
already decided; events dropped under pressure that must be repaired later
through a gate that skips old numbers; a host or a hub that restarts and counts
from one; two files written one after the other with a crash between; anonymous
tool calls that must get one id from two readings. `PROJECT.json` lists each as a
hazard, at its line.

## 2. The modules

Every module takes its bounds as CONSTANTS, has one action per handler or per
section of a lock, and states its properties at its end. A definition with a
suffix (`Compact_Never`, `Limit_All`, …) is not used by the specification: it is
the definition below it with a plausible mistake in it, and a property was seen
to fail with it in place.

| Module | Models | Composes |
|---|---|---|
| `EventBus` | channels, rings and pumps of the bus | refines `EventStream` |
| `EventStream` | what a subscriber is promised: a subsequence in order, complete in critical events apart from those refused | |
| `ClientRequests` | the agent's requests of a user, and their races | |
| `AgentProcess` | boot, exit, restart and the calls that wait for them | |
| `Turns` | roster, prompts, observed turns, loads, resumes, closes, idle unload | |
| `Goal` | control calls and loops of the goal engine | |
| `HubUplink` (`MCHubUplink`) | the numbered event stream to the hub | |
| `HubLink` | manager, client sessions, pairing, hub.json | |
| `UsageLedger` (`MCUsageLedger`) | the agent's files, sync, save and report | |
| `SessionHistory` | operators: order, rewind, turns, ids, pages, the lite form | |
| `SessionLog` (`MCSessionLog`) | the agent that writes and speaks, the host that reads both | uses `SessionHistory` |
| `Settings` | mode, model, effort, permissions, config.toml, connecting browsers | |
| `Tasks` | background tasks and the three queries about them | |
| `GenRate` | the estimator of the output rate | |
| `SessionViews` (`MCSessionViews`) | one session as the host tells of it | composes `Settings`, `Tasks`, `GenRate` |
| `EventBus_proofs`, `Agent_proofs` (`AgentProcess`, `ClientRequests`), `Turns_proofs`, `Goal_proofs`, `HubLink_proofs`, `HubUplink_proofs`, `UsageLedger_proofs`, `SessionViews_proofs` (`Settings`, `Tasks`, `GenRate`) | theorems | |

### EventBus, EventStream

One step is one section under `eb.mu` or `s.mu`, one channel operation or one
select. `pub` is the publish in progress (it holds `eb.mu`; its loop over the
subscriptions is in any order, as Go's map iteration is). `Offer` is
`enqueueOrDirect`, `Enqueue` and `Wake` the two halves of `enqueue`. A pump goes
through `top` (look at the ring), `wait` (the select on `wake` and `done`),
`deliver` (the item is read but still counted, which is what keeps the direct
path from overtaking it) and `advance`. `drop` of a full ring is counted in
`lost` for critical events. `EventStream` has no pumps: an event read is newer
than the last one and no critical event lies between, unless it was refused
(`IsAStream`).

### ClientRequests

A request is `pending` from `forwardPermission`/`forwardXaiRequest` (both store
it with the stdin of the process that asked) until one of four parties takes it
from the table with `CompareAndDelete`: its own goroutine after an answer
(`Resolve`) or its timer (`Expire`), `CancelWithMeta` (`Cancel`), or
`resetProcessRoster` (`Reset`). `verdict` is what closed `done`: first come,
only come. `Settle` is `resolveClientRequestLocked` with the announcement and
the recomputation of `AwaitingInput`. Replies are built in the section and
written after it (`outbox`, `Write`), possibly to a process that has died by
then. Rows come and go beside it (`Load`, `Forget`, `Unload`, `MarkUnloaded`).
A reset answers nobody: its requests are `retired`. A process whose pipe
broke but was not yet waited for counts as the current one. `OneReply` is the
conjunction of `SettledOnce`, `OwnProcess` and `AcceptedWins`; of the awaiting
flag, `SiblingsKeepAwaiting` says what a settlement may not take away.

### AgentProcess

A thread serves one call: boot, new session, load of a session or restart. `pc`
follows it through `ensureBooted` (`ensure`, `wait`, `process`, `spawn`,
`publish`, `init`, `close`), its session request (`session`, `answer`) and
`RestartAgent` (`read`, `wipe`, `fail`, `kill`). `bootNo` stands for the
identity of `bootDone`. A request is `out` until the reader of the process it was
written to answers it, a reset or a failing reader fails it (`FailAll` fails
*all* of them), or it times out. Restart's boot is that of `Boot`, followed by
`restoreLastSession`, which boots again through `LoadSession`. `reader[p]` and
`waiter[p]` are the goroutines of process `p`; a process that was wiped from
`cmd` without being killed is a *stray*.

### Turns

A row is a number (`obj`), so that a prompt that still holds the row of an
earlier life of its session (`held`) is told apart from the present one, as the
pointer comparison in `releaseBusy` does. `busy` is stored and re-projected by
`Sync`, from the two legs: `count` (`busyCount`) and `open` (the observed turn).
A prompt goes through `load`/`loading`/`loaded` (an unloaded session, or the
last one restored), `boot`, `sent` and `release`. The agent's updates are
`Evidence` and `Completed`, allowed when the agent works on the session
(`working`); `Replay` is the history a load sends, which a resume does not.
`Settle` drops a turn that was silent for longer than `turnStaleAfter`; the
reading of the roster does it for all sessions at once in the code, here for one
at a time. `Sweep`, `Skip`, `Close`, `MarkUnloaded`, `NotClosed` are the
idle-unload pass.

Left out: titles, the queue snapshots (they pin a session against unloading, and
the sweep may skip any candidate), the task scan of a session on disk (also a
reason to skip), forks, and the last-session file once it is read. Modes and
models are in `Settings`.

### Goal

A thread is one control call and, for a set or a resume, the goroutine it starts
after its broadcast. Each hold of `ge.mu` is a step, so `goalAnalyze` is five:
`Mirror` for each collected `goal_updated` (the host's own broadcasts are among
them: `Hear`), `Budget`, `TerminalState`, `Tool`, `Text`. A goal is known by the
call that made it, which is the pointer a loop captures (`Owns`), a stop channel
by the call that opened it. What a reply says is a record of five facts
(`Reply`) from which `Claims` and the evidence are made as `analyzeGoalText`
does, so that a reply may claim, deny and be stuck at once. `TurnFailed` is any
way `PromptWithOpts` returns an error. The user's own prompts are left out; they
would only keep `Poll` waiting. `overlap` remembers that two loops came to serve
one goal: a resume found a loop of it still there (`Serves`), or a set found one
`Starting` whose channel nobody had closed, which will capture the new goal.

### UsageLedger

Files are lists of turns with a version, which is what a cursor (mtime, size)
can tell of them; the agent appends, rewinds and removes between any two steps
of the host. A sync is `List`, `Stat`, `Scan`, `Merge`, `WriteEntries`,
`WriteMeta`; a report `QueryList`, `QueryCopy`, `QueryStat`, `QueryScan`,
`QueryReport`. A fault is a failed read of the ledger file (`ReadNothing`) or of its
cursors (`ReadEntries`), a failed write, a directory that hides its files for
one listing, or a ledger file lost at a restart. The code does not tell a file that
cannot be read from one that is not there, so what is saved next is written over it;
`forgot` remembers, as history, that the process has not read what is on disk.
`Reload` shows what `load`
does to turns without a `prompt_id`: their place in the file is not saved, and
they come back under one key. The run gives every turn its `prompt_id`. `orphans`
and `believed` are history: the cursors on disk that are of a ledger file that was
lost, or written over unread, and not made up for since, and those in memory that
were read from them.

### SessionHistory, SessionLog

`SessionHistory` has the pure part, over lines as records: `Order` (the sort by
`agentTimestampMs`, then place), `Walk` (`filterRewindBranch` with the
`userRunTurnTracker`), `PromptStarts`, `WalkCalls` and `SliceCalls` (the two
readings that give ids to anonymous tool calls, with `Match` as their core),
`Window`, `LastTurns`, `CarriesBtw`, and the lite form (`Coalesce`, `MergeTool`,
`LCSCounts`). In `SessionLog` the agent keeps its own history (`story`,
`turnAt`) against which the host's reading of the file is compared. Lines reach
the file in order but for user echoes, which may be late; `sent` is how far the
host is on the pipe, and `Stat`, `Read`, `Deliver` are the steps of
`liveToolResolver` from the size of the file to the first live event after a
seeding. A tool call has one fingerprint, its name; the many shapes a tool's
arguments and outputs come in are reduced to name and family.

### Settings, Tasks, GenRate, SessionViews

`Settings` has the agent's truth (`ag`, `cat`), the host's copy (`row`,
`permMode`), what was broadcast (`told`) and what a browser that connects shows
(`seen`). A call goes from its request (`mode`, `option`, `effort`, `old`,
`reload`) to `took …`, stores under `b.mu`, and tells after it; the reader of
the pipe stores and tells in the same two steps. Only a load takes one step for
three: the reader may apply the agent's change of a model or mode between the
agent's answer and the store of the goroutine that loads, which is of the family of
the excused overlaps and left out. `GivesUp` is an answer too late,
`Restart` another process of the agent. `excused` are settings that two changed
at once: the code orders neither their stores nor their broadcasts. Edits of
config.toml read in one step and save in another. `Tasks` has a task's process,
the agent's registry, the file's lines and the snapshots as four separate truths,
and the queries as their reads one after the other. `GenRate` is the estimator in
integers: a chunk with a size and a time of the agent or of the host, with the
start of its stream or without. `SessionViews` puts them side by side; an end of
the agent process takes the row of `Settings` and `Tasks` at once.

### HubUplink

Actor 0 is `forwardLoop`, actor k the `readLoop` of session k. An event is its
sequence number, a frame the set of numbers in it. `sendCh` is the client's
queue *and* the wire behind it: what is in it at a disconnect may or may not
have gone out, and that is what `HubReceive` before `SessionEnd` decides. The
ring, `nextSeq`, `lastSentSeq` and `hubAckSeq` are the code's; `lock` is
`enqueueMu`, which a live batch only tries (`LiveAdmitted`) and a replay waits
for and keeps over all its frames. `Receive` … `ResumeDone` follow one downlink
frame through `applySubscribers`, `handleHelloSeq` and `noteHubAck`, with each
read and write of shared state a step of its own. The hub is external: it keeps
a watermark and skips what is at or below it, as `client.go` 859–864 and 949–954
and `hub/PROTOCOL.md` describe, and may restart.

`StalePcs` bounds where a reader of an ended session may still be when the next
one starts. In `uplink_safety` that is waiting for `enqueueMu` or for room in
the queue, the two places where it can stay for long, and between the flag and the
anchor of a catch-up; the gap between the generation gate and the flag (`"set"`) is
left out, for there `Watermarks` fails (section 5). `uplink_liveness` has no such
reader. `Disconnect` is the end of a session: it turns forwarding off, unless the
session was a QUIC one that falls back to WebSocket, which skips the pause. `fate`,
`mixed`, `alienAck` and `seen` are history: what
became of an event's first chance to go up, a hub that counts this process on
top of another's watermark, a watermark of another process that was taken
for an ack or for the place to resume from, and the newest subscriber count the
session has received, against which `FlagOfNewest` compares the flag. `MaxWork`, the constraint of `MCHubUplink`, trades
events, count changes, sessions and hub runs against each other. Host status
frames, pongs, compression, the frame size in bytes (an oversized event is one
of `Oversized`) and the split into control and request planes are left out.

### HubLink

The manager's loop (`mpc`), each client's `Run` (`pc`) with its token, its
`sessCancel`, its QUIC failure counter, and calls of the control surface (`opc`)
that run beside them in the steps the code takes: store the token, set the force
flag, poke `repairCh`, read the cancel function, fire it; for a move: set the
address, persist it, cancel the client, nudge the loop. A token remembers its
hub and its number. HOST_TOKEN may be of any hub or unset (`BootTokens`), since the
code sends it unchecked; `boot` remembers, as history, the address the process
started with. The hub is external: it accepts a code or not and may revoke
any token. Timers are actions no property relies on.

Left out: `Status`, `Rename`, the trays' own polling, and a restart of the
process.

## 3. The runs

| Run | Bounds | Shows |
|---|---|---|
| `event_bus` | 1 subscription, 5 events, channel 1, ring 2+1 | reserve, wake-ups, order as the refinement of `EventStream`, pumps that go on and end |
| `client_requests` | 2 sessions, 2 requests, 2 processes | one reply to the process that asked, siblings spared, budgets end |
| `agent_process` | 2 callers, 3 calls, 2 processes | no stray but by a restart, truthful verdicts, every call returns |
| `turns` | 2 sessions, 2 callers, 3 calls, 2 rows, cap 1 | busy is founded and counted right, a quiet session settles |
| `goal` | 3 calls, 2 loops, 1 mirrored status, `active` or `blocked` | a loop works for its own goal only, claims are verified, loops hand over, stopped loops end |
| `uplink_safety` | 3 events, 2 sessions, 2 hub runs, queue 2, `MaxWork` 5 | what replays hold, the four watermarks, nothing stranded, the newest of two counts decides |
| `uplink_liveness` | 1 event, 2 sessions, 2 hub runs, queue 1 | the tail is delivered, the subscriber count converges |
| `hub_link` | 2 hubs, 1 call, 2 clients, 2 tries, 1 token | tokens stay with their hub, calls take effect and are heard, no move is forgotten |
| `ledger` | 2 files, 2 turns, 2 versions, 1 fault, 1 restart | each turn counted once and for good, across faults, failed reads among them, and rewinds |
| `session_log` | 5 events, 2 late echoes, 1 rewind, `DiffLines` 5, texts of up to 3 lines | what is paged is the agent's own story, live and read ids agree, pages cover |
| `session_views` | 2 calls, 2 models, 1 move, 2 jobs, 1 rewind, 3 chunks, time 5 | copies of settings agree, no false success, tasks and rate are right |
| `hello_gap` | the same without moves, jobs or rate | **violation** of `EveryTabConverges` |

`HubUplink` has two runs because liveness takes smaller bounds than safety. What
else the models show the code to do (section 5) has no run of its own: a stray
left by a restart is the one exception `StrayOnlyByRestart` makes, a replay that
opens a turn is what `QuietSettles` shows to be temporary, and a dropped batch or a
move that nobody reads is only described.

Why the bounds are enough.

* The bus treats subscriptions independently; its order properties relate two
  events, its reserve one full ring: with a channel of one, a ring of two plus one
  and five events every path (direct, enqueue, refuse, drop, wait) is taken and met
  by every other.
* A race for a request is between parties, not between requests; the second one
  is there for the awaiting flag they share. A stray needs two processes, a stale
  wait a second boot: three calls by two callers contain them. `CountsPrompts`
  needs two prompts on one row or one that outlives its row: two callers, two rows.
* A goal's loop can be overtaken by one control call and its successor by
  another, while a third reads: three calls, two of them with a loop. One mirrored
  status is enough to undo a call, since it is consumed where it is heard.
* In the uplink, three events make a frame, a drop and a frame after the drop; two
  sessions a reader that outlives its own; two hub runs a watermark that falls. Two
  generations of the subscriber count, both on their way, can be reordered. The
  hub's watermark may be that of a previous process (`OldMarks`). `MaxWork` lets all
  of the events, sessions and restarts occur, not all in one behaviour.
* The ledger's hazards are a turn that two files tell, one that a rewind takes
  away, and a file that changes between `Stat` and `Scan`; versions are those of one
  file before and after. One fault hits either of the two reads or writes, or the listing.
* Five lines of history contain a rewind with a turn before it and one after it,
  or a tool call with a late echo in between; `PagesCover` is evaluated for every
  total and page size up to the bound on its own.
* A setting is disagreed on by two callers, or one and the agent. `SessionViews`
  composes parts that share a session, and explores the parts one at a time around
  their shared steps (`Alone`, `Idle`, `Mute` in the module), since none
  reads another's state except at the end of a process. The rate was also run alone
  with four chunks and time 8 (26 million states), `hub_link` with two concurrent
  calls and one try each, for safety, `turns` with three rows and with three calls in parallel, `ledger` with two
  faults and two restarts, for safety, and with two faults for `LedgerLasts`: no error.

Deadlock checking is off where the bounded system may finish (all calls made, all
events published); the hub uplink never stops and is checked.

### Fairness

* `EventBus`: goroutines that can run do; a consumer reads. The part of
  `PumpsServe` that says pumps end does not use the latter: `done` is enough.
* `ClientRequests`: a request's goroutine runs and its timer fires. A question
  with its timeout disabled has no budget and nothing is claimed of it.
* `AgentProcess`: goroutines run, `requestRaw` of a boot or a session request has
  a deadline, `waitProcess` runs once the process is dead. Nothing is assumed of
  the agent.
* `Turns`: calls run on (their requests have deadlines), and clients go on
  reading the roster, which settles silent turns. A prompt itself has no
  deadline while the turn is alive; in `Turns` its `Resolved` stands for the
  answer, the stall detection and the end of the process together.
* `Goal`: goroutines run, and a turn ends with an answer, an error or the timeout
  of the prompt. A loop that nobody stopped may go on for ever.
* `HubUplink`: goroutines run; `enqueueMu` is a Go mutex, which hands over to a
  waiter that starves, hence strong fairness for taking it; a live session
  delivers; the hub pings. A session may end whenever the bound permits.
* `HubLink`: the manager, `Run` and the calls run on, and a cancelled session
  ends. `Exit` and `WaitWoken` are branches of a `select` that another ready
  branch may win; Go chooses at random among ready branches, hence strong
  fairness. No timer is assumed to fire, which is the point of `CallsHeard`.
* `UsageLedger`: the ticker of main syncs for ever. Nothing is assumed of the
  agent, of reports, or of a fault's absence beyond its bound.
* `SessionLog` and `SessionViews` claim no liveness: a browser pages when it likes
  and what it was not told it asks for.

## 4. What is proved

TLAPS proves for every value of the constants, under the modules' own
assumptions only (bounds are natural numbers, capacities positive, `Threads` of
`Turns`, `Files` and `Models` of `UsageLedger` finite), in one theorem under a
condition on `StalePcs` (see HubUplink) and in three under one on `Named` (see
UsageLedger):

| Theorem | Property |
|---|---|
| `EventBus_proofs!TypeCorrect` | `TypeOK`, with the ring never beyond its array |
| `EventBus_proofs!RingsKept` | `RingsRight` (`ReserveKept`, `WakeupsKept`) |
| `EventBus_proofs!BusIsAStream` | `IsAStream`: the refinement of `EventStream` |
| `Agent_proofs!RequestsTypeCorrect` | `RequestsTypeOK` |
| `Agent_proofs!RepliesRight` | `OneReply` (`OneSettlement`, `RepliesReachTheirProcess`, `AcceptedAnswerWins`) |
| `Agent_proofs!AwaitingIsFounded` | `AwaitingHasRequest`: a row waits only if a request of its is pending |
| `Agent_proofs!SiblingsAreSpared` | `SiblingsKeepAwaiting` |
| `Agent_proofs!TypeCorrect` | `TypeOK` |
| `Agent_proofs!StraysAreTheRestarts` | `StrayOnlyByRestart` |
| `Agent_proofs!VerdictsAreTrue` | `VerdictOfLatestBoot` |
| `Turns_proofs!TypeCorrect` | `TypeOK` |
| `Turns_proofs!BusyIsRight` | `BusyRight` |
| `Goal_proofs!TypeCorrect` | `TypeOK` |
| `Goal_proofs!LoopsAreHandedOver` | `LoopsHandedOver` |
| `Goal_proofs!ClaimsAreVerified` | `EvidenceUnlessOverlap` |
| `Goal_proofs!OldLoopsAreHarmless` | `OwnGoalOnly` |
| `HubLink_proofs!TypeCorrect` | `TypeOK` |
| `HubLink_proofs!TokensStayAtHome` | `OwnHubToken`: HOST_TOKEN is sent to the hub of the boot only, paired tokens to their own |
| `HubLink_proofs!CallsAreHeeded` | `CallsLand` |
| `HubUplink_proofs!TypeCorrect` | `TypeOK`, with the ring never beyond its high-water mark |
| `HubUplink_proofs!ReplaysKept` | `ReplaysHold` |
| `HubUplink_proofs!NothingOvertakes` | `WatermarksOrdered`, `QueuedStays`, two of the four parts of `Watermarks` |
| `HubUplink_proofs!NothingIsLeftBehind` | `Watermarks`, if `"set"` is not in `StalePcs` |
| `UsageLedger_proofs!TypeCorrect` | `TypeOK` |
| `UsageLedger_proofs!CursorsNotAhead` | `MetaNotAhead`, if every turn is `Named` |
| `UsageLedger_proofs!HistoryKept` | `HistoryStays` of `LedgerLasts` (until the file is lost or written over unread), if every turn is `Named` |
| `UsageLedger_proofs!CountedOnceWhenNamed` | `CountedOnce`, if every turn is `Named` |
| `UsageLedger_proofs!RowsAlwaysAddUp` | `RowsAddUp` of `CountedOnce`, whatever is `Named` |
| `SessionViews_proofs!ViewsImplements` | `ViewsSpec` implements the specifications of its three parts |
| `SessionViews_proofs!ViewsTypeOK` | `TypeOK` (`SettingsTypeOK`, `TasksTypeOK`) |
| `SessionViews_proofs!ViewsAgree` | `CopiesAgree` (`SettingsAgree`, `CatalogFresh`, `HelloCatchesUp`) |
| `SessionViews_proofs!ViewsHonest` | `NoFalseSuccess` |
| `SessionViews_proofs!ViewsEstimatesRight` | `EstimatesRight` (`TasksRight`, `RateRight`) |
| `SessionViews_proofs!SettingsInvariant`, `TasksToldRight`, `RateToldRight` | the same of each part by itself |

**EventBus.** `TypeInv` strengthens `TypeOK`: a pump past its look at the ring has
an item there (so `Tail` is of a non-empty ring), and a publish in progress has an
event and, in its second half, a subscription it has not finished with.
`ReserveIsCritical` is inductive on top of it: `RingStep` says every step leaves a
ring alone, appends the event being published below its limit, or takes the head,
and a droppable event's limit is `QueueCap`. `NoLostWakeup` holds because the
append and the signal have no other step of the publisher between them, and a
pump looks at the ring after it takes the signal. The refinement of
`EventStream` needs to know where every event is that a subscriber may still
get. What a subscriber has read, its channel and the part of its ring that its
pump has not handled (`Pending`) are in increasing order, one after the other
(`InOrder`); none of it is newer than what the publisher has handed over
(`Handed`); every critical event since the last one read is there or was refused
(`Held`), and none that is there was refused (`Refused`). Each step of publisher,
pump and reader keeps this for the subscriber it works on (one lemma per step,
`…Serves`) and leaves the others alone (`Elsewhere`). Then `Receive` is a `Read`,
and an `Enqueue` that refuses a critical event a `Refuse`: the ring was full
beyond `QueueCap`, so by `ReserveIsCritical` `Slack` critical events wait in it
(`CrowdedOut`, a count).
Every other step is a stutter, an `Emit`, a `Join` or a `Leave`.

**ClientRequests.** The invariant is `RequestsInv == RequestsTypeOK /\ TableInv /\
ReplyInv /\ RowInv /\ AwaitingHasRequest`. `TableInv` ties a request's phase to its number,
its verdict, its goroutine and its process: a pending request is of the current
process and was not announced, a settled one has a verdict and was announced
once. `ReplyInv` says a reply, built or written, is of a settled request, carries
its verdict and its process, and that two replies of one request are one.
`RowInv` says only rows wait. That settling happens once then follows from
`CompareAndDelete` (the guard `phase = "pending"`), for each of the four parties.
`Cancel` and `Reset` settle many requests in one section; `SettleKeeps` treats
them and the single settlements alike, as the settlement of a set of requests.
`SiblingsKeepAwaiting` is an action property proved from the same invariant.

**AgentProcess.** The invariant is `IInv == TypeOK /\ BootInv /\ ProcInv /\
VerdictInv /\ StrayOnlyByRestart`. `BootInv` is the mutual exclusion of boots: a
call between `process` and `close` holds `booting`, there is one such call, and
while it spawns or publishes `cmd` is empty, so publishing overwrites nothing.
`ProcInv` says a `waitProcess` that woke up is of a dead process, so its wipe
loses nothing alive: what remains is the restart that had read another `cmd`
(`swept`). `VerdictInv` says that once a boot has ended, `ready`, `bootOK` or
`undone` tells its outcome. A waiter leaves `wait` for `idle` only by `Judge`
(`WaiterWakes`), when no boot is under way, hence with that outcome in place.

**Turns.** `BusyRight` counts, so the proof is about a cardinality. `TypeInv`
strengthens `TypeOK`; `RowsInv` says a row number is of one session and is never
given twice, and that a prompt that holds a row is a prompt of that row's
session. `StepKinds` then sorts every step, whatever action it is, by what it
does to the rows and to the prompts in flight: rows go (`Fewer`), one is
made with nothing in flight on it (`Made`), one prompt begins (`Begun`) or ends
(`Ended`) on the row it holds, or a row is demoted (`MarkUnloaded`). `CountStep`
needs only these five, with `InFlight` growing or shrinking by one element
(hence the finite `Threads`), and shows why a prompt that outlived its row cannot
release another's count. `LegStep` carries the second half: wherever `Busy` is
stored it is re-projected from the two legs.

**Goal.** The invariant adds three things to the types. `CallInv`: goals, channels
and threads are of calls that were made, so a new call's number is new.
`LateInv`: a loop that begins a turn on a closed channel begins no other, since
it ends at the next look at its channel. `SoleInv` and `ToldInv`: without an
overlap one loop at most works for the goal, and while a claim waits for its
evidence that loop has the instruction to ask for it, so the verdict that
completes the goal is a verified one. A loop counts as working (`Working`) until
it passed the grace period on a closed channel. The proof attempt is what showed
that a *set* can overlap too (section 5): `overlap` was raised by resumes only
before, and the counterexample takes more loops than the run `goal` has.

**HubLink.** `Owned` keeps every token beside the address it is of: the
configuration, the copy the manager builds from, a client and its session.
HOST_TOKEN, of which no line knows the hub, is kept beside the address of the boot
(`AtBoot`): a move drops it. `CallInv` says a call that repairs works on a client that was built and holds a
token of that client's hub, and `Born` that what is not built holds none.
`SessionInv` is the argument of `CallsLand`: a session with an older token than
its client's is either cancelled or will be (`Reaching`: the call has not yet
read the cancel function, or read it in this session). `MoveInv` is that of a move
that found nobody to cancel: the flag it leaves behind stays until the loop looks at
the address again. `PathInv` is the
arithmetic of the cooldown: the counter is at most the real number of failures in
a row, or has passed `quicFailMax`, where the equality that arms the cooldown is
not met again.

**HubUplink.** `IInv` has five layers. *Types and bounds*: each number is bounded by
the one before it on its way to the hub (`NumInv`), and `Compact` keeps the ring
below its mark whatever the size of a batch (`CompactFacts`, cardinalities).
*Who holds what*: `enqueueMu` is held exactly between taking it and the end of
the replay (`Held`); a replay that has begun is at the end of the queue, below all
that is left of it (`ContigInv`), so no frame can come between.
*Where watermarks come from*: every frame from the hub tells the watermark of the
process it names (`Honest`); one that is resumed from was reached, one that is
answered with a reset is another process's (`ResumeInv`); and where a replay
starts nothing above was enqueued before, unless another's watermark was
believed (`StartInv`, `alienAck`). *Resets*: what a reset promised follows it or is
about to (`ResetInv`). *Order*: for every event whose live frame was or will be
queued (`Chance`), `Ordered`: the hub gets nothing above it before it does
(`AheadInv`, `PlacedInv`), it counts the event once it is past it (`TakenInv`), and
a replay that was copied from the ring has it if it has anything above it
(`CopiedInv`). `QueuedStays` is `TakenInv` where the hub counts this process
alone. What "before" means in a queue that a reset divides is `Given(s, j)`: s
comes since the last reset up to frame j, or there is none and the hub has it.

`NothingIsLeftBehind` adds `RestInv`: every event of the ring above `lastSent` is
`Awaited`, by the heartbeat's flag, a session or a count that is still to come, or
an actor that brings it (`Brings`: a batch, a repair, a catch-up, a resume or a
reset on its way). The one step that could break it is a reader of an ended
session that passed the generation gate with forwarding on in *its* session and
sets the flag in the next one: forwarding is on and nobody catches up. Nothing
blocks `applySubscribers` between gate and flag, so `StalePcs` of both runs
leaves `"set"` out, and the theorem says so. The other theorems hold wherever
such a reader is. `CountInv` carries `FlagOfNewest`: what a session took last has the
newest generation it has received, and the flag follows it or the reader is about to
set it; counts that overtake each other on their way change neither.

**UsageLedger.** The invariant speaks of turns that carry a `prompt_id`, and holds
whatever the others do. `TurnInv`: whatever tells of a turn, a line, an entry, a
scan or the ledger file, tells of one file, so one key is one turn (`OneKey`).
`CursorInv`: cursors are of versions a file has had, so a cursor that equals the
present version is of the present lines, and no step of the agent but a change of
version can tell it otherwise. `MemInv` and `DiskInv` are then what cursors
promise, and `LoadInv` joins them: entries in memory include those on disk, which
is why the entries may be renamed before the cursors. That is so unless the process
could not read them (`forgot`), and then it has no cursors either, so it scans
every file it lists: what it writes over the old file is short of the turns of removed
session files only, or of hidden ones, whose cursors on disk become `orphans`. `SyncInv` keeps the order of
stat and scan: the cursor a merge will set was taken first, so either the scan found
all of the file or the cursor is already old. `QueryInv` follows a report: a turn
it owes is in the entries, in a path it will scan, or found already. A sync may
scan and merge while the report holds its copy of the cursors: as long as a copied
cursor is a file's version, a scan under way is of that version, so what the report
skips is in the ledger and stays there through the merge.
That every turn is `Named` is the code's assumption (a `prompt_id` is a UUID the
agent makes for each turn); without it the three theorems are false (section 5), and
`InvariantHolds` says what remains. `RowsAddUp` needs no such condition, and no
invariant but the types; it is about sums. `MapThenSumSet` folds a set in the order a
CHOOSE takes its elements, so the lemmas first show that the recursion behind it has
exactly one solution on a finite set (`FoldExists`, `FoldUnique`). The induction that
takes is over subsets, by a smallest one that fails (`SubsetInduction`, from the
well-foundedness of strict inclusion, with the property as a set and not an operator).
Then a sum does not depend on the order (`OverRemove`), a table adds up alike by rows
and by columns (`OverSwap`), and what each entry adds is what each turn adds times the
number of its entries (`OverCount`). `CellFacts` says that `accumulateUsage` and
`ledgerFillEntry` file a turn alike, `CellsAddUp` that nothing of it is lost, and
`RowsSum` puts it together, over the entries that the report scanned and those it took
from memory.

**SessionViews.** `ViewsImplements` takes the composition apart: every step of
`ViewsSpec` is one of `Settings`, of `Tasks` (or the end of the process) and of
`GenRate`, or leaves it alone, so what is proved of each part without the bound that
keeps them apart (`Alone`, `Idle`, `Mute`) holds of a session.

*Settings.* The invariant, `SettingsInv`, was an invariant of the run of `Settings`
alone before it was proved (4.5 million states). Its first part says what can be
where: which places a call of each kind goes through (`PlacesOf`), what it asks for
(`AsksOf`), that an announcement of a mode comes before the answer of the call that set
it (`NewsFit`), and that a call which waits has one request or one answer under way,
unless it gave up, and then its settings are excused (`Waited`). `AdoptedInv` is
`NoFalseSuccess` carried back to the answers: one that says yes is of a part the agent
took. `CatalogInv`: the agent's catalog is that of config.toml, or a reload is on its way, or
a call for the default model has yet to ask for it. The rest is about changes.
`ExclusiveInv`: of a setting that is not excused, one party at most has a change
between the agent's yes and the last broadcast (`Pending`), a call or the agent itself; what
begins beside another excuses both (`Apart`, `OpenAmong`). So whenever two copies
differ, that one party explains it, and it has the value the other copy lacks:
`ModeInv`, `ModelInv`, `EffortInv` and `PermInv` of the host's copy, `ToldInv` of what
browsers were told, `NewsInv` of notifications, `HelloInv` of a browser that connected.
A toggle of plan mode carries no value, only a change of sides, so while one is half
done the host's mode is the other one (`Half`). When nothing is under way nothing is left to
explain a difference, which is `CopiesAgree`. The proof goes action by action; those of the
agent's service of a request, which may touch every part, are split by invariant
(`ServesMode`, `ServesModel`, …) under one summary of what a service does (`Serves`).

*Tasks.* A query reads four things one after the other. `DetachedInv`, `BadgeInv` and
`ViewerInv` say what is true of each set read so far, and rest on `LogTrue` (the file
says a task completed only after it ended) and on a task starting once: what ended
stays ended, what is no longer held is held no more. `SnapshotInv` follows a snapshot
through the pipe.

*GenRate.* `SegmentInv` ties a segment to what it was made from: while it is of the
stream that runs, it has no more characters than the stream, and its last rate is the
last one told, however often it was cleared. `OfStreamOutcome` and `OfGapsOutcome` say of the
two ways to estimate that the rate they tell comes no sooner than `Throttle` after
the last one and does not overstate. The arithmetic of integer quotients is in lemmas
of its own (`QuotientBounds`, `ProductMonotone`, `BlendType`).

The assumptions are those of the three modules: positive constants, a model has an
effort, what stands for "no value" is no model or effort, and what stands for the
host and its reader is no call.

The proofs changed the models in four places, each closer to the code. A resume
from another process's watermark raises `alienAck`, as an ack does: the model had
`QueuedStays` without that exception, and it is false of the code too (section 5).
An event that a replay dropped meanwhile stays dropped, with its flag, when its
live batch turns out too large or the hub restarts. `Goal` as above. And `MetaNotAhead`
was claimed of cursors that outlive their ledger file, too. The bounds of
`uplink_safety` and `ledger` had been too small for TLC to reach the first and the
last; random simulation at larger ones, and `ledger` with two faults, confirm them.

Only model-checked: all liveness (beyond the prover) and the invariants
of `SessionLog`. `SessionHistory` is recursive over lines that are read, which the
prover cannot treat.

## 5. Where code and comments disagree

One run ends in a counterexample to sentences of the source. `hello_gap`:
`handleSSE` takes its snapshot, writes the hello to the network and subscribes
only then. What is broadcast in between reaches this browser neither way, and
nothing repeats it, while `bridge.go` 5724–5725 says of a permission mode that it
is broadcast "so every tab/device converges immediately".

Seen while modelling, and not stated as a property that fails:

**Processes, requests, turns**

* `RestartAgent` kills the process it read before the reset. A boot that publishes
  a new one in between loses it to the reset: it lives on and nobody knows of it.
* `failAllPending` runs after `b.mu` is released at the end of a reset, and in a
  reader whose process is gone: it may fail requests already sent to the
  replacement. `ready` may be set after a reset by a call that was answered
  before it, so that the host reports ready without a process until a restart.
  A failed `session/new` clears `bootOK` of an initialised process.
* `turnEvidenceKinds` admits "only kinds that cannot arrive outside a running
  turn", but a load replays such kinds, and the observed turn opens on a session
  that is idle (it settles when silent).
* `unloadResident` checks the pins, waits up to 30 s for `session/close`, and then
  zeroes `Busy` and `busyCount` without looking again. A prompt that began
  meanwhile is no longer counted, and when it ends it releases the count of a
  later prompt on the same row, contrary to the comment of `releaseBusy`
  (`CountsPrompts` excepts such rows, and only from counting too little).
* Two prompts to an unloaded session both send `session/load`; a load that only
  moves the focus leaves `unloaded` set; a row made over an open observed turn
  starts with `Busy` false until the next update, and the replies of load and
  resume say `busy: false` whatever the turns are ("Cold load is never mid-turn").

**Goal**

* `goal.go` 828–829 says blocked claims win over completion claims. Completion is
  tested first (641–691), and 无法完成 (cannot complete) contains 完成
  (complete). A tool call can both complete and block a goal.
* A mirrored `goal_updated` can undo a pause, the host's own broadcasts are mirrored
  back to it, and a loop resumed beside a late one can have its evidence round
  answered by the other's turn (`overlap`). A resume opens a channel without
  closing the one it replaces, so a set that follows stops the resumed loop only:
  the earlier one, if it has yet to capture its goal, serves the new goal beside
  its own loop. `goalAnalyze` takes the text of every
  session. A resume after an error or a cancelled turn is refused with 409 while the
  goal is still active; the first instruction is sent again without a budget.

**Settings**

* config.toml is read, edited and saved with nothing in between to hold off another
  editor, and through one temporary name: an edit can be lost though "every other
  section" is to survive; two additions can choose one slug.
* The comment at `models_config.go` 43–47 speaks of a watcher; the one of
  `ReloadModels` (268–273) says there is none. A models update refreshes only the
  active session, and its event carries the row's own maps, which the snapshot
  copies because sharing them "would race the serializer".
* Stores and broadcasts of two changes are not ordered alike; a set mode, model or
  effort that answers late leaves the agent changed and the host not. `SetModel` of
  a model without an effort keeps the old one on the row. A spawn resets
  `permMode` and tells nobody. A default whose effort was refused is only logged,
  against `bridge.go` 3745–3747.

**History, tasks, rate, ledger**

* A `response_completed` clears the open anonymous calls when the file is read
  (`session_history.go` 111, `synth_tool_call.go` 325), and not live
  (`bridge.go` 2106–2107): a call that goes on over it has two ids (`Straddled`).
  A resolver seeded from a file that was ahead of the pipe numbers differently
  (`overtaken`). Among several open calls of a family a final update takes the
  first, which the comment at `synth_tool_call.go` 611 excludes ("绝不
  first-match").
* Tail pages overlap when a negative offset is clamped. In a lite page a later
  edit number overrides even where the full page shows the `rawOutput` of an
  earlier one.
* The census of the sidebar reads lines a rewind has removed, the idle unload and
  the running tasks do not. `liveRegistryTaskIDs` says "report nothing" where an
  empty registry reports every running task as detached. A task's log may be
  neither completed nor running, because its last output was not read.
* A chunk after `Discard` makes a segment that is never discarded; a reset inside a
  stream, or a switch that is seen late, understates the rate; two streams with one
  start time are one.
* Turns without an id lose their place at a reload and collapse into one
  (`usage_ledger.go` 71–73); models may exceed their turn's total. A ledger file
  lost together with a session's file loses its turns.
* Of the ledger file and its cursors `usage_ledger.go` 132 says that they live and
  die together (两者必须同生共死). The cursors outlive a lost ledger file and only
  do not count while there is none. If the next one is made from a listing that
  cannot read a session's directory, and the host dies or the second write fails
  before the cursors are renamed, that session's old cursor counts again: its
  turns are in neither file of the ledger and are not scanned until the session
  goes on (`orphans`).
* The ledger exists so that usage "can be traced for long even when the source files
  are gone" (即使源文件消失，历史用量仍可长期回溯, `usage_ledger.go` 21–29). `load`
  (140) takes any error of reading it, a process out of file descriptors or a denied
  permission, for a missing ledger, and counts as having loaded it. The next save
  (211) replaces the intact file by what could be scanned: the turns of sessions the
  agent has removed are gone for good. `HistoryStays` excepts this (`forgot`); the
  turns whose session files exist are scanned again, so `MetaNotAhead`,
  `CountedOnce` and `CatchesUp` hold through it, but for cursors that become
  `orphans` as above.

**Hub**

* `client.go` 832–835 says a dropped batch is re-sent by the heartbeat "instead of
  leaving a hole the FE can only wait forever on". A batch queued after the drop
  raises the hub's watermark above the dropped events; the repair starts above
  them, and the hub's gate would skip them anyway.
* While forwarding was off, `lastSentSeq` may lie above events that a disconnect
  lost; hello turns forwarding on and catches up after `lastSentSeq` before the
  resume after `hello.seq`, so newer events overtake those.
* The epoch check compares numbers: a restarted host that has already produced
  `hello.seq` events is taken for the previous process, and a ping's ack of the
  previous epoch is accepted once `nextSeq` has reached it. `NothingStranded` and
  `QueuedStays` are stated for behaviours without that confusion (`alienAck`,
  `mixed`): a resume from another's watermark skips events the hub never had, and
  what is queued after it passes events that were queued before.
* A reader of an ended session that stops between the generation gate and
  `setBrowserSubscribers` turns forwarding on, or off, in the next session without
  the catch-up its own session had taken care of; nothing it does there waits, so
  this takes a goroutine that is not scheduled for the time of a reconnect.
* A `seq_reset` that meets a full queue for five seconds is given up, its replay
  is not. An oversized event takes its whole live batch with it and sets no flag.
* A move reads `m.cancel` between the loop's copy of the configuration and its
  publication of the client it built from it: there is nobody to cancel, the nudge
  is not read while the client runs, and that client goes on with the old address.
  `manager.go` 319–320 says the loop is woken and rebuilds. What holds, and is stated
  (`MoveKept`), is that the move is taken up when that client ends.
* `ensureToken` (500–503) sends HOST_TOKEN to whatever hub the configuration names.
  hub.json is checked against the address, HOST_TOKEN is not: when config.json was
  moved to another hub since the variable was set, the next run sends it there.
  `OwnHubToken` says only that it is sent nowhere but to the hub of the boot.
* The retry after a rejected token removes hub.json, also one a pairing has just
  written; two pairings can leave hub.json and the configuration on different
  hubs; an old client's pairing can overwrite the new hub's hub.json; a failed
  write of hub.json is not reported; HOST_TOKEN wins over a paired token.
* The QUIC cooldown is armed by `==` and never re-armed, while the comment at
  `client.go` 1669–1670 says further failures re-arm it.

## 6. What is not modelled, and the plan

Not modelled, or in part:

* the hub's relay plane: a goroutine per relayed request; a respond of an ended
  session can enter the next session's queue, and a full request queue drops after
  5 s;
* HTTP handlers that decode a request, call the bridge and encode its answer (those
  whose order matters, the SSE stream, models and defaults, are in `Settings`, the
  goal's in `Goal`), the HTTP and bridge extensions (git, files, search, …), which
  keep no state;
* configuration files (`UpdateFile`, `Save` and their lock), main, the trays and the
  platform services, whose concurrency is that of what they start;
* statistics; the chunks a `session/load` replays to the rate; queue snapshots,
  titles and forks of `Turns`; `Status` and `Rename` of the hub;
* the texts of messages: names, families, fingerprints and sizes stand for them.

Next, in this order:

1. `Relay`: relayed requests, their cancellation with the session and their single
   answer, composed with the sessions of `HubUplink`.
2. `ConfigFile`: `Save` and `UpdateFile` under the file lock, with two writers and a
   crash in the atomic write.
3. In `Turns`, queue snapshots and forks; in `GenRate`, replayed chunks.
