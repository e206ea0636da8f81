------------------------------- MODULE Tasks -------------------------------
(***************************************************************************)
(* The background tasks of a session as the host tells of them             *)
(* (src/internal/acp/session_tasks.go, ListSessions of bridge.go).         *)
(*                                                                         *)
(* A task is a process of the machine.  What is known of it is spread: the *)
(* kernel knows whether its log is held open, the agent's registry holds   *)
(* the tasks this agent started, updates.jsonl has a line for its start    *)
(* and one for its end, and newer agents send the host a snapshot of what  *)
(* runs.  Three queries put these together, one read after the other while *)
(* all of them change: which running tasks the agent does not hold, how    *)
(* many a session has in the sidebar, and what one has written.            *)
(*                                                                         *)
(* One session, the active one, and its tasks; lsof is there.  The agent,  *)
(* the tasks and the file are external.                                    *)
(***************************************************************************)
EXTENDS Integers, Sequences, FiniteSets, Functions

CONSTANTS Jobs, MaxRewinds

ASSUME TasksAssumption == MaxRewinds \in Nat

VARIABLES
  begun, alive,   \* tasks ever started, and those whose process holds its log open
  held,           \* the agent's registry
  log,            \* the task lines of updates.jsonl
  snapshots,      \* the agent sends snapshots
  snap, news,     \* the last one the host got, if any, and those on their way
  detached,       \* the query of tasks the agent does not hold
  badge,          \* the query of the sidebar
  viewer,         \* the query of one task's output
  rewinds

taskVars == <<begun, alive, held, log, snapshots, snap, news, detached, badge, viewer, rewinds>>

NoSnap == {"none"}
Lines  == [kind : {"task_backgrounded", "task_completed"}, job : Jobs, rewound : BOOLEAN]

TasksTypeOK ==
  /\ held \subseteq begun /\ alive \subseteq begun /\ begun \subseteq Jobs
  /\ log \in Seq(Lines) /\ news \in Seq(SUBSET Jobs)
  /\ snap \in (SUBSET Jobs) \cup {NoSnap}
  /\ detached.at \in {"idle", "parse", "probe", "list", "answered", "told"}
  /\ badge.at \in {"idle", "probe", "told"}
  /\ viewer.at \in {"idle", "read", "probe", "told"} /\ viewer.jobs \subseteq begun
  /\ detached.jobs \cup detached.owned \cup badge.jobs \subseteq begun

TasksInit ==
  /\ begun = {} /\ alive = {} /\ held = {} /\ log = <<>>
  /\ snapshots \in BOOLEAN /\ snap = NoSnap /\ news = <<>>
  /\ detached = [at |-> "idle", jobs |-> {}, owned |-> {}]
  /\ badge = [at |-> "idle", jobs |-> {}, known |-> {}]
  /\ viewer = [at |-> "idle", jobs |-> {}, logged |-> FALSE, completed |-> FALSE,
               whole |-> FALSE, running |-> FALSE]
  /\ rewinds = 0

(***************************************************************************)
(* The agent and its tasks.                                                *)
(***************************************************************************)
Line(kind, j) == [kind |-> kind, job |-> j, rewound |-> FALSE]
Sent(running) == news' = IF snapshots THEN Append(news, running) ELSE news

StartJob(j) ==
  /\ j \notin begun /\ begun' = begun \cup {j}
  /\ alive' = alive \cup {j} /\ held' = held \cup {j}
  /\ log' = Append(log, Line("task_backgrounded", j))
  /\ Sent(alive' \cap held')
  /\ UNCHANGED <<snapshots, snap, detached, badge, viewer, rewinds>>

\* Only the agent that holds a task writes that it ended.
EndJob(j) ==
  /\ j \in alive /\ alive' = alive \ {j}
  /\ IF j \in held THEN log' = Append(log, Line("task_completed", j)) /\ Sent(alive' \cap held)
                   ELSE UNCHANGED <<log, news>>
  /\ UNCHANGED <<begun, held, snapshots, snap, detached, badge, viewer, rewinds>>

Forget(j) ==
  /\ j \in held \ alive /\ held' = held \ {j}
  /\ UNCHANGED <<begun, alive, log, snapshots, snap, news, detached, badge, viewer, rewinds>>

\* A rewind takes a tail of the file out of the story.  It ends no task.
RewindJobs ==
  /\ rewinds < MaxRewinds /\ rewinds' = rewinds + 1
  /\ \E n \in DOMAIN log :
       log' = [i \in DOMAIN log |-> IF i >= n THEN [log[i] EXCEPT !.rewound = TRUE] ELSE log[i]]
  /\ UNCHANGED <<begun, alive, held, snapshots, snap, news, detached, badge, viewer>>

\* The process of the agent ends: its reaper may or may not have run.  The session's row goes,
\* and a call to the agent fails.
AgentEnds ==
  /\ \E reaped \in SUBSET (alive \cap held) : alive' = alive \ reaped
  /\ held' = {} /\ snap' = NoSnap /\ news' = <<>>
  /\ detached' = IF detached.at = "list" THEN [detached EXCEPT !.at = "told", !.jobs = {}]
                                         ELSE detached
  /\ UNCHANGED <<begun, log, snapshots, badge, viewer, rewinds>>

(***************************************************************************)
(* The host.                                                               *)
(***************************************************************************)
\* A snapshot replaces the last.
TakeSnapshot ==
  /\ news # <<>> /\ snap' = Head(news) /\ news' = Tail(news)
  /\ UNCHANGED <<begun, alive, held, log, snapshots, detached, badge, viewer, rewinds>>

\* Tasks with a line for their start among ls, and of these the ones with none for their end.
JobsOf(ls, kind) == {l.job : l \in {l \in ls : l.kind = kind}}
Orphaned(ls) == JobsOf(ls, "task_backgrounded") \ JobsOf(ls, "task_completed")
Timeline == {l \in Range(log) : ~l.rewound}

\* What the kernel says: the logs among those that a process holds open.
OpenLogs(jobs) == jobs \cap alive

\* The tasks that run: from the snapshot, or else from the timeline and the kernel.
AskRunning ==
  /\ detached.at = "idle"
  /\ detached' = IF snap # NoSnap THEN [detached EXCEPT !.at = "list", !.jobs = snap]
                                  ELSE [detached EXCEPT !.at = "parse"]
  /\ UNCHANGED <<begun, alive, held, log, snapshots, snap, news, badge, viewer, rewinds>>

ParseTimeline ==
  /\ detached.at = "parse"
  /\ detached' = [detached EXCEPT !.at = "probe", !.jobs = Orphaned(Timeline)]
  /\ UNCHANGED <<begun, alive, held, log, snapshots, snap, news, badge, viewer, rewinds>>

ProbeRunning ==
  /\ detached.at = "probe"
  /\ detached' = [detached EXCEPT !.at = "list", !.jobs = OpenLogs(@)]
  /\ UNCHANGED <<begun, alive, held, log, snapshots, snap, news, badge, viewer, rewinds>>

\* x.ai/task/list.
ListHeld ==
  /\ detached.at = "list"
  /\ detached' = IF detached.jobs = {} THEN [detached EXCEPT !.at = "told"]
                                       ELSE [detached EXCEPT !.at = "answered", !.owned = held]
  /\ UNCHANGED <<begun, alive, held, log, snapshots, snap, news, badge, viewer, rewinds>>

TellDetached ==
  /\ detached.at = "answered"
  /\ detached' = [detached EXCEPT !.at = "told", !.jobs = @ \ detached.owned]
  /\ UNCHANGED <<begun, alive, held, log, snapshots, snap, news, badge, viewer, rewinds>>

\* The sidebar counts over every line of the file, rewound or not.
Census_Story ==   \* over the lines that rewinds left
  /\ badge.at = "idle"
  /\ badge' = [at |-> "probe", jobs |-> Orphaned(Timeline), known |-> JobsOf(Range(log), "task_backgrounded")]
  /\ UNCHANGED <<begun, alive, held, log, snapshots, snap, news, detached, viewer, rewinds>>
Census ==
  /\ badge.at = "idle"
  /\ badge' = [at |-> "probe", jobs |-> Orphaned(Range(log)), known |-> JobsOf(Range(log), "task_backgrounded")]
  /\ UNCHANGED <<begun, alive, held, log, snapshots, snap, news, detached, viewer, rewinds>>

TellBadge ==
  /\ badge.at = "probe"
  /\ badge' = [badge EXCEPT !.at = "told", !.jobs = OpenLogs(@)]
  /\ UNCHANGED <<begun, alive, held, log, snapshots, snap, news, detached, viewer, rewinds>>

\* TaskLog of one task the timeline knows: what the timeline says, then its output, from the
\* log if a line names it, then whether it runs.
AskLog(j) ==
  /\ viewer.at = "idle" /\ j \in {l.job : l \in Timeline}
  /\ viewer' = [viewer EXCEPT !.at = "read", !.jobs = {j},
                              !.logged = j \in JobsOf(Timeline, "task_backgrounded"),
                              !.completed = j \in JobsOf(Timeline, "task_completed")]
  /\ UNCHANGED <<begun, alive, held, log, snapshots, snap, news, detached, badge, rewinds>>

ReadLog ==
  /\ viewer.at = "read"
  /\ viewer' = [viewer EXCEPT !.at = "probe",
                              !.whole = IF viewer.logged THEN OpenLogs(viewer.jobs) = {} ELSE viewer.completed]
  /\ UNCHANGED <<begun, alive, held, log, snapshots, snap, news, detached, badge, rewinds>>

TellLog ==
  /\ viewer.at = "probe"
  /\ viewer' = [viewer EXCEPT !.at = "told",
                              !.running = ~viewer.completed /\ viewer.logged /\ OpenLogs(viewer.jobs) # {}]
  /\ UNCHANGED <<begun, alive, held, log, snapshots, snap, news, detached, badge, rewinds>>

TasksNext ==
  \/ \E j \in Jobs : StartJob(j) \/ EndJob(j) \/ Forget(j) \/ AskLog(j)
  \/ RewindJobs \/ TakeSnapshot
  \/ AskRunning \/ ParseTimeline \/ ProbeRunning \/ ListHeld \/ TellDetached
  \/ Census \/ TellBadge \/ ReadLog \/ TellLog

(***************************************************************************)
(* Properties.                                                             *)
(***************************************************************************)
\* A task shown as detached is none the agent can still stop: whatever starts, ends or is
\* restarted between the four reads, the agent asked last does not hold it and never will.
DetachedNotHeld == detached.at = "told" => detached.jobs \cap held = {}

\* The sidebar misses no task that runs and had a line when the census began, in whatever part
\* of the story that line is now.
BadgeMissesNone == badge.at = "told" => badge.known \cap alive \subseteq badge.jobs

\* The host's snapshot, once none is on its way, is what the agent runs.
SnapshotFollows == snap # NoSnap /\ news = <<>> => snap = alive \cap held

\* Whoever is told that a task has completed was given all it wrote.  (Of one neither
\* completed nor running that does not hold: it may have ended after its log was read.)
LogWhole == viewer.at = "told" /\ viewer.completed => viewer.whole

TasksRight == DetachedNotHeld /\ BadgeMissesNone /\ SnapshotFollows /\ LogWhole
=============================================================================
