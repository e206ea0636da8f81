------------------------- MODULE SessionViews_proofs -------------------------
(***************************************************************************)
(* Proofs about what the host tells of one session (SessionViews): its     *)
(* background tasks, the rate of its output, and its settings.             *)
(*                                                                         *)
(* Each of the three is proved of a specification of its own, without the  *)
(* bound that keeps them apart in SessionViews, and ViewsSpec implements   *)
(* all three.                                                              *)
(***************************************************************************)
EXTENDS SessionViews, TLAPS

(***************************************************************************)
(* Tasks.                                                                  *)
(*                                                                         *)
(* A query reads four things one after the other.  What saves it is that a *)
(* task starts once: a set of tasks taken early never gains a member that  *)
(* is held, or that runs, later.                                           *)
(***************************************************************************)
TasksSpec == TasksInit /\ [][TasksNext \/ AgentEnds]_taskVars

TasksShape ==
  /\ TasksTypeOK
  /\ snapshots \in BOOLEAN /\ rewinds \in 0..MaxRewinds
  /\ detached \in [at : {"idle", "parse", "probe", "list", "answered", "told"},
                   jobs : SUBSET Jobs, owned : SUBSET Jobs]
  /\ badge \in [at : {"idle", "probe", "told"}, jobs : SUBSET Jobs, known : SUBSET Jobs]
  /\ badge.known \subseteq begun
  /\ snap = NoSnap \/ snap \subseteq begun
  /\ \A i \in DOMAIN news : news[i] \subseteq begun
  /\ viewer \in [at : {"idle", "read", "probe", "told"}, jobs : SUBSET Jobs, logged : BOOLEAN,
                 completed : BOOLEAN, whole : BOOLEAN, running : BOOLEAN]

\* What the file says is of tasks that were started, and none is said to have ended that runs.
LogTrue ==
  \A i \in DOMAIN log : /\ log[i].job \in begun
                        /\ log[i].kind = "task_completed" => log[i].job \notin alive

DetachedInv ==
  /\ detached.at = "answered" => detached.jobs \cap held \subseteq detached.owned
  /\ DetachedNotHeld

BadgeInv ==
  badge.at \in {"probe", "told"} => badge.known \cap alive \subseteq badge.jobs

\* The last snapshot sent, if any, is what runs.
SnapshotInv ==
  /\ ~snapshots => snap = NoSnap /\ news = <<>>
  /\ news # <<>> => news[Len(news)] = alive \cap held
  /\ SnapshotFollows

ViewerInv ==
  /\ viewer.at = "read" /\ viewer.completed => viewer.jobs \cap alive = {}
  /\ viewer.at \in {"probe", "told"} /\ viewer.completed => viewer.whole

TasksInv == TasksShape /\ LogTrue /\ DetachedInv /\ BadgeInv /\ SnapshotInv /\ ViewerInv

LEMMA TasksInitInv == TasksInit => TasksInv
  BY TasksAssumption
  DEF TasksInit, TasksInv, TasksShape, TasksTypeOK, LogTrue, DetachedInv, DetachedNotHeld, BadgeInv,
      SnapshotInv, SnapshotFollows, ViewerInv, NoSnap

LEMMA LineType ==
  ASSUME NEW k \in {"task_backgrounded", "task_completed"}, NEW j \in Jobs
  PROVE  Line(k, j) \in Lines /\ Line(k, j).kind = k /\ Line(k, j).job = j
  BY DEF Line, Lines

\* A snapshot sent is the last.
LEMMA SentInv ==
  ASSUME SnapshotInv, news \in Seq(SUBSET Jobs), snapshots \in BOOLEAN,
         \A i \in DOMAIN news : news[i] \subseteq begun', alive' \cap held' \subseteq begun',
         Sent(alive' \cap held'), UNCHANGED <<snapshots, snap>>, alive' \cap held' \in SUBSET Jobs
  PROVE  /\ SnapshotInv' /\ news' \in Seq(SUBSET Jobs)
         /\ \A i \in DOMAIN news' : news'[i] \subseteq begun'
  <1>1. CASE snapshots
    <2>1. news' = Append(news, alive' \cap held')
      BY <1>1 DEF Sent
    <2>2. news' \in Seq(SUBSET Jobs) /\ news' # <<>> /\ news'[Len(news')] = alive' \cap held'
      BY <2>1
    <2>3. \A i \in DOMAIN news' : news'[i] \subseteq begun'
      BY <2>1
    <2> QED BY <1>1, <2>2, <2>3 DEF SnapshotInv, SnapshotFollows
  <1>2. CASE ~snapshots
    BY <1>2 DEF Sent, SnapshotInv, SnapshotFollows
  <1> QED BY <1>1, <1>2

LEMMA StartJobInv == ASSUME TasksInv, NEW j \in Jobs, StartJob(j) PROVE TasksInv'
  <1> USE DEF TasksInv, StartJob
  <1>1. Line("task_backgrounded", j) \in Lines /\ Line("task_backgrounded", j).job = j
        /\ Line("task_backgrounded", j).kind = "task_backgrounded"
    BY LineType
  <1>5. SnapshotInv' /\ news' \in Seq(SUBSET Jobs) /\ \A i \in DOMAIN news' : news'[i] \subseteq begun'
    <2>1. begun \subseteq begun' /\ alive' \cap held' \subseteq begun' /\ begun' \subseteq Jobs
      BY DEF TasksShape, TasksTypeOK
    <2>2. \A i \in DOMAIN news : news[i] \subseteq begun'
      BY <2>1 DEF TasksShape
    <2> QED BY <2>1, <2>2, SentInv DEF TasksShape, TasksTypeOK
  <1>2. TasksShape'
    BY <1>1, <1>5 DEF TasksShape, TasksTypeOK
  <1>3. LogTrue'
    BY <1>1 DEF TasksShape, TasksTypeOK, LogTrue
  <1>4. DetachedInv' /\ BadgeInv' /\ ViewerInv'
    BY DEF TasksShape, TasksTypeOK, DetachedInv, DetachedNotHeld, BadgeInv, ViewerInv
  <1> QED BY <1>2, <1>3, <1>4, <1>5

LEMMA EndJobInv == ASSUME TasksInv, NEW j \in Jobs, EndJob(j) PROVE TasksInv'
  <1> USE DEF TasksInv, EndJob
  <1>0. Line("task_completed", j) \in Lines /\ Line("task_completed", j).job = j
    BY LineType
  <1>1. SnapshotInv' /\ news' \in Seq(SUBSET Jobs) /\ \A i \in DOMAIN news' : news'[i] \subseteq begun'
    <2>1. CASE j \in held
      BY <2>1, SentInv DEF TasksShape, TasksTypeOK
    <2>2. CASE j \notin held
      <3>1. alive' \cap held' = alive \cap held
        BY <2>2
      <3> QED BY <2>2, <3>1 DEF TasksShape, TasksTypeOK, SnapshotInv, SnapshotFollows
    <2> QED BY <2>1, <2>2
  <1>2. log' \in Seq(Lines)
    BY SMTT(30), <1>0 DEF TasksShape, TasksTypeOK
  <1>3. TasksShape'
    BY <1>1, <1>2 DEF TasksShape, TasksTypeOK
  <1>4. LogTrue'
    <2>1. CASE j \in held
      <3>1. log' = Append(log, Line("task_completed", j)) /\ log \in Seq(Lines) /\ j \in begun
        BY <2>1 DEF TasksShape, TasksTypeOK
      <3>2. ASSUME NEW i \in DOMAIN log'
            PROVE  \/ i \in DOMAIN log /\ log'[i] = log[i]
                   \/ log'[i] = Line("task_completed", j)
        BY <3>1, <1>0
      <3> QED BY <1>0, <3>1, <3>2 DEF LogTrue
    <2>2. CASE j \notin held
      BY <2>2 DEF LogTrue
    <2> QED BY <2>1, <2>2
  <1>5. DetachedInv' /\ BadgeInv' /\ ViewerInv'
    BY DEF TasksShape, TasksTypeOK, DetachedInv, DetachedNotHeld, BadgeInv, ViewerInv
  <1> QED BY <1>1, <1>3, <1>4, <1>5

LEMMA ForgetInv == ASSUME TasksInv, NEW j \in Jobs, Forget(j) PROVE TasksInv'
  BY DEF TasksInv, Forget, TasksShape, TasksTypeOK, LogTrue, DetachedInv, DetachedNotHeld,
         BadgeInv, SnapshotInv, SnapshotFollows, ViewerInv

LEMMA RewindJobsInv == ASSUME TasksInv, RewindJobs PROVE TasksInv'
  <1> USE DEF TasksInv, RewindJobs
  <1>1. PICK n \in DOMAIN log :
          log' = [i \in DOMAIN log |-> IF i >= n THEN [log[i] EXCEPT !.rewound = TRUE] ELSE log[i]]
    OBVIOUS
  <1>2. log \in Seq(Lines)
    BY DEF TasksShape, TasksTypeOK
  <1>3. ASSUME NEW i \in DOMAIN log
        PROVE  /\ log'[i] \in Lines /\ log'[i].job = log[i].job /\ log'[i].kind = log[i].kind
    <2>1. log[i] \in Lines
      BY <1>2
    <2>2. [log[i] EXCEPT !.rewound = TRUE] \in Lines
      BY <2>1 DEF Lines
    <2>3. log'[i] = IF i >= n THEN [log[i] EXCEPT !.rewound = TRUE] ELSE log[i]
      BY <1>1
    <2> QED BY <2>1, <2>2, <2>3 DEF Lines
  <1>4. DOMAIN log' = DOMAIN log /\ DOMAIN log = 1..Len(log)
    BY <1>1, <1>2
  <1>5. log' \in Seq(Lines)
    <2>1. Len(log) \in Nat /\ DOMAIN log' = 1..Len(log)
      BY <1>2, <1>4
    <2>2. log' = [i \in 1..Len(log) |-> log'[i]]
      BY <1>1, <1>4, <2>1, Zenon
    <2>3. \A i \in 1..Len(log) : log'[i] \in Lines
      BY <1>3, <1>4
    <2>4. [i \in 1..Len(log) |-> log'[i]] \in [1..Len(log) -> Lines]
      BY <2>3
    <2>5. log' \in [1..Len(log) -> Lines]
      BY <2>2, <2>4, Zenon
    <2> QED BY <2>1, <2>5
  <1>6. TasksShape'
    BY <1>5, TasksAssumption DEF TasksShape, TasksTypeOK
  <1>7. LogTrue'
    BY <1>3, <1>4 DEF LogTrue
  <1> QED
    BY <1>6, <1>7
    DEF DetachedInv, DetachedNotHeld, BadgeInv, SnapshotInv, SnapshotFollows, ViewerInv

LEMMA AgentEndsInv == ASSUME TasksInv, AgentEnds PROVE TasksInv'
  <1> USE DEF TasksInv, AgentEnds
  <1>1. alive' \subseteq alive /\ held' = {}
    OBVIOUS
  <1>3. /\ detached' \in [at : {"idle", "parse", "probe", "list", "answered", "told"},
                          jobs : SUBSET Jobs, owned : SUBSET Jobs]
        /\ detached'.jobs \subseteq detached.jobs /\ detached'.owned = detached.owned
    BY DEF TasksShape
  <1>2. TasksShape'
    BY <1>1, <1>3 DEF TasksShape, TasksTypeOK
  <1> QED
    BY <1>1, <1>2
    DEF TasksShape, TasksTypeOK, LogTrue, DetachedInv, DetachedNotHeld, BadgeInv, SnapshotInv,
        SnapshotFollows, ViewerInv

LEMMA TakeSnapshotInv == ASSUME TasksInv, TakeSnapshot PROVE TasksInv'
  <1> USE DEF TasksInv, TakeSnapshot
  <1>1. news \in Seq(SUBSET Jobs) /\ news # <<>>
    BY DEF TasksShape, TasksTypeOK
  <1>2. /\ Head(news) \in SUBSET Jobs /\ Tail(news) \in Seq(SUBSET Jobs)
        /\ Tail(news) = <<>> => Head(news) = news[Len(news)]
        /\ Tail(news) # <<>> => Tail(news)[Len(Tail(news))] = news[Len(news)]
    <2>1. Len(news) \in Nat \ {0} /\ Head(news) = news[1] /\ news[1] \in SUBSET Jobs
      BY <1>1
    <2>2. Tail(news) \in Seq(SUBSET Jobs) /\ Len(Tail(news)) = Len(news) - 1
      BY <1>1
    <2>3. Tail(news) = <<>> => Len(news) = 1
      BY <2>1, <2>2
    <2>4. ASSUME Tail(news) # <<>>
          PROVE  Tail(news)[Len(Tail(news))] = news[Len(news)]
      <3>1. Len(Tail(news)) \in 1..Len(Tail(news))
        BY <2>2, <2>4
      <3>2. Tail(news)[Len(Tail(news))] = news[Len(Tail(news)) + 1]
        BY <1>1, <3>1
      <3>3. Len(Tail(news)) + 1 = Len(news)
        BY <2>1, <2>2
      <3> QED BY <3>2, <3>3
    <2> QED BY <2>1, <2>2, <2>3, <2>4
  <1>3. TasksShape'
    <2>1. Head(news) = news[1] /\ 1 \in DOMAIN news
      BY <1>1
    <2>2. \A i \in DOMAIN Tail(news) : i + 1 \in DOMAIN news /\ Tail(news)[i] = news[i + 1]
      BY <1>1
    <2>3. \A i \in DOMAIN Tail(news) : Tail(news)[i] \subseteq begun
      BY <2>2 DEF TasksShape
    <2>4. Head(news) \subseteq begun
      BY <2>1 DEF TasksShape
    <2> QED BY <1>2, <2>3, <2>4 DEF TasksShape, TasksTypeOK
  <1>4. SnapshotInv'
    BY <1>1, <1>2 DEF SnapshotInv, SnapshotFollows
  <1> QED
    BY <1>3, <1>4 DEF LogTrue, DetachedInv, DetachedNotHeld, BadgeInv, ViewerInv

\* What the lines of the file, or a part of them, say of the tasks.
LEMMA JobsOfLog ==
  ASSUME TasksShape, LogTrue, NEW ls \in SUBSET Range(log), NEW kind
  PROVE  /\ JobsOf(ls, kind) \subseteq begun
         /\ kind = "task_completed" => JobsOf(ls, kind) \cap alive = {}
         /\ {l.job : l \in ls} \subseteq begun
  BY DEF TasksShape, TasksTypeOK, LogTrue, JobsOf, Range

LEMMA TimelineOfLog == Timeline \subseteq Range(log)
  BY DEF Timeline

\* The queries of tasks.
LEMMA DetachedQueryInv ==
  ASSUME TasksInv, AskRunning \/ ParseTimeline \/ ProbeRunning \/ ListHeld \/ TellDetached
  PROVE  TasksInv'
  <1> USE DEF TasksInv
  <1>1. CASE AskRunning
    BY ZenonT(40), <1>1 DEF AskRunning, TasksShape, TasksTypeOK, LogTrue, DetachedInv, DetachedNotHeld, BadgeInv,
                SnapshotInv, SnapshotFollows, ViewerInv
  <1>2. CASE ParseTimeline
    <2>1. Orphaned(Timeline) \subseteq begun
      BY JobsOfLog, TimelineOfLog DEF Orphaned
    <2>2. TasksShape'
      BY <1>2, <2>1 DEF ParseTimeline, TasksShape, TasksTypeOK
    <2> QED
      BY <1>2, <2>2 DEF ParseTimeline, TasksShape, LogTrue, DetachedInv, DetachedNotHeld, BadgeInv,
                        SnapshotInv, SnapshotFollows, ViewerInv
  <1>3. CASE ProbeRunning
    BY ZenonT(40), <1>3 DEF ProbeRunning, OpenLogs, TasksShape, TasksTypeOK, LogTrue, DetachedInv, DetachedNotHeld,
                BadgeInv, SnapshotInv, SnapshotFollows, ViewerInv
  <1>4. CASE ListHeld
    BY ZenonT(40), <1>4 DEF ListHeld, TasksShape, TasksTypeOK, LogTrue, DetachedInv, DetachedNotHeld, BadgeInv,
                SnapshotInv, SnapshotFollows, ViewerInv
  <1>5. CASE TellDetached
    BY ZenonT(40), <1>5 DEF TellDetached, TasksShape, TasksTypeOK, LogTrue, DetachedInv, DetachedNotHeld, BadgeInv,
                SnapshotInv, SnapshotFollows, ViewerInv
  <1> QED BY <1>1, <1>2, <1>3, <1>4, <1>5

LEMMA BadgeQueryInv == ASSUME TasksInv, Census \/ TellBadge PROVE TasksInv'
  <1> USE DEF TasksInv
  <1>1. CASE Census
    <2>1. /\ JobsOf(Range(log), "task_backgrounded") \subseteq begun
          /\ JobsOf(Range(log), "task_completed") \cap alive = {}
      BY JobsOfLog
    <2>2. TasksShape' /\ BadgeInv'
      BY <1>1, <2>1 DEF Census, Orphaned, TasksShape, TasksTypeOK, BadgeInv
    <2> QED
      BY <1>1, <2>2 DEF Census, LogTrue, DetachedInv, DetachedNotHeld, SnapshotInv, SnapshotFollows,
                        ViewerInv
  <1>2. CASE TellBadge
    BY ZenonT(40), <1>2 DEF TellBadge, OpenLogs, TasksShape, TasksTypeOK, LogTrue, DetachedInv, DetachedNotHeld,
                BadgeInv, SnapshotInv, SnapshotFollows, ViewerInv
  <1> QED BY <1>1, <1>2

LEMMA AskLogInv == ASSUME TasksInv, NEW j \in Jobs, AskLog(j) PROVE TasksInv'
  <1> USE DEF TasksInv
  <1>1. /\ j \in begun
        /\ j \in JobsOf(Timeline, "task_completed") => j \notin alive
    BY JobsOfLog, TimelineOfLog DEF AskLog
  <1>2. TasksShape' /\ ViewerInv'
    <2>1. /\ (j \in JobsOf(Timeline, "task_completed")) \in BOOLEAN
          /\ (j \in JobsOf(Timeline, "task_backgrounded")) \in BOOLEAN
      OBVIOUS
    <2>2. /\ viewer' \in [at : {"idle", "read", "probe", "told"}, jobs : SUBSET Jobs, logged : BOOLEAN,
                          completed : BOOLEAN, whole : BOOLEAN, running : BOOLEAN]
          /\ viewer'.at = "read" /\ viewer'.jobs = {j}
          /\ viewer'.completed = (j \in JobsOf(Timeline, "task_completed"))
      BY <2>1 DEF AskLog, TasksShape
    <2>3. /\ viewer'.jobs \subseteq begun
          /\ viewer'.at = "read" /\ viewer'.completed => viewer'.jobs \cap alive = {}
          /\ UNCHANGED <<begun, alive, held, log, snapshots, snap, news, detached, badge, rewinds>>
      BY <1>1, <2>2 DEF AskLog
    <2> QED BY <2>2, <2>3 DEF TasksShape, TasksTypeOK, ViewerInv
  <1> QED
    BY <1>2 DEF AskLog, LogTrue, DetachedInv, DetachedNotHeld, BadgeInv, SnapshotInv, SnapshotFollows

LEMMA TellLogShape ==
  ASSUME TasksInv, TellLog
  PROVE  /\ viewer' \in [at : {"idle", "read", "probe", "told"}, jobs : SUBSET Jobs, logged : BOOLEAN,
                        completed : BOOLEAN, whole : BOOLEAN, running : BOOLEAN]
         /\ viewer'.at = "told" /\ viewer'.jobs = viewer.jobs
         /\ viewer'.completed = viewer.completed /\ viewer'.whole = viewer.whole
  <1>1. PICK b \in BOOLEAN : viewer' = [viewer EXCEPT !.at = "told", !.running = b]
    <2>1. (~viewer.completed /\ viewer.logged /\ OpenLogs(viewer.jobs) # {}) \in BOOLEAN
      OBVIOUS
    <2> QED BY <2>1, Zenon DEF TellLog
  <1> QED BY <1>1 DEF TasksInv, TasksShape

LEMMA ViewerQueryInv == ASSUME TasksInv, ReadLog \/ TellLog PROVE TasksInv'
  <1> USE DEF TasksInv
  <1>1. CASE ReadLog
    <2>1. TasksShape' /\ ViewerInv'
      BY <1>1 DEF ReadLog, OpenLogs, TasksShape, TasksTypeOK, ViewerInv
    <2> QED
      BY <1>1, <2>1 DEF ReadLog, LogTrue, DetachedInv, DetachedNotHeld, BadgeInv, SnapshotInv,
                        SnapshotFollows
  <1>2. CASE TellLog
    <2>1. TasksShape' /\ ViewerInv'
      BY <1>2, TellLogShape DEF TasksShape, TasksTypeOK, ViewerInv, TellLog
    <2> QED
      BY <1>2, <2>1 DEF TellLog, LogTrue, DetachedInv, DetachedNotHeld, BadgeInv, SnapshotInv,
                        SnapshotFollows
  <1> QED BY <1>1, <1>2

LEMMA TasksStep == ASSUME TasksInv, [TasksNext \/ AgentEnds]_taskVars PROVE TasksInv'
  <1>1. CASE TasksNext
    <2>1. ASSUME NEW j \in Jobs, StartJob(j) \/ EndJob(j) \/ Forget(j) \/ AskLog(j)
          PROVE  TasksInv'
      BY <2>1, StartJobInv, EndJobInv, ForgetInv, AskLogInv
    <2> QED
      BY <1>1, <2>1, RewindJobsInv, TakeSnapshotInv, DetachedQueryInv, BadgeQueryInv, ViewerQueryInv
      DEF TasksNext
  <1>2. CASE AgentEnds
    BY <1>2, AgentEndsInv
  <1>3. CASE UNCHANGED taskVars
    BY <1>3 DEF taskVars, TasksInv, TasksShape, TasksTypeOK, LogTrue, DetachedInv, DetachedNotHeld,
                BadgeInv, SnapshotInv, SnapshotFollows, ViewerInv
  <1> QED BY <1>1, <1>2, <1>3

LEMMA TasksInvariant == TasksSpec => []TasksInv
  BY TasksInitInv, TasksStep, PTL DEF TasksSpec

\* The four queries and snapshots tell the truth about tasks, for every number of tasks and
\* rewinds: a task shown as detached is none the agent holds, the badge misses none that runs,
\* a snapshot is what runs, and a task said to have completed was read whole.
THEOREM TasksToldRight == TasksSpec => []TasksRight
  <1>1. TasksInv => TasksRight
    BY DEF TasksInv, TasksRight, DetachedInv, BadgeInv, BadgeMissesNone, SnapshotInv, ViewerInv, LogWhole
  <1> QED BY <1>1, TasksInvariant, PTL

(***************************************************************************)
(* GenRate.                                                                *)
(*                                                                         *)
(* The throttle is kept because the time of the last rate told outlives    *)
(* each segment; a rate is no overstatement because a segment of a stream  *)
(* has counted no more of it than was sent.                                *)
(***************************************************************************)
RateSpec == RateInit /\ [][RateNext]_rateVars

Segments ==
  [lastTs : Never..MaxTime, ema : Never..Cap, first : BOOLEAN, start : 0..MaxTime,
   stream : 0..MaxTime, chars : Nat, eff : Nat, agent : BOOLEAN, published : Never..MaxTime]

RateShape ==
  /\ seg \in Segments
  /\ clock \in [agent : 1..MaxTime, host : 1..MaxTime]
  /\ stream \in [start : 1..MaxTime, chars : Nat]
  /\ shown \in Never..Cap /\ chunks \in Nat
  /\ announced \in [by : {"agent", "host"}, at : Never..MaxTime, rate : 0..Cap, gap : Nat, most : Nat]

\* The segment knows when a rate was last told, and counts of its stream what was sent at most.
SegmentInv ==
  /\ seg.published = announced.at
  /\ seg.stream = stream.start => seg.chars <= stream.chars

RateInv == RateShape /\ SegmentInv /\ Spaced /\ NoOverstatement

LEMMA RateConstants ==
  /\ Sizes \subseteq Nat \ {0} /\ Leaps \subseteq Nat
  /\ Unit \in Nat \ {0} /\ Throttle \in Nat \ {0} /\ FirstPublish \in Nat \ {0}
  /\ IdleCap \in Nat \ {0} /\ MinGap \in Nat \ {0} /\ Cap \in Nat \ {0}
  /\ MaxChunks \in Nat \ {0} /\ MaxTime \in Nat \ {0}
  BY GenRateAssumption

LEMMA QuotientBounds ==
  ASSUME NEW a \in Nat, NEW w \in Nat \ {0}
  PROVE  a \div w \in Nat /\ w * (a \div w) <= a /\ a < w * (a \div w) + w
  BY SMT

LEMMA ProductMonotone ==
  ASSUME NEW p \in Nat, NEW q \in Nat, NEW w \in Nat \ {0}, q + 1 <= p
  PROVE  w * q + w <= w * p
  BY SMT

\* Of the same time, more characters are no slower a rate.
LEMMA QuotientMonotone ==
  ASSUME NEW a \in Nat, NEW b \in Nat, NEW w \in Nat \ {0}, a <= b
  PROVE  a \div w <= b \div w
  <1> DEFINE p == a \div w
             q == b \div w
  <1>1. p \in Nat /\ w * p <= a
    BY QuotientBounds
  <1>2. q \in Nat /\ b < w * q + w
    BY QuotientBounds
  <1> HIDE DEF p, q
  <1>3. CASE q + 1 <= p
    <2>1. w * q + w <= w * p
      BY <1>1, <1>2, <1>3, ProductMonotone
    <2>2. w * q \in Int /\ w * p \in Int
      BY <1>1, <1>2
    <2> QED BY <1>1, <1>2, <2>1, <2>2
  <1>4. p <= q
    BY <1>1, <1>2, <1>3
  <1> QED BY <1>4 DEF p, q

LEMMA RateType ==
  ASSUME NEW n \in Nat, NEW t \in Nat \ {0}
  PROVE  Rate(n, t) \in Nat
  <1>1. n * Unit \in Nat
    BY RateConstants
  <1> QED BY <1>1, QuotientBounds DEF Rate

LEMMA RateMonotone ==
  ASSUME NEW m \in Nat, NEW n \in Nat, NEW t \in Nat \ {0}, m <= n
  PROVE  Rate(m, t) <= Rate(n, t)
  <1>1. m * Unit \in Nat /\ n * Unit \in Nat /\ m * Unit <= n * Unit
    BY RateConstants, SMT
  <1> QED BY <1>1, QuotientMonotone DEF Rate

LEMMA BlendType ==
  ASSUME NEW e \in Never..Cap, NEW r \in Nat
  PROVE  Blend(e, r) \in 0..Cap
  <1> DEFINE l == Least(r, Cap)
  <1>1. l \in 0..Cap
    BY RateConstants DEF Least
  <1> HIDE DEF l
  <1>2. CASE e = Never
    BY <1>1, <1>2 DEF Blend, l
  <1>3. CASE e # Never
    <2>1. e \in 0..Cap
      BY <1>3, RateConstants DEF Never
    <2>2. 4 * e + l \in Nat /\ 4 * e + l <= 5 * Cap
      BY <1>1, <2>1, RateConstants
    <2>3. (4 * e + l) \div 5 \in Nat /\ 5 * ((4 * e + l) \div 5) <= 4 * e + l
      BY <2>2, QuotientBounds
    <2>4. (4 * e + l) \div 5 <= Cap
      BY <2>2, <2>3, RateConstants
    <2> QED BY <1>3, <2>3, <2>4, RateConstants DEF Blend, l
  <1> QED BY <1>2, <1>3

LEMMA EffectiveGapType ==
  ASSUME NEW n \in Nat, NEW gap \in Nat, NEW agent \in BOOLEAN
  PROVE  EffectiveGap(n, gap, agent) \in Nat
  <1>1. (n * Unit) \div Cap \in Nat
    <2>1. n * Unit \in Nat
      BY RateConstants
    <2> QED BY <2>1, RateConstants, QuotientBounds
  <1> QED BY <1>1, RateConstants DEF EffectiveGap, Most, Least

\* A rate that is told, or none: a place to publish into, and a segment that keeps its count.
Outcome(o, s, ts) ==
  /\ o.seg \in Segments /\ o.seg.stream = s.stream
  /\ \/ o.rate = Never /\ o.seg.published = s.published
     \/ o.rate \in 0..Cap /\ o.seg.published = ts /\ Published(s, ts)

LEMMA PublishOutcome ==
  ASSUME NEW s \in Segments, NEW rate \in 0..Cap, NEW ts \in 1..MaxTime
  PROVE  LET o == Publish(s, rate, ts) IN
           /\ Outcome(o, s, ts) /\ o.seg.chars = s.chars
           /\ o.rate \in {Never, rate}
  BY RateConstants DEF Publish, Outcome, Segments, Never

LEMMA SilentOutcome ==
  ASSUME NEW s \in Segments, NEW ts
  PROVE  Outcome(Silent(s), s, ts) /\ Silent(s).seg = s /\ Silent(s).rate = Never
  BY DEF Silent, Outcome

\* The fields of a segment.
LEMMA SegmentFields ==
  ASSUME NEW s \in Segments
  PROVE  /\ s.lastTs \in Never..MaxTime /\ s.ema \in Never..Cap /\ s.first \in BOOLEAN
         /\ s.start \in 0..MaxTime /\ s.stream \in 0..MaxTime /\ s.chars \in Nat /\ s.eff \in Nat
         /\ s.agent \in BOOLEAN /\ s.published \in Never..MaxTime
  BY DEF Segments

LEMMA ClearedType ==
  ASSUME NEW s \in Segments
  PROVE  /\ Cleared(s) \in Segments /\ Cleared(s).published = s.published
         /\ Cleared(s).stream = 0 /\ Cleared(s).chars = 0
  <1>1. Never \in Never..MaxTime /\ Never \in Never..Cap /\ 0 \in 0..MaxTime
    BY RateConstants DEF Never
  <1>2. Fresh \in Segments /\ Fresh.stream = 0 /\ Fresh.chars = 0
    BY <1>1 DEF Fresh, Segments
  <1> QED BY <1>2, SegmentFields DEF Cleared, Segments

LEMMA ReseedType ==
  ASSUME RateShape, NEW s \in Segments, NEW ts \in 1..MaxTime, NEW src \in Sources
  PROVE  /\ Reseed(s, ts, src) \in Segments /\ Reseed(s, ts, src).published = s.published
         /\ Reseed(s, ts, src).chars = 0
         /\ Reseed(s, ts, src).stream = IF src = "stream" THEN stream.start ELSE 0
  <1>1. /\ (src # "host") \in BOOLEAN
        /\ (IF src = "stream" THEN stream.start ELSE 0) \in 0..MaxTime
    BY RateConstants DEF RateShape
  <1> DEFINE c == Cleared(s)
             by == src # "host"
             of == IF src = "stream" THEN stream.start ELSE 0
  <1>2. c \in Segments /\ c.published = s.published /\ c.chars = 0
    BY ClearedType
  <1>3. Reseed(s, ts, src) = [c EXCEPT !.lastTs = ts, !.start = ts, !.first = TRUE, !.agent = by, !.stream = of]
    BY DEF Reseed
  <1>4. by \in BOOLEAN /\ of \in 0..MaxTime
    BY <1>1
  <1>5. ts \in Never..MaxTime /\ ts \in 0..MaxTime
    BY RateConstants DEF Never
  <1> HIDE DEF c, by, of
  <1>6. /\ Reseed(s, ts, src) \in Segments /\ Reseed(s, ts, src).published = c.published
        /\ Reseed(s, ts, src).chars = c.chars /\ Reseed(s, ts, src).stream = of
    BY <1>2, <1>3, <1>4, <1>5 DEF Segments
  <1> QED BY <1>2, <1>6 DEF of

\* A segment of a stream: the rate told is of what it has counted of the stream.
LEMMA OfStreamOutcome ==
  ASSUME NEW s \in Segments, s.stream > 0, NEW n \in Nat, NEW ts \in 1..MaxTime
  PROVE  LET o == OfStream(s, n, ts) IN
           /\ Outcome(o, s, ts) /\ o.seg.chars = s.chars + n
           /\ o.rate # Never => /\ ts - s.stream \in Nat \ {0}
                                /\ o.rate = Least(Rate(s.chars + n, ts - s.stream), Cap)
  <1> DEFINE wall == ts - s.stream
             c    == [s EXCEPT !.chars = @ + n]
             open == [c EXCEPT !.first = FALSE]
             rate == Least(Rate(c.chars, wall), Cap)
  <1>1. /\ c \in Segments /\ c.chars = s.chars + n /\ c.stream = s.stream /\ c.published = s.published
        /\ open \in Segments /\ open.chars = s.chars + n /\ open.stream = s.stream
        /\ open.published = s.published
    <2>1. c \in Segments /\ c.chars = s.chars + n /\ c.stream = s.stream /\ c.published = s.published
      BY DEF Segments
    <2> HIDE DEF c
    <2>2. /\ open \in Segments /\ open.chars = c.chars /\ open.stream = c.stream
          /\ open.published = c.published
      BY <2>1 DEF Segments
    <2> QED BY <2>1, <2>2
  <1>2. wall \in Int
    BY RateConstants DEF Segments
  <1>3. CASE wall <= 0 \/ (s.first /\ wall < FirstPublish)
    <2>1. OfStream(s, n, ts) = Silent(c)
      BY <1>3 DEF OfStream
    <2>2. Outcome(Silent(c), c, ts) /\ Silent(c).seg = c /\ Silent(c).rate = Never
      BY <1>1, SilentOutcome
    <2> HIDE DEF c
    <2> QED BY <1>1, <2>1, <2>2 DEF Outcome, Published
  <1>4. CASE ~(wall <= 0 \/ (s.first /\ wall < FirstPublish))
    <2>1. wall \in Nat \ {0}
      BY <1>2, <1>4
    <2>2. rate \in 0..Cap
      <3>1. c.chars \in Nat
        BY <1>1 DEF Segments
      <3>2. Rate(c.chars, wall) \in Nat
        BY <2>1, <3>1, RateType
      <3> QED BY <3>2, RateConstants DEF Least
    <2>3. OfStream(s, n, ts) = Publish(open, rate, ts)
      BY <1>4 DEF OfStream
    <2>4. /\ Outcome(Publish(open, rate, ts), open, ts)
          /\ Publish(open, rate, ts).seg.chars = open.chars
          /\ Publish(open, rate, ts).rate \in {Never, rate}
      <3> HIDE DEF open, rate
      <3> QED BY <1>1, <2>2, PublishOutcome
    <2>5. rate = Least(Rate(s.chars + n, ts - s.stream), Cap)
      BY <1>1
    <2> HIDE DEF c, open, rate
    <2> QED BY <1>1, <2>1, <2>3, <2>4, <2>5 DEF Outcome, Published, wall
  <1> QED BY <1>3, <1>4

\* Any other segment.
LEMMA OfGapsOutcome ==
  ASSUME NEW s \in Segments, NEW n \in Nat, NEW ts \in 1..MaxTime, NEW src \in Sources
  PROVE  Outcome(OfGaps(s, n, ts, src), s, ts)
  <1> DEFINE gap  == ts - s.lastTs
             by   == src # "host" /\ s.agent
             more == IF gap > 0 THEN EffectiveGap(n, gap, by) ELSE 0
             c    == [s EXCEPT !.chars = @ + n, !.lastTs = ts, !.eff = @ + more]
             r    == Blend(c.ema, Rate(c.chars, c.eff))
             open == [c EXCEPT !.first = FALSE, !.ema = r]
  <1>1. more \in Nat
    <2>1. gap \in Int
      BY RateConstants DEF Segments, Never
    <2>2. by \in BOOLEAN
      BY DEF Segments
    <2>3. CASE gap > 0
      <3>1. gap \in Nat
        BY <2>1, <2>3
      <3> HIDE DEF gap, by
      <3> QED BY <2>2, <2>3, <3>1, EffectiveGapType
    <2>4. CASE ~(gap > 0)
      BY <2>4
    <2> QED BY <2>3, <2>4
  <1> HIDE DEF more
  <1>2. c \in Segments /\ c.stream = s.stream /\ c.published = s.published
    <2>1. s.chars + n \in Nat /\ s.eff + more \in Nat
      BY <1>1, SegmentFields
    <2>2. ts \in Never..MaxTime
      BY RateConstants DEF Never
    <2> DEFINE count == s.chars + n
               eff   == s.eff + more
    <2>3. c = [s EXCEPT !.chars = count, !.lastTs = ts, !.eff = eff]
      OBVIOUS
    <2>4. count \in Nat /\ eff \in Nat
      BY <2>1
    <2> HIDE DEF c, count, eff
    <2> QED BY <2>2, <2>3, <2>4 DEF Segments
  <1>3. OfGaps(s, n, ts, src) = IF (s.first /\ ts - s.start < FirstPublish) \/ c.eff <= 0
                                  THEN Silent(c) ELSE Publish(open, r, ts)
    BY DEF OfGaps, more
  <1> HIDE DEF c
  <1>4. CASE (s.first /\ ts - s.start < FirstPublish) \/ c.eff <= 0
    <2>1. Outcome(Silent(c), c, ts)
      BY <1>2, SilentOutcome
    <2> QED BY <1>2, <1>3, <1>4, <2>1 DEF Outcome, Published
  <1>5. CASE ~((s.first /\ ts - s.start < FirstPublish) \/ c.eff <= 0)
    <2>1. c.eff \in Nat \ {0} /\ c.chars \in Nat /\ c.ema \in Never..Cap
      BY <1>2, <1>5 DEF Segments
    <2>2. r \in 0..Cap
      BY <2>1, RateType, BlendType
    <2> HIDE DEF r
    <2>3. open \in Segments /\ open.stream = c.stream /\ open.published = c.published
      <3>1. r \in Never..Cap
        BY <2>2, RateConstants DEF Never
      <3> QED BY <1>2, <3>1 DEF Segments
    <2> HIDE DEF open
    <2>4. Outcome(Publish(open, r, ts), open, ts)
      BY <2>2, <2>3, PublishOutcome
    <2> QED BY <1>2, <1>3, <1>5, <2>3, <2>4 DEF Outcome, Published
  <1> QED BY <1>4, <1>5

\* What a chunk does to the segment.
LEMMA ObserveOutcome ==
  ASSUME RateInv, NEW n \in Nat, NEW ts \in 1..MaxTime, NEW src \in Sources
  PROVE  LET o == Observe(seg, n, ts, src) IN
           /\ o.seg \in Segments
           /\ \/ o.rate = Never /\ o.seg.published = seg.published
              \/ o.rate \in 0..Cap /\ o.seg.published = ts /\ Published(seg, ts)
           /\ o.seg.stream = stream.start => o.seg.chars <= stream.chars + n
           /\ o.rate # Never /\ o.seg.stream > 0 =>
                /\ ts - o.seg.stream \in Nat \ {0}
                /\ o.rate <= Least(Rate(stream.chars + n, ts - o.seg.stream), Cap)
  <1> DEFINE r == IF NewSegment(seg, src) THEN Reseed(seg, ts, src) ELSE seg
             o == Observe(seg, n, ts, src)
  <1> SUFFICES /\ o.seg \in Segments
               /\ \/ o.rate = Never /\ o.seg.published = seg.published
                  \/ o.rate \in 0..Cap /\ o.seg.published = ts /\ Published(seg, ts)
               /\ o.seg.stream = stream.start => o.seg.chars <= stream.chars + n
               /\ o.rate # Never /\ o.seg.stream > 0 =>
                    /\ ts - o.seg.stream \in Nat \ {0}
                    /\ o.rate <= Least(Rate(stream.chars + n, ts - o.seg.stream), Cap)
    OBVIOUS
  <1>1. seg \in Segments /\ stream.start \in 1..MaxTime /\ stream.chars \in Nat
    BY DEF RateInv, RateShape
  <1>2. /\ r \in Segments /\ r.published = seg.published
        /\ r.stream = stream.start => r.chars <= stream.chars
        /\ r.stream > 0 => r.stream = stream.start
    <2>1. CASE NewSegment(seg, src)
      <3>1. RateShape
        BY DEF RateInv
      <3> QED BY <1>1, <2>1, <3>1, ReseedType
    <2>2. CASE ~NewSegment(seg, src)
      BY <1>1, <2>2 DEF NewSegment, RateInv, SegmentInv
    <2> QED BY <2>1, <2>2
  <1>3. r.chars \in Nat /\ r.stream \in 0..MaxTime
    BY <1>2 DEF Segments
  <1>4. o = IF r.stream > 0 THEN OfStream(r, n, ts)
            ELSE IF NewSegment(seg, src) THEN Silent(r) ELSE OfGaps(r, n, ts, src)
    BY DEF Observe
  <1> HIDE DEF r, o
  <1>5. CASE r.stream > 0
    <2>1. o = OfStream(r, n, ts)
      BY <1>4, <1>5
    <2> DEFINE p == OfStream(r, n, ts)
    <2>0. /\ Outcome(p, r, ts) /\ p.seg.chars = r.chars + n
          /\ p.rate # Never => /\ ts - r.stream \in Nat \ {0}
                               /\ p.rate = Least(Rate(r.chars + n, ts - r.stream), Cap)
      BY <1>2, <1>5, OfStreamOutcome
    <2>2. /\ Outcome(o, r, ts) /\ o.seg.chars = r.chars + n
          /\ o.rate # Never => /\ ts - r.stream \in Nat \ {0}
                               /\ o.rate = Least(Rate(r.chars + n, ts - r.stream), Cap)
      BY <2>0, <2>1
    <2> HIDE DEF p
    <2>3. o.seg.stream = stream.start /\ o.seg.chars <= stream.chars + n
      BY <1>1, <1>2, <1>3, <1>5, <2>2 DEF Outcome
    <2>4. ASSUME o.rate # Never
          PROVE  /\ ts - o.seg.stream \in Nat \ {0}
                 /\ o.rate <= Least(Rate(stream.chars + n, ts - o.seg.stream), Cap)
      <3> DEFINE wall == ts - r.stream
      <3>1. wall \in Nat \ {0} /\ o.seg.stream = r.stream
        BY <2>2, <2>4 DEF Outcome
      <3> HIDE DEF wall
      <3>2. r.chars + n \in Nat /\ stream.chars + n \in Nat /\ r.chars + n <= stream.chars + n
        BY <1>1, <1>2, <1>3, <1>5
      <3>3. /\ Rate(r.chars + n, wall) <= Rate(stream.chars + n, wall)
            /\ Rate(r.chars + n, wall) \in Nat /\ Rate(stream.chars + n, wall) \in Nat
        BY <3>1, <3>2, RateMonotone, RateType
      <3>4. o.rate = Least(Rate(r.chars + n, wall), Cap)
        BY <2>2, <2>4 DEF wall
      <3>5. o.rate <= Least(Rate(stream.chars + n, wall), Cap)
        BY <3>3, <3>4, RateConstants DEF Least
      <3> QED BY <3>1, <3>5 DEF wall
    <2> QED BY <1>2, <2>2, <2>3, <2>4 DEF Outcome, Published
  <1>6. CASE ~(r.stream > 0)
    <2>1. r.stream = 0 /\ stream.start # 0
      BY <1>1, <1>3, <1>6
    <2>2. Outcome(o, r, ts)
      BY <1>2, <1>4, <1>6, SilentOutcome, OfGapsOutcome
    <2> QED BY <1>2, <2>1, <2>2 DEF Outcome, Published
  <1> QED BY <1>5, <1>6

LEMMA ChunkInv ==
  ASSUME RateInv, NEW n \in Sizes, NEW src \in Sources, Chunk(n, src)
  PROVE  RateInv'
  <1> DEFINE by   == IF src = "host" THEN "host" ELSE "agent"
             ts   == clock[by]
             o    == Observe(seg, n, ts, src)
             sent == stream.chars + n
             wall == ts - o.seg.stream
  <1>1. n \in Nat /\ ts \in 1..MaxTime /\ by \in {"agent", "host"}
    BY RateConstants DEF RateInv, RateShape
  <1>2. /\ o.seg \in Segments
        /\ \/ o.rate = Never /\ o.seg.published = seg.published
           \/ o.rate \in 0..Cap /\ o.seg.published = ts /\ Published(seg, ts)
        /\ o.seg.stream = stream.start => o.seg.chars <= sent
        /\ o.rate # Never /\ o.seg.stream > 0 =>
             /\ wall \in Nat \ {0}
             /\ o.rate <= Least(Rate(sent, wall), Cap)
    BY <1>1, ObserveOutcome
  <1>3. /\ seg' = o.seg /\ stream' = [stream EXCEPT !.chars = sent] /\ chunks' = chunks + 1
        /\ UNCHANGED clock
        /\ o.rate = Never => UNCHANGED <<shown, announced>>
        /\ o.rate # Never =>
             /\ shown' = o.rate
             /\ announced' = [by |-> by, at |-> ts, rate |-> o.rate,
                   gap |-> IF announced.by = by /\ announced.at \in 0..ts THEN ts - announced.at ELSE Throttle,
                   most |-> IF o.seg.stream > 0 THEN Least(Rate(sent, wall), Cap) ELSE Cap]
    BY DEF Chunk
  <1>4. stream.chars \in Nat /\ stream.start \in 1..MaxTime /\ sent \in Nat
    BY <1>1 DEF RateInv, RateShape
  <1> HIDE DEF ts, by, o, sent
  <1>5. /\ stream' \in [start : 1..MaxTime, chars : Nat]
        /\ stream'.start = stream.start /\ stream'.chars = sent
    BY <1>3, <1>4 DEF RateInv, RateShape
  <1>6. CASE o.rate = Never
    <2>1. /\ seg' \in Segments /\ seg'.published = seg.published
          /\ seg'.stream = stream.start => seg'.chars <= sent
          /\ UNCHANGED <<shown, announced, clock>> /\ chunks' = chunks + 1
      BY <1>2, <1>3, <1>6, RateConstants DEF Never
    <2> QED BY <1>5, <2>1 DEF RateInv, RateShape, SegmentInv, Spaced, NoOverstatement
  <1>7. CASE o.rate # Never
    <2>1. o.rate \in 0..Cap /\ o.seg.published = ts /\ Published(seg, ts)
      BY <1>2, <1>7
    <2> DEFINE gap  == IF announced.by = by /\ announced.at \in 0..ts THEN ts - announced.at ELSE Throttle
               most == IF o.seg.stream > 0 THEN Least(Rate(sent, wall), Cap) ELSE Cap
    <2>2. gap \in Nat /\ gap >= Throttle
      <3>1. announced.at = seg.published /\ announced.at \in Never..MaxTime
        BY DEF RateInv, RateShape, SegmentInv
      <3> QED BY <1>1, <2>1, <3>1, RateConstants DEF Published, Never
    <2>3. most \in Nat /\ o.rate <= most
      <3>1. CASE o.seg.stream > 0
        <4>1. wall \in Nat \ {0} /\ o.rate <= Least(Rate(sent, wall), Cap)
          BY <1>2, <1>7, <3>1
        <4>2. Rate(sent, wall) \in Nat
          BY <1>4, <4>1, RateType
        <4> QED BY <3>1, <4>1, <4>2, RateConstants DEF Least
      <3>2. CASE ~(o.seg.stream > 0)
        BY <2>1, <3>2, RateConstants
      <3> QED BY <3>1, <3>2
    <2>4. announced' = [by |-> by, at |-> ts, rate |-> o.rate, gap |-> gap, most |-> most]
      BY <1>3, <1>7
    <2> HIDE DEF gap, most
    <2>5. /\ announced' \in [by : {"agent", "host"}, at : Never..MaxTime, rate : 0..Cap, gap : Nat, most : Nat]
          /\ announced'.at = ts /\ announced'.gap = gap /\ announced'.rate = o.rate /\ announced'.most = most
      BY <1>1, <2>1, <2>2, <2>3, <2>4, RateConstants DEF Never
    <2>6. RateShape' /\ SegmentInv'
      BY <1>2, <1>3, <1>5, <1>7, <2>1, <2>5, RateConstants DEF RateInv, RateShape, SegmentInv, Never
    <2> QED BY <2>2, <2>3, <2>5, <2>6 DEF RateInv, Spaced, NoOverstatement
  <1> QED BY <1>6, <1>7

LEMMA RateInitInv == RateInit => RateInv
  BY RateConstants
  DEF RateInit, RateInv, RateShape, SegmentInv, Spaced, NoOverstatement, Segments, Fresh, Untold, Never

LEMMA OtherRateStepInv ==
  ASSUME RateInv, UserChunk \/ Boundary \/ Discard \/ NewStream \/ Time
  PROVE  RateInv'
  <1>0. /\ seg \in Segments /\ stream.start \in 1..MaxTime
        /\ Cleared(seg) \in Segments /\ Cleared(seg).published = seg.published /\ Cleared(seg).stream = 0
    BY ClearedType DEF RateInv, RateShape
  <1>1. CASE UserChunk \/ Boundary
    BY <1>0, <1>1, RateConstants
    DEF UserChunk, Boundary, RateInv, RateShape, SegmentInv, Spaced, NoOverstatement, Never
  <1>2. CASE Discard
    BY <1>0, <1>2, RateConstants
    DEF Discard, RateInv, RateShape, SegmentInv, Spaced, NoOverstatement, Segments, Fresh, Untold, Never
  <1>3. CASE NewStream
    BY <1>0, <1>3, RateConstants
    DEF NewStream, RateInv, RateShape, SegmentInv, Spaced, NoOverstatement
  <1>4. CASE Time
    <2>1. clock' \in [agent : 1..MaxTime, host : 1..MaxTime]
      <3>1. PICK d \in Leaps : \/ clock' = [agent |-> clock.agent + d, host |-> clock.host + d]
                               \/ clock' = [clock EXCEPT !.agent = @ - d]
        BY <1>4 DEF Time
      <3>2. d \in Nat /\ clock'.agent \in 1..MaxTime /\ clock'.host <= MaxTime
        BY <1>4, RateConstants DEF Time
      <3> QED BY <3>1, <3>2, RateConstants DEF RateInv, RateShape
    <2> QED BY <1>4, <2>1 DEF Time, RateInv, RateShape, SegmentInv, Spaced, NoOverstatement
  <1> QED BY <1>1, <1>2, <1>3, <1>4

LEMMA RateStep == ASSUME RateInv, [RateNext]_rateVars PROVE RateInv'
  <1>1. CASE RateNext
    BY <1>1, ChunkInv, OtherRateStepInv DEF RateNext
  <1>2. CASE UNCHANGED rateVars
    BY <1>2 DEF rateVars, RateInv, RateShape, SegmentInv, Spaced, NoOverstatement
  <1> QED BY <1>1, <1>2

LEMMA RateInvariant == RateSpec => []RateInv
  BY RateInitInv, RateStep, PTL DEF RateSpec

\* The rate told of a session keeps to the throttle and never overstates what the agent has
\* sent, for all sizes of chunks, settings of the clocks and constants of genrate.go.
THEOREM RateToldRight == RateSpec => []RateRight
  <1>1. RateInv => RateRight
    BY RateConstants DEF RateInv, RateRight, RateTypeOK, RateShape, Segments
  <1> QED BY <1>1, RateInvariant, PTL

(***************************************************************************)
(* Settings.                                                               *)
(*                                                                         *)
(* The code orders neither the stores nor the broadcasts of two that       *)
(* change one setting, so the argument is about who has a change of it     *)
(* under way.  A setting is excused or there is one at most, a call or the *)
(* agent (ExclusiveInv): what starts beside another excuses both (Apart).  *)
(* So the only change there is explains each difference between the copies *)
(* of a setting: an answer or a notification on its way, a call about to   *)
(* store, a note not broadcast yet (ModeInv, ModelInv, EffortInv, PermInv, *)
(* ToldInv, HelloInv).  Once nothing is under way there is none.           *)
(***************************************************************************)

(***************************************************************************)
(* Settings: what the variables hold.                                      *)
(***************************************************************************)
Changes == [mode : Modes \cup {None}, model : Models \cup {None},
            effort : Efforts \cup {Unset, None}, perm : Perms \cup {None}]
Rows     == [mode : Modes, model : Models, effort : Efforts \cup {Unset}]
Sessions == [mode : Modes, model : Models, effort : Efforts, perm : Perms]
Screens  == [mode : Modes, model : Models, effort : Efforts \cup {Unset}, perm : Perms]
Catalogs == {k \in [models : SUBSET Models, current : Models] : k.current \in k.models}
Files    == [default : Models \cup {None}, custom : SUBSET (Models \ Builtin),
             disabled : SUBSET (Models \ Builtin)]
Asked    == {"mode", "option", "effort", "old", "reload", "toggle", "perm"}
Requests == [by : Calls, ask : Asked]

\* Where a call of each kind can be, and what it asks the agent for.
Switching == {"option", "took option", "tell option", "effort", "took effort", "tell", "fall back",
              "old", "took old", "error"}
PlacesOf(op) ==
  CASE op = "mode"    -> {"mode", "took mode", "tell", "ok", "error"}
    [] op = "toggle"  -> {"flip", "tell", "ok"}
    [] op = "perm"    -> {"write", "tell", "ok"}
    [] op = "effort"  -> {"effort", "took effort", "tell", "ok", "warning", "error"}
    [] op = "model"   -> Switching \cup {"ok", "warning"}
    [] op = "default" -> Switching \cup {"ok", "dismiss", "file", "save", "reload"}
    [] op = "hello"   -> {"hello", "on"}
    [] op = None      -> {"idle"}
    [] OTHER          -> {"file", "save", "reload", "ok"}
AsksOf(op) ==
  CASE op \in {"mode", "toggle", "perm", "effort"} -> {op}
    [] op = "model"   -> {"option", "effort", "old"}
    [] op = "default" -> {"option", "effort", "old", "reload"}
    [] op \in {"hello", None} -> {}
    [] OTHER          -> {"reload"}

IsMessage(m) ==
  /\ m.kind \in {"news", "answer", "catalog"} /\ m.ok \in BOOLEAN /\ m.new \in Changes
  /\ m.kind = "answer" => m.by \in Calls /\ m.new = Nothing
  /\ m.kind = "catalog" => m.by = Host /\ m.new = Nothing /\ m.k \in Catalogs
  /\ m.kind = "news" =>
       \/ m.by = Host /\ (m.new.model = None <=> m.new.effort = None)
       \/ m.by \in Calls /\ m.new.mode # None /\ m.new.model = None /\ m.new.effort = None /\ m.new.perm = None

AgentShape ==
  /\ ag \in Sessions /\ cat \in Catalogs /\ modern \in BOOLEAN
  /\ ag.model \in cat.models /\ ag.effort \in Offers[ag.model]
FilesShape ==
  /\ cfg \in Files /\ promoted \in BOOLEAN /\ DOMAIN table = Calls
  /\ \A c \in Calls : pc[c] = "save" => table[c] \in Files
CopiesShape ==
  /\ row \in Rows \cup {NoRow} /\ permMode \in Perms /\ told \in Screens /\ missed \subseteq Fields
  /\ note \in [Calls \cup {Reader} -> Changes] /\ seen \in [Calls -> Changes]
  /\ \A c \in Calls : call[c].op # "hello" => seen[c] = Nothing
PipesShape ==
  /\ req \in Seq(Requests)
  /\ Len(tx) \in Nat /\ DOMAIN tx = 1..Len(tx) /\ \A i \in DOMAIN tx : IsMessage(tx[i])
Warnable == {c \in Calls : call[c].op \in {"model", "default", "effort"}}
CallsShape ==
  /\ pc \in [Calls -> Places] /\ call \in [Calls -> Wishes \cup {Wish}]
  /\ warned \subseteq Warnable /\ adopted \in [Calls -> SUBSET {"model", "effort"}]
  /\ \A c \in Calls : pc[c] \in PlacesOf(call[c].op)
BoundsShape == moves \in 0..MaxMoves /\ excused \subseteq Fields \cup {"perm told"}
SettingsShape == AgentShape /\ FilesShape /\ CopiesShape /\ PipesShape /\ CallsShape /\ BoundsShape

\* What is on its way to the agent and back: what the call may ask, and the news of a call
\* before its answer.
RequestsFit == \A i \in DOMAIN req : req[i].ask \in AsksOf(call[req[i].by].op)
AnswersFit ==
  \A i \in DOMAIN tx : tx[i].kind = "answer" => tx[i].ask \in AsksOf(call[tx[i].by].op) \cap Waiting
NewsFit ==
  \A i \in DOMAIN tx : tx[i].kind = "news" /\ tx[i].by # Host =>
    /\ call[tx[i].by].op = "mode" /\ tx[i].new.mode = call[tx[i].by].mode
    /\ \E j \in DOMAIN tx : j > i /\ tx[j].kind = "answer" /\ tx[j].by = tx[i].by /\ tx[j].ok

\* What a call or the reader is to broadcast.
NotesFit ==
  /\ \A c \in Calls : note[c] # Nothing => pc[c] \in {"tell", "tell option"}
  /\ \A c \in Calls, f \in Fields : note[c][f] # None => f \in Touches(c)
  /\ note[Reader].model = None <=> note[Reader].effort = None

\* A toggle is asked for once; for the rest, who asked waits for the one answer there will
\* be, or gave up.
ToggledOnce ==
  \A i, j \in DOMAIN req :
    req[i].by = req[j].by /\ req[i].ask = "toggle" /\ req[j].ask = "toggle" => i = j
Asking(i, c)    == req[i].by = c /\ req[i].ask \in Waiting
Answering(i, c) == tx[i].kind = "answer" /\ tx[i].by = c
GivenUp(c) == Touches(c) \subseteq excused
Waits(c) ==
  /\ \A i \in DOMAIN req : Asking(i, c) => pc[c] = req[i].ask
  /\ \A i \in DOMAIN tx : Answering(i, c) => pc[c] = tx[i].ask
  /\ \A i, j \in DOMAIN req : Asking(i, c) /\ Asking(j, c) => i = j
  /\ \A i, j \in DOMAIN tx : Answering(i, c) /\ Answering(j, c) => i = j
  /\ \A i \in DOMAIN req, j \in DOMAIN tx : ~(Asking(i, c) /\ Answering(j, c))
Waited == \A c \in Calls : GivenUp(c) \/ Waits(c)

(***************************************************************************)
(* Settings: a clean success.                                              *)
(***************************************************************************)
\* What the agent adopts of a call when it does what the call asks.
PartsOf(w, ask) ==
  CASE ask = "option" -> {"model"}
    [] ask = "effort" -> {"effort"}
    [] ask = "old"    -> IF w.effort = None THEN {"model"} ELSE {"model", "effort"}
    [] OTHER          -> {}

AdoptedInv ==
  /\ \A i \in DOMAIN tx : tx[i].kind = "answer" /\ tx[i].ok => PartsOf(call[tx[i].by], tx[i].ask) \subseteq adopted[tx[i].by]
  /\ \A c \in Calls :
       /\ pc[c] \in {"took option", "tell option"} => "model" \in adopted[c]
       /\ pc[c] = "took effort" => "effort" \in adopted[c]
       /\ pc[c] \in {"effort", "took effort"} /\ call[c].op = "model" => "model" \in adopted[c]
       /\ pc[c] = "took old" => PartsOf(call[c], "old") \subseteq adopted[c]
       /\ pc[c] \in {"tell", "ok"} /\ call[c].op \in {"model", "effort"} =>
            {f \in {"model", "effort"} : call[c][f] # None} \subseteq adopted[c]

(***************************************************************************)
(* Settings: the catalog.                                                  *)
(***************************************************************************)
Reloading == \E i \in DOMAIN req : req[i].ask = "reload"
CatalogInv ==
  /\ Reloading \/ cat.models = Catalog(cfg, promoted).models
  /\ \/ Reloading \/ cat.current = Catalog(cfg, promoted).current
     \/ \E c \in Calls : call[c].op = "default" /\ pc[c] \in Switching \cup {"file", "save"}

(***************************************************************************)
(* Settings: one change at a time, or excused.                             *)
(***************************************************************************)
Busy == {"took mode", "took option", "took effort", "took old", "write", "flip", "tell", "tell option"}
Deep(c) == pc[c] \in Busy \/ \E i \in DOMAIN req : req[i].by = c /\ req[i].ask \in {"toggle", "perm"}
Accepted(i, c) == tx[i].kind = "answer" /\ tx[i].by = c /\ tx[i].ok /\ tx[i].ask # "reload"
Pending(c) == Deep(c) \/ \E i \in DOMAIN tx : Accepted(i, c)
ByHost(i, g) == tx[i].by = Host /\ (tx[i].new[g] # None \/ (tx[i].kind = "catalog" /\ g = "model"))

Exclusive(g) ==
  /\ \A c, d \in Calls : g \in Touches(c) /\ g \in Touches(d) /\ Pending(c) /\ Pending(d) => c = d
  /\ \A c \in Calls, i \in DOMAIN tx : g \in Touches(c) /\ Pending(c) => ~ByHost(i, g)
  /\ \A c \in Calls : g \in Touches(c) /\ Deep(c) => note[Reader][g] = None
  /\ \A i, j \in DOMAIN tx : ByHost(i, g) /\ ByHost(j, g) => i = j
  /\ \A i \in DOMAIN tx : ByHost(i, g) => note[Reader][g] = None
ExclusiveInv == \A g \in {"mode", "model", "perm"} : g \notin excused => Exclusive(g)

(***************************************************************************)
(* Settings: the copies.                                                   *)
(***************************************************************************)
Group(f) == IF f = "effort" THEN "model" ELSE f
Free(f) == f \notin excused /\ Group(f) \notin excused /\ (f = "perm" \/ Loaded)

\* Something of a setting has yet to be broadcast.
Unsaid(f) ==
  \/ \E x \in Calls \cup {Reader} : note[x][f] # None
  \/ f = "perm" /\ \E c \in Calls : pc[c] = "write"

ToldInv ==
  \A f \in Fields : Free(f) =>
    /\ \A x \in Calls \cup {Reader} : note[x][f] \in {None, Snapshot[f]}
    /\ told[f] = Snapshot[f] \/ Unsaid(f) \/ (f = "perm" /\ "perm told" \in excused)
NewsInv ==
  \A f \in Fields : Free(f) => \A i \in DOMAIN tx : tx[i].new[f] \in {None, ag[f]}

Flip(m) == IF m = "plan" THEN "default" ELSE "plan"
Toggling(c) == \E i \in DOMAIN req : req[i].by = c /\ req[i].ask = "toggle"
Half(c) == call[c].op = "toggle" /\ (Toggling(c) <=> pc[c] # "flip")
ModeInv ==
  Free("mode") =>
    /\ \A c \in Calls : call[c].op = "mode" /\ Pending(c) => call[c].mode = ag.mode
    /\ \/ row.mode = ag.mode
       \/ \E i \in DOMAIN tx : tx[i].new.mode # None
       \/ \E c \in Calls : Half(c)
    /\ \A c \in Calls : Half(c) => row.mode = Flip(ag.mode)

CatalogAhead == \E i \in DOMAIN tx : tx[i].kind = "catalog"
TookModel(c) ==
  \/ pc[c] \in {"took option", "took old"}
  \/ \E i \in DOMAIN tx : Accepted(i, c) /\ tx[i].ask \in {"option", "old"}
ModelInv ==
  Free("model") =>
    /\ \A i \in DOMAIN tx : tx[i].kind = "catalog" => WithCatalog(row, tx[i].k).model = ag.model
    /\ \A c \in Calls : TookModel(c) => call[c].model = ag.model
    /\ \/ row.model = ag.model \/ CatalogAhead
       \/ \E i \in DOMAIN tx : tx[i].new.model # None
       \/ \E c \in Calls : TookModel(c)

TookEffort(c) ==
  \/ pc[c] = "took effort"
  \/ pc[c] = "took old" /\ call[c].effort # None
  \/ \E i \in DOMAIN tx : Accepted(i, c) /\ (tx[i].ask = "effort" \/ (tx[i].ask = "old" /\ call[c].effort # None))
EffortInv ==
  Free("effort") =>
    /\ \A i \in DOMAIN tx : tx[i].kind = "catalog" => WithCatalog(row, tx[i].k).effort \in {ag.effort, Unset}
    /\ \A c \in Calls : TookEffort(c) => call[c].effort = ag.effort
    /\ \/ row.effort \in {ag.effort, Unset} \/ CatalogAhead
       \/ \E i \in DOMAIN tx : tx[i].new.effort # None
       \/ \E c \in Calls : TookEffort(c)

PermInv ==
  Free("perm") =>
    /\ \A c \in Calls : call[c].op = "perm" /\ Pending(c) => call[c].perm = permMode
    /\ \/ permMode = ag.perm
       \/ \E i \in DOMAIN tx : tx[i].new.perm # None
       \/ \E c \in Calls : pc[c] = "write"
       \/ \E i \in DOMAIN req : req[i].ask = "perm"

HelloInv ==
  \A c \in Calls, f \in Fields : pc[c] \in {"hello", "on"} =>
    \/ seen[c][f] = told[f] \/ f \in missed \/ ~Free(f) \/ Unsaid(f)
    \/ f = "perm" /\ "perm told" \in excused

SettingsInv ==
  /\ SettingsShape /\ RequestsFit /\ AnswersFit /\ NewsFit /\ NotesFit /\ ToggledOnce /\ Waited
  /\ AdoptedInv /\ CatalogInv /\ ExclusiveInv /\ ToldInv /\ NewsInv /\ ModeInv /\ ModelInv /\ EffortInv /\ PermInv
  /\ HelloInv

(***************************************************************************)
(* Settings: records, sequences and what the operators return.             *)
(***************************************************************************)
LEMMA NoValue ==
  /\ None \notin Modes \cup Perms \cup Models \cup Efforts /\ Unset \notin Models \cup Efforts /\ Unset # None
  /\ Host \notin Calls /\ Reader \notin Calls
  BY SettingsAssumption DEF None, Unset, Modes, Perms, Host, Reader

LEMMA NothingSaid == Nothing \in Changes /\ \A f \in Fields : Nothing[f] = None
  BY DEF Nothing, Changes, Fields

LEMMA ChangeFields ==
  ASSUME NEW n \in Changes
  PROVE  /\ n.mode = n["mode"] /\ n.model = n["model"] /\ n.effort = n["effort"] /\ n.perm = n["perm"]
         /\ n = Nothing <=> \A f \in Fields : n[f] = None
         /\ n = Nothing <=> n.mode = None /\ n.model = None /\ n.effort = None /\ n.perm = None
  <1>1. n = Nothing <=> \A f \in Fields : n[f] = None
    BY DEF Nothing, Changes, Fields
  <1> QED
    BY <1>1 DEF Nothing, Changes, Fields

LEMMA TailFacts ==
  ASSUME NEW s, Len(s) \in Nat, DOMAIN s = 1..Len(s), s # <<>>, NEW t, t = Tail(s)
  PROVE  /\ Len(t) \in Nat /\ DOMAIN t = 1..Len(t) /\ Len(s) = Len(t) + 1
         /\ 1 \in DOMAIN s /\ Head(s) = s[1]
         /\ \A i \in DOMAIN t : i + 1 \in DOMAIN s /\ t[i] = s[i + 1]
         /\ \A i \in DOMAIN s : i # 1 => i - 1 \in DOMAIN t /\ t[i - 1] = s[i]
  OBVIOUS

\* What is put behind a sequence.
LEMMA AppendFacts ==
  ASSUME NEW s, Len(s) \in Nat, DOMAIN s = 1..Len(s), NEW e, NEW t, t = Append(s, e)
  PROVE  /\ Len(t) = Len(s) + 1 /\ DOMAIN t = 1..Len(t)
         /\ \A i \in DOMAIN s : i \in DOMAIN t /\ t[i] = s[i]
         /\ Len(t) \in DOMAIN t /\ t[Len(t)] = e
         /\ \A i \in DOMAIN t : i \in DOMAIN s \/ i = Len(t)
  OBVIOUS

LEMMA BehindFacts ==
  ASSUME NEW s, Len(s) \in Nat, DOMAIN s = 1..Len(s), NEW u, Len(u) \in Nat, DOMAIN u = 1..Len(u),
         NEW t, t = s \o u
  PROVE  /\ Len(t) = Len(s) + Len(u) /\ DOMAIN t = 1..Len(t)
         /\ \A i \in DOMAIN s : i \in DOMAIN t /\ t[i] = s[i]
         /\ \A i \in DOMAIN u : Len(s) + i \in DOMAIN t /\ t[Len(s) + i] = u[i]
         /\ \A i \in DOMAIN t : i \in DOMAIN s \/ (i > Len(s) /\ i - Len(s) \in DOMAIN u /\ t[i] = u[i - Len(s)])
  OBVIOUS

LEMMA MergeFacts ==
  ASSUME NEW r, NEW p, DOMAIN r \subseteq Fields
  PROVE  /\ DOMAIN Merge(r, p) = DOMAIN r
         /\ \A f \in DOMAIN r : Merge(r, p)[f] = IF p[f] = None THEN r[f] ELSE p[f]
  BY DEF Merge

LEMMA MergedRow ==
  ASSUME NEW r \in Rows, NEW p \in Changes
  PROVE  /\ Merge(r, p) \in Rows
         /\ \A f \in {"mode", "model", "effort"} : Merge(r, p)[f] = IF p[f] = None THEN r[f] ELSE p[f]
  BY DEF Merge, Rows, Changes

LEMMA MergedScreen ==
  ASSUME NEW r \in Screens, NEW p \in Changes
  PROVE  /\ Merge(r, p) \in Screens
         /\ \A f \in Fields : Merge(r, p)[f] = IF p[f] = None THEN r[f] ELSE p[f]
  BY DEF Merge, Screens, Changes, Fields

LEMMA MergedSeen ==
  ASSUME NEW r \in Changes, NEW p \in Changes
  PROVE  /\ Merge(r, p) \in Changes
         /\ \A f \in Fields : Merge(r, p)[f] = IF p[f] = None THEN r[f] ELSE p[f]
  BY DEF Merge, Changes, Fields

LEMMA WishFields ==
  ASSUME NEW w \in Wishes
  PROVE  /\ w # Wish
         /\ w.op \in {"mode", "toggle", "hello", "perm", "effort", "model", "default",
                      "upsert", "delete", "disable", "enable"}
         /\ w.mode \in Modes \cup {None} /\ w.perm \in Perms \cup {None}
         /\ w.model \in Models \cup {None} /\ w.effort \in Efforts \cup {None}
         /\ w.op = "mode" => w.mode \in Modes /\ w.model = None /\ w.effort = None
         /\ w.op = "perm" => w.perm \in Perms
         /\ w.op = "effort" => w.effort \in Efforts /\ w.model = None
         /\ w.op \in {"model", "default"} => w.model \in Models
         /\ w.op \in {"upsert", "delete", "disable", "enable"} => w.model \in Models \ Builtin
  <1> DEFINE Facts ==
        /\ w # Wish
        /\ w.op \in {"mode", "toggle", "hello", "perm", "effort", "model", "default",
                     "upsert", "delete", "disable", "enable"}
        /\ w.mode \in Modes \cup {None} /\ w.perm \in Perms \cup {None}
        /\ w.model \in Models \cup {None} /\ w.effort \in Efforts \cup {None}
        /\ w.op = "mode" => w.mode \in Modes /\ w.model = None /\ w.effort = None
        /\ w.op = "perm" => w.perm \in Perms
        /\ w.op = "effort" => w.effort \in Efforts /\ w.model = None
        /\ w.op \in {"model", "default"} => w.model \in Models
        /\ w.op \in {"upsert", "delete", "disable", "enable"} => w.model \in Models \ Builtin
  <1>1. ASSUME NEW m \in Modes, w = SetTo("mode", m) PROVE Facts
    BY <1>1 DEF Wish, None, SetTo
  <1>2. ASSUME NEW p \in Perms, w = SetTo("perm", p) PROVE Facts
    BY <1>2 DEF Wish, None, SetTo
  <1>3. ASSUME NEW o \in {"toggle", "hello"}, w = AskFor(o, None, None) PROVE Facts
    BY <1>3 DEF Wish, None, AskFor
  <1>4. ASSUME NEW e \in Efforts, w = SetTo("effort", e) PROVE Facts
    BY <1>4 DEF Wish, None, SetTo
  <1>5. ASSUME NEW o \in {"model", "default"}, NEW m \in Models, NEW e \in Efforts \cup {None}, w = AskFor(o, m, e)
        PROVE  Facts
    BY <1>5 DEF Wish, None, AskFor
  <1>6. ASSUME NEW o \in {"upsert", "delete", "disable", "enable"}, NEW m \in Models \ Builtin, w = AskFor(o, m, None)
        PROVE  Facts
    BY <1>6 DEF Wish, None, AskFor
  <1> HIDE DEF Facts
  <1>7. Facts
    BY <1>1, <1>2, <1>3, <1>4, <1>5, <1>6 DEF Wishes
  <1> QED
    BY <1>7 DEF Facts

LEMMA NoWish == Wish.op = None /\ Wish.mode = None /\ Wish.perm = None /\ Wish.model = None /\ Wish.effort = None
  BY DEF Wish

LEMMA FirstFacts == First \in Builtin /\ First \in Models
  BY SettingsAssumption DEF First

LEMMA DefaultFacts == ASSUME NEW m \in Models PROVE DefaultEffort(m) \in Offers[m] /\ Offers[m] \subseteq Efforts
  BY SettingsAssumption DEF DefaultEffort, Efforts

LEMMA CatalogFacts ==
  ASSUME NEW f \in Files, NEW p \in BOOLEAN
  PROVE  Catalog(f, p) \in Catalogs
  <1>1. First \in (Builtin \cup f.custom) \ f.disabled
    BY FirstFacts DEF Files
  <1>2. (Builtin \cup f.custom) \ f.disabled \subseteq Models
    BY SettingsAssumption DEF Files
  <1> QED
    BY <1>1, <1>2 DEF Catalog, Catalogs

LEMMA ModelsOnly ==
  ASSUME NEW f, NEW p, NEW q
  PROVE  Catalog(f, p).models = Catalog(f, q).models
  BY DEF Catalog

LEMMA RequestOf ==
  /\ \A c \in Calls, p \in Asked : Request(c, p) \in Requests
  /\ \A c \in Calls, p \in Waiting : Request(c, p) \in Requests
  /\ \A r \in Requests : r.by \in Calls /\ r.ask \in Asked
  /\ \A c, p : Request(c, p).by = c /\ Request(c, p).ask = p
  BY DEF Requests, Asked, Waiting, Request

LEMMA ShapeIsType == SettingsShape => SettingsTypeOK
  <1> SUFFICES ASSUME SettingsShape PROVE SettingsTypeOK
    OBVIOUS
  <1>1. ag \in [mode : Modes, model : cat.models, effort : Offers[ag.model], perm : Perms]
    BY DEF SettingsShape, AgentShape, Sessions
  <1>2. cat.models \subseteq Models /\ cat.current \in cat.models /\ modern \in BOOLEAN
    BY DEF SettingsShape, AgentShape, Catalogs
  <1>3. /\ row \in [mode : Modes, model : Models, effort : Efforts \cup {Unset}] \cup {NoRow}
        /\ permMode \in Perms /\ missed \subseteq Fields
        /\ told.mode \in Modes /\ told.model \in Models /\ told.effort \in Efforts \cup {Unset}
    BY DEF SettingsShape, CopiesShape, Rows, Screens
  <1>4. ASSUME NEW c \in Calls PROVE pc[c] # "idle" <=> call[c] # Wish
    <2>1. pc[c] \in PlacesOf(call[c].op) /\ call[c] \in Wishes \cup {Wish}
      BY DEF SettingsShape, CallsShape
    <2>2. CASE call[c] = Wish
      BY <2>1, <2>2, NoWish DEF PlacesOf, None
    <2>3. CASE call[c] \in Wishes
      BY <2>1, <2>3, WishFields DEF PlacesOf, Switching, None
    <2> QED
      BY <2>1, <2>2, <2>3
  <1>5. cfg.default \in Models \cup {None} /\ cfg.custom \subseteq Models \ Builtin
    BY DEF SettingsShape, FilesShape, Files
  <1>6. \A c \in Calls : seen[c] # Nothing => call[c].op = "hello"
    BY DEF SettingsShape, CopiesShape
  <1> QED
    BY <1>1, <1>2, <1>3, <1>4, <1>5, <1>6 DEF SettingsTypeOK, SettingsShape, CallsShape, BoundsShape, Warnable

LEMMA SettingsInitInv == Init => SettingsInv
  <1> SUFFICES ASSUME Init PROVE SettingsInv
    OBVIOUS
  <1>1. cfg \in Files /\ cat \in Catalogs /\ cat = Catalog(cfg, promoted) /\ cfg.disabled = {} /\ promoted \in BOOLEAN
    BY CatalogFacts DEF Init, Files, None
  <1>2. First \in cat.models
    BY <1>1, FirstFacts DEF Catalog
  <1>3. AgentShape
    BY <1>1, <1>2, FirstFacts, DefaultFacts DEF AgentShape, Init, New, Sessions, Modes, Perms
  <1>4. CopiesShape
    BY <1>3, NothingSaid DEF CopiesShape, AgentShape, Init, Rows, Screens, Sessions, Perms
  <1>5. FilesShape /\ PipesShape /\ BoundsShape
    BY <1>1, SettingsAssumption DEF FilesShape, PipesShape, BoundsShape, Init
  <1>6. CallsShape
    BY NoWish DEF CallsShape, Init, Places, PlacesOf, None
  <1>7. RequestsFit /\ AnswersFit /\ NewsFit /\ ToggledOnce /\ Waited
    BY DEF Init, RequestsFit, AnswersFit, NewsFit, ToggledOnce, Waited, Waits, Asking, Answering
  <1>8. NotesFit
    BY NothingSaid, NoValue, ChangeFields DEF Init, NotesFit
  <1>9. AdoptedInv
    BY DEF Init, AdoptedInv
  <1>10. CatalogInv
    BY <1>1 DEF CatalogInv
  <1>11. \A c \in Calls : ~Pending(c) /\ ~Half(c) /\ ~TookModel(c) /\ ~TookEffort(c)
    BY NoWish DEF Init, Pending, Deep, Half, TookModel, TookEffort, Busy, None, Toggling
  <1>12. \A x \in Calls \cup {Reader}, f \in Fields : note[x][f] = None
    BY NothingSaid DEF Init
  <1>13. ExclusiveInv
    BY <1>11, <1>12 DEF ExclusiveInv, Exclusive, Init, Fields
  <1>14. \A f \in Fields : told[f] = Snapshot[f]
    BY DEF Init, Snapshot, Fields, New
  <1>15. ToldInv /\ NewsInv
    BY <1>12, <1>14 DEF Init, ToldInv, NewsInv
  <1>16. ModeInv /\ ModelInv /\ EffortInv /\ PermInv
    BY <1>11 DEF Init, ModeInv, ModelInv, EffortInv, PermInv, New
  <1>17. HelloInv
    BY DEF Init, HelloInv
  <1> QED
    BY <1>3, <1>4, <1>5, <1>6, <1>7, <1>8, <1>9, <1>10, <1>13, <1>15, <1>16, <1>17 DEF SettingsInv, SettingsShape

LEMMA OneMore == ASSUME NEW S, NEW s \in Seq(S), NEW e \in S PROVE Append(s, e) \in Seq(S)
  OBVIOUS

LEMMA TouchesFacts ==
  ASSUME NEW c
  PROVE  /\ Touches(c) \subseteq {"mode", "model", "effort", "perm", "perm told"}
         /\ call[c].op \in {"mode", "toggle"} => Touches(c) = {"mode"}
         /\ call[c].op = "perm" => Touches(c) = {"perm", "perm told"}
         /\ call[c].op \in {"model", "default", "effort"} => Touches(c) = {"model", "effort"}
         /\ call[c].op \notin {"mode", "toggle", "perm", "model", "default", "effort"} => Touches(c) = {}
         /\ "mode" \in Touches(c) <=> call[c].op \in {"mode", "toggle"}
         /\ "perm" \in Touches(c) <=> call[c].op = "perm"
         /\ "model" \in Touches(c) <=> call[c].op \in {"model", "default", "effort"}
         /\ "effort" \in Touches(c) <=> call[c].op \in {"model", "default", "effort"}
  <1>1. CASE call[c].op \in {"mode", "toggle"}
    BY <1>1 DEF Touches
  <1>2. CASE call[c].op = "perm"
    BY <1>2 DEF Touches
  <1>3. CASE call[c].op \in {"model", "default", "effort"}
    BY <1>3 DEF Touches
  <1>4. CASE call[c].op \notin {"mode", "toggle", "perm", "model", "default", "effort"}
    BY <1>4 DEF Touches
  <1> QED
    BY <1>1, <1>2, <1>3, <1>4

LEMMA MoveFacts ==
  ASSUME SettingsShape, moves < MaxMoves, moves' = moves + 1
  PROVE  moves' \in 0..MaxMoves
  <1>1. MaxMoves \in Nat
    BY SettingsAssumption
  <1>2. moves \in 0..MaxMoves
    BY DEF SettingsShape, BoundsShape
  <1> QED
    BY <1>1, <1>2

LEMMA SwitchedFacts ==
  ASSUME NEW a \in Sessions, NEW m \in Models
  PROVE  /\ Switched(a, m) \in Sessions /\ Switched(a, m).model = m /\ Switched(a, m).effort \in Offers[m]
         /\ Switched(a, m).mode = a.mode /\ Switched(a, m).perm = a.perm
         /\ Switched(a, m).effort = IF a.effort \in Offers[m] THEN a.effort ELSE DefaultEffort(m)
  <1>1. DefaultEffort(m) \in Offers[m] /\ DefaultEffort(m) \in Efforts
    BY DefaultFacts
  <1> QED
    BY <1>1 DEF Switched, Sessions

LEMMA RevalidatedFacts ==
  ASSUME NEW a \in Sessions, a.effort \in Offers[a.model], NEW k \in Catalogs
  PROVE  LET r == Revalidated(a, k)
             m == IF a.model \in k.models THEN a.model ELSE k.current
         IN /\ r \in Sessions /\ r.model = m /\ r.model \in k.models /\ r.effort \in Offers[r.model]
            /\ r.mode = a.mode /\ r.perm = a.perm
            /\ r.effort = IF a.effort \in Offers[m] THEN a.effort ELSE DefaultEffort(m)
  <1>1. k.current \in Models /\ k.current \in k.models
    BY DEF Catalogs
  <1>2. CASE a.model \in k.models
    BY <1>2 DEF Revalidated
  <1>3. CASE a.model \notin k.models
    BY <1>1, <1>3, SwitchedFacts DEF Revalidated
  <1> QED
    BY <1>2, <1>3

LEMMA EmptyFacts == /\ DOMAIN <<>> = {} /\ Len(<<>>) = 0 /\ DOMAIN <<>> = 1..Len(<<>>)
                    /\ \A S : <<>> \in Seq(S)
  <1>1. Len(<<>>) = 0
    OBVIOUS
  <1>2. DOMAIN <<>> = 1..0
    OBVIOUS
  <1>3. 1..0 = {}
    OBVIOUS
  <1>4. \A S : <<>> \in Seq(S)
    OBVIOUS
  <1> QED
    BY <1>1, <1>2, <1>3, <1>4

(***************************************************************************)
(* Settings: steps that only move a call on.                               *)
(***************************************************************************)
LEMMA SeqFacts == ASSUME NEW S, NEW s \in Seq(S) PROVE Len(s) \in Nat /\ DOMAIN s = 1..Len(s)
  OBVIOUS

LEMMA AskedOne ==
  ASSUME NEW c \in Calls, NEW p \in Asked, req \in Seq(Requests), req' = Append(req, Request(c, p))
  PROVE  /\ req' \in Seq(Requests)
         /\ \A i \in DOMAIN req : i \in DOMAIN req' /\ req'[i] = req[i]
         /\ \A i \in DOMAIN req' : i \in DOMAIN req \/ (i = Len(req) + 1 /\ req'[i].by = c /\ req'[i].ask = p)
         /\ Len(req) + 1 \in DOMAIN req' /\ req'[Len(req) + 1].by = c /\ req'[Len(req) + 1].ask = p
  <1>1. Len(req) \in Nat /\ DOMAIN req = 1..Len(req)
    BY SeqFacts
  <1>2. Request(c, p) \in Requests /\ Request(c, p).by = c /\ Request(c, p).ask = p
    BY RequestOf
  <1>3. req' \in Seq(Requests)
    BY <1>2, OneMore
  <1> QED
    BY <1>1, <1>2, <1>3, AppendFacts

LEMMA AskedMore ==
  ASSUME NEW c, NEW p, req \in Seq(Requests),
         req' = IF p \in Waiting THEN Append(req, Request(c, p)) ELSE req
  PROVE  /\ \A i \in DOMAIN req : i \in DOMAIN req' /\ req'[i] = req[i]
         /\ \A i \in DOMAIN req' :
              i \in DOMAIN req \/ (i = Len(req) + 1 /\ p \in Waiting /\ req'[i].by = c /\ req'[i].ask = p)
         /\ Len(req) + 1 \notin DOMAIN req
  <1>0. Len(req) \in Nat /\ DOMAIN req = 1..Len(req)
    OBVIOUS
  <1>1. CASE p \in Waiting
    <2>1. req' = Append(req, Request(c, p))
      BY <1>1
    <2>2. /\ Len(req') = Len(req) + 1 /\ DOMAIN req' = 1..Len(req')
          /\ \A i \in DOMAIN req : i \in DOMAIN req' /\ req'[i] = req[i]
          /\ Len(req') \in DOMAIN req' /\ req'[Len(req')] = Request(c, p)
          /\ \A i \in DOMAIN req' : i \in DOMAIN req \/ i = Len(req')
      BY <1>0, <2>1, AppendFacts
    <2> QED
      BY <1>0, <1>1, <2>2, RequestOf
  <1>2. CASE p \notin Waiting
    <2>1. req' = req
      BY <1>2
    <2>2. Len(req) + 1 \notin DOMAIN req
      BY <1>0
    <2> QED
      BY <1>2, <2>1, <2>2
  <1> QED
    BY <1>1, <1>2

LEMMA StillToggledOnce ==
  ASSUME ToggledOnce, \A i \in DOMAIN req' : req'[i].ask = "toggle" => i \in DOMAIN req /\ req'[i] = req[i]
  PROVE  ToggledOnce'
  BY DEF ToggledOnce

LEMMA StillExclusive ==
  ASSUME NEW g, Exclusive(g), DOMAIN tx' = DOMAIN tx,
         \A c \in Calls : Touches(c)' = Touches(c) /\ (Deep(c)' => Deep(c)) /\ (Pending(c)' => Pending(c)),
         \A i \in DOMAIN tx : ByHost(i, g)' => ByHost(i, g),
         note[Reader][g] = None => note'[Reader][g] = None
  PROVE  Exclusive(g)'
  <1>1. \A c, d \in Calls : (g \in Touches(c) /\ g \in Touches(d) /\ Pending(c) /\ Pending(d) => c = d)'
    BY DEF Exclusive
  <1>2. \A c \in Calls, i \in DOMAIN tx : (g \in Touches(c) /\ Pending(c) => ~ByHost(i, g))'
    BY DEF Exclusive
  <1>3. \A c \in Calls : (g \in Touches(c) /\ Deep(c) => note[Reader][g] = None)'
    BY DEF Exclusive
  <1>4. \A i, j \in DOMAIN tx : (ByHost(i, g) /\ ByHost(j, g) => i = j)'
    BY DEF Exclusive
  <1>5. \A i \in DOMAIN tx : (ByHost(i, g) => note[Reader][g] = None)'
    BY DEF Exclusive
  <1> QED
    BY <1>1, <1>2, <1>3, <1>4, <1>5 DEF Exclusive

LEMMA CallMovesOn ==
  ASSUME SettingsInv, NEW c \in Calls, NEW p,
         pc[c] \notin {"idle", "took mode", "took option", "took effort", "took old", "write", "flip"}, p \notin Busy \cup {"idle", "hello"},
         pc' = [pc EXCEPT ![c] = p],
         p \in Waiting => p \in AsksOf(call[c].op),
         req' = IF p \in Waiting THEN Append(req, Request(c, p)) ELSE req,
         excused \subseteq excused', pc[c] \in Waiting => Touches(c) \subseteq excused',
         note'[Reader] \in {Nothing, note[Reader]},
         UNCHANGED <<ag, tx, row, permMode, call>>
  PROVE  /\ RequestsFit' /\ AnswersFit' /\ NewsFit' /\ ToggledOnce' /\ Waited'
         /\ ExclusiveInv' /\ NewsInv' /\ ModeInv' /\ ModelInv' /\ EffortInv' /\ PermInv'
  <1>a. req \in Seq(Requests)
    BY DEF SettingsInv, SettingsShape, PipesShape
  <1>b. /\ \A i \in DOMAIN req : i \in DOMAIN req' /\ req'[i] = req[i]
        /\ \A i \in DOMAIN req' :
             i \in DOMAIN req \/ (i = Len(req) + 1 /\ p \in Waiting /\ req'[i].by = c /\ req'[i].ask = p)
        /\ Len(req) + 1 \notin DOMAIN req
    BY <1>a, AskedMore
  <1> DEFINE n == Len(req) + 1
  <1>2. /\ \A i \in DOMAIN req : i \in DOMAIN req' /\ req'[i] = req[i]
        /\ \A i \in DOMAIN req' : i \in DOMAIN req \/ (i = n /\ p \in Waiting /\ req'[i].by = c /\ req'[i].ask = p)
        /\ n \notin DOMAIN req
    BY <1>b
  <1>0. /\ pc \in [Calls -> Places] /\ req \in Seq(Requests) /\ CallsShape /\ PipesShape
    BY DEF SettingsInv, SettingsShape, CallsShape, PipesShape
  <1>1. \A d \in Calls : pc'[d] = IF d = c THEN p ELSE pc[d]
    BY <1>0
  <1>3. \A d \in Calls : Touches(d)' = Touches(d)
    BY DEF Touches
  <1>4. \A d \in Calls : GivenUp(d) => GivenUp(d)'
    BY <1>3 DEF GivenUp
  <1>5. pc[c] \in Waiting => GivenUp(c)'
    BY <1>3 DEF GivenUp
  <1> HIDE DEF n
  <1>8. RequestsFit'
    BY <1>2 DEF SettingsInv, RequestsFit
  <1>9. AnswersFit' /\ NewsFit'
    BY DEF SettingsInv, AnswersFit, NewsFit
  <1>11. ToggledOnce'
    <2>1. \A i \in DOMAIN req' : req'[i].ask = "toggle" => i \in DOMAIN req /\ req'[i] = req[i]
      BY <1>2 DEF Waiting
    <2> QED
      BY <2>1, StillToggledOnce DEF SettingsInv
  <1>12. Waited'
    <2> SUFFICES ASSUME NEW d \in Calls, ~GivenUp(d)' PROVE Waits(d)'
      BY DEF Waited
    <2>1. Waits(d) /\ (d = c => pc[c] \notin Waiting)
      BY <1>4, <1>5 DEF SettingsInv, Waited
    <2>2. \A i \in DOMAIN tx : tx[i].kind = "answer" => tx[i].ask \in Waiting
      BY DEF SettingsInv, AnswersFit
    <2>3. d = c => (\A i \in DOMAIN req : ~Asking(i, d)) /\ \A i \in DOMAIN tx : ~Answering(i, d)
      BY <2>1, <2>2 DEF Waits, Asking, Answering
    <2>4. \A i \in DOMAIN tx : Answering(i, d)' <=> Answering(i, d)
      BY DEF Answering
    <2>5. /\ \A i \in DOMAIN req : Asking(i, d)' <=> Asking(i, d)
          /\ \A i \in DOMAIN req' \ DOMAIN req : Asking(i, d)' => d = c /\ i = n /\ req'[i].ask = p
      BY <1>2 DEF Asking
    <2>6. ASSUME NEW i \in DOMAIN req', Asking(i, d)' PROVE (i \in DOMAIN req /\ Asking(i, d)) \/ (i = n /\ d = c /\ req'[i].ask = p)
      BY <2>5, <2>6
    <2>7. \A i \in DOMAIN req' : Asking(i, d)' => pc'[d] = req'[i].ask
      BY ZenonT(40), <1>1, <1>2, <2>1, <2>3, <2>6 DEF Waits
    <2>8. \A i \in DOMAIN tx : Answering(i, d)' => pc'[d] = tx[i].ask
      BY <1>1, <2>1, <2>3, <2>4 DEF Waits
    <2>9. \A i, j \in DOMAIN req' : Asking(i, d)' /\ Asking(j, d)' => i = j
      BY <2>1, <2>3, <2>6 DEF Waits
    <2>10. \A i, j \in DOMAIN tx : Answering(i, d)' /\ Answering(j, d)' => i = j
      BY <2>1, <2>4 DEF Waits
    <2>11. \A i \in DOMAIN req', j \in DOMAIN tx : ~(Asking(i, d)' /\ Answering(j, d)')
      BY <2>1, <2>3, <2>4, <2>6 DEF Waits
    <2> QED
      BY <2>7, <2>8, <2>9, <2>10, <2>11 DEF Waits
  <1>14. \A d \in Calls : Toggling(d)' <=> Toggling(d)
    BY <1>2 DEF Toggling, Waiting
  <1>15. \A d \in Calls : Deep(d)' => Deep(d)
    BY ZenonT(40), <1>1, <1>2 DEF Deep, Waiting, Busy
  <1>16. \A d \in Calls, i \in DOMAIN tx : Accepted(i, d)' <=> Accepted(i, d)
    BY DEF Accepted
  <1>17. \A d \in Calls : Pending(d)' => Pending(d)
    BY <1>15, <1>16 DEF Pending
  <1>18. \A i \in DOMAIN tx, g \in Fields : ByHost(i, g)' <=> ByHost(i, g)
    BY DEF ByHost
  <1>19. ExclusiveInv'
    <2> SUFFICES ASSUME NEW g \in {"mode", "model", "perm"}, g \notin excused' PROVE Exclusive(g)'
      BY DEF ExclusiveInv
    <2>1. Exclusive(g) /\ g \in Fields
      BY DEF SettingsInv, ExclusiveInv, Fields
    <2>2. note[Reader][g] = None => note'[Reader][g] = None
      BY <2>1, NothingSaid
    <2> QED
      BY <1>3, <1>15, <1>17, <1>18, <2>1, <2>2, StillExclusive
  <1>20. \A f \in Fields : Free(f)' => Free(f)
    BY DEF Free, Loaded
  <1>21. NewsInv'
    BY <1>20 DEF SettingsInv, NewsInv
  <1>22. \A d \in Calls : Half(d)' <=> Half(d)
    BY <1>1, <1>14 DEF Half, Busy
  <1>23. ModeInv'
    BY <1>17, <1>20, <1>22 DEF SettingsInv, ModeInv, Fields
  <1>24. \A d \in Calls : (TookModel(d)' <=> TookModel(d)) /\ (TookEffort(d)' <=> TookEffort(d))
    BY <1>1, <1>16 DEF TookModel, TookEffort, Busy
  <1>25. ModelInv'
    BY <1>20, <1>24 DEF SettingsInv, ModelInv, Fields, CatalogAhead
  <1>26. EffortInv'
    BY <1>20, <1>24 DEF SettingsInv, EffortInv, Fields, CatalogAhead
  <1>27. PermInv'
    BY <1>1, <1>2, <1>17, <1>20 DEF SettingsInv, PermInv, Fields, Busy, Waiting
  <1> QED
    BY <1>8, <1>9, <1>11, <1>12, <1>19, <1>21, <1>23, <1>25, <1>26, <1>27

LEMMA CallMoves ==
  ASSUME SettingsInv, NEW c \in Calls, NEW p,
         pc[c] \notin Busy \cup {"idle"}, p \notin Busy \cup {"idle", "hello"}, p = "on" => pc[c] = "hello",
         pc' = [pc EXCEPT ![c] = p],
         p \in Waiting => p \in AsksOf(call[c].op),
         req' = IF p \in Waiting THEN Append(req, Request(c, p)) ELSE req,
         excused \subseteq excused', pc[c] \in Waiting => Touches(c) \subseteq excused',
         UNCHANGED <<ag, tx, row, permMode, note, told, seen, missed, call>>
  PROVE  /\ RequestsFit' /\ AnswersFit' /\ NewsFit' /\ NotesFit' /\ ToggledOnce' /\ Waited'
         /\ ExclusiveInv' /\ ToldInv' /\ NewsInv' /\ ModeInv' /\ ModelInv' /\ EffortInv' /\ PermInv' /\ HelloInv'
  <1>1. \A d \in Calls : pc'[d] = IF d = c THEN p ELSE pc[d]
    BY DEF SettingsInv, SettingsShape, CallsShape
  <1>2. \A d \in Calls : Touches(d)' = Touches(d)
    BY DEF Touches
  <1>3. NotesFit'
    BY <1>1, <1>2, NoValue DEF SettingsInv, NotesFit, Busy
  <1>4. \A f \in Fields : /\ Free(f)' => Free(f)
                          /\ Snapshot'[f] = Snapshot[f]
                          /\ Unsaid(f)' <=> Unsaid(f)
    BY <1>1 DEF Free, Loaded, Group, Snapshot, Unsaid, Busy
  <1>5. ToldInv'
    BY <1>4 DEF SettingsInv, ToldInv
  <1>6. HelloInv'
    <2>1. \A d \in Calls : pc'[d] \in {"hello", "on"} => pc[d] \in {"hello", "on"}
      BY <1>1
    <2> QED
      BY <2>1, <1>4 DEF SettingsInv, HelloInv
  <1>7. /\ pc[c] \notin {"idle", "took mode", "took option", "took effort", "took old", "write", "flip"}
        /\ UNCHANGED <<ag, tx, row, permMode, call>> /\ note'[Reader] \in {Nothing, note[Reader]}
    BY DEF Busy
  <1> QED
    BY <1>3, <1>5, <1>6, <1>7, CallMovesOn

\* A call only moves to the places of its kind.
LEMMA MovedOnShape ==
  ASSUME SettingsInv, NEW c \in Calls, NEW p \in PlacesOf(call[c].op), pc' = [pc EXCEPT ![c] = p],
         DOMAIN table' = Calls, p = "save" => table'[c] \in Files, \A d \in Calls \ {c} : table'[d] = table[d],
         req' = IF p \in Waiting THEN Append(req, Request(c, p)) ELSE req,
         cfg' \in Files, promoted' \in BOOLEAN, excused' \subseteq Fields \cup {"perm told"}, warned' \subseteq Warnable,
         moves' \in 0..MaxMoves,
         UNCHANGED <<ag, cat, modern, adopted, tx, call>>
  PROVE  AgentShape' /\ FilesShape' /\ PipesShape' /\ CallsShape' /\ BoundsShape'
  <1>1. pc \in [Calls -> Places] /\ req \in Seq(Requests) /\ SettingsShape
    BY DEF SettingsInv, SettingsShape, CallsShape, PipesShape
  <1>2. \A d \in Calls : pc'[d] = IF d = c THEN p ELSE pc[d]
    BY <1>1
  <1>3. p \in Places
    BY DEF PlacesOf, Places, Switching, Waiting, Decided
  <1>4. AgentShape' /\ BoundsShape'
    BY <1>1 DEF SettingsShape, AgentShape, BoundsShape
  <1>5. FilesShape'
    BY <1>1, <1>2 DEF SettingsShape, FilesShape
  <1>6. PipesShape'
    <2>1. p \in Waiting => Request(c, p) \in Requests
      BY RequestOf
    <2>2. req' \in Seq(Requests)
      <3>1. CASE p \in Waiting
        BY <1>1, <2>1, <3>1, OneMore
      <3>2. CASE p \notin Waiting
        BY <1>1, <3>2
      <3> QED
        BY <3>1, <3>2
    <2> QED
      BY <1>1, <2>2 DEF SettingsShape, PipesShape
  <1>7. CallsShape'
    BY <1>1, <1>2, <1>3 DEF SettingsShape, CallsShape, Warnable
  <1> QED
    BY <1>4, <1>5, <1>6, <1>7

LEMMA MovedShape ==
  ASSUME SettingsInv, NEW c \in Calls, NEW p \in PlacesOf(call[c].op), pc' = [pc EXCEPT ![c] = p],
         DOMAIN table' = Calls, p = "save" => table'[c] \in Files, \A d \in Calls \ {c} : table'[d] = table[d],
         req' = IF p \in Waiting THEN Append(req, Request(c, p)) ELSE req,
         cfg' \in Files, promoted' \in BOOLEAN, excused' \subseteq Fields \cup {"perm told"}, warned' \subseteq Warnable,
         moves' \in 0..MaxMoves,
         UNCHANGED <<ag, cat, modern, adopted, tx, row, permMode, note, told, seen, missed, call>>
  PROVE  SettingsShape'
  <1>1. CopiesShape'
    BY DEF SettingsInv, SettingsShape, CopiesShape
  <1>2. AgentShape' /\ FilesShape' /\ PipesShape' /\ CallsShape' /\ BoundsShape'
    BY MovedOnShape
  <1> QED
    BY <1>1, <1>2 DEF SettingsShape

LEMMA MovedAdopted ==
  ASSUME SettingsInv, NEW c \in Calls, NEW p, pc' = [pc EXCEPT ![c] = p],
         p \notin Busy \cup {"effort"}, p = "ok" => call[c].op \notin {"model", "effort"},
         UNCHANGED <<tx, call, adopted>>
  PROVE  AdoptedInv'
  <1>1. pc \in [Calls -> Places]
    BY DEF SettingsInv, SettingsShape, CallsShape
  <1>2. \A d \in Calls : pc'[d] = IF d = c THEN p ELSE pc[d]
    BY <1>1
  <1> QED
    BY <1>2 DEF SettingsInv, AdoptedInv, Busy

\* A call keeps what the catalog may lack, or has the catalog made anew.
LEMMA MovedCatalog ==
  ASSUME SettingsInv, NEW c \in Calls, NEW p, pc' = [pc EXCEPT ![c] = p],
         req' = IF p \in Waiting THEN Append(req, Request(c, p)) ELSE req,
         \/ p = "reload"
         \/ /\ cfg' = cfg /\ promoted' = promoted
            /\ call[c].op = "default" /\ pc[c] \in Switching \cup {"file", "save"} => p \in Switching \cup {"file", "save"}
         \/ call[c].op = "default" /\ p \in Switching \cup {"file", "save"} /\ cfg' = cfg,
         UNCHANGED <<cat, call>>
  PROVE  CatalogInv'
  <1>1. pc \in [Calls -> Places] /\ req \in Seq(Requests)
    BY DEF SettingsInv, SettingsShape, CallsShape, PipesShape
  <1>2. \A d \in Calls : pc'[d] = IF d = c THEN p ELSE pc[d]
    BY <1>1
  <1>3. Reloading => Reloading'
    BY <1>1 DEF Reloading
  <1>4. CASE p = "reload"
    <2>1. Len(req) + 1 \in DOMAIN req' /\ req'[Len(req) + 1].ask = "reload"
      <3>1. req' = Append(req, Request(c, "reload")) /\ Len(req) \in Nat /\ DOMAIN req = 1..Len(req)
        BY <1>1, <1>4 DEF Waiting
      <3> QED
        BY <3>1, AppendFacts, RequestOf
    <2> QED
      BY <2>1 DEF CatalogInv, Reloading
  <1>5. CASE /\ cfg' = cfg /\ promoted' = promoted
             /\ call[c].op = "default" /\ pc[c] \in Switching \cup {"file", "save"} => p \in Switching \cup {"file", "save"}
    BY <1>2, <1>3, <1>5 DEF SettingsInv, CatalogInv
  <1>6. CASE call[c].op = "default" /\ p \in Switching \cup {"file", "save"} /\ cfg' = cfg
    BY <1>2, <1>3, <1>6, ModelsOnly DEF SettingsInv, CatalogInv
  <1> QED
    BY <1>4, <1>5, <1>6

LEMMA DismissesInv == ASSUME SettingsInv, NEW c \in Calls, Dismisses(c) PROVE SettingsInv'
  <1>1. PICK p \in {"option", "file"} :
          /\ pc' = [pc EXCEPT ![c] = p]
          /\ req' = IF p \in Waiting THEN Append(req, Request(c, p)) ELSE req
    BY DEF Dismisses, Asks, Waiting
  <1>2. pc[c] = "dismiss" /\ cfg' = cfg /\ promoted' \in {promoted, FALSE} /\ table' = table
        /\ UNCHANGED <<external, tx, copies, call, warned, excused, moves>>
    BY DEF Dismisses
  <1>3. SettingsShape
    BY DEF SettingsInv
  <1>4. call[c].op = "default"
    <2>1. pc[c] \in PlacesOf(call[c].op) /\ call[c] \in Wishes \cup {Wish}
      BY <1>3 DEF SettingsShape, CallsShape
    <2> QED
      BY <2>1, <1>2, WishFields, NoWish DEF PlacesOf, Switching, None
  <1>5. p \in PlacesOf(call[c].op) /\ p \in AsksOf(call[c].op) \cup {"file"}
    BY <1>4 DEF PlacesOf, Switching, AsksOf, None
  <1>6. SettingsShape'
    BY <1>1, <1>2, <1>3, <1>5, MovedShape DEF SettingsShape, FilesShape, BoundsShape, CallsShape, external, copies, screens
  <1>7. AdoptedInv'
    BY <1>1, <1>2, <1>4, MovedAdopted DEF external, Busy
  <1>8. CatalogInv'
    BY <1>1, <1>2, <1>4, MovedCatalog DEF external, Switching
  <1> QED
    BY <1>1, <1>2, <1>5, <1>6, <1>7, <1>8, CallMoves DEF SettingsInv, external, copies, screens, Busy, Waiting

\* Which calls can be where.
LEMMA WhereFacts ==
  ASSUME SettingsInv, NEW c \in Calls
  PROVE  /\ pc[c] \in PlacesOf(call[c].op) /\ call[c] \in Wishes \cup {Wish}
         /\ pc[c] \in {"idle", "dismiss", "write", "flip", "file", "save", "hello", "on", "reload", "fall back",
                       "option", "old", "took option", "took old", "tell option", "mode", "took mode"} =>
              call[c].op \notin {"effort"}
         /\ pc[c] = "idle" <=> call[c].op = None
         /\ pc[c] \in {"dismiss"} => call[c].op = "default"
         /\ pc[c] \in {"mode", "took mode"} => call[c].op = "mode"
         /\ pc[c] \in {"option", "old", "took option", "took old", "tell option", "fall back"} =>
              call[c].op \in {"model", "default"}
         /\ pc[c] \in {"effort", "took effort"} => call[c].op \in {"model", "default", "effort"}
         /\ pc[c] \in {"file", "save", "reload"} =>
              call[c].op \in {"default", "upsert", "delete", "disable", "enable"}
         /\ pc[c] \in {"hello", "on"} <=> call[c].op = "hello"
         /\ pc[c] = "write" => call[c].op = "perm"
         /\ pc[c] = "flip" => call[c].op = "toggle"
         /\ pc[c] = "tell" => call[c].op \in {"mode", "toggle", "perm", "effort", "model", "default"}
  <1>1. pc[c] \in PlacesOf(call[c].op) /\ call[c] \in Wishes \cup {Wish}
    BY DEF SettingsInv, SettingsShape, CallsShape
  <1>2. call[c].op \in {None, "mode", "toggle", "hello", "perm", "effort", "model", "default",
                        "upsert", "delete", "disable", "enable"}
    BY <1>1, WishFields, NoWish
  <1> QED
    BY <1>1, <1>2 DEF PlacesOf, Switching, None

LEMMA FallsBackInv == ASSUME SettingsInv, NEW c \in Calls, FallsBack(c) PROVE SettingsInv'
  <1>1. /\ pc[c] = "fall back" /\ pc' = [pc EXCEPT ![c] = "old"]
        /\ req' = IF "old" \in Waiting THEN Append(req, Request(c, "old")) ELSE req
        /\ UNCHANGED <<external, tx, copies, call, warned, table, files, excused, moves>>
    BY DEF FallsBack, Asks, Waiting
  <1>2. SettingsShape
    BY DEF SettingsInv
  <1>3. "old" \in PlacesOf(call[c].op) /\ "old" \in AsksOf(call[c].op)
    BY <1>1, WhereFacts DEF PlacesOf, Switching, AsksOf, None
  <1>4. SettingsShape'
    BY <1>1, <1>2, <1>3, MovedShape
    DEF SettingsShape, FilesShape, BoundsShape, CallsShape, external, copies, screens, files
  <1>5. AdoptedInv'
    BY <1>1, MovedAdopted DEF external, Busy
  <1>6. CatalogInv'
    BY <1>1, MovedCatalog DEF external, files, Switching
  <1> QED
    BY <1>1, <1>3, <1>4, <1>5, <1>6, CallMoves DEF SettingsInv, external, copies, screens, Busy, Waiting

LEMMA SubscribesInv == ASSUME SettingsInv, NEW c \in Calls, Subscribes(c) PROVE SettingsInv'
  <1>1. /\ pc[c] = "hello" /\ pc' = [pc EXCEPT ![c] = "on"]
        /\ req' = IF "on" \in Waiting THEN Append(req, Request(c, "on")) ELSE req
        /\ UNCHANGED <<external, tx, copies, call, warned, table, files, excused, moves>>
    BY DEF Subscribes, Waiting, pipes
  <1>2. SettingsShape
    BY DEF SettingsInv
  <1>3. call[c].op = "hello" /\ "on" \in PlacesOf(call[c].op)
    BY <1>1, WhereFacts DEF PlacesOf, None
  <1>4. SettingsShape'
    BY <1>1, <1>2, <1>3, MovedShape
    DEF SettingsShape, FilesShape, BoundsShape, CallsShape, external, copies, screens, files
  <1>5. AdoptedInv'
    BY <1>1, MovedAdopted DEF external, Busy
  <1>6. CatalogInv'
    BY <1>1, <1>3, MovedCatalog DEF external, files
  <1> QED
    BY <1>1, <1>4, <1>5, <1>6, CallMoves DEF SettingsInv, external, copies, screens, Busy, Waiting

LEMMA ReadsConfigInv == ASSUME SettingsInv, NEW c \in Calls, ReadsConfig(c) PROVE SettingsInv'
  <1>1. /\ pc[c] = "file" /\ pc' = [pc EXCEPT ![c] = "save"]
        /\ req' = IF "save" \in Waiting THEN Append(req, Request(c, "save")) ELSE req
        /\ table' = [table EXCEPT ![c] = cfg]
        /\ UNCHANGED <<external, tx, copies, call, warned, files, excused, moves>>
    BY DEF ReadsConfig, Waiting, pipes
  <1>2. SettingsShape /\ DOMAIN table = Calls
    BY DEF SettingsInv, SettingsShape, FilesShape
  <1>3. "save" \in PlacesOf(call[c].op)
    BY <1>1, WhereFacts DEF PlacesOf, None
  <1>4. DOMAIN table' = Calls /\ table'[c] \in Files /\ \A d \in Calls \ {c} : table'[d] = table[d]
    BY <1>1, <1>2 DEF SettingsShape, FilesShape
  <1>5. SettingsShape'
    BY <1>1, <1>2, <1>3, <1>4, MovedShape
    DEF SettingsShape, FilesShape, BoundsShape, CallsShape, external, copies, screens, files
  <1>6. AdoptedInv'
    BY <1>1, MovedAdopted DEF external, Busy
  <1>7. CatalogInv'
    BY <1>1, MovedCatalog DEF external, files
  <1> QED
    BY <1>1, <1>5, <1>6, <1>7, CallMoves DEF SettingsInv, external, copies, screens, Busy, Waiting

LEMMA SavesConfigInv == ASSUME SettingsInv, NEW c \in Calls, SavesConfig(c) PROVE SettingsInv'
  <1>1. /\ pc[c] = "save" /\ pc' = [pc EXCEPT ![c] = "reload"]
        /\ req' = IF "reload" \in Waiting THEN Append(req, Request(c, "reload")) ELSE req
        /\ cfg' = Edited(table[c], call[c]) /\ table' = [table EXCEPT ![c] = Nothing]
        /\ UNCHANGED <<external, tx, copies, call, warned, promoted, excused, moves>>
    BY DEF SavesConfig, Asks, Waiting
  <1>2. SettingsShape /\ table[c] \in Files
    BY <1>1 DEF SettingsInv, SettingsShape, FilesShape
  <1>3. "reload" \in PlacesOf(call[c].op) /\ "reload" \in AsksOf(call[c].op)
    BY <1>1, WhereFacts DEF PlacesOf, AsksOf, None
  <1>4. DOMAIN table' = Calls /\ \A d \in Calls \ {c} : table'[d] = table[d]
    BY <1>1, <1>2 DEF SettingsShape, FilesShape
  <1>5. cfg' \in Files
    <2>1. call[c].model \in Models /\ (call[c].op # "default" => call[c].model \in Models \ Builtin)
      BY <1>1, WhereFacts, WishFields, NoWish, SettingsAssumption DEF None
    <2> DEFINE t == table[c] w == call[c]
    <2>2. t \in Files
      BY <1>2
    <2> HIDE DEF t, w
    <2>3. CASE w.op = "default"
      BY <1>1, <2>1, <2>2, <2>3 DEF Edited, Files, t, w
    <2>4. CASE w.op = "upsert"
      BY <1>1, <2>1, <2>2, <2>4 DEF Edited, Files, t, w
    <2>5. CASE w.op = "delete"
      BY <1>1, <2>1, <2>2, <2>5 DEF Edited, Files, t, w
    <2>6. CASE w.op \notin {"default", "upsert", "delete"}
      BY <1>1, <2>1, <2>2, <2>6 DEF Edited, Files, Filtered, t, w
    <2> QED
      BY <2>3, <2>4, <2>5, <2>6
  <1>6. SettingsShape'
    BY <1>1, <1>2, <1>3, <1>4, <1>5, MovedShape
    DEF SettingsShape, FilesShape, BoundsShape, CallsShape, external, copies, screens
  <1>7. AdoptedInv'
    BY <1>1, MovedAdopted DEF external, Busy
  <1>8. CatalogInv'
    BY <1>1, MovedCatalog DEF external
  <1> QED
    BY <1>1, <1>3, <1>6, <1>7, <1>8, CallMoves DEF SettingsInv, external, copies, screens, Busy, Waiting

LEMMA AfterErrorFacts ==
  ASSUME SettingsInv, NEW c \in Calls, pc[c] \in Waiting
  PROVE  /\ AfterError(c) \in PlacesOf(call[c].op) /\ AfterError(c) \in {"fall back", "file", "warning", "ok", "error"}
         /\ AfterError(c) = "ok" => call[c].op \notin {"model", "effort"}
         /\ call[c].op = "default" /\ pc[c] \in Switching => AfterError(c) \in Switching \cup {"file", "save"}
  <1>1. /\ pc[c] = "reload" => call[c].op \in {"default", "upsert", "delete", "disable", "enable"}
        /\ pc[c] = "effort" => call[c].op \in {"model", "default", "effort"}
        /\ pc[c] \in {"option", "old"} => call[c].op \in {"model", "default"}
        /\ pc[c] = "mode" => call[c].op = "mode"
    BY WhereFacts
  <1> QED
    BY <1>1 DEF AfterError, After, PlacesOf, Switching, None, Waiting

LEMMA GivesUpInv == ASSUME SettingsInv, NEW c \in Calls, GivesUp(c) PROVE SettingsInv'
  <1> DEFINE p == AfterError(c)
  <1>1. /\ pc[c] \in Waiting /\ moves < MaxMoves /\ moves' = moves + 1 /\ pc' = [pc EXCEPT ![c] = p]
        /\ warned' = warned \cup Warned(c) /\ excused' = excused \cup Touches(c)
        /\ UNCHANGED <<external, pipes, copies, call, table, files>>
    BY DEF GivesUp
  <1>2. SettingsShape
    BY DEF SettingsInv
  <1>3. /\ p \in PlacesOf(call[c].op) /\ p \in {"fall back", "file", "warning", "ok", "error"}
        /\ p = "ok" => call[c].op \notin {"model", "effort"}
        /\ call[c].op = "default" /\ pc[c] \in Switching => p \in Switching \cup {"file", "save"}
    BY <1>1, AfterErrorFacts
  <1> HIDE DEF p
  <1>4. p \notin Waiting /\ p \notin Busy /\ req' = IF p \in Waiting THEN Append(req, Request(c, p)) ELSE req
    BY <1>1, <1>3 DEF Waiting, Busy, pipes
  <1>5. warned' \subseteq Warnable /\ excused' \subseteq Fields \cup {"perm told"} /\ moves' \in 0..MaxMoves
    <2>1. warned' \subseteq Warnable
      BY <1>1, <1>2, WhereFacts DEF SettingsShape, CallsShape, Warned, Warnable
    <2>2. Touches(c) \subseteq Fields \cup {"perm told"}
      BY TouchesFacts DEF Fields
    <2>3. moves' \in 0..MaxMoves
      BY <1>1, <1>2, MoveFacts
    <2> QED
      BY <1>1, <1>2, <2>1, <2>2, <2>3 DEF SettingsShape, BoundsShape
  <1>6. SettingsShape'
    BY <1>1, <1>2, <1>3, <1>4, <1>5, MovedShape DEF SettingsShape, FilesShape, external, pipes, copies, screens, files
  <1>7. AdoptedInv'
    BY <1>1, <1>3, <1>4, MovedAdopted DEF external, pipes
  <1>8. CatalogInv'
    BY <1>1, <1>3, <1>4, MovedCatalog DEF external, files, Waiting
  <1> QED
    BY <1>1, <1>3, <1>4, <1>6, <1>7, <1>8, CallMoves DEF SettingsInv, external, pipes, copies, screens, Busy, Waiting

(***************************************************************************)
(* Settings: what is open is excused when something else changes.          *)
(***************************************************************************)
LEMMA OpenFacts ==
  ASSUME SettingsInv, NEW c \in Calls
  PROVE  /\ Pending(c) => Open(c)
         /\ \A i \in DOMAIN tx : Answering(i, c) => Open(c)
         /\ \A f \in Fields : note[c][f] # None => Open(c) /\ f \in Touches(c) /\ Group(f) \in Touches(c) /\ Pending(c)
         /\ TookModel(c) => Pending(c) /\ "model" \in Touches(c)
         /\ TookEffort(c) => Pending(c) /\ "model" \in Touches(c) /\ "effort" \in Touches(c)
         /\ Half(c) => Pending(c) /\ "mode" \in Touches(c)
         /\ pc[c] = "write" => Pending(c) /\ "perm" \in Touches(c)
         /\ \A i \in DOMAIN tx : tx[i].kind = "news" /\ tx[i].by = c => Open(c) /\ Pending(c) /\ "mode" \in Touches(c)
  <1>1. Pending(c) => Open(c)
    BY DEF Pending, Deep, Accepted, Open, Busy
  <1>2. \A i \in DOMAIN tx : Answering(i, c) => Open(c)
    BY DEF Answering, Open
  <1>3. ASSUME NEW f \in Fields, note[c][f] # None
        PROVE  Open(c) /\ f \in Touches(c) /\ Group(f) \in Touches(c) /\ Pending(c)
    <2>1. note[c] # Nothing
      BY <1>3, NothingSaid
    <2>2. pc[c] \in {"tell", "tell option"} /\ f \in Touches(c)
      BY <1>3, <2>1 DEF SettingsInv, NotesFit
    <2>3. Group(f) \in Touches(c)
      BY <2>2, TouchesFacts DEF Group
    <2> QED
      BY <1>1, <2>2, <2>3 DEF Pending, Deep, Busy
  <1>4. TookModel(c) => Pending(c) /\ "model" \in Touches(c)
    <2>1. pc[c] \in {"took option", "took old"} => Pending(c) /\ call[c].op \in {"model", "default"}
      BY WhereFacts DEF Pending, Deep, Busy
    <2>2. ASSUME NEW i \in DOMAIN tx, Accepted(i, c), tx[i].ask \in {"option", "old"}
          PROVE  Pending(c) /\ call[c].op \in {"model", "default"}
      <3>1. tx[i].ask \in AsksOf(call[c].op)
        BY <2>2 DEF SettingsInv, AnswersFit, Accepted
      <3> QED
        BY <2>2, <3>1 DEF Pending, AsksOf, None
    <2> QED
      BY <2>1, <2>2, TouchesFacts DEF TookModel
  <1>5. TookEffort(c) => Pending(c) /\ "model" \in Touches(c) /\ "effort" \in Touches(c)
    <2>1. pc[c] \in {"took effort", "took old"} => Pending(c) /\ call[c].op \in {"model", "default", "effort"}
      BY WhereFacts DEF Pending, Deep, Busy
    <2>2. ASSUME NEW i \in DOMAIN tx, Accepted(i, c), tx[i].ask \in {"effort", "old"}
          PROVE  Pending(c) /\ call[c].op \in {"model", "default", "effort"}
      <3>1. tx[i].ask \in AsksOf(call[c].op)
        BY <2>2 DEF SettingsInv, AnswersFit, Accepted
      <3> QED
        BY <2>2, <3>1 DEF Pending, AsksOf, None
    <2> QED
      BY <2>1, <2>2, TouchesFacts DEF TookEffort
  <1>6. Half(c) => Pending(c) /\ "mode" \in Touches(c)
    BY TouchesFacts DEF Half, Toggling, Pending, Deep, Busy
  <1>7. pc[c] = "write" => Pending(c) /\ "perm" \in Touches(c)
    BY WhereFacts, TouchesFacts DEF Pending, Deep, Busy
  <1>8. ASSUME NEW i \in DOMAIN tx, tx[i].kind = "news", tx[i].by = c
        PROVE  Open(c) /\ Pending(c) /\ "mode" \in Touches(c)
    <2>1. call[c].op = "mode"
      BY <1>8, NoValue DEF SettingsInv, NewsFit
    <2>2. PICK j \in DOMAIN tx : tx[j].kind = "answer" /\ tx[j].by = c /\ tx[j].ok
      BY <1>8, NoValue DEF SettingsInv, NewsFit
    <2>3. tx[j].ask \in AsksOf("mode")
      BY <2>1, <2>2 DEF SettingsInv, AnswersFit
    <2>4. Accepted(j, c)
      BY <2>2, <2>3 DEF Accepted, AsksOf
    <2> QED
      BY <2>1, <2>4, <1>1, TouchesFacts DEF Pending
  <1> QED
    BY <1>1, <1>2, <1>3, <1>4, <1>5, <1>6, <1>7, <1>8

LEMMA ShutFacts ==
  ASSUME SettingsInv, NEW X, X \subseteq Calls, NEW f \in Fields, f \notin OpenAmong(X), Group(f) \notin OpenAmong(X)
  PROVE  /\ note[Reader][f] = None
         /\ \A c \in X : note[c][f] = None
         /\ \A c \in X : Pending(c) => f \notin Touches(c) /\ Group(f) \notin Touches(c)
         /\ \A i \in DOMAIN tx : tx[i].new[f] # None => tx[i].by \in Calls \ X /\ f = "mode"
         /\ \A i \in DOMAIN tx : tx[i].kind = "catalog" => f \notin {"model", "effort"}
         /\ \A i \in DOMAIN tx : ~ByHost(i, f)
  <1>1. f \notin OpenByAgent /\ Group(f) \notin OpenByAgent
    BY DEF OpenAmong
  <1>2. \A c \in X : Open(c) => f \notin Touches(c) /\ Group(f) \notin Touches(c)
    BY DEF OpenAmong
  <1>3. note[Reader][f] = None
    BY <1>1 DEF OpenByAgent
  <1>4. \A c \in X : note[c][f] = None
    BY <1>2, OpenFacts
  <1>5. \A c \in X : Pending(c) => f \notin Touches(c) /\ Group(f) \notin Touches(c)
    BY <1>2, OpenFacts
  <1>6. \A i \in DOMAIN tx : tx[i].kind = "catalog" => f \notin {"model", "effort"}
    BY <1>1 DEF OpenByAgent
  <1>7. \A i \in DOMAIN tx : tx[i].by = Host => tx[i].new[f] = None
    BY <1>1 DEF OpenByAgent
  <1>8. ASSUME NEW i \in DOMAIN tx, tx[i].new[f] # None
        PROVE  tx[i].by \in Calls \ X /\ f = "mode"
    <2>1. IsMessage(tx[i]) /\ tx[i].by # Host
      BY <1>7, <1>8 DEF SettingsInv, SettingsShape, PipesShape
    <2>2. tx[i].kind = "news" /\ tx[i].by \in Calls /\ f = "mode"
      BY <1>8, <2>1, NothingSaid DEF IsMessage, Fields
    <2>3. Open(tx[i].by) /\ "mode" \in Touches(tx[i].by)
      BY <2>2, OpenFacts
    <2> QED
      BY <1>2, <2>2, <2>3
  <1>9. \A i \in DOMAIN tx : ~ByHost(i, f)
    BY <1>6, <1>7 DEF ByHost
  <1> QED
    BY <1>3, <1>4, <1>5, <1>6, <1>8, <1>9

(***************************************************************************)
(* Settings: what a broadcast does.                                        *)
(***************************************************************************)
LEMMA BroadcastFacts ==
  ASSUME SettingsInv, NEW p \in Changes, Broadcast(p)
  PROVE  /\ told' \in Screens /\ seen' \in [Calls -> Changes] /\ missed' \subseteq Fields /\ missed \subseteq missed'
         /\ \A c \in Calls : call[c].op # "hello" => seen'[c] = Nothing
         /\ \A f \in Fields : told'[f] = IF p[f] = None THEN told[f] ELSE p[f]
         /\ \A c \in Calls, f \in Fields :
              /\ pc[c] = "on" => seen'[c][f] = IF p[f] = None THEN seen[c][f] ELSE p[f]
              /\ pc[c] # "on" => seen'[c][f] = seen[c][f]
              /\ pc[c] = "hello" /\ p[f] # None /\ seen[c][f] # p[f] => f \in missed'
  <1>1. CopiesShape
    BY DEF SettingsInv, SettingsShape
  <1>2. told' = Merge(told, p) /\ told \in Screens
    BY <1>1 DEF Broadcast, CopiesShape
  <1>3. told' \in Screens /\ \A f \in Fields : told'[f] = IF p[f] = None THEN told[f] ELSE p[f]
    BY <1>2, MergedScreen
  <1>4. \A c \in Calls : seen[c] \in Changes
    BY <1>1 DEF CopiesShape
  <1>5. \A c \in Calls : seen'[c] = IF pc[c] = "on" THEN Merge(seen[c], p) ELSE seen[c]
    BY DEF Broadcast
  <1>6. \A c \in Calls : Merge(seen[c], p) \in Changes /\ \A f \in Fields : Merge(seen[c], p)[f] = IF p[f] = None THEN seen[c][f] ELSE p[f]
    BY <1>4, MergedSeen
  <1>7. \A c \in Calls : seen'[c] \in Changes
    BY <1>4, <1>5, <1>6
  <1>8. seen' \in [Calls -> Changes]
    BY <1>7 DEF Broadcast
  <1>9. \A c \in Calls : call[c].op # "hello" => seen'[c] = Nothing
    BY <1>1, <1>5, WhereFacts DEF CopiesShape
  <1>10. missed' \subseteq Fields /\ missed \subseteq missed'
    BY <1>1 DEF Broadcast, CopiesShape
  <1>11. \A c \in Calls, f \in Fields : pc[c] = "hello" /\ p[f] # None /\ seen[c][f] # p[f] => f \in missed'
    BY DEF Broadcast
  <1> QED
    BY <1>3, <1>5, <1>6, <1>8, <1>9, <1>10, <1>11

LEMMA BroadcastHello ==
  ASSUME SettingsInv, NEW p \in Changes, Broadcast(p), excused \subseteq excused',
         \A c \in Calls : pc'[c] \in {"hello", "on"} => pc'[c] = pc[c],
         \A f \in Fields : p[f] = None => (Free(f)' => Free(f)) /\ (Unsaid(f) => Unsaid(f)')
  PROVE  HelloInv'
  <1> SUFFICES ASSUME NEW c \in Calls, NEW f \in Fields, pc'[c] \in {"hello", "on"},
                      f \notin missed', Free(f)', ~Unsaid(f)', ~(f = "perm" /\ "perm told" \in excused')
               PROVE  seen'[c][f] = told'[f]
    BY DEF HelloInv
  <1>1. pc[c] \in {"hello", "on"} /\ f \notin missed
    BY BroadcastFacts
  <1>2. CASE p[f] = None
    <2>1. seen[c][f] = told[f]
      BY <1>1, <1>2 DEF SettingsInv, HelloInv
    <2> QED
      BY <1>1, <1>2, <2>1, BroadcastFacts
  <1>3. CASE p[f] # None
    <2>1. told'[f] = p[f]
      BY <1>3, BroadcastFacts
    <2>2. CASE pc[c] = "on"
      BY <1>3, <2>1, <2>2, BroadcastFacts
    <2>3. CASE pc[c] = "hello"
      <3>1. pc[c] # "on"
        BY <2>3
      <3>2. seen'[c][f] = seen[c][f]
        BY <3>1, BroadcastFacts
      <3>3. seen[c][f] = p[f]
        BY <1>3, <2>3, BroadcastFacts
      <3> QED
        BY <2>1, <3>2, <3>3
    <2> QED
      BY <1>1, <2>2, <2>3
  <1> QED
    BY <1>2, <1>3

(***************************************************************************)
(* Settings: the session loaded, and the agent process ended.              *)
(***************************************************************************)
LEMMA LoadedFacts ==
  ASSUME SettingsInv
  PROVE  /\ Loaded => row \in Rows
         /\ Loaded => \A f \in {"mode", "model", "effort"} : Snapshot[f] = row[f]
         /\ Snapshot["perm"] = permMode
  <1>1. row \in Rows \cup {NoRow}
    BY DEF SettingsInv, SettingsShape, CopiesShape
  <1> QED
    BY <1>1 DEF Loaded, Snapshot, Fields

LEMMA FieldSplit == /\ Fields = {"mode", "model", "effort", "perm"}
                    /\ Group("mode") = "mode" /\ Group("model") = "model" /\ Group("effort") = "model" /\ Group("perm") = "perm"
                    /\ \A f \in Fields : Group(f) \in Fields
  BY DEF Fields, Group

LEMMA OpenBounds == ASSUME NEW X PROVE OpenAmong(X) \subseteq Fields \cup {"perm told"}
  <1>1. \A c : Touches(c) \subseteq Fields \cup {"perm told"}
    BY TouchesFacts DEF Fields
  <1>2. OpenByAgent \subseteq Fields
    BY DEF OpenByAgent
  <1> QED
    BY <1>1, <1>2 DEF OpenAmong

LEMMA LoadInv == ASSUME SettingsInv, Load PROVE SettingsInv'
  <1> DEFINE p == [ag EXCEPT !.perm = None]
  <1>1. /\ ~Loaded /\ row' = [mode |-> ag.mode, model |-> ag.model, effort |-> ag.effort]
        /\ Broadcast(p) /\ excused' = excused \cup OpenAmong(Calls)
        /\ UNCHANGED <<external, pipes, permMode, note, threads, files, moves>>
    BY DEF Load
  <1>2. SettingsShape
    BY DEF SettingsInv
  <1>3. ag \in Sessions
    BY <1>2 DEF SettingsShape, AgentShape
  <1>4. /\ p \in Changes /\ p["perm"] = None
        /\ p["mode"] = ag.mode /\ p["model"] = ag.model /\ p["effort"] = ag.effort
        /\ \A f \in Fields : f # "perm" => p[f] = ag[f] /\ p[f] # None
    <2>1. p \in Changes
      BY <1>3 DEF Sessions, Changes
    <2>2. p["perm"] = None /\ p["mode"] = ag.mode /\ p["model"] = ag.model /\ p["effort"] = ag.effort
      BY <1>3 DEF Sessions
    <2>3. ag.mode # None /\ ag.model # None /\ ag.effort # None
      BY <1>3, NoValue DEF Sessions
    <2> QED
      BY <2>1, <2>2, <2>3, FieldSplit
  <1> HIDE DEF p
  <1>5. row' \in Rows /\ Loaded'
    BY <1>1, <1>3, NoValue DEF Sessions, Rows, Loaded, NoRow
  <1>6. /\ \A f \in Fields : f # "perm" => Snapshot'[f] = ag[f]
        /\ Snapshot'["perm"] = permMode
    BY <1>1, FieldSplit DEF Snapshot
  <1>7. excused' \subseteq Fields \cup {"perm told"}
    BY <1>1, <1>2, OpenBounds DEF SettingsShape, BoundsShape
  <1>8. SettingsShape'
    <2>1. CopiesShape'
      BY <1>1, <1>2, <1>4, <1>5, BroadcastFacts DEF SettingsShape, CopiesShape, threads
    <2>2. AgentShape' /\ FilesShape' /\ PipesShape' /\ CallsShape' /\ BoundsShape'
      BY <1>1, <1>2, <1>7
      DEF SettingsShape, AgentShape, FilesShape, PipesShape, CallsShape, Warnable, BoundsShape, external, pipes,
          threads, files
    <2> QED
      BY <2>1, <2>2 DEF SettingsShape
  <1>9. RequestsFit' /\ AnswersFit' /\ NewsFit' /\ ToggledOnce'
    BY <1>1 DEF SettingsInv, RequestsFit, AnswersFit, NewsFit, ToggledOnce, pipes, threads
  <1>10. \A c \in Calls : Touches(c)' = Touches(c)
    BY <1>1 DEF Touches, threads
  <1>11. NotesFit'
    BY <1>1, <1>10 DEF SettingsInv, NotesFit, threads
  <1>12. Waited'
    BY <1>1, <1>10 DEF SettingsInv, Waited, GivenUp, Waits, Asking, Answering, pipes, threads
  <1>13. AdoptedInv'
    BY <1>1 DEF SettingsInv, AdoptedInv, pipes, threads, external
  <1>14. CatalogInv'
    BY <1>1 DEF SettingsInv, CatalogInv, Reloading, pipes, threads, external, files
  <1>15. \A c \in Calls : (Deep(c)' <=> Deep(c)) /\ (Pending(c)' <=> Pending(c)) /\ (Half(c)' <=> Half(c))
    BY <1>1 DEF Pending, Deep, Accepted, Half, Toggling, pipes, threads
  <1>16. ExclusiveInv'
    BY <1>1, <1>10, <1>15, FieldSplit DEF SettingsInv, ExclusiveInv, Exclusive, ByHost, pipes
  <1>17. \A f \in Fields : Free(f)' => f \notin OpenAmong(Calls) /\ Group(f) \notin OpenAmong(Calls)
    BY <1>1 DEF Free
  <1>18. \A f \in Fields : Free(f)' => /\ \A x \in Calls \cup {Reader} : note[x][f] = None
                                      /\ \A i \in DOMAIN tx : tx[i].new[f] = None
    BY <1>17, ShutFacts
  <1>19. Free("perm")' => Free("perm")
    BY <1>1, FieldSplit DEF Free
  <1>20. \A f \in Fields : p[f] = None => (Free(f)' => Free(f)) /\ (Unsaid(f) => Unsaid(f)')
    BY <1>1, <1>4, <1>19 DEF Unsaid, threads
  <1>21. ToldInv'
    <2> SUFFICES ASSUME NEW f \in Fields, Free(f)'
                 PROVE  /\ \A x \in Calls \cup {Reader} : note'[x][f] = None
                        /\ (told[f] = Snapshot[f])' \/ Unsaid(f)' \/ (f = "perm" /\ "perm told" \in excused')
      BY DEF ToldInv
    <2>1. CASE f # "perm"
      BY <1>1, <1>4, <1>6, <1>18, <2>1, BroadcastFacts
    <2>2. CASE f = "perm"
      <3>1. told'[f] = told[f] /\ Snapshot'[f] = Snapshot[f]
        BY <1>1, <1>4, <1>6, <2>2, BroadcastFacts, LoadedFacts
      <3> QED
        BY <1>1, <1>4, <1>18, <1>19, <1>20, <2>2, <3>1 DEF SettingsInv, ToldInv
    <2> QED
      BY <2>1, <2>2
  <1>22. NewsInv'
    BY <1>1, <1>18 DEF NewsInv, pipes
  <1>23. ModeInv'
    <2> SUFFICES ASSUME Free("mode")' PROVE \A c \in Calls : "mode" \in Touches(c) => ~Pending(c)
      <3>1. row'.mode = ag'.mode
        BY <1>1 DEF external
      <3>2. \A c \in Calls : call[c].op = "mode" => "mode" \in Touches(c)
        BY TouchesFacts
      <3> QED
        BY <1>1, <1>15, <3>1, <3>2, OpenFacts DEF ModeInv, threads
    <2> QED
      BY <1>17, ShutFacts, FieldSplit
  <1>24. (Free("model")' \/ Free("effort")') => /\ \A c \in Calls : ~TookModel(c) /\ ~TookEffort(c)
                                               /\ \A i \in DOMAIN tx : tx[i].kind # "catalog"
    BY <1>17, OpenFacts, ShutFacts, FieldSplit
  <1>25. \A c \in Calls : (TookModel(c)' <=> TookModel(c)) /\ (TookEffort(c)' <=> TookEffort(c))
    BY <1>1 DEF TookModel, TookEffort, Accepted, pipes, threads
  <1>26. ModelInv' /\ EffortInv'
    BY <1>1, <1>24, <1>25 DEF ModelInv, EffortInv, pipes, external
  <1>27. PermInv'
    BY <1>1, <1>15, <1>19 DEF SettingsInv, PermInv, pipes, threads, external
  <1>28. HelloInv'
    BY <1>1, <1>4, <1>20, BroadcastHello DEF threads
  <1> QED
    BY <1>8, <1>9, <1>11, <1>12, <1>13, <1>14, <1>16, <1>21, <1>22, <1>23, <1>26, <1>27, <1>28 DEF SettingsInv

LEMMA RestartInv == ASSUME SettingsInv, Restart PROVE SettingsInv'
  <1>1. /\ moves < MaxMoves /\ moves' = moves + 1
        /\ req' = <<>> /\ tx' = <<>> /\ row' = NoRow /\ permMode' = "ask"
        /\ cat' = Catalog(cfg, promoted) /\ ag' = [Revalidated(ag, cat') EXCEPT !.perm = "ask"]
        /\ pc' = [c \in Calls |-> IF pc[c] \in Waiting THEN AfterError(c) ELSE pc[c]]
        /\ warned' = warned \cup UNION {Warned(c) : c \in Calls}
        /\ UNCHANGED <<modern, adopted, call, table, note, screens, files>>
    BY DEF Restart
  <1>0. /\ excused \subseteq excused' /\ OpenAmong(Calls) \subseteq excused'
        /\ excused' \subseteq excused \cup OpenAmong(Calls) \cup {"perm told"}
        /\ told.perm # "ask" => "perm told" \in excused'
    BY DEF Restart
  <1>e. DOMAIN req' = {} /\ DOMAIN tx' = {} /\ req' \in Seq(Requests) /\ Len(tx') = 0 /\ DOMAIN tx' = 1..Len(tx')
    BY <1>1, EmptyFacts
  <1>2. SettingsShape
    BY DEF SettingsInv
  <1>3. cat' \in Catalogs
    BY <1>1, <1>2, CatalogFacts DEF SettingsShape, FilesShape
  <1>4. /\ ag' \in Sessions /\ ag'.model \in cat'.models /\ ag'.effort \in Offers[ag'.model] /\ ag'.perm = "ask"
    <2> DEFINE r == Revalidated(ag, cat')
    <2>1. r \in Sessions /\ r.model \in cat'.models /\ r.effort \in Offers[r.model]
      BY <1>2, <1>3, RevalidatedFacts DEF SettingsShape, AgentShape
    <2>2. ag' = [r EXCEPT !.perm = "ask"]
      BY <1>1
    <2> HIDE DEF r
    <2> QED
      BY <2>1, <2>2 DEF Sessions, Perms
  <1>5. \A c \in Calls : /\ pc[c] \in Waiting => pc'[c] = AfterError(c)
                         /\ pc[c] \notin Waiting => pc'[c] = pc[c]
    BY <1>1
  <1>6. \A c \in Calls :
          pc[c] \in Waiting => /\ pc'[c] \in PlacesOf(call[c].op) /\ pc'[c] \in {"fall back", "file", "warning", "ok", "error"}
                               /\ pc'[c] = "ok" => call[c].op \notin {"model", "effort"}
    BY <1>5, AfterErrorFacts
  <1>7. pc' \in [Calls -> Places]
    <2>1. \A c \in Calls : pc'[c] \in Places
      <3> SUFFICES ASSUME NEW c \in Calls PROVE pc'[c] \in Places
        OBVIOUS
      <3>1. CASE pc[c] \in Waiting
        BY <1>6, <3>1 DEF Places, Decided
      <3>2. CASE pc[c] \notin Waiting
        BY <1>2, <1>5, <3>2 DEF SettingsShape, CallsShape
      <3> QED
        BY <3>1, <3>2
    <2> QED
      BY <1>1, <2>1
  <1>8. SettingsShape'
    <2>1. AgentShape'
      BY <1>1, <1>2, <1>3, <1>4 DEF SettingsShape, AgentShape
    <2>2. FilesShape'
      BY <1>1, <1>2, <1>5, <1>6 DEF SettingsShape, FilesShape, files
    <2>3. CopiesShape'
      BY <1>1, <1>2 DEF SettingsShape, CopiesShape, screens, Perms
    <2>4. PipesShape'
      BY <1>e DEF PipesShape
    <2>5. CallsShape'
      <3>1. warned' \subseteq Warnable'
        <4>1. \A c \in Calls : Warned(c) \subseteq Warnable
          BY WhereFacts DEF Warned, Warnable
        <4> QED
          BY <1>1, <1>2, <4>1 DEF SettingsShape, CallsShape, Warnable
      <3>2. \A c \in Calls : pc'[c] \in PlacesOf(call[c].op)
        BY <1>2, <1>5, <1>6 DEF SettingsShape, CallsShape
      <3> QED
        BY <1>1, <1>2, <1>7, <3>1, <3>2 DEF SettingsShape, CallsShape
    <2>6. BoundsShape'
      <3>1. excused' \subseteq Fields \cup {"perm told"}
        BY <1>0, <1>2, OpenBounds DEF SettingsShape, BoundsShape
      <3> QED
        BY <1>1, <1>2, <3>1, MoveFacts DEF BoundsShape
    <2> QED
      BY <2>1, <2>2, <2>3, <2>4, <2>5, <2>6 DEF SettingsShape
  <1>9. RequestsFit' /\ AnswersFit' /\ NewsFit' /\ ToggledOnce'
    BY <1>e DEF RequestsFit, AnswersFit, NewsFit, ToggledOnce
  <1>10. \A c \in Calls : Touches(c)' = Touches(c)
    BY <1>1 DEF Touches
  <1>11. NotesFit'
    BY <1>1, <1>5, <1>10 DEF SettingsInv, NotesFit, Waiting
  <1>12. Waited'
    BY <1>e DEF Waited, Waits
  <1>13. AdoptedInv'
    <2>1. \A c \in Calls : /\ pc'[c] \in Busy \cup {"effort"} => pc'[c] = pc[c]
                           /\ pc'[c] = "ok" /\ call[c].op \in {"model", "effort"} => pc[c] = "ok"
      BY <1>5, <1>6 DEF Busy
    <2> QED
      BY <1>1, <1>e, <2>1 DEF SettingsInv, AdoptedInv, Busy
  <1>14. CatalogInv'
    BY <1>1 DEF CatalogInv, files
  <1>15. \A c \in Calls : pc'[c] \in Busy \cup {"hello", "on"} => pc'[c] = pc[c]
    BY <1>5, <1>6 DEF Busy
  <1>16. \A c \in Calls : Pending(c)' => Pending(c)
    BY <1>e, <1>15 DEF Pending, Deep
  <1>17. \A f \in Fields : Group(f) \notin excused' /\ f \notin excused' => f \notin OpenAmong(Calls) /\ Group(f) \notin OpenAmong(Calls)
    BY <1>0
  <1>18. \A f \in Fields : Group(f) \notin excused' /\ f \notin excused' =>
           /\ \A x \in Calls \cup {Reader} : note[x][f] = None
           /\ \A c \in Calls : Pending(c)' => Group(f) \notin Touches(c)'
    BY <1>10, <1>16, <1>17, ShutFacts
  <1>19. ExclusiveInv'
    BY <1>1, <1>e, <1>18, FieldSplit DEF ExclusiveInv, Exclusive
  <1>20. ~Loaded'
    BY <1>1 DEF Loaded
  <1>21. ToldInv'
    <2> SUFFICES ASSUME Free("perm")'
                 PROVE  /\ \A x \in Calls \cup {Reader} : note'[x]["perm"] = None
                        /\ (told["perm"] = Snapshot["perm"])' \/ "perm told" \in excused'
      BY <1>20 DEF ToldInv, Free
    <2>1. Snapshot'["perm"] = "ask"
      BY <1>1 DEF Snapshot, Fields
    <2> QED
      BY <1>0, <1>1, <1>18, <2>1, FieldSplit DEF Free, screens
  <1>22. NewsInv'
    BY <1>e DEF NewsInv
  <1>23. ModeInv' /\ ModelInv' /\ EffortInv'
    BY <1>20 DEF ModeInv, ModelInv, EffortInv, Free
  <1>24. PermInv'
    <2> SUFFICES ASSUME Free("perm")' PROVE \A c \in Calls : ~(call[c].op = "perm" /\ Pending(c)')
      BY <1>1, <1>4 DEF PermInv
    <2>1. \A c \in Calls : Pending(c)' => "perm" \notin Touches(c)
      BY <1>10, <1>18, FieldSplit DEF Free
    <2> QED
      BY <2>1, TouchesFacts
  <1>25. HelloInv'
    <2>1. \A f \in Fields : Free(f)' => f = "perm" /\ Free(f)
      BY <1>0, <1>1, <1>20 DEF Free
    <2>2. Unsaid("perm") => Unsaid("perm")'
      BY <1>1, <1>5 DEF Unsaid, Waiting
    <2> QED
      BY <1>0, <1>1, <1>15, <2>1, <2>2 DEF SettingsInv, HelloInv, screens
  <1> QED
    BY <1>8, <1>9, <1>11, <1>12, <1>13, <1>14, <1>19, <1>21, <1>22, <1>23, <1>24, <1>25 DEF SettingsInv

(***************************************************************************)
(* Settings: what is stored is broadcast.                                  *)
(***************************************************************************)
LEMMA TellFacts ==
  ASSUME SettingsInv, NEW x \in Calls \cup {Reader}, Broadcast(note[x]), note' = [note EXCEPT ![x] = Nothing],
         \A d \in Calls : pc'[d] \in {"hello", "on"} => pc'[d] = pc[d],
         \A d \in Calls : pc[d] = "write" => pc'[d] = "write",
         UNCHANGED <<row, permMode, excused, call>>
  PROVE  CopiesShape' /\ ToldInv' /\ HelloInv'
  <1> DEFINE p == note[x]
  <1>1. CopiesShape /\ note \in [Calls \cup {Reader} -> Changes]
    BY DEF SettingsInv, SettingsShape, CopiesShape
  <1>2. p \in Changes /\ Broadcast(p)
    BY <1>1
  <1>3. \A y \in Calls \cup {Reader} : note'[y] = IF y = x THEN Nothing ELSE note[y]
    BY <1>1
  <1> HIDE DEF p
  <1>4. note' \in [Calls \cup {Reader} -> Changes]
    BY <1>1, NothingSaid
  <1>5. CopiesShape'
    BY <1>1, <1>2, <1>4, BroadcastFacts DEF CopiesShape
  <1>6. \A f \in Fields : (Free(f)' <=> Free(f)) /\ Snapshot'[f] = Snapshot[f]
    BY DEF Free, Loaded, Snapshot
  <1>7. \A f \in Fields : p[f] = None /\ Unsaid(f) => Unsaid(f)'
    BY <1>3 DEF Unsaid, p
  <1>8. ToldInv'
    <2> SUFFICES ASSUME NEW f \in Fields, Free(f)
                 PROVE  /\ \A y \in Calls \cup {Reader} : note'[y][f] \in {None, Snapshot[f]}
                        /\ told'[f] = Snapshot[f] \/ Unsaid(f)' \/ (f = "perm" /\ "perm told" \in excused)
      BY <1>6 DEF ToldInv
    <2>1. /\ \A y \in Calls \cup {Reader} : note[y][f] \in {None, Snapshot[f]}
          /\ told[f] = Snapshot[f] \/ Unsaid(f) \/ (f = "perm" /\ "perm told" \in excused)
      BY DEF SettingsInv, ToldInv
    <2>2. \A y \in Calls \cup {Reader} : note'[y][f] \in {None, Snapshot[f]}
      BY <1>3, <2>1, NothingSaid
    <2>3. told'[f] = IF p[f] = None THEN told[f] ELSE p[f]
      BY <1>2, BroadcastFacts
    <2>4. p[f] \in {None, Snapshot[f]}
      BY <2>1 DEF p
    <2> QED
      BY <1>7, <2>1, <2>2, <2>3, <2>4
  <1>9. HelloInv'
    BY <1>2, <1>6, <1>7, BroadcastHello
  <1> QED
    BY <1>5, <1>8, <1>9

LEMMA ReaderTellsInv == ASSUME SettingsInv, ReaderTells PROVE SettingsInv'
  <1>1. /\ note[Reader] # Nothing
        /\ Broadcast(note[Reader]) /\ note' = [note EXCEPT ![Reader] = Nothing]
        /\ UNCHANGED <<external, pipes, row, permMode, threads, files, excused, moves>>
    BY DEF ReaderTells
  <1>2. CopiesShape' /\ ToldInv' /\ HelloInv'
    BY <1>1, TellFacts DEF threads
  <1>3. SettingsShape'
    BY <1>1, <1>2
    DEF SettingsInv, SettingsShape, AgentShape, FilesShape, PipesShape, CallsShape, Warnable, BoundsShape, external, pipes, threads, files
  <1>4. RequestsFit' /\ AnswersFit' /\ NewsFit' /\ ToggledOnce'
    BY <1>1 DEF SettingsInv, RequestsFit, AnswersFit, NewsFit, ToggledOnce, pipes, threads
  <1>5. \A d \in Calls : Touches(d)' = Touches(d)
    BY <1>1 DEF Touches, threads
  <1>6. note'[Reader] = Nothing /\ \A d \in Calls : note'[d] = note[d]
    BY <1>1, NoValue DEF SettingsInv, SettingsShape, CopiesShape
  <1>7. NotesFit'
    BY <1>1, <1>5, <1>6, NothingSaid DEF SettingsInv, NotesFit, threads, Nothing, Fields
  <1>8. Waited'
    BY <1>1, <1>5 DEF SettingsInv, Waited, GivenUp, Waits, Asking, Answering, pipes, threads
  <1>9. AdoptedInv' /\ CatalogInv'
    BY <1>1 DEF SettingsInv, AdoptedInv, CatalogInv, Reloading, pipes, threads, external, files
  <1>10. \A d \in Calls : /\ (Deep(d)' <=> Deep(d)) /\ (Pending(d)' <=> Pending(d)) /\ (Half(d)' <=> Half(d))
                          /\ (TookModel(d)' <=> TookModel(d)) /\ (TookEffort(d)' <=> TookEffort(d))
    BY <1>1 DEF Pending, Deep, Accepted, Half, Toggling, TookModel, TookEffort, pipes, threads
  <1>11. \A f \in Fields : Free(f)' <=> Free(f)
    BY <1>1 DEF Free, Loaded
  <1>12. ExclusiveInv'
    <2> SUFFICES ASSUME NEW g \in {"mode", "model", "perm"}, g \notin excused PROVE Exclusive(g)'
      BY <1>1 DEF ExclusiveInv
    <2>1. Exclusive(g) /\ g \in Fields
      BY DEF SettingsInv, ExclusiveInv, Fields
    <2>2. note'[Reader][g] = None
      BY <1>6, <2>1, NothingSaid
    <2>3. DOMAIN tx' = DOMAIN tx /\ \A i \in DOMAIN tx : ByHost(i, g)' => ByHost(i, g)
      BY <1>1 DEF ByHost, pipes
    <2> QED
      BY <1>5, <1>10, <2>1, <2>2, <2>3, StillExclusive
  <1>13. NewsInv' /\ ModeInv' /\ ModelInv' /\ EffortInv' /\ PermInv'
    <2>1. NewsInv'
      BY <1>1, <1>11 DEF SettingsInv, NewsInv, external, pipes
    <2>2. ModeInv'
      BY <1>1, <1>10, <1>11 DEF SettingsInv, ModeInv, external, pipes, threads, Fields
    <2>3. ModelInv'
      BY <1>1, <1>10, <1>11 DEF SettingsInv, ModelInv, CatalogAhead, external, pipes, threads, Fields
    <2>4. EffortInv'
      BY <1>1, <1>10, <1>11 DEF SettingsInv, EffortInv, CatalogAhead, external, pipes, threads, Fields
    <2>5. PermInv'
      BY <1>1, <1>10, <1>11 DEF SettingsInv, PermInv, external, pipes, threads, Fields
    <2> QED
      BY <2>1, <2>2, <2>3, <2>4, <2>5
  <1> QED
    BY <1>2, <1>3, <1>4, <1>7, <1>8, <1>9, <1>12, <1>13 DEF SettingsInv

LEMMA TellsInv == ASSUME SettingsInv, NEW c \in Calls, Tells(c) PROVE SettingsInv'
  <1> DEFINE p == IF pc[c] = "tell option" /\ call[c].effort # None THEN "effort" ELSE After(c, c \in warned)
  <1>1. /\ pc[c] \in {"tell", "tell option"}
        /\ Broadcast(note[c]) /\ note' = [note EXCEPT ![c] = Nothing]
        /\ UNCHANGED <<external, tx, row, permMode, call, warned, table, files, excused, moves>>
    BY DEF Tells
  <1>2. p \in {"effort", "file", "warning", "ok"}
    BY DEF After
  <1>3. /\ pc' = [pc EXCEPT ![c] = p]
        /\ req' = IF p \in Waiting THEN Append(req, Request(c, p)) ELSE req
    BY DEF Tells, Asks, Waiting, After
  <1>4. /\ pc[c] = "tell option" => call[c].op \in {"model", "default"}
        /\ call[c].op \in {"mode", "toggle", "perm", "effort", "model", "default"}
    BY <1>1, WhereFacts
  <1>w. c \in warned => call[c].op \in {"effort", "model", "default"}
    BY DEF SettingsInv, SettingsShape, CallsShape, Warnable
  <1>5. p \in PlacesOf(call[c].op) /\ (p \in Waiting => p \in AsksOf(call[c].op))
    BY <1>1, <1>4, <1>w DEF After, PlacesOf, Switching, AsksOf, None, Waiting
  <1> HIDE DEF p
  <1>6. pc[c] \notin {"idle", "took mode", "took option", "took effort", "took old", "write", "flip", "hello", "on"}
        /\ pc[c] \notin Waiting /\ p \notin Busy \cup {"idle", "hello", "on", "write", "save", "reload"}
    BY <1>1, <1>2 DEF Busy, Waiting
  <1>7. pc \in [Calls -> Places]
    BY DEF SettingsInv, SettingsShape, CallsShape
  <1>8. \A d \in Calls : pc'[d] = IF d = c THEN p ELSE pc[d]
    BY <1>3, <1>7
  <1>9. CopiesShape' /\ ToldInv' /\ HelloInv'
    <2>1. \A d \in Calls : /\ pc'[d] \in {"hello", "on"} => pc'[d] = pc[d]
                           /\ pc[d] = "write" => pc'[d] = "write"
      BY <1>6, <1>8
    <2> QED
      BY <1>1, <2>1, TellFacts
  <1>10. SettingsShape'
    <2>1. /\ DOMAIN table' = Calls /\ \A d \in Calls \ {c} : table'[d] = table[d]
          /\ cfg' \in Files /\ promoted' \in BOOLEAN
          /\ excused' \subseteq Fields \cup {"perm told"} /\ moves' \in 0..MaxMoves /\ warned' \subseteq Warnable
      BY <1>1 DEF SettingsInv, SettingsShape, FilesShape, BoundsShape, CallsShape, files
    <2>2. AgentShape' /\ FilesShape' /\ PipesShape' /\ CallsShape' /\ BoundsShape'
      BY <1>1, <1>3, <1>5, <1>6, <2>1, MovedOnShape DEF external
    <2> QED
      BY <1>9, <2>2 DEF SettingsShape
  <1>11. \A d \in Calls : Touches(d)' = Touches(d)
    BY <1>1 DEF Touches
  <1>12. note'[Reader] = note[Reader] /\ \A d \in Calls : note'[d] = IF d = c THEN Nothing ELSE note[d]
    BY <1>1, NoValue DEF SettingsInv, SettingsShape, CopiesShape
  <1>13. NotesFit'
    BY <1>8, <1>11, <1>12, NothingSaid DEF SettingsInv, NotesFit
  <1>14. AdoptedInv'
    <2>1. call[c].op = "model" /\ p = "effort" => "model" \in adopted[c]
      BY DEF SettingsInv, AdoptedInv, After, p
    <2>2. p = "ok" /\ call[c].op \in {"model", "effort"} => {f \in {"model", "effort"} : call[c][f] # None} \subseteq adopted[c]
      <3>1. CASE pc[c] = "tell"
        BY <3>1 DEF SettingsInv, AdoptedInv
      <3>2. CASE pc[c] = "tell option" /\ p = "ok"
        <4>1. call[c]["effort"] = None /\ "model" \in adopted[c]
          BY <3>2 DEF SettingsInv, AdoptedInv, p
        <4> QED
          BY <4>1
      <3> QED
        BY <1>1, <3>1, <3>2
    <2> QED
      BY <1>1, <1>2, <1>8, <2>1, <2>2 DEF SettingsInv, AdoptedInv, external
  <1>15. CatalogInv'
    <2>1. call[c].op = "default" => p \in Switching \cup {"file", "save"}
      BY <1>2 DEF p, After, Switching
    <2> QED
      BY <1>1, <1>3, <2>1, MovedCatalog DEF external, files
  <1> QED
    BY <1>1, <1>3, <1>5, <1>6, <1>9, <1>10, <1>12, <1>13, <1>14, <1>15, CallMovesOn DEF SettingsInv, external

(***************************************************************************)
(* Settings: what a call stores.                                           *)
(***************************************************************************)
\* While a call has a change of a setting that is not excused, nothing else has one.
LEMMA AloneFacts ==
  ASSUME SettingsInv, NEW c \in Calls, NEW f \in Fields, Group(f) \notin excused, Group(f) \in Touches(c), Pending(c)
  PROVE  /\ Deep(c) => note[Reader][f] = None
         /\ \A d \in Calls : d # c => note[d][f] = None
         /\ \A d \in Calls : Pending(d) /\ Group(f) \in Touches(d) => d = c
         /\ \A i \in DOMAIN tx : ~ByHost(i, Group(f)) /\ (tx[i].new[f] # None => tx[i].by = c /\ f = "mode")
         /\ \A i \in DOMAIN tx : tx[i].kind = "catalog" => Group(f) # "model"
  <1> DEFINE g == Group(f)
  <1>1. g \in {"mode", "model", "perm"} /\ g \notin excused /\ g \in Touches(c) /\ g \in Fields
    BY FieldSplit
  <1> HIDE DEF g
  <1>2. Exclusive(g)
    BY <1>1 DEF SettingsInv, ExclusiveInv
  <1>3. \A d \in Calls : Pending(d) /\ g \in Touches(d) => d = c
    BY <1>1, <1>2 DEF Exclusive
  <1>4. \A i \in DOMAIN tx : ~ByHost(i, g)
    BY <1>1, <1>2 DEF Exclusive
  <1>5. Deep(c) => note[Reader][g] = None
    BY <1>1, <1>2 DEF Exclusive
  <1>6. note[Reader][g] = None => note[Reader][f] = None
    <2>1. note[Reader] \in Changes /\ (note[Reader].model = None <=> note[Reader].effort = None)
      BY DEF SettingsInv, SettingsShape, CopiesShape, NotesFit
    <2> QED
      BY <2>1, FieldSplit DEF g
  <1>7. \A d \in Calls : d # c => note[d][f] = None
    BY <1>3, OpenFacts DEF g
  <1>8. \A i \in DOMAIN tx : tx[i].kind = "catalog" => g # "model"
    <2>1. \A i \in DOMAIN tx : tx[i].kind = "catalog" => tx[i].by = Host
      BY DEF SettingsInv, SettingsShape, PipesShape, IsMessage
    <2> QED
      BY <1>4, <2>1 DEF ByHost
  <1>9. ASSUME NEW i \in DOMAIN tx, tx[i].new[f] # None PROVE tx[i].by = c /\ f = "mode"
    <2>1. IsMessage(tx[i])
      BY DEF SettingsInv, SettingsShape, PipesShape
    <2>2. tx[i].by # Host
      <3> SUFFICES ASSUME tx[i].by = Host PROVE tx[i].new[g] # None
        BY <1>4 DEF ByHost
      <3>1. tx[i].kind = "news"
        BY <1>9, <2>1, NoValue, NothingSaid DEF IsMessage
      <3>2. tx[i].new.model = None <=> tx[i].new.effort = None
        BY <2>1, <3>1, NoValue DEF IsMessage
      <3> QED
        BY <1>9, <3>2, FieldSplit DEF g
    <2>3. tx[i].kind = "news" /\ tx[i].by \in Calls /\ f = "mode"
      BY <1>9, <2>1, <2>2, NothingSaid DEF IsMessage, Fields
    <2>4. Pending(tx[i].by) /\ "mode" \in Touches(tx[i].by)
      BY <2>3, OpenFacts
    <2> QED
      BY <1>3, <2>3, <2>4, FieldSplit DEF g
  <1> QED
    BY <1>3, <1>4, <1>5, <1>6, <1>7, <1>8, <1>9 DEF g

\* A call that stores something and is to broadcast n.
Storing == {"took mode", "took option", "took effort", "took old", "write", "flip"}

LEMMA StoreFacts ==
  ASSUME SettingsInv, NEW c \in Calls, NEW p \in {"tell", "tell option"}, pc[c] \in Storing, p \in PlacesOf(call[c].op),
         pc' = [pc EXCEPT ![c] = p],
         req' = req \/ (req' = Append(req, Request(c, "perm")) /\ call[c].op = "perm"),
         NEW n \in Changes, note' = [note EXCEPT ![c] = n], \A f \in Fields : n[f] # None => f \in Touches(c),
         row' \in Rows \cup {NoRow}, Loaded' <=> Loaded,
         UNCHANGED <<external, tx, permMode, screens, call, warned, table, files, excused, moves>>
  PROVE  /\ SettingsShape' /\ RequestsFit' /\ AnswersFit' /\ NewsFit' /\ NotesFit' /\ ToggledOnce' /\ Waited'
         /\ CatalogInv' /\ ExclusiveInv' /\ NewsInv'
         /\ \A d \in Calls : (Deep(d)' <=> Deep(d)) /\ (Pending(d)' <=> Pending(d)) /\ (Toggling(d)' <=> Toggling(d))
         /\ \A d \in Calls : pc'[d] = IF d = c THEN p ELSE pc[d]
         /\ \A x \in Calls \cup {Reader} : note'[x] = IF x = c THEN n ELSE note[x]
         /\ note[c] = Nothing /\ Deep(c) /\ Pending(c)
         /\ \A f \in Fields : Free(f)' <=> Free(f)
  <1>1. SettingsShape /\ pc \in [Calls -> Places] /\ req \in Seq(Requests) /\ note \in [Calls \cup {Reader} -> Changes]
    BY DEF SettingsInv, SettingsShape, CallsShape, PipesShape, CopiesShape
  <1>2. \A d \in Calls : pc'[d] = IF d = c THEN p ELSE pc[d]
    BY <1>1
  <1>3. /\ \A x \in Calls \cup {Reader} : note'[x] = IF x = c THEN n ELSE note[x]
        /\ note' \in [Calls \cup {Reader} -> Changes] /\ note'[Reader] = note[Reader]
    BY <1>1, NoValue
  <1>4. note[c] = Nothing
    BY DEF SettingsInv, NotesFit, Storing
  <1>5. /\ \A i \in DOMAIN req : i \in DOMAIN req' /\ req'[i] = req[i]
        /\ \A i \in DOMAIN req' : i \in DOMAIN req \/ (call[c].op = "perm" /\ req'[i].by = c /\ req'[i].ask = "perm")
        /\ req' \in Seq(Requests)
    <2>1. CASE req' = req
      BY <1>1, <2>1
    <2>2. CASE req' = Append(req, Request(c, "perm")) /\ call[c].op = "perm"
      <3>1. "perm" \in Asked /\ req \in Seq(Requests)
        BY <1>1 DEF Asked
      <3> QED
        BY <2>2, <3>1, AskedOne
    <2> QED
      BY <2>1, <2>2
  <1>6. SettingsShape'
    <2>1. AgentShape' /\ FilesShape' /\ BoundsShape'
      BY <1>1, <1>2 DEF SettingsShape, AgentShape, FilesShape, BoundsShape, external, files
    <2>2. CopiesShape'
      BY <1>1, <1>3 DEF SettingsShape, CopiesShape, screens
    <2>3. PipesShape'
      BY <1>1, <1>5 DEF SettingsShape, PipesShape
    <2>4. CallsShape'
      <3>1. p \in Places
        BY DEF Places
      <3> QED
        BY <1>1, <1>2, <3>1 DEF SettingsShape, CallsShape, Warnable, external
    <2> QED
      BY <2>1, <2>2, <2>3, <2>4 DEF SettingsShape
  <1>7. RequestsFit'
    <2>1. "perm" \in AsksOf("perm")
      BY DEF AsksOf, None
    <2> QED
      BY <1>5, <2>1 DEF SettingsInv, RequestsFit
  <1>8. AnswersFit' /\ NewsFit'
    BY DEF SettingsInv, AnswersFit, NewsFit
  <1>9. \A d \in Calls : Touches(d)' = Touches(d)
    BY DEF Touches
  <1>10. NotesFit'
    <2>1. \A d \in Calls : note'[d] # Nothing => pc'[d] \in {"tell", "tell option"}
      BY <1>2, <1>3 DEF SettingsInv, NotesFit
    <2>2. \A d \in Calls, f \in Fields : note'[d][f] # None => f \in Touches(d)'
      BY ZenonT(40), <1>3, <1>9 DEF SettingsInv, NotesFit
    <2>3. note'[Reader].model = None <=> note'[Reader].effort = None
      BY <1>3 DEF SettingsInv, NotesFit
    <2> QED
      BY <2>1, <2>2, <2>3 DEF NotesFit
  <1>11. ToggledOnce'
    BY <1>5, StillToggledOnce DEF SettingsInv
  <1>12. Waited'
    <2> SUFFICES ASSUME NEW d \in Calls, ~GivenUp(d) PROVE Waits(d)'
      BY <1>9 DEF Waited, GivenUp
    <2>1. Waits(d)
      BY DEF SettingsInv, Waited
    <2>2. \A i \in DOMAIN tx : tx[i].kind = "answer" => tx[i].ask \in Waiting
      BY DEF SettingsInv, AnswersFit
    <2>3. d = c => (\A i \in DOMAIN req : ~Asking(i, d)) /\ \A i \in DOMAIN tx : ~Answering(i, d)
      BY <2>1, <2>2 DEF Waits, Asking, Answering, Storing, Waiting
    <2>4. \A i \in DOMAIN tx : Answering(i, d)' <=> Answering(i, d)
      BY DEF Answering
    <2>5. \A i \in DOMAIN req' : Asking(i, d)' => i \in DOMAIN req /\ Asking(i, d) /\ req'[i] = req[i]
      BY <1>5 DEF Asking, Waiting
    <2>7. \A i \in DOMAIN req' : Asking(i, d)' => pc'[d] = req'[i].ask
      BY <1>2, <2>1, <2>3, <2>5 DEF Waits
    <2>8. \A i \in DOMAIN tx : Answering(i, d)' => pc'[d] = tx[i].ask
      BY <1>2, <2>1, <2>3, <2>4 DEF Waits
    <2>9. \A i, j \in DOMAIN req' : Asking(i, d)' /\ Asking(j, d)' => i = j
      BY <2>1, <2>5 DEF Waits
    <2>10. \A i, j \in DOMAIN tx : Answering(i, d)' /\ Answering(j, d)' => i = j
      BY <2>1, <2>4 DEF Waits
    <2>11. \A i \in DOMAIN req', j \in DOMAIN tx : ~(Asking(i, d)' /\ Answering(j, d)')
      BY <2>1, <2>4, <2>5 DEF Waits
    <2> QED
      BY <2>7, <2>8, <2>9, <2>10, <2>11 DEF Waits
  <1>13. CatalogInv'
    <2>1. Reloading => Reloading'
      BY <1>5 DEF Reloading
    <2>2. \A d \in Calls : pc[d] \in Switching \cup {"file", "save"} => pc'[d] \in Switching \cup {"file", "save"}
      BY <1>2 DEF Switching
    <2> QED
      BY <2>1, <2>2 DEF SettingsInv, CatalogInv, external, files
  <1>14. Deep(c) /\ Pending(c) /\ Deep(c)' /\ Pending(c)'
    BY <1>2 DEF Pending, Deep, Busy, Storing
  <1>15. \A d \in Calls : d # c => (Deep(d)' <=> Deep(d)) /\ (Pending(d)' <=> Pending(d))
    <2> SUFFICES ASSUME NEW d \in Calls, d # c PROVE (Deep(d)' <=> Deep(d)) /\ (Pending(d)' <=> Pending(d))
      OBVIOUS
    <2>1. Deep(d)' <=> Deep(d)
      BY <1>2, <1>5 DEF Deep
    <2>2. \A i \in DOMAIN tx : Accepted(i, d)' <=> Accepted(i, d)
      BY DEF Accepted
    <2> QED
      BY <2>1, <2>2 DEF Pending
  <1>16. \A d \in Calls : Toggling(d)' <=> Toggling(d)
    BY <1>5 DEF Toggling
  <1>17. ExclusiveInv'
    <2> SUFFICES ASSUME NEW g \in {"mode", "model", "perm"}, g \notin excused PROVE Exclusive(g)'
      BY DEF ExclusiveInv
    <2>1. Exclusive(g)
      BY DEF SettingsInv, ExclusiveInv
    <2>2. \A i \in DOMAIN tx : ByHost(i, g)' => ByHost(i, g)
      BY DEF ByHost
    <2> QED
      BY <1>3, <1>9, <1>14, <1>15, <2>1, <2>2, StillExclusive
  <1>18. \A f \in Fields : Free(f)' <=> Free(f)
    BY DEF Free
  <1>19. NewsInv'
    BY <1>18 DEF SettingsInv, NewsInv, external
  <1> QED
    BY <1>2, <1>3, <1>4, <1>6, <1>7, <1>8, <1>10, <1>11, <1>12, <1>13, <1>14, <1>15, <1>16, <1>17, <1>18, <1>19

LEMMA GroupTouched == ASSUME NEW c, NEW f \in Fields, f \in Touches(c) PROVE Group(f) \in Touches(c)
  BY TouchesFacts DEF Group

LEMMA StoreTold ==
  ASSUME SettingsInv, NEW c \in Calls, pc[c] \in Storing, NEW n, note[c] = Nothing, Deep(c), Pending(c),
         \A x \in Calls \cup {Reader} : note'[x] = IF x = c THEN n ELSE note[x],
         \A d \in Calls : d # c => pc'[d] = pc[d], pc'[c] \in {"tell", "tell option"},
         \A f \in Fields : n[f] # None => f \in Touches(c),
         \A f \in Fields : Free(f)' <=> Free(f),
         \A f \in Fields : Free(f) => Snapshot'[f] = IF n[f] = None THEN Snapshot[f] ELSE n[f],
         pc[c] = "write" => n["perm"] # None,
         UNCHANGED <<told, seen, missed, call, excused>>
  PROVE  ToldInv' /\ HelloInv'
  <1>1. \A f \in Fields : f \in Touches(c) => Group(f) \in Touches(c)
    BY GroupTouched
  <1>2. \A f \in Fields : Free(f) /\ Unsaid(f) => Unsaid(f)'
    <2> SUFFICES ASSUME NEW f \in Fields, Free(f), Unsaid(f) PROVE Unsaid(f)'
      OBVIOUS
    <2>1. CASE n[f] # None
      BY <2>1 DEF Unsaid
    <2>2. CASE n[f] = None
      <3>1. ~(pc[c] = "write" /\ f = "perm")
        BY <2>2
      <3>2. note[c][f] = None
        BY NothingSaid
      <3> QED
        BY <3>1, <3>2 DEF Unsaid
    <2> QED
      BY <2>1, <2>2
  <1>3. ToldInv'
    <2> SUFFICES ASSUME NEW f \in Fields, Free(f)
                 PROVE  /\ \A y \in Calls \cup {Reader} : note'[y][f] \in {None, Snapshot'[f]}
                        /\ told[f] = Snapshot'[f] \/ Unsaid(f)' \/ (f = "perm" /\ "perm told" \in excused)
      BY DEF ToldInv
    <2>1. /\ \A y \in Calls \cup {Reader} : note[y][f] \in {None, Snapshot[f]}
          /\ told[f] = Snapshot[f] \/ Unsaid(f) \/ (f = "perm" /\ "perm told" \in excused)
      BY DEF SettingsInv, ToldInv
    <2>2. CASE n[f] = None
      BY <1>2, <2>1, <2>2
    <2>3. CASE n[f] # None
      <3>1. Group(f) \in Touches(c) /\ Group(f) \notin excused
        BY <1>1, <2>3 DEF Free
      <3>2. \A y \in Calls \cup {Reader} : y # c => note[y][f] = None
        <4>1. note[Reader][f] = None /\ \A d \in Calls : d # c => note[d][f] = None
          BY <3>1, AloneFacts
        <4> QED
          BY <4>1
      <3>3. Unsaid(f)'
        BY <2>3 DEF Unsaid
      <3> QED
        BY <2>3, <3>2, <3>3
    <2> QED
      BY <2>2, <2>3
  <1>4. HelloInv'
    <2>1. \A d \in Calls : pc'[d] \in {"hello", "on"} => pc[d] \in {"hello", "on"}
      OBVIOUS
    <2> QED
      BY <1>2, <2>1 DEF SettingsInv, HelloInv
  <1> QED
    BY <1>3, <1>4

LEMMA StillAdopted ==
  ASSUME AdoptedInv, UNCHANGED <<tx, call, adopted>>, NEW c, NEW p \in {"tell", "tell option"},
         \A d \in Calls : pc'[d] = IF d = c THEN p ELSE pc[d],
         p = "tell option" => "model" \in adopted[c],
         call[c].op \in {"model", "effort"} /\ p = "tell" => {f \in {"model", "effort"} : call[c][f] # None} \subseteq adopted[c]
  PROVE  AdoptedInv'
  BY DEF AdoptedInv

LEMMA SameTook ==
  ASSUME NEW d, UNCHANGED <<tx, call>>,
         pc'[d] = pc[d] \/ {pc[d], pc'[d]} \cap {"took option", "took effort", "took old"} = {}
  PROVE  (TookModel(d)' <=> TookModel(d)) /\ (TookEffort(d)' <=> TookEffort(d))
  BY DEF TookModel, TookEffort, Accepted

\* What a machine-wide catalog makes of a row depends on its model and effort only.
LEMMA WithCatalogFacts ==
  ASSUME NEW r \in Rows, NEW k \in Catalogs
  PROVE  LET m == IF r.model \in k.models THEN r.model ELSE k.current
         IN /\ WithCatalog(r, k) \in Rows /\ WithCatalog(r, k).mode = r.mode /\ WithCatalog(r, k).model = m
            /\ WithCatalog(r, k).effort = IF r.effort \in Offers[m] THEN r.effort ELSE Unset
  <1> DEFINE m == IF r.model \in k.models THEN r.model ELSE k.current
  <1>1. m \in Models
    BY DEF Catalogs, Rows
  <1>2. WithCatalog(r, k) = [r EXCEPT !.model = m, !.effort = IF @ \in Offers[m] THEN @ ELSE Unset]
    BY DEF WithCatalog
  <1> HIDE DEF m
  <1>3. r \in [mode : Modes, model : Models, effort : Efforts \cup {Unset}]
    BY DEF Rows
  <1>4. /\ WithCatalog(r, k) \in Rows /\ WithCatalog(r, k).mode = r.mode /\ WithCatalog(r, k).model = m
        /\ WithCatalog(r, k).effort = IF r.effort \in Offers[m] THEN r.effort ELSE Unset
    BY <1>1, <1>2, <1>3 DEF Rows
  <1> QED
    BY <1>4 DEF m

LEMMA SameCatalog ==
  ASSUME SettingsInv, NEW r \in Rows, Loaded, r.model = row.model, r.effort = row.effort, NEW k \in Catalogs
  PROVE  WithCatalog(r, k).model = WithCatalog(row, k).model /\ WithCatalog(r, k).effort = WithCatalog(row, k).effort
  BY LoadedFacts, WithCatalogFacts

\* The mode and the permissions of a session say nothing of its model.
LEMMA SameModels ==
  ASSUME SettingsInv, row' \in Rows \cup {NoRow}, Loaded' <=> Loaded,
         Loaded => row'.model = row.model /\ row'.effort = row.effort,
         \A f \in Fields : Free(f)' <=> Free(f),
         \A d \in Calls : (TookModel(d)' <=> TookModel(d)) /\ (TookEffort(d)' <=> TookEffort(d)),
         UNCHANGED <<ag, tx, call>>
  PROVE  ModelInv' /\ EffortInv'
  <1>1. \A i \in DOMAIN tx : tx[i].kind = "catalog" => tx[i].k \in Catalogs
    BY DEF SettingsInv, SettingsShape, PipesShape, IsMessage
  <1>2. Loaded => row' \in Rows
    BY DEF Loaded
  <1>3. Loaded => \A i \in DOMAIN tx : tx[i].kind = "catalog" =>
          /\ WithCatalog(row', tx[i].k).model = WithCatalog(row, tx[i].k).model
          /\ WithCatalog(row', tx[i].k).effort = WithCatalog(row, tx[i].k).effort
    BY <1>1, <1>2, SameCatalog
  <1>4. ModelInv'
    <2> SUFFICES ASSUME Free("model"), Loaded PROVE ModelInv'
      BY FieldSplit DEF ModelInv, Free
    <2> QED
      BY <1>3, FieldSplit DEF SettingsInv, ModelInv, CatalogAhead
  <1>5. EffortInv'
    <2> SUFFICES ASSUME Free("effort"), Loaded PROVE EffortInv'
      BY FieldSplit DEF EffortInv, Free
    <2> QED
      BY <1>3, FieldSplit DEF SettingsInv, EffortInv, CatalogAhead
  <1> QED
    BY <1>4, <1>5

LEMMA WritesPermInv == ASSUME SettingsInv, NEW c \in Calls, WritesPerm(c) PROVE SettingsInv'
  <1> DEFINE n == [note[c] EXCEPT !.perm = call[c].perm]
  <1>1. /\ pc[c] = "write" /\ pc' = [pc EXCEPT ![c] = "tell"] /\ req' = Append(req, Request(c, "perm"))
        /\ note' = [note EXCEPT ![c].perm = call[c].perm]
        /\ UNCHANGED <<external, tx, row, permMode, screens, call, warned, table, files, excused, moves>>
    BY DEF WritesPerm
  <1>2. note' = [note EXCEPT ![c] = n]
    BY <1>1 DEF SettingsInv, SettingsShape, CopiesShape
  <1>3. call[c].op = "perm" /\ call[c].perm \in Perms /\ "tell" \in PlacesOf(call[c].op)
    BY <1>1, WhereFacts, WishFields, NoWish DEF PlacesOf, None
  <1>4. note[c] = Nothing
    BY <1>1 DEF SettingsInv, NotesFit
  <1>5. n \in Changes /\ \A f \in Fields : n[f] = IF f = "perm" THEN call[c].perm ELSE None
    BY <1>3, <1>4, NothingSaid, FieldSplit DEF Changes
  <1> HIDE DEF n
  <1>6. call[c].perm # None
    BY <1>3, NoValue
  <1>7. \A f \in Fields : n[f] # None => f \in Touches(c)
    BY <1>3, <1>5, TouchesFacts
  <1>8. row' \in Rows \cup {NoRow} /\ (Loaded' <=> Loaded) /\ pc[c] \in Storing
    BY <1>1 DEF SettingsInv, SettingsShape, CopiesShape, Loaded, Storing
  <1>9. /\ SettingsShape' /\ RequestsFit' /\ AnswersFit' /\ NewsFit' /\ NotesFit' /\ ToggledOnce' /\ Waited'
        /\ CatalogInv' /\ ExclusiveInv' /\ NewsInv'
        /\ \A d \in Calls : (Deep(d)' <=> Deep(d)) /\ (Pending(d)' <=> Pending(d)) /\ (Toggling(d)' <=> Toggling(d))
        /\ \A d \in Calls : pc'[d] = IF d = c THEN "tell" ELSE pc[d]
        /\ \A x \in Calls \cup {Reader} : note'[x] = IF x = c THEN n ELSE note[x]
        /\ Deep(c) /\ Pending(c)
        /\ \A f \in Fields : Free(f)' <=> Free(f)
    BY <1>1, <1>2, <1>3, <1>5, <1>7, <1>8, StoreFacts
  <1>10. Free("perm") => call[c].perm = permMode
    BY <1>3, <1>9 DEF SettingsInv, PermInv
  <1>11. ToldInv' /\ HelloInv'
    <2>1. \A f \in Fields : Snapshot'[f] = Snapshot[f] /\ (f = "perm" => Snapshot[f] = permMode)
      BY <1>1 DEF Snapshot
    <2>2. \A f \in Fields : Free(f) => Snapshot'[f] = IF n[f] = None THEN Snapshot[f] ELSE n[f]
      BY <1>5, <1>6, <1>10, <2>1
    <2>3. n["perm"] # None
      BY <1>5, <1>6, FieldSplit
    <2> QED
      BY ZenonT(40), <1>1, <1>4, <1>7, <1>8, <1>9, <2>2, <2>3, StoreTold DEF screens
  <1>12. \A d \in Calls : (TookModel(d)' <=> TookModel(d)) /\ (TookEffort(d)' <=> TookEffort(d)) /\ (Half(d)' <=> Half(d))
    <2>1. \A d \in Calls : (TookModel(d)' <=> TookModel(d)) /\ (TookEffort(d)' <=> TookEffort(d))
      BY <1>1, <1>9, SameTook
    <2>2. \A d \in Calls : Half(d)' <=> Half(d)
      BY <1>1, <1>3, <1>9 DEF Half
    <2> QED
      BY <2>1, <2>2
  <1>13. ModelInv' /\ EffortInv'
    BY <1>1, <1>8, <1>9, <1>12, SameModels DEF external
  <1>14. ModeInv'
    BY <1>1, <1>9, <1>12, FieldSplit DEF SettingsInv, ModeInv, external
  <1>15. PermInv'
    <2>1. \E i \in DOMAIN req' : req'[i].ask = "perm"
      <3>1. "perm" \in Asked /\ req \in Seq(Requests)
        BY DEF Asked, SettingsInv, SettingsShape, PipesShape
      <3> QED
        BY <1>1, <3>1, AskedOne
    <2> QED
      BY <1>1, <1>9, <2>1, FieldSplit DEF SettingsInv, PermInv
  <1>16. AdoptedInv'
    BY <1>1, <1>3, <1>9, StillAdopted DEF SettingsInv, external
  <1> QED
    BY <1>9, <1>11, <1>13, <1>14, <1>15, <1>16 DEF SettingsInv

LEMMA FlipsInv == ASSUME SettingsInv, NEW c \in Calls, Flips(c) PROVE SettingsInv'
  <1> DEFINE m == IF Loaded /\ row.mode = "plan" THEN "default" ELSE "plan"
             n == [note[c] EXCEPT !.mode = m]
  <1>1. /\ pc[c] = "flip" /\ pc' = [pc EXCEPT ![c] = "tell"]
        /\ row' = IF Loaded THEN [row EXCEPT !.mode = m] ELSE row
        /\ note' = [note EXCEPT ![c].mode = m]
        /\ UNCHANGED <<external, pipes, permMode, screens, call, warned, table, files, excused, moves>>
    BY DEF Flips
  <1>2. note' = [note EXCEPT ![c] = n]
    BY <1>1 DEF SettingsInv, SettingsShape, CopiesShape
  <1>m. m \in Modes /\ m # None /\ (Loaded => m = Flip(row.mode))
    BY DEF Modes, Flip, None
  <1>3. call[c].op = "toggle" /\ "tell" \in PlacesOf(call[c].op)
    BY <1>1, WhereFacts DEF PlacesOf, None
  <1>4. note[c] = Nothing
    BY <1>1 DEF SettingsInv, NotesFit
  <1> HIDE DEF m
  <1>5. n \in Changes /\ \A f \in Fields : n[f] = IF f = "mode" THEN m ELSE None
    BY <1>m, <1>4, NothingSaid, FieldSplit DEF Changes
  <1> HIDE DEF n
  <1>7. \A f \in Fields : n[f] # None => f \in Touches(c)
    BY <1>3, <1>5, TouchesFacts
  <1>8. /\ row' \in Rows \cup {NoRow} /\ (Loaded' <=> Loaded) /\ pc[c] \in Storing
        /\ Loaded => row'.mode = m /\ row'["mode"] = m /\ row'.model = row.model /\ row'.effort = row.effort
        /\ Loaded => row'["model"] = row["model"] /\ row'["effort"] = row["effort"]
        /\ ~Loaded => row' = row
    <2>1. CASE Loaded
      <3>1. row \in Rows /\ row' = [row EXCEPT !.mode = m]
        BY <1>1, <2>1, LoadedFacts
      <3>2. row' \in Rows /\ row' # NoRow
        BY <1>m, <3>1, NoValue DEF Rows, NoRow
      <3> QED
        BY <1>1, <1>m, <2>1, <3>1, <3>2 DEF Rows, Loaded, Storing
    <2>2. CASE ~Loaded
      BY <1>1, <2>2 DEF SettingsInv, SettingsShape, CopiesShape, Loaded, Storing
    <2> QED
      BY <2>1, <2>2
  <1>9. /\ SettingsShape' /\ RequestsFit' /\ AnswersFit' /\ NewsFit' /\ NotesFit' /\ ToggledOnce' /\ Waited'
        /\ CatalogInv' /\ ExclusiveInv' /\ NewsInv'
        /\ \A d \in Calls : (Deep(d)' <=> Deep(d)) /\ (Pending(d)' <=> Pending(d)) /\ (Toggling(d)' <=> Toggling(d))
        /\ \A d \in Calls : pc'[d] = IF d = c THEN "tell" ELSE pc[d]
        /\ \A x \in Calls \cup {Reader} : note'[x] = IF x = c THEN n ELSE note[x]
        /\ Deep(c) /\ Pending(c)
        /\ \A f \in Fields : Free(f)' <=> Free(f)
    BY <1>1, <1>2, <1>3, <1>5, <1>7, <1>8, StoreFacts DEF pipes
  <1>11. ToldInv' /\ HelloInv'
    <2>1. \A f \in Fields : Free(f) => Snapshot'[f] = IF f = "mode" THEN m ELSE Snapshot[f]
      <3> SUFFICES ASSUME NEW f \in Fields, Free(f) PROVE Snapshot'[f] = IF f = "mode" THEN m ELSE Snapshot[f]
        OBVIOUS
      <3>1. CASE f = "perm"
        BY <1>1, <3>1 DEF Snapshot
      <3>2. CASE f # "perm"
        BY <1>8, <3>2, FieldSplit DEF Snapshot, Free
      <3> QED
        BY <3>1, <3>2
    <2>2. \A f \in Fields : Free(f) => Snapshot'[f] = IF n[f] = None THEN Snapshot[f] ELSE n[f]
      BY <1>m, <1>5, <2>1
    <2>3. pc[c] # "write"
      BY <1>1
    <2>4. pc'[c] \in {"tell", "tell option"} /\ \A d \in Calls : d # c => pc'[d] = pc[d]
      BY <1>9
    <2>5. UNCHANGED <<told, seen, missed, call, excused>> /\ pc[c] \in Storing
      BY <1>1, <1>8 DEF screens
    <2> QED
      BY <1>4, <1>7, <1>9, <2>2, <2>3, <2>4, <2>5, StoreTold
  <1>12. \A d \in Calls : /\ (TookModel(d)' <=> TookModel(d)) /\ (TookEffort(d)' <=> TookEffort(d))
                          /\ d # c => (Half(d)' <=> Half(d))
    <2>1. \A d \in Calls : (TookModel(d)' <=> TookModel(d)) /\ (TookEffort(d)' <=> TookEffort(d))
      BY <1>1, <1>9, SameTook DEF pipes
    <2>2. \A d \in Calls : d # c => (Half(d)' <=> Half(d))
      BY <1>1, <1>3, <1>9 DEF Half
    <2> QED
      BY <2>1, <2>2
  <1>13. ModelInv' /\ EffortInv'
    BY <1>1, <1>8, <1>9, <1>12, SameModels DEF external, pipes
  <1>14. ModeInv'
    <2> SUFFICES ASSUME Free("mode")
                 PROVE  /\ \A d \in Calls : call[d].op = "mode" /\ Pending(d) => call[d].mode = ag.mode
                        /\ \/ row'.mode = ag.mode
                           \/ Half(c)'
                        /\ \A d \in Calls : Half(d)' => row'.mode = Flip(ag.mode)
      BY <1>1, <1>9, FieldSplit DEF ModeInv, external
    <2>1. Loaded /\ row'.mode = Flip(row.mode) /\ row.mode \in Modes /\ ag.mode \in Modes
      BY <1>8, <1>m, LoadedFacts DEF Free, Rows, SettingsInv, SettingsShape, AgentShape, Sessions
    <2>2. "mode" \in Fields /\ Group("mode") \notin excused /\ Group("mode") \in Touches(c) /\ Group("mode") = "mode"
      BY <1>3, TouchesFacts, FieldSplit DEF Free
    <2>3. /\ \A d \in Calls : Pending(d) /\ "mode" \in Touches(d) => d = c
          /\ \A i \in DOMAIN tx : tx[i].new["mode"] # None => tx[i].by = c
      BY <1>9, <2>2, AloneFacts
    <2>4. \A d \in Calls : Half(d) => d = c
      BY <2>3, OpenFacts
    <2>5. \A i \in DOMAIN tx : tx[i].new["mode"] = None
      <3> SUFFICES ASSUME NEW i \in DOMAIN tx, tx[i].by = c, tx[i].new["mode"] # None PROVE FALSE
        BY <2>3
      <3>1. tx[i].kind = "news"
        BY NoValue, NothingSaid, FieldSplit DEF SettingsInv, SettingsShape, PipesShape, IsMessage
      <3> QED
        BY <1>3, <3>1, NoValue DEF SettingsInv, NewsFit
    <2>6. /\ \A d \in Calls : call[d].op = "mode" /\ Pending(d) => call[d].mode = ag.mode
          /\ row.mode = ag.mode \/ Half(c)
          /\ Half(c) => row.mode = Flip(ag.mode)
      BY <2>4, <2>5 DEF SettingsInv, ModeInv
    <2>7. Half(c)' <=> ~Half(c)
      BY <1>1, <1>3, <1>9 DEF Half
    <2>8. \A d \in Calls : Half(d)' => d = c
      BY <1>12, <2>4
    <2> QED
      BY <2>1, <2>6, <2>7, <2>8 DEF Flip, Modes
  <1>15. PermInv'
    <2>1. \A d \in Calls : pc'[d] = "write" <=> pc[d] = "write"
      BY <1>1, <1>9
    <2> QED
      BY <1>1, <1>9, <2>1, FieldSplit DEF SettingsInv, PermInv, external, pipes
  <1>16. AdoptedInv'
    BY <1>1, <1>3, <1>9, StillAdopted DEF SettingsInv, external, pipes
  <1> QED
    BY <1>9, <1>11, <1>13, <1>14, <1>15, <1>16 DEF SettingsInv

LEMMA StoredFacts ==
  ASSUME SettingsInv, NEW c \in Calls, pc[c] \in {"took mode", "took option", "took effort", "took old"}
  PROVE  /\ Stored(c) \in Changes /\ Stored(c)["perm"] = None
         /\ Stored(c)["mode"] = IF pc[c] = "took mode" THEN call[c].mode ELSE None
         /\ Stored(c)["model"] = IF pc[c] \in {"took option", "took old"} THEN call[c].model ELSE None
         /\ Stored(c)["effort"] = IF pc[c] \in {"took effort", "took old"} THEN call[c].effort ELSE None
         /\ pc[c] = "took mode" => call[c].op = "mode" /\ call[c].mode \in Modes
         /\ pc[c] \in {"took option", "took old"} => call[c].op \in {"model", "default"} /\ call[c].model \in Models
         /\ pc[c] = "took effort" => call[c].op \in {"model", "default", "effort"}
         /\ call[c].effort \in Efforts \cup {None}
  <1> DEFINE w == call[c]
  <1>1. /\ pc[c] = "took mode" => w.op = "mode"
        /\ pc[c] \in {"took option", "took old"} => w.op \in {"model", "default"}
        /\ pc[c] = "took effort" => w.op \in {"model", "default", "effort"}
        /\ w \in Wishes
    BY WhereFacts, NoWish
  <1> HIDE DEF w
  <1>2. /\ w.mode \in Modes \cup {None} /\ w.model \in Models \cup {None} /\ w.effort \in Efforts \cup {None}
        /\ w.op = "mode" => w.mode \in Modes
        /\ w.op \in {"model", "default"} => w.model \in Models
    BY <1>1, WishFields
  <1>3. CASE pc[c] = "took mode"
    <2>1. Stored(c) = [Nothing EXCEPT !.mode = w.mode]
      BY <1>3 DEF Stored, w
    <2> QED
      BY <1>1, <1>2, <1>3, <2>1, NothingSaid DEF Nothing, Changes, Fields, w
  <1>4. CASE pc[c] = "took option"
    <2>1. Stored(c) = [Nothing EXCEPT !.model = w.model]
      BY <1>4 DEF Stored, w
    <2> QED
      BY <1>1, <1>2, <1>4, <2>1, NothingSaid DEF Nothing, Changes, Fields, w
  <1>5. CASE pc[c] = "took effort"
    <2>1. Stored(c) = [Nothing EXCEPT !.effort = w.effort]
      BY <1>5 DEF Stored, w
    <2> QED
      BY <1>1, <1>2, <1>5, <2>1, NothingSaid DEF Nothing, Changes, Fields, w
  <1>6. CASE pc[c] = "took old"
    <2>1. Stored(c) = [Nothing EXCEPT !.model = w.model, !.effort = w.effort]
      BY <1>6 DEF Stored, w
    <2> QED
      BY <1>1, <1>2, <1>6, <2>1, NothingSaid DEF Nothing, Changes, Fields, w
  <1> QED
    BY <1>3, <1>4, <1>5, <1>6

\* What the note of a row says.
LEMMA NoteFacts ==
  ASSUME NEW r \in Rows, NEW n, n = [Nothing EXCEPT !.model = r.model, !.effort = r.effort]
  PROVE  /\ n \in Changes /\ n["mode"] = None /\ n["perm"] = None
         /\ n["model"] = r["model"] /\ n["effort"] = r["effort"] /\ n["model"] # None /\ n["effort"] # None
  <1>1. r.model \in Models /\ r.effort \in Efforts \cup {Unset} /\ r.model # None /\ r.effort # None
    BY NoValue DEF Rows
  <1> QED
    BY <1>1, NothingSaid DEF Nothing, Changes, Fields

LEMMA StoresInv == ASSUME SettingsInv, NEW c \in Calls, Stores(c) PROVE SettingsInv'
  <1> DEFINE n == IF pc[c] = "took mode" THEN Stored(c)
                  ELSE IF Loaded THEN [Nothing EXCEPT !.model = row'.model, !.effort = row'.effort]
                  ELSE IF pc[c] = "took old" THEN Stored(c) ELSE Nothing
             p == IF pc[c] = "took option" THEN "tell option" ELSE "tell"
  <1>1. /\ pc[c] \in {"took mode", "took option", "took effort", "took old"}
        /\ row' = IF Loaded THEN Merge(row, Stored(c)) ELSE row
        /\ note' = [note EXCEPT ![c] = n]
        /\ pc' = [pc EXCEPT ![c] = p]
        /\ UNCHANGED <<external, pipes, permMode, screens, call, warned, table, files, excused, moves>>
    <2>1. pc \in [Calls -> Places] /\ note \in [Calls \cup {Reader} -> Changes]
      BY DEF SettingsInv, SettingsShape, CallsShape, CopiesShape
    <2> QED
      BY <2>1 DEF Stores
  <1>2. /\ pc[c] = "took mode" => call[c].op = "mode" /\ call[c].mode \in Modes
        /\ pc[c] \in {"took option", "took old"} => call[c].op \in {"model", "default"} /\ call[c].model \in Models
        /\ pc[c] = "took effort" => call[c].op \in {"model", "default", "effort"}
        /\ call[c].effort \in Efforts \cup {None}
        /\ call[c].op \in {"mode", "model", "default", "effort"}
        /\ call[c].op = "mode" <=> pc[c] = "took mode"
    BY <1>1, StoredFacts
  <1>3. p \in PlacesOf(call[c].op) /\ p \in {"tell", "tell option"}
    BY <1>1, <1>2 DEF PlacesOf, None, Switching
  <1>4. note[c] = Nothing
    BY <1>1 DEF SettingsInv, NotesFit
  <1>5. Loaded => /\ row' \in Rows
                  /\ row'.mode = row'["mode"] /\ row'.model = row'["model"] /\ row'.effort = row'["effort"]
                  /\ row'.mode = IF pc[c] = "took mode" THEN call[c].mode ELSE row.mode
                  /\ row'.model = IF pc[c] \in {"took option", "took old"} THEN call[c].model ELSE row.model
                  /\ row'.effort = IF pc[c] \in {"took effort", "took old"} /\ call[c].effort # None
                                     THEN call[c].effort ELSE row.effort
    <2> SUFFICES ASSUME Loaded
                 PROVE  /\ row' \in Rows
                        /\ row'["mode"] = IF pc[c] = "took mode" THEN call[c].mode ELSE row["mode"]
                        /\ row'["model"] = IF pc[c] \in {"took option", "took old"} THEN call[c].model ELSE row["model"]
                        /\ row'["effort"] = IF pc[c] \in {"took effort", "took old"} /\ call[c].effort # None
                                              THEN call[c].effort ELSE row["effort"]
      BY LoadedFacts DEF Rows
    <2>1. row' = Merge(row, Stored(c)) /\ row \in Rows /\ Stored(c) \in Changes
      BY <1>1, LoadedFacts, StoredFacts
    <2>2. /\ row' \in Rows
          /\ \A f \in {"mode", "model", "effort"} : row'[f] = IF Stored(c)[f] = None THEN row[f] ELSE Stored(c)[f]
      BY <2>1, MergedRow
    <2>3. /\ Stored(c)["mode"] = IF pc[c] = "took mode" THEN call[c].mode ELSE None
          /\ Stored(c)["model"] = IF pc[c] \in {"took option", "took old"} THEN call[c].model ELSE None
          /\ Stored(c)["effort"] = IF pc[c] \in {"took effort", "took old"} THEN call[c].effort ELSE None
      BY <1>1, StoredFacts
    <2> QED
      BY <1>2, <2>2, <2>3, NoValue
  <1>6. row' \in Rows \cup {NoRow} /\ (Loaded' <=> Loaded)
    <2>1. CASE Loaded
      <3>1. row' \in Rows /\ row'.mode \in Modes
        BY <1>5, <2>1 DEF Rows
      <3>2. row' # NoRow
        BY <3>1, NoValue DEF NoRow
      <3> QED
        BY <2>1, <3>1, <3>2 DEF Loaded
    <2>2. CASE ~Loaded
      BY <1>1, <2>2 DEF Loaded
    <2> QED
      BY <2>1, <2>2
  <1>7. /\ n \in Changes /\ n["perm"] = None
        /\ n["mode"] = IF pc[c] = "took mode" THEN call[c].mode ELSE None
        /\ pc[c] = "took mode" => n["model"] = None /\ n["effort"] = None
        /\ Loaded /\ pc[c] # "took mode" => /\ n["model"] = row'["model"] /\ n["effort"] = row'["effort"]
                                            /\ n["model"] # None /\ n["effort"] # None
    <2>1. CASE pc[c] = "took mode"
      BY <2>1, StoredFacts
    <2>2. CASE pc[c] # "took mode" /\ Loaded
      BY <1>5, <2>2, NoteFacts
    <2>3. CASE pc[c] # "took mode" /\ ~Loaded
      BY <1>1, <2>3, StoredFacts, NothingSaid DEF Fields
    <2> QED
      BY <2>1, <2>2, <2>3
  <1>8. \A f \in Fields : n[f] # None => f \in Touches(c)
    BY <1>1, <1>2, <1>7, TouchesFacts, FieldSplit
  <1> HIDE DEF n, p
  <1>9. /\ SettingsShape' /\ RequestsFit' /\ AnswersFit' /\ NewsFit' /\ NotesFit' /\ ToggledOnce' /\ Waited'
        /\ CatalogInv' /\ ExclusiveInv' /\ NewsInv'
        /\ \A d \in Calls : (Deep(d)' <=> Deep(d)) /\ (Pending(d)' <=> Pending(d)) /\ (Toggling(d)' <=> Toggling(d))
        /\ \A d \in Calls : pc'[d] = IF d = c THEN p ELSE pc[d]
        /\ \A x \in Calls \cup {Reader} : note'[x] = IF x = c THEN n ELSE note[x]
        /\ Deep(c) /\ Pending(c)
        /\ \A f \in Fields : Free(f)' <=> Free(f)
    <2>1. pc[c] \in Storing /\ req' = req /\ UNCHANGED <<external, tx, permMode, screens, call, warned, table, files, excused, moves>>
      BY <1>1 DEF Storing, pipes
    <2>2. n \in Changes /\ note' = [note EXCEPT ![c] = n] /\ pc' = [pc EXCEPT ![c] = p]
      BY <1>1, <1>7
    <2> QED
      BY ZenonT(40), <1>3, <1>6, <1>8, <2>1, <2>2, StoreFacts
  <1>11. ToldInv' /\ HelloInv'
    <2>1. ASSUME NEW f \in Fields, Free(f) PROVE Snapshot'[f] = IF n[f] = None THEN Snapshot[f] ELSE n[f]
      <3>1. CASE f = "perm"
        BY <1>1, <1>7, <3>1 DEF Snapshot
      <3>2. CASE f # "perm"
        <4>1. Loaded /\ row \in Rows /\ Snapshot[f] = row[f] /\ Snapshot'[f] = row'[f]
          BY <2>1, <3>2, LoadedFacts DEF Free, Snapshot
        <4>2. row.mode = row["mode"] /\ row.model = row["model"] /\ row.effort = row["effort"]
          OBVIOUS
        <4> QED
          BY ZenonT(40), <1>1, <1>2, <1>5, <1>7, <3>2, <4>1, <4>2, NoValue, FieldSplit
      <3> QED
        BY <3>1, <3>2
    <2>3. pc[c] # "write"
      BY <1>1
    <2>4. pc'[c] \in {"tell", "tell option"} /\ \A d \in Calls : d # c => pc'[d] = pc[d]
      BY <1>3, <1>9
    <2>5. UNCHANGED <<told, seen, missed, call, excused>> /\ pc[c] \in Storing
      BY <1>1 DEF screens, Storing
    <2> QED
      BY <1>4, <1>8, <1>9, <2>1, <2>3, <2>4, <2>5, StoreTold
  <1>12. \A d \in Calls : Half(d)' <=> Half(d)
    BY <1>1, <1>2, <1>9 DEF Half
  <1>13. PermInv'
    <2>1. \A d \in Calls : pc'[d] = "write" <=> pc[d] = "write"
      BY <1>1, <1>3, <1>9
    <2> QED
      BY <1>1, <1>9, <2>1, FieldSplit DEF SettingsInv, PermInv, external, pipes
  <1>14. AdoptedInv'
    <2>1. p = "tell option" => "model" \in adopted[c]
      BY DEF SettingsInv, AdoptedInv, p
    <2>2. call[c].op \in {"model", "effort"} /\ p = "tell" => {f \in {"model", "effort"} : call[c][f] # None} \subseteq adopted[c]
      <3>1. CASE pc[c] = "took effort"
        <4>1. call[c].op = "model" => "model" \in adopted[c]
          BY <3>1 DEF SettingsInv, AdoptedInv
        <4>2. call[c].op = "effort" => call[c]["model"] = None
          BY <3>1, WhereFacts, WishFields, NoWish
        <4>3. "effort" \in adopted[c]
          BY <3>1 DEF SettingsInv, AdoptedInv
        <4> QED
          BY <4>1, <4>2, <4>3
      <3>2. CASE pc[c] = "took old"
        <4>1. PartsOf(call[c], "old") \subseteq adopted[c]
          BY <3>2 DEF SettingsInv, AdoptedInv
        <4> QED
          BY <4>1 DEF PartsOf
      <3> QED
        BY <1>1, <1>2, <3>1, <3>2 DEF p
    <2> QED
      BY <1>1, <1>3, <1>9, <2>1, <2>2, StillAdopted DEF SettingsInv, external, pipes
  <1>15. ModeInv' /\ ModelInv' /\ EffortInv'
    <2>1. CASE pc[c] = "took mode"
      <3>1. \A d \in Calls : (TookModel(d)' <=> TookModel(d)) /\ (TookEffort(d)' <=> TookEffort(d))
        <4>1. p = "tell" /\ UNCHANGED <<tx, call>>
          BY <1>1, <2>1 DEF pipes, p
        <4>2. \A d \in Calls : pc'[d] = pc[d] \/ {pc[d], pc'[d]} \cap {"took option", "took effort", "took old"} = {}
          BY <1>9, <2>1, <4>1
        <4> QED
          BY <4>1, <4>2, SameTook
      <3>2. ModelInv' /\ EffortInv'
        BY <1>1, <1>5, <1>6, <1>9, <2>1, <3>1, SameModels DEF external, pipes
      <3>3. ModeInv'
        <4> SUFFICES ASSUME Free("mode")
                     PROVE  /\ \A d \in Calls : call[d].op = "mode" /\ Pending(d) => call[d].mode = ag.mode
                            /\ row'.mode = ag.mode
                            /\ \A d \in Calls : ~Half(d)
          BY <1>1, <1>9, <1>12, FieldSplit DEF ModeInv, external
        <4>1. \A d \in Calls : call[d].op = "mode" /\ Pending(d) => call[d].mode = ag.mode
          BY DEF SettingsInv, ModeInv
        <4>2. row'.mode = ag.mode
          BY <1>2, <1>5, <1>9, <2>1, <4>1 DEF Free
        <4>3. Group("mode") = "mode" /\ "mode" \in Fields /\ Group("mode") \notin excused /\ "mode" \in Touches(c)
          BY <1>2, <2>1, TouchesFacts, FieldSplit DEF Free
        <4>4. \A d \in Calls : Half(d) => d = c
          BY <1>9, <4>3, AloneFacts, OpenFacts
        <4>5. ~Half(c)
          BY <1>2, <2>1 DEF Half
        <4> QED
          BY <4>1, <4>2, <4>4, <4>5
      <3> QED
        BY <3>2, <3>3
    <2>2. CASE pc[c] # "took mode"
      <3>0. "model" \in Touches(c)
        BY <1>2, <2>2, TouchesFacts
      <3>1. ModeInv'
        <4> SUFFICES ASSUME Free("mode") PROVE ModeInv'
          BY <1>9, FieldSplit DEF ModeInv
        <4>1. row'.mode = row.mode
          BY <1>5, <2>2 DEF Free
        <4> QED
          BY <1>1, <1>9, <1>12, <4>1 DEF SettingsInv, ModeInv, external, pipes
      <3>2. ASSUME "model" \notin excused
            PROVE  /\ \A i \in DOMAIN tx : tx[i].kind # "catalog" /\ tx[i].new.model = None /\ tx[i].new.effort = None
                   /\ \A d \in Calls : TookModel(d) \/ TookEffort(d) => d = c
        <4>1. /\ Group("model") = "model" /\ Group("effort") = "model" /\ "model" \in Fields /\ "effort" \in Fields
          BY FieldSplit
        <4>2. \A i \in DOMAIN tx : tx[i].kind # "catalog" /\ tx[i].new.model = None
          BY <1>9, <3>0, <3>2, <4>1, AloneFacts
        <4>3. \A i \in DOMAIN tx : tx[i].new.effort = None
          BY <1>9, <3>0, <3>2, <4>1, AloneFacts
        <4>4. \A d \in Calls : Pending(d) /\ "model" \in Touches(d) => d = c
          BY <1>9, <3>0, <3>2, <4>1, AloneFacts
        <4> QED
          BY <4>2, <4>3, <4>4, OpenFacts
      <3>3. /\ \A d \in Calls : (TookModel(d)' => TookModel(d)) /\ (TookEffort(d)' => TookEffort(d))
            /\ pc[c] \notin {"took option", "took old"} => (TookModel(c)' <=> TookModel(c))
            /\ ~(pc[c] = "took effort" \/ (pc[c] = "took old" /\ call[c].effort # None)) => (TookEffort(c)' <=> TookEffort(c))
        <4>1. \A d \in Calls, i \in DOMAIN tx : Accepted(i, d)' <=> Accepted(i, d)
          BY <1>1 DEF Accepted, pipes
        <4> QED
          BY <1>1, <1>3, <1>9, <4>1 DEF TookModel, TookEffort, pipes
      <3>4. ModelInv'
        <4> SUFFICES ASSUME Free("model") PROVE ModelInv'
          BY <1>9, FieldSplit DEF ModelInv
        <4>0. "model" \notin excused /\ Loaded /\ Loaded'
          BY <1>6, FieldSplit DEF Free
        <4> SUFFICES /\ \A d \in Calls : TookModel(d)' => call[d].model = ag.model
                     /\ row'.model = ag.model \/ TookModel(c)'
          BY <1>1, <1>9, <3>2, <4>0, FieldSplit DEF ModelInv, external, pipes
        <4>1. /\ \A d \in Calls : TookModel(d) => call[d].model = ag.model
              /\ row.model = ag.model \/ TookModel(c)
          BY <3>2, <4>0 DEF SettingsInv, ModelInv, CatalogAhead
        <4>2. pc[c] \in {"took option", "took old"} => TookModel(c)
          BY DEF TookModel
        <4> QED
          BY <1>5, <3>3, <4>0, <4>1, <4>2
      <3>5. EffortInv'
        <4> SUFFICES ASSUME Free("effort") PROVE EffortInv'
          BY <1>9, FieldSplit DEF EffortInv
        <4>0. "model" \notin excused /\ Loaded /\ Loaded'
          BY <1>6, FieldSplit DEF Free
        <4> SUFFICES /\ \A d \in Calls : TookEffort(d)' => call[d].effort = ag.effort
                     /\ row'.effort \in {ag.effort, Unset} \/ TookEffort(c)'
          BY <1>1, <1>9, <3>2, <4>0, FieldSplit DEF EffortInv, external, pipes
        <4>1. /\ \A d \in Calls : TookEffort(d) => call[d].effort = ag.effort
              /\ row.effort \in {ag.effort, Unset} \/ TookEffort(c)
          BY <3>2, <4>0 DEF SettingsInv, EffortInv, CatalogAhead
        <4>2. pc[c] = "took effort" \/ (pc[c] = "took old" /\ call[c].effort # None) => TookEffort(c)
          BY DEF TookEffort
        <4>3. pc[c] = "took effort" => call[c].effort # None
          BY <4>1, <4>2, NoValue, DefaultFacts DEF SettingsInv, SettingsShape, AgentShape, Sessions
        <4> QED
          BY <1>5, <3>3, <4>0, <4>1, <4>2, <4>3
      <3> QED
        BY <3>1, <3>4, <3>5
    <2> QED
      BY <2>1, <2>2
  <1> QED
    BY <1>9, <1>11, <1>13, <1>14, <1>15 DEF SettingsInv

(***************************************************************************)
(* Settings: a new call.                                                   *)
(***************************************************************************)
Starts == {"mode", "effort", "flip", "option", "file", "dismiss", "hello", "write"}

\* How call w of c starts: at p, having asked for q if it asks.
Started(c, w, p, q) ==
  /\ pc' = [pc EXCEPT ![c] = p] /\ call' = [call EXCEPT ![c] = w]
  /\ seen' = IF w.op = "hello" THEN [seen EXCEPT ![c] = Snapshot] ELSE seen
  /\ p \in PlacesOf(w.op) /\ q \in AsksOf(w.op) \cup {None}
  /\ q = None => req' = req
  /\ q # None => req' = Append(req, Request(c, q))
  /\ q \in Waiting => p = q
  /\ (p = "flip" <=> q = "toggle") /\ (p = "flip" <=> w.op = "toggle")
  /\ (p = "write" <=> w.op = "perm") /\ (p = "hello" <=> w.op = "hello") /\ (p = "effort" => w.op = "effort")
  /\ permMode' = IF w.op = "perm" THEN w.perm ELSE permMode
  /\ excused \subseteq excused' /\ excused' \subseteq excused \cup OpenAmong(Calls \ {c})
  /\ w.op = "toggle" => Apart({"mode"}, c) \subseteq excused'
  /\ w.op = "perm" => Apart({"perm", "perm told"}, c) \subseteq excused'

LEMMA StartFacts ==
  ASSUME NEW c \in Calls, Calling(c)
  PROVE  \E w \in Wishes, p \in Starts, q \in {"mode", "effort", "toggle", "option", None} : Started(c, w, p, q)
  <1> DEFINE Found == \E w \in Wishes, p \in Starts, q \in {"mode", "effort", "toggle", "option", None} : Started(c, w, p, q)
  <1> PICK w \in Wishes :
       /\ call' = [call EXCEPT ![c] = w]
       /\ seen' = IF w.op = "hello" THEN [seen EXCEPT ![c] = Snapshot] ELSE seen
       /\ \/ w.op \in {"mode", "effort"} /\ Asks(c, w.op) /\ UNCHANGED <<permMode, excused>>
          \/ /\ w.op = "toggle" /\ Asks(c, w.op) /\ UNCHANGED permMode
             /\ excused' = excused \cup Apart({"mode"}, c)
          \/ w.op = "model" /\ Asks(c, "option") /\ UNCHANGED <<permMode, excused>>
          \/ /\ w.op \in {"upsert", "delete", "disable", "enable", "default"}
             /\ pc' = [pc EXCEPT ![c] = IF w.op = "default" THEN "dismiss" ELSE "file"]
             /\ UNCHANGED <<req, permMode, excused>>
          \/ /\ w.op = "hello" /\ pc' = [pc EXCEPT ![c] = "hello"]
             /\ UNCHANGED <<req, permMode, excused>>
          \/ /\ w.op = "perm" /\ permMode' = w.perm
             /\ pc' = [pc EXCEPT ![c] = "write"]
             /\ excused' = excused \cup Apart({"perm", "perm told"}, c)
             /\ UNCHANGED req
    BY DEF Calling
  <1>0. \A fs : Apart(fs, c) \subseteq OpenAmong(Calls \ {c})
    BY DEF Apart
  <1>1. CASE w.op \in {"mode", "effort"} /\ Asks(c, w.op) /\ UNCHANGED <<permMode, excused>>
    <2>1. Started(c, w, w.op, w.op)
      BY <1>1 DEF Started, Asks, PlacesOf, AsksOf, None, Waiting
    <2>2. w.op \in Starts
      BY <1>1 DEF Starts
    <2> QED
      BY <1>1, <2>1, <2>2
  <1>2. CASE w.op = "toggle" /\ Asks(c, w.op) /\ permMode' = permMode /\ excused' = excused \cup Apart({"mode"}, c)
    <2>1. Started(c, w, "flip", "toggle")
      BY <1>0, <1>2 DEF Started, Asks, PlacesOf, AsksOf, None, Waiting
    <2> QED
      BY <2>1 DEF Starts
  <1>3. CASE w.op = "model" /\ Asks(c, "option") /\ UNCHANGED <<permMode, excused>>
    <2>1. Started(c, w, "option", "option")
      BY <1>3 DEF Started, Asks, PlacesOf, Switching, AsksOf, None, Waiting
    <2> QED
      BY <2>1 DEF Starts
  <1>4. CASE /\ w.op \in {"upsert", "delete", "disable", "enable", "default"}
             /\ pc' = [pc EXCEPT ![c] = IF w.op = "default" THEN "dismiss" ELSE "file"]
             /\ UNCHANGED <<req, permMode, excused>>
    <2> DEFINE p == IF w.op = "default" THEN "dismiss" ELSE "file"
    <2>1. Started(c, w, p, None)
      BY <1>4 DEF Started, PlacesOf, None, Waiting
    <2>2. p \in Starts
      BY DEF Starts
    <2> QED
      BY <2>1, <2>2
  <1>5. CASE w.op = "hello" /\ pc' = [pc EXCEPT ![c] = "hello"] /\ UNCHANGED <<req, permMode, excused>>
    <2>1. Started(c, w, "hello", None)
      BY <1>5 DEF Started, PlacesOf, None, Waiting
    <2> QED
      BY <2>1 DEF Starts
  <1>6. CASE /\ w.op = "perm" /\ permMode' = w.perm /\ pc' = [pc EXCEPT ![c] = "write"]
             /\ excused' = excused \cup Apart({"perm", "perm told"}, c) /\ req' = req
    <2>1. Started(c, w, "write", None)
      BY <1>0, <1>6 DEF Started, PlacesOf, None, Waiting
    <2> QED
      BY <2>1 DEF Starts
  <1> QED
    BY <1>1, <1>2, <1>3, <1>4, <1>5, <1>6

\* Nothing is left of a call that was not made yet.
LEMMA IdleFacts ==
  ASSUME SettingsInv, NEW c \in Calls, pc[c] = "idle"
  PROVE  /\ call[c].op = None /\ note[c] = Nothing /\ seen[c] = Nothing /\ c \notin warned
         /\ \A i \in DOMAIN req : req[i].by # c
         /\ \A i \in DOMAIN tx : tx[i].by # c
         /\ ~Pending(c) /\ ~Half(c) /\ ~TookModel(c) /\ ~TookEffort(c)
  <1>1. call[c].op = None
    BY WhereFacts
  <1>2. note[c] = Nothing
    BY DEF SettingsInv, NotesFit
  <1>3. seen[c] = Nothing /\ c \notin warned
    BY <1>1 DEF SettingsInv, SettingsShape, CopiesShape, CallsShape, Warnable, None
  <1>4. \A i \in DOMAIN req : req[i].by # c
    BY <1>1 DEF SettingsInv, RequestsFit, AsksOf, None
  <1>5. \A i \in DOMAIN tx : tx[i].kind = "answer" => tx[i].by # c
    BY <1>1 DEF SettingsInv, AnswersFit, AsksOf, None
  <1>6. \A i \in DOMAIN tx : tx[i].by # c
    <2> SUFFICES ASSUME NEW i \in DOMAIN tx, tx[i].by = c PROVE FALSE
      OBVIOUS
    <2>1. tx[i].kind = "news" /\ tx[i].by # Host
      BY <1>5, NoValue DEF SettingsInv, SettingsShape, PipesShape, IsMessage
    <2> QED
      BY <1>1, <2>1 DEF SettingsInv, NewsFit, None
  <1>7. ~Pending(c)
    BY <1>4, <1>6 DEF Pending, Deep, Accepted, Busy
  <1>8. ~Half(c) /\ ~TookModel(c) /\ ~TookEffort(c)
    BY <1>1, <1>7, OpenFacts
  <1> QED
    BY <1>1, <1>2, <1>3, <1>4, <1>6, <1>7, <1>8

LEMMA CallingInv == ASSUME SettingsInv, NEW c \in Calls, Calling(c) PROVE SettingsInv'
  <1>0. PICK w \in Wishes, p \in Starts, q \in {"mode", "effort", "toggle", "option", None} : Started(c, w, p, q)
    BY StartFacts
  <1>1. /\ pc[c] = "idle"
        /\ UNCHANGED <<external, tx, row, note, told, missed, warned, table, files, moves>>
    BY DEF Calling
  <1>2. /\ pc' = [pc EXCEPT ![c] = p] /\ call' = [call EXCEPT ![c] = w]
        /\ seen' = IF w.op = "hello" THEN [seen EXCEPT ![c] = Snapshot] ELSE seen
        /\ p \in PlacesOf(w.op) /\ q \in AsksOf(w.op) \cup {None}
        /\ q = None => req' = req
        /\ q # None => req' = Append(req, Request(c, q))
        /\ q \in Waiting => p = q
        /\ (p = "flip" <=> q = "toggle") /\ (p = "flip" <=> w.op = "toggle")
        /\ (p = "write" <=> w.op = "perm") /\ (p = "hello" <=> w.op = "hello") /\ (p = "effort" => w.op = "effort")
        /\ permMode' = IF w.op = "perm" THEN w.perm ELSE permMode
    BY <1>0 DEF Started
  <1>3. /\ excused \subseteq excused' /\ excused' \subseteq excused \cup OpenAmong(Calls \ {c})
        /\ w.op = "toggle" => Apart({"mode"}, c) \subseteq excused'
        /\ w.op = "perm" => Apart({"perm", "perm told"}, c) \subseteq excused'
    BY <1>0 DEF Started
  <1>4. /\ call[c].op = None /\ note[c] = Nothing /\ seen[c] = Nothing /\ c \notin warned
        /\ \A i \in DOMAIN req : req[i].by # c
        /\ \A i \in DOMAIN tx : tx[i].by # c
        /\ ~Pending(c) /\ ~Half(c) /\ ~TookModel(c) /\ ~TookEffort(c)
    BY <1>1, IdleFacts
  <1>5. SettingsShape /\ pc \in [Calls -> Places] /\ call \in [Calls -> Wishes \cup {Wish}] /\ req \in Seq(Requests)
        /\ seen \in [Calls -> Changes]
    BY DEF SettingsInv, SettingsShape, CallsShape, PipesShape, CopiesShape
  <1>6. \A d \in Calls : /\ pc'[d] = IF d = c THEN p ELSE pc[d]
                         /\ call'[d] = IF d = c THEN w ELSE call[d]
                         /\ d # c => seen'[d] = seen[d]
    BY <1>2, <1>5
  <1>7. seen'[c] = IF w.op = "hello" THEN Snapshot ELSE Nothing
    BY <1>2, <1>4, <1>5
  <1>8. p \in Starts /\ p \notin Busy \ {"flip", "write"} /\ p \notin {"on", "ok", "save", "tell", "tell option"} /\ p \in Places
    BY DEF Starts, Busy, Places, Waiting
  <1>9. /\ req' \in Seq(Requests)
        /\ \A i \in DOMAIN req : i \in DOMAIN req' /\ req'[i] = req[i]
        /\ \A i \in DOMAIN req' : i \in DOMAIN req \/ (q # None /\ i = Len(req) + 1 /\ req'[i].by = c /\ req'[i].ask = q)
        /\ q # None => \E i \in DOMAIN req' : req'[i].by = c /\ req'[i].ask = q
    <2>1. CASE q = None
      BY <1>2, <1>5, <2>1
    <2>2. CASE q # None
      <3>1. q \in Asked
        BY <2>2 DEF Asked
      <3>2. req' = Append(req, Request(c, q)) /\ req \in Seq(Requests)
        BY <1>2, <1>5, <2>2
      <3> QED
        BY <2>2, <3>1, <3>2, AskedOne
    <2> QED
      BY <2>1, <2>2
  <1>10. \A d \in Calls : d # c => Touches(d)' = Touches(d)
    BY <1>6 DEF Touches
  <1>11. permMode' \in Perms /\ (w.op = "perm" => w.perm \in Perms)
    BY <1>2, <1>5, WishFields DEF SettingsShape, CopiesShape
  <1>12. SettingsShape'
    <2>1. AgentShape'
      BY <1>1, <1>5 DEF SettingsShape, AgentShape, external
    <2>2. FilesShape'
      BY <1>1, <1>5, <1>6, <1>8 DEF SettingsShape, FilesShape, files
    <2>3. CopiesShape'
      <3>1. Snapshot \in Changes
        <4>1. row \in Rows \cup {NoRow} /\ permMode \in Perms
          BY <1>5 DEF SettingsShape, CopiesShape
        <4>2. row.mode \in Modes \cup {None} /\ row.model \in Models \cup {None} /\ row.effort \in Efforts \cup {Unset, None}
          BY <4>1 DEF Rows, NoRow
        <4>3. row.mode = row["mode"] /\ row.model = row["model"] /\ row.effort = row["effort"]
          OBVIOUS
        <4> QED
          BY <4>1, <4>2, <4>3 DEF Snapshot, Changes, Fields
      <3>2. seen' \in [Calls -> Changes]
        BY <1>2, <1>5, <3>1
      <3>3. \A d \in Calls : call'[d].op # "hello" => seen'[d] = Nothing
        BY <1>5, <1>6, <1>7 DEF SettingsShape, CopiesShape
      <3> QED
        BY <1>1, <1>5, <1>11, <3>2, <3>3 DEF SettingsShape, CopiesShape
    <2>4. PipesShape'
      BY <1>1, <1>5, <1>9 DEF SettingsShape, PipesShape
    <2>5. CallsShape'
      <3>1. warned' \subseteq Warnable'
        BY <1>1, <1>4, <1>5, <1>6 DEF SettingsShape, CallsShape, Warnable
      <3>2. \A d \in Calls : pc'[d] \in PlacesOf(call'[d].op)
        BY <1>2, <1>5, <1>6 DEF SettingsShape, CallsShape
      <3>3. pc' \in [Calls -> Places] /\ call' \in [Calls -> Wishes \cup {Wish}]
        BY <1>2, <1>5, <1>8
      <3> QED
        BY <1>1, <1>5, <3>1, <3>2, <3>3 DEF SettingsShape, CallsShape, external
    <2>6. BoundsShape'
      BY <1>1, <1>3, <1>5, OpenBounds DEF SettingsShape, BoundsShape
    <2> QED
      BY <2>1, <2>2, <2>3, <2>4, <2>5, <2>6 DEF SettingsShape
  <1>13. RequestsFit'
    <2>1. \A i \in DOMAIN req : req[i].by \in Calls
      BY <1>5, RequestOf
    <2> QED
      BY <1>2, <1>4, <1>6, <1>9, <2>1 DEF SettingsInv, RequestsFit
  <1>14. \A i \in DOMAIN tx : tx[i].by = Host \/ (tx[i].by \in Calls /\ call'[tx[i].by] = call[tx[i].by])
    <2>1. \A i \in DOMAIN tx : tx[i].by \in Calls \cup {Host}
      BY <1>5 DEF SettingsShape, PipesShape, IsMessage
    <2> QED
      BY <1>4, <1>6, <2>1
  <1>15. AnswersFit'
    <2>1. \A i \in DOMAIN tx : tx[i].kind = "answer" => tx[i].by \in Calls
      BY <1>5 DEF SettingsShape, PipesShape, IsMessage
    <2> QED
      BY <1>1, <1>14, <2>1, NoValue DEF SettingsInv, AnswersFit
  <1>16. NewsFit'
    BY <1>1, <1>14 DEF SettingsInv, NewsFit
  <1>17. NotesFit'
    <2>1. \A d \in Calls : note[d] # Nothing => pc'[d] \in {"tell", "tell option"}
      BY <1>4, <1>6 DEF SettingsInv, NotesFit
    <2>2. \A d \in Calls, f \in Fields : note[d][f] # None => f \in Touches(d)'
      BY <1>4, <1>10, NothingSaid DEF SettingsInv, NotesFit
    <2> QED
      BY <1>1, <2>1, <2>2 DEF SettingsInv, NotesFit
  <1>18. ToggledOnce'
    BY <1>4, <1>9 DEF SettingsInv, ToggledOnce
  <1>19. Waited'
    <2> SUFFICES ASSUME NEW d \in Calls, ~GivenUp(d)' PROVE Waits(d)'
      BY DEF Waited
    <2>1. CASE d = c
      <3>1. \A i \in DOMAIN tx : ~Answering(i, d)'
        BY <1>1, <1>4, <2>1 DEF Answering
      <3>2. \A i \in DOMAIN req' : Asking(i, d)' => i = Len(req) + 1 /\ req'[i].ask = q /\ pc'[d] = q
        BY <1>2, <1>4, <1>6, <1>9, <2>1 DEF Asking
      <3> QED
        BY <1>1, <3>1, <3>2 DEF Waits
    <2>2. CASE d # c
      <3>1. Waits(d)
        BY <1>3, <1>10, <2>2 DEF SettingsInv, Waited, GivenUp
      <3>2. \A i \in DOMAIN tx : Answering(i, d)' <=> Answering(i, d)
        BY <1>1 DEF Answering
      <3>3. \A i \in DOMAIN req' : Asking(i, d)' => i \in DOMAIN req /\ Asking(i, d) /\ req'[i] = req[i]
        BY <1>9, <2>2 DEF Asking
      <3>4. pc'[d] = pc[d]
        BY <1>6, <2>2
      <3>5. \A i \in DOMAIN req' : Asking(i, d)' => pc'[d] = req'[i].ask
        BY <3>1, <3>3, <3>4 DEF Waits
      <3>6. \A i \in DOMAIN tx : Answering(i, d)' => pc'[d] = tx[i].ask
        BY <3>1, <3>2, <3>4 DEF Waits
      <3>7. \A i, j \in DOMAIN req' : Asking(i, d)' /\ Asking(j, d)' => i = j
        BY <3>1, <3>3 DEF Waits
      <3>8. \A i, j \in DOMAIN tx : Answering(i, d)' /\ Answering(j, d)' => i = j
        BY <3>1, <3>2 DEF Waits
      <3>9. \A i \in DOMAIN req', j \in DOMAIN tx : ~(Asking(i, d)' /\ Answering(j, d)')
        BY <3>1, <3>2, <3>3 DEF Waits
      <3> QED
        BY <1>1, <3>5, <3>6, <3>7, <3>8, <3>9 DEF Waits
    <2> QED
      BY <2>1, <2>2
  <1>20. AdoptedInv'
    <2>1. \A i \in DOMAIN tx : tx[i].kind = "answer" /\ tx[i].ok =>
            PartsOf(call'[tx[i].by], tx[i].ask) \subseteq adopted[tx[i].by]
      <3>1. \A i \in DOMAIN tx : tx[i].kind = "answer" => tx[i].by # Host
        BY <1>5, NoValue DEF SettingsShape, PipesShape, IsMessage
      <3> QED
        BY <1>14, <3>1 DEF SettingsInv, AdoptedInv
    <2>2. \A d \in Calls :
            /\ pc'[d] \in {"took option", "tell option"} => "model" \in adopted[d]
            /\ pc'[d] = "took effort" => "effort" \in adopted[d]
            /\ pc'[d] \in {"effort", "took effort"} /\ call'[d].op = "model" => "model" \in adopted[d]
            /\ pc'[d] = "took old" => PartsOf(call'[d], "old") \subseteq adopted[d]
            /\ pc'[d] \in {"tell", "ok"} /\ call'[d].op \in {"model", "effort"} =>
                 {f \in {"model", "effort"} : call'[d][f] # None} \subseteq adopted[d]
      <3> SUFFICES ASSUME NEW d \in Calls
                   PROVE  /\ pc'[d] \in {"took option", "tell option"} => "model" \in adopted[d]
                          /\ pc'[d] = "took effort" => "effort" \in adopted[d]
                          /\ pc'[d] \in {"effort", "took effort"} /\ call'[d].op = "model" => "model" \in adopted[d]
                          /\ pc'[d] = "took old" => PartsOf(call'[d], "old") \subseteq adopted[d]
                          /\ pc'[d] \in {"tell", "ok"} /\ call'[d].op \in {"model", "effort"} =>
                               {f \in {"model", "effort"} : call'[d][f] # None} \subseteq adopted[d]
        OBVIOUS
      <3>1. CASE d = c
        BY <1>2, <1>6, <1>8, <3>1 DEF Busy
      <3>2. CASE d # c
        BY <1>6, <3>2 DEF SettingsInv, AdoptedInv
      <3> QED
        BY <3>1, <3>2
    <2> QED
      BY <1>1, <2>1, <2>2 DEF AdoptedInv, external
  <1>21. CatalogInv'
    <2>1. Reloading => Reloading'
      BY <1>9 DEF Reloading
    <2>2. \A d \in Calls : call[d].op = "default" => call'[d] = call[d] /\ pc'[d] = pc[d]
      BY <1>4, <1>6 DEF None
    <2> QED
      BY <1>1, <2>1, <2>2 DEF SettingsInv, CatalogInv, external, files
  <1>22. \A d \in Calls : d # c => (Deep(d)' <=> Deep(d)) /\ (Pending(d)' <=> Pending(d)) /\ (Half(d)' <=> Half(d))
    <2> SUFFICES ASSUME NEW d \in Calls, d # c
                 PROVE  (Deep(d)' <=> Deep(d)) /\ (Pending(d)' <=> Pending(d)) /\ (Half(d)' <=> Half(d))
      OBVIOUS
    <2>1. Deep(d)' <=> Deep(d)
      BY <1>6, <1>9 DEF Deep
    <2>2. \A i \in DOMAIN tx : Accepted(i, d)' <=> Accepted(i, d)
      BY <1>1 DEF Accepted
    <2>3. Half(d)' <=> Half(d)
      BY <1>6, <1>9 DEF Half, Toggling
    <2> QED
      BY <1>1, <2>1, <2>2, <2>3 DEF Pending
  <1>23. Pending(c)' => p \in {"flip", "write"}
    <2>1. \A i \in DOMAIN tx : ~Accepted(i, c)'
      BY <1>1, <1>4 DEF Accepted
    <2>2. Deep(c)' => p \in {"flip", "write"}
      BY <1>2, <1>4, <1>6, <1>8, <1>9 DEF Deep, None
    <2> QED
      BY <1>1, <2>1, <2>2 DEF Pending
  <1>24. \A d \in Calls : /\ (TookModel(d)' <=> TookModel(d)) /\ (TookEffort(d)' <=> TookEffort(d))
    <2> SUFFICES ASSUME NEW d \in Calls PROVE (TookModel(d)' <=> TookModel(d)) /\ (TookEffort(d)' <=> TookEffort(d))
      OBVIOUS
    <2>1. \A i \in DOMAIN tx : Accepted(i, d)' <=> Accepted(i, d)
      BY <1>1 DEF Accepted
    <2>2. CASE d = c
      BY <1>1, <1>4, <1>6, <1>8, <2>1, <2>2 DEF TookModel, TookEffort, Accepted, Busy
    <2>3. CASE d # c
      BY <1>1, <1>6, <2>1, <2>3 DEF TookModel, TookEffort
    <2> QED
      BY <2>2, <2>3
  <1>25. ~Half(c)'
    <2>1. CASE w.op # "toggle"
      BY <1>6, <2>1 DEF Half
    <2>2. CASE w.op = "toggle"
      <3>1. q # None
        BY <1>2, <2>2 DEF None
      <3>2. Toggling(c)'
        BY <1>2, <1>9, <2>2, <3>1 DEF Toggling
      <3> QED
        BY <1>2, <1>6, <2>2, <3>2 DEF Half
    <2> QED
      BY <2>1, <2>2
  <1>26. /\ w.op = "toggle" => Touches(c)' = {"mode"}
         /\ w.op = "perm" => Touches(c)' = {"perm", "perm told"}
    BY <1>6 DEF Touches
  <1>27. ASSUME NEW g \in {"mode", "perm"}, g \notin excused', Pending(c)', g \in Touches(c)'
         PROVE  /\ note[Reader][g] = None /\ \A d \in Calls : note[d][g] = None
                /\ \A d \in Calls : d # c /\ Pending(d) => g \notin Touches(d)
                /\ \A i \in DOMAIN tx : ~ByHost(i, g)
    <2>1. \/ w.op = "toggle" /\ g \in {"mode"}
          \/ w.op = "perm" /\ g \in {"perm", "perm told"}
      BY <1>2, <1>23, <1>26, <1>27
    <2>2. g \notin OpenAmong(Calls \ {c})
      BY <1>3, <1>27, <2>1 DEF Apart
    <2>3. g \in Fields /\ Group(g) = g /\ Calls \ {c} \subseteq Calls
      BY FieldSplit
    <2>4. /\ note[Reader][g] = None /\ \A d \in Calls \ {c} : note[d][g] = None
          /\ \A d \in Calls \ {c} : Pending(d) => g \notin Touches(d)
          /\ \A i \in DOMAIN tx : ~ByHost(i, g)
      BY <2>2, <2>3, ShutFacts
    <2> QED
      BY <1>4, <2>3, <2>4, NothingSaid
  <1>28. \A i \in DOMAIN tx, g \in Fields : ByHost(i, g)' <=> ByHost(i, g)
    BY <1>1 DEF ByHost
  <1>29. ExclusiveInv'
    <2> SUFFICES ASSUME NEW g \in {"mode", "model", "perm"}, g \notin excused' PROVE Exclusive(g)'
      BY DEF ExclusiveInv
    <2>1. Exclusive(g) /\ g \in Fields
      BY <1>3 DEF SettingsInv, ExclusiveInv, Fields
    <2>2. CASE g \in Touches(c)' /\ Pending(c)'
      <3>1. g \in {"mode", "perm"}
        BY <1>2, <1>23, <1>26, <2>2
      <3>2. /\ note[Reader][g] = None
            /\ \A d \in Calls : d # c /\ Pending(d) => g \notin Touches(d)
            /\ \A i \in DOMAIN tx : ~ByHost(i, g)
        BY <1>27, <2>2, <3>1
      <3>3. \A d \in Calls : d # c => ~(g \in Touches(d)' /\ Pending(d)')
        BY <1>10, <1>22, <3>2
      <3>4. \A i \in DOMAIN tx : ~ByHost(i, g)'
        BY <1>28, <2>1, <3>2
      <3> QED
        BY <1>1, <3>2, <3>3, <3>4 DEF Exclusive
    <2>3. CASE ~(g \in Touches(c)' /\ Pending(c)')
      <3>1. \A d \in Calls : g \in Touches(d)' /\ Pending(d)' => d # c /\ g \in Touches(d) /\ Pending(d)
        BY <1>10, <1>22, <2>3
      <3>2. \A d \in Calls : g \in Touches(d)' /\ Deep(d)' => d # c /\ g \in Touches(d) /\ Deep(d)
        <4>1. \A d \in Calls : Deep(d)' => Pending(d)'
          BY DEF Pending
        <4> QED
          BY <1>22, <3>1, <4>1
      <3>3. \A c1, c2 \in Calls : (g \in Touches(c1) /\ g \in Touches(c2) /\ Pending(c1) /\ Pending(c2) => c1 = c2)'
        BY <2>1, <3>1 DEF Exclusive
      <3>4. \A d \in Calls, i \in DOMAIN tx : (g \in Touches(d) /\ Pending(d) => ~ByHost(i, g))'
        BY <1>28, <2>1, <3>1 DEF Exclusive
      <3>5. \A d \in Calls : (g \in Touches(d) /\ Deep(d) => note[Reader][g] = None)'
        BY <1>1, <2>1, <3>2 DEF Exclusive
      <3>6. \A i, j \in DOMAIN tx : (ByHost(i, g) /\ ByHost(j, g) => i = j)'
        BY <1>28, <2>1 DEF Exclusive
      <3>7. \A i \in DOMAIN tx : (ByHost(i, g) => note[Reader][g] = None)'
        BY <1>1, <1>28, <2>1 DEF Exclusive
      <3> QED
        BY <1>1, <3>3, <3>4, <3>5, <3>6, <3>7 DEF Exclusive
    <2> QED
      BY <2>2, <2>3
  <1>30. \A f \in Fields : Free(f)' => Free(f)
    BY <1>1, <1>3 DEF Free, Loaded
  <1>31. \A f \in Fields : Unsaid(f) => Unsaid(f)'
    <2>1. \A d \in Calls : pc[d] = "write" => pc'[d] = "write"
      BY <1>1, <1>6
    <2> QED
      BY <1>1, <2>1 DEF Unsaid
  <1>32. w.op = "perm" => Pending(c)' /\ "perm" \in Touches(c)' /\ pc'[c] = "write" /\ w.perm = permMode' /\ call'[c] = w
    BY <1>2, <1>6, <1>26 DEF Pending, Deep, Busy
  <1>33. ToldInv'
    <2> SUFFICES ASSUME NEW f \in Fields, Free(f)'
                 PROVE  /\ \A x \in Calls \cup {Reader} : note[x][f] \in {None, Snapshot'[f]}
                        /\ told[f] = Snapshot'[f] \/ Unsaid(f)' \/ (f = "perm" /\ "perm told" \in excused')
      BY <1>1 DEF ToldInv
    <2>1. /\ \A x \in Calls \cup {Reader} : note[x][f] \in {None, Snapshot[f]}
          /\ told[f] = Snapshot[f] \/ Unsaid(f) \/ (f = "perm" /\ "perm told" \in excused)
      BY <1>30 DEF SettingsInv, ToldInv
    <2>2. CASE f = "perm" /\ w.op = "perm"
      <3>1. Unsaid(f)'
        BY <1>32, <2>2 DEF Unsaid
      <3>2. \A x \in Calls \cup {Reader} : note[x][f] = None
        BY <1>27, <1>32, <2>2 DEF Free
      <3> QED
        BY <3>1, <3>2
    <2>3. CASE ~(f = "perm" /\ w.op = "perm")
      <3>1. Snapshot'[f] = Snapshot[f]
        BY <1>1, <1>2, <2>3 DEF Snapshot
      <3> QED
        BY <1>3, <1>31, <2>1, <3>1
    <2> QED
      BY <2>2, <2>3
  <1>34. NewsInv'
    BY <1>1, <1>30 DEF SettingsInv, NewsInv, external
  <1>35. ModeInv'
    <2> SUFFICES ASSUME Free("mode") PROVE ModeInv'
      BY <1>30, FieldSplit DEF ModeInv
    <2>1. \A d \in Calls : Half(d)' <=> Half(d)
      BY <1>4, <1>22, <1>25
    <2>2. \A d \in Calls : call'[d].op = "mode" /\ Pending(d)' => call[d].op = "mode" /\ Pending(d) /\ call'[d] = call[d]
      BY <1>2, <1>6, <1>22, <1>23
    <2> QED
      BY <1>1, <2>1, <2>2 DEF SettingsInv, ModeInv, external
  <1>36. \A d \in Calls : TookModel(d)' \/ TookEffort(d)' => call'[d] = call[d]
    BY <1>4, <1>6, <1>24
  <1>37. ModelInv'
    <2> SUFFICES ASSUME Free("model") PROVE ModelInv'
      BY <1>30, FieldSplit DEF ModelInv
    <2> QED
      BY <1>1, <1>24, <1>36 DEF SettingsInv, ModelInv, CatalogAhead, external
  <1>38. EffortInv'
    <2> SUFFICES ASSUME Free("effort") PROVE EffortInv'
      BY <1>30, FieldSplit DEF EffortInv
    <2> QED
      BY <1>1, <1>24, <1>36 DEF SettingsInv, EffortInv, CatalogAhead, external
  <1>39. PermInv'
    <2> SUFFICES ASSUME Free("perm")' PROVE PermInv'
      BY DEF PermInv
    <2>0. Free("perm") /\ "perm" \notin excused'
      BY <1>30, FieldSplit DEF Free
    <2>1. CASE w.op = "perm"
      <3>1. \A d \in Calls : d # c /\ Pending(d) => "perm" \notin Touches(d)
        BY <1>27, <1>32, <2>0, <2>1
      <3>2. \A d \in Calls : call'[d].op = "perm" /\ Pending(d)' => d = c
        BY <1>6, <1>22, <3>1, TouchesFacts
      <3> QED
        BY <1>32, <2>1, <3>2 DEF PermInv
    <2>2. CASE w.op # "perm"
      <3>1. \A d \in Calls : call'[d].op = "perm" /\ Pending(d)' => call[d].op = "perm" /\ Pending(d) /\ call'[d] = call[d]
        BY <1>6, <1>22, <2>2
      <3>2. permMode' = permMode /\ \A d \in Calls : pc[d] = "write" => pc'[d] = "write"
        BY <1>1, <1>2, <1>6, <2>2
      <3> QED
        BY <1>1, <1>9, <2>0, <3>1, <3>2 DEF SettingsInv, PermInv, external
    <2> QED
      BY <2>1, <2>2
  <1>40. HelloInv'
    <2> SUFFICES ASSUME NEW d \in Calls, NEW f \in Fields, pc'[d] \in {"hello", "on"}, Free(f)', ~Unsaid(f)',
                        ~(f = "perm" /\ "perm told" \in excused'), f \notin missed
                 PROVE  seen'[d][f] = told[f]
      BY <1>1 DEF HelloInv
    <2>1. Free(f) /\ ~Unsaid(f) /\ ~(f = "perm" /\ "perm told" \in excused)
      BY <1>3, <1>30, <1>31
    <2>2. CASE d = c
      <3>1. seen'[d] = Snapshot
        BY <1>2, <1>6, <1>7, <1>8, <2>2
      <3> QED
        BY <2>1, <3>1 DEF SettingsInv, ToldInv
    <2>3. CASE d # c
      BY <1>6, <2>1, <2>3 DEF SettingsInv, HelloInv
    <2> QED
      BY <2>2, <2>3
  <1> QED
    BY <1>12, <1>13, <1>15, <1>16, <1>17, <1>18, <1>19, <1>20, <1>21, <1>29, <1>33, <1>34, <1>35, <1>37, <1>38, <1>39, <1>40
    DEF SettingsInv

(***************************************************************************)
(* Settings: the reader of the agent's pipe.                               *)
(***************************************************************************)
LEMMA HeardFacts ==
  ASSUME SettingsInv, tx # <<>>, tx' = Tail(tx), UNCHANGED <<req, call>>
  PROVE  /\ PipesShape' /\ RequestsFit' /\ AnswersFit' /\ NewsFit' /\ ToggledOnce'
         /\ 1 \in DOMAIN tx /\ Head(tx) = tx[1] /\ IsMessage(tx[1])
         /\ \A i \in DOMAIN tx' : i + 1 \in DOMAIN tx /\ i + 1 # 1 /\ tx'[i] = tx[i + 1]
         /\ \A i, j \in DOMAIN tx' : i + 1 = j + 1 => i = j
         /\ \A i \in DOMAIN tx : i # 1 => i - 1 \in DOMAIN tx' /\ tx'[i - 1] = tx[i]
  <1>1. Len(tx) \in Nat /\ DOMAIN tx = 1..Len(tx) /\ \A i \in DOMAIN tx : IsMessage(tx[i])
    BY DEF SettingsInv, SettingsShape, PipesShape
  <1>2. /\ Len(tx') \in Nat /\ DOMAIN tx' = 1..Len(tx') /\ Len(tx) = Len(tx') + 1
        /\ 1 \in DOMAIN tx /\ Head(tx) = tx[1]
        /\ \A i \in DOMAIN tx' : i + 1 \in DOMAIN tx /\ tx'[i] = tx[i + 1]
        /\ \A i \in DOMAIN tx : i # 1 => i - 1 \in DOMAIN tx' /\ tx'[i - 1] = tx[i]
    BY <1>1, TailFacts
  <1>3. /\ \A i \in DOMAIN tx' : i \in Nat \ {0} /\ i + 1 # 1
        /\ \A i, j \in DOMAIN tx' : i + 1 = j + 1 => i = j
        /\ \A i \in DOMAIN tx : i \in Nat
    BY <1>1, <1>2
  <1>4. \A i \in DOMAIN tx' : IsMessage(tx'[i])
    BY <1>1, <1>2
  <1>5. PipesShape'
    <2>1. req \in Seq(Requests)
      BY DEF SettingsInv, SettingsShape, PipesShape
    <2>2. IsMessage(tx[1])' <=> IsMessage(tx'[1])
      BY DEF IsMessage
    <2> QED
      BY <1>2, <1>4, <2>1 DEF PipesShape, IsMessage
  <1>6. RequestsFit' /\ ToggledOnce'
    BY DEF SettingsInv, RequestsFit, ToggledOnce
  <1>7. AnswersFit'
    BY <1>2 DEF SettingsInv, AnswersFit
  <1>8. NewsFit'
    <2> SUFFICES ASSUME NEW i \in DOMAIN tx', tx'[i].kind = "news", tx'[i].by # Host
                 PROVE  /\ call[tx'[i].by].op = "mode" /\ tx'[i].new.mode = call[tx'[i].by].mode
                        /\ \E j \in DOMAIN tx' : j > i /\ tx'[j].kind = "answer" /\ tx'[j].by = tx'[i].by /\ tx'[j].ok
      BY DEF NewsFit
    <2>1. i + 1 \in DOMAIN tx /\ tx'[i] = tx[i + 1]
      BY <1>2
    <2>2. /\ call[tx'[i].by].op = "mode" /\ tx'[i].new.mode = call[tx'[i].by].mode
          /\ \E j \in DOMAIN tx : j > i + 1 /\ tx[j].kind = "answer" /\ tx[j].by = tx'[i].by /\ tx[j].ok
      BY <2>1 DEF SettingsInv, NewsFit
    <2>3. PICK j \in DOMAIN tx : j > i + 1 /\ tx[j].kind = "answer" /\ tx[j].by = tx'[i].by /\ tx[j].ok
      BY <2>2
    <2>4. j # 1 /\ j - 1 > i
      BY <1>3, <2>3
    <2>5. j - 1 \in DOMAIN tx' /\ tx'[j - 1] = tx[j]
      BY <1>2, <2>4
    <2> QED
      BY <2>2, <2>3, <2>4, <2>5
  <1> QED
    BY <1>1, <1>2, <1>3, <1>5, <1>6, <1>7, <1>8

LEMMA HeardWaits ==
  ASSUME SettingsInv, tx # <<>>, tx' = Tail(tx), UNCHANGED <<req, call>>,
         NEW d \in Calls, Waits(d), pc'[d] = pc[d] \/ (tx[1].kind = "answer" /\ tx[1].by = d)
  PROVE  Waits(d)'
  <1>1. /\ 1 \in DOMAIN tx
        /\ \A i \in DOMAIN tx' : i + 1 \in DOMAIN tx /\ i + 1 # 1 /\ tx'[i] = tx[i + 1]
        /\ \A i, j \in DOMAIN tx' : i + 1 = j + 1 => i = j
    BY HeardFacts
  <1>2. \A i \in DOMAIN tx' : Answering(i, d)' <=> Answering(i + 1, d)
    BY <1>1 DEF Answering
  <1>3. \A i \in DOMAIN req : Asking(i, d)' <=> Asking(i, d)
    BY DEF Asking
  <1>4. CASE tx[1].kind = "answer" /\ tx[1].by = d
    <2>1. Answering(1, d)
      BY <1>4 DEF Answering
    <2>2. (\A i \in DOMAIN tx : Answering(i, d) => i = 1) /\ \A i \in DOMAIN req : ~Asking(i, d)
      BY <1>1, <2>1 DEF Waits
    <2>3. (\A i \in DOMAIN tx' : ~Answering(i, d)') /\ \A i \in DOMAIN req : ~Asking(i, d)'
      BY <1>1, <1>2, <1>3, <2>2
    <2> QED
      BY <2>3 DEF Waits
  <1>5. CASE pc'[d] = pc[d]
    <2>1. \A i \in DOMAIN req : Asking(i, d)' => pc'[d] = req'[i].ask
      BY <1>3, <1>5 DEF Waits
    <2>2. \A i \in DOMAIN tx' : Answering(i, d)' => pc'[d] = tx'[i].ask
      BY <1>1, <1>2, <1>5 DEF Waits
    <2>3. \A i, j \in DOMAIN req : Asking(i, d)' /\ Asking(j, d)' => i = j
      BY <1>3 DEF Waits
    <2>4. \A i, j \in DOMAIN tx' : Answering(i, d)' /\ Answering(j, d)' => i = j
      BY <1>1, <1>2 DEF Waits
    <2>5. \A i \in DOMAIN req, j \in DOMAIN tx' : ~(Asking(i, d)' /\ Answering(j, d)')
      BY <1>1, <1>2, <1>3 DEF Waits
    <2> QED
      BY <2>1, <2>2, <2>3, <2>4, <2>5 DEF Waits
  <1> QED
    BY <1>4, <1>5

\* What is left behind the head of the pipe.
LEMMA ShiftExclusive ==
  ASSUME NEW g, Exclusive(g), \A i \in DOMAIN tx' : i + 1 \in DOMAIN tx, \A i, j \in DOMAIN tx' : i + 1 = j + 1 => i = j,
         \A c \in Calls : Touches(c)' = Touches(c) /\ (Pending(c)' => Pending(c)),
         \A i \in DOMAIN tx' : ByHost(i, g)' => ByHost(i + 1, g),
         \A c \in Calls : g \in Touches(c) /\ Deep(c)' => note'[Reader][g] = None,
         \A i \in DOMAIN tx' : ByHost(i, g)' => note'[Reader][g] = None
  PROVE  Exclusive(g)'
  <1>1. \A c, d \in Calls : (g \in Touches(c) /\ g \in Touches(d) /\ Pending(c) /\ Pending(d) => c = d)'
    BY DEF Exclusive
  <1>2. \A c \in Calls, i \in DOMAIN tx' : (g \in Touches(c) /\ Pending(c) => ~ByHost(i, g))'
    BY DEF Exclusive
  <1>3. \A c \in Calls : (g \in Touches(c) /\ Deep(c) => note[Reader][g] = None)'
    OBVIOUS
  <1>4. \A i, j \in DOMAIN tx' : (ByHost(i, g) /\ ByHost(j, g) => i = j)'
    BY DEF Exclusive
  <1> QED
    BY <1>1, <1>2, <1>3, <1>4 DEF Exclusive
LEMMA HeardShift ==
  ASSUME SettingsInv, tx # <<>>, tx' = Tail(tx), UNCHANGED <<req, call>>
  PROVE  /\ \A d \in Calls, i \in DOMAIN tx' : Accepted(i, d)' <=> Accepted(i + 1, d)
         /\ \A d \in Calls, i \in DOMAIN tx : i # 1 /\ Accepted(i, d) => i - 1 \in DOMAIN tx' /\ Accepted(i - 1, d)'
         /\ \A g : \A i \in DOMAIN tx' : ByHost(i, g)' <=> ByHost(i + 1, g)
         /\ \A d \in Calls : (Touches(d)' = Touches(d)) /\ (Toggling(d)' <=> Toggling(d))
  <1>1. /\ \A i \in DOMAIN tx' : i + 1 \in DOMAIN tx /\ tx'[i] = tx[i + 1]
        /\ \A i \in DOMAIN tx : i # 1 => i - 1 \in DOMAIN tx' /\ tx'[i - 1] = tx[i]
    BY HeardFacts
  <1>2. \A d \in Calls, i \in DOMAIN tx' : Accepted(i, d)' <=> Accepted(i + 1, d)
    BY <1>1 DEF Accepted
  <1>3. \A d \in Calls, i \in DOMAIN tx : i # 1 /\ Accepted(i, d) => i - 1 \in DOMAIN tx' /\ Accepted(i - 1, d)'
    BY <1>1 DEF Accepted
  <1>4. \A g : \A i \in DOMAIN tx' : ByHost(i, g)' <=> ByHost(i + 1, g)
    BY <1>1 DEF ByHost
  <1>5. \A d \in Calls : (Touches(d)' = Touches(d)) /\ (Toggling(d)' <=> Toggling(d))
    BY DEF Touches, Toggling
  <1> QED
    BY <1>2, <1>3, <1>4, <1>5

\* Where the answer at the head takes its call.
LEMMA AnswerFacts ==
  ASSUME SettingsInv, HearsAnswer
  PROVE  LET c == tx[1].by
             p == IF pc[c] # tx[1].ask THEN pc[c] ELSE IF tx[1].ok THEN Took[tx[1].ask] ELSE AfterError(c)
         IN /\ c \in Calls /\ tx[1].kind = "answer" /\ tx[1].new = Nothing
            /\ tx[1].ask \in AsksOf(call[c].op) \cap Waiting
            /\ pc' = [pc EXCEPT ![c] = p] /\ p \in PlacesOf(call[c].op) /\ warned' \subseteq Warnable
            /\ pc[c] # tx[1].ask => p = pc[c]
            /\ pc[c] = tx[1].ask => p \in {"took mode", "took option", "took effort", "took old", "ok", "fall back",
                                           "file", "warning", "error"}
            /\ pc[c] = tx[1].ask /\ p \in Busy => tx[1].ok /\ tx[1].ask # "reload"
            /\ pc[c] = tx[1].ask /\ tx[1].ok /\ tx[1].ask = "mode" => p = "took mode"
            /\ pc[c] = tx[1].ask /\ tx[1].ok /\ tx[1].ask = "option" => p = "took option"
            /\ pc[c] = tx[1].ask /\ tx[1].ok /\ tx[1].ask = "effort" => p = "took effort"
            /\ pc[c] = tx[1].ask /\ tx[1].ok /\ tx[1].ask = "old" => p = "took old"
            /\ pc[c] = tx[1].ask /\ p = "ok" => call[c].op \notin {"model", "effort"}
            /\ pc[c] = tx[1].ask /\ p = "took mode" => tx[1].ok /\ tx[1].ask = "mode"
            /\ pc[c] = tx[1].ask /\ p = "took option" => tx[1].ok /\ tx[1].ask = "option"
            /\ pc[c] = tx[1].ask /\ p = "took effort" => tx[1].ok /\ tx[1].ask = "effort"
            /\ pc[c] = tx[1].ask /\ p = "took old" => tx[1].ok /\ tx[1].ask = "old"
            /\ call[c].op = "default" /\ pc[c] \in Switching \cup {"file", "save"} => p \in Switching \cup {"file", "save"}
  <1> DEFINE c == tx[1].by
             p == IF pc[c] # tx[1].ask THEN pc[c] ELSE IF tx[1].ok THEN Took[tx[1].ask] ELSE AfterError(c)
  <1>1. tx # <<>> /\ Head(tx).kind = "answer" /\ tx' = Tail(tx) /\ UNCHANGED <<req, call>>
    BY DEF HearsAnswer, Hears
  <1>2. Head(tx) = tx[1] /\ IsMessage(tx[1]) /\ 1 \in DOMAIN tx
    BY <1>1, HeardFacts
  <1>3. c \in Calls /\ tx[1].kind = "answer" /\ tx[1].new = Nothing /\ tx[1].ok \in BOOLEAN
    BY <1>1, <1>2 DEF IsMessage
  <1>4. tx[1].ask \in AsksOf(call[c].op) \cap Waiting
    BY <1>2, <1>3 DEF SettingsInv, AnswersFit
  <1>5. pc \in [Calls -> Places] /\ warned \subseteq Warnable
    BY DEF SettingsInv, SettingsShape, CallsShape
  <1>6. /\ pc[c] # tx[1].ask => pc' = pc /\ warned' = warned
        /\ pc[c] = tx[1].ask /\ tx[1].ok => pc' = [pc EXCEPT ![c] = Took[tx[1].ask]] /\ warned' = warned
        /\ pc[c] = tx[1].ask /\ ~tx[1].ok => pc' = [pc EXCEPT ![c] = AfterError(c)] /\ warned' = warned \cup Warned(c)
    BY <1>2, <1>3, <1>5 DEF HearsAnswer
  <1>7. pc' = [pc EXCEPT ![c] = p]
    BY <1>3, <1>5, <1>6
  <1>8. warned' \subseteq Warnable
    <2>1. Warned(c) \subseteq Warnable
      BY <1>3, WhereFacts DEF Warned, Warnable
    <2> QED
      BY <1>5, <1>6, <2>1
  <1>9. pc[c] # tx[1].ask => p = pc[c] /\ p \in PlacesOf(call[c].op)
    BY <1>3, WhereFacts
  <1> HIDE DEF c
  <1>10. CASE pc[c] = tx[1].ask /\ tx[1].ok
    <2>1. p = Took[tx[1].ask] /\ pc[c] \in Waiting
      BY <1>4, <1>10
    <2> HIDE DEF p
    <2>2. /\ pc[c] = "mode" => p = "took mode"
          /\ pc[c] = "option" => p = "took option"
          /\ pc[c] = "effort" => p = "took effort"
          /\ pc[c] = "old" => p = "took old"
          /\ pc[c] = "reload" => p = "ok"
      <3>1. /\ Took["mode"] = "took mode" /\ Took["option"] = "took option" /\ Took["effort"] = "took effort"
            /\ Took["old"] = "took old" /\ Took["reload"] = "ok"
        BY DEF Took
      <3> QED
        BY <1>10, <2>1, <3>1
    <2>3. p \in PlacesOf(call[c].op)
      <3>1. /\ pc[c] = "mode" => call[c].op = "mode"
            /\ pc[c] \in {"option", "old"} => call[c].op \in {"model", "default"}
            /\ pc[c] = "effort" => call[c].op \in {"model", "default", "effort"}
            /\ pc[c] = "reload" => call[c].op \in {"default", "upsert", "delete", "disable", "enable"}
        BY <1>3, WhereFacts
      <3> QED
        BY <2>1, <2>2, <3>1 DEF PlacesOf, Switching, None, Waiting
    <2>4. p = "ok" => call[c].op \notin {"model", "effort"}
      BY <1>3, <2>1, <2>2, WhereFacts DEF Waiting
    <2> QED
      BY <1>3, <1>4, <1>7, <1>8, <1>10, <2>1, <2>2, <2>3, <2>4 DEF c, p, Waiting, Switching, Busy
  <1>11. CASE pc[c] = tx[1].ask /\ ~tx[1].ok
    <2>1. p = AfterError(c) /\ pc[c] \in Waiting
      BY <1>4, <1>11
    <2>2. /\ p \in PlacesOf(call[c].op) /\ p \in {"fall back", "file", "warning", "ok", "error"}
          /\ p = "ok" => call[c].op \notin {"model", "effort"}
          /\ call[c].op = "default" /\ pc[c] \in Switching => p \in Switching \cup {"file", "save"}
      BY <1>3, <2>1, AfterErrorFacts
    <2> HIDE DEF p
    <2>3. p \notin Busy
      BY <2>2 DEF Busy
    <2> QED
      BY <1>3, <1>4, <1>7, <1>8, <1>11, <2>1, <2>2, <2>3 DEF c, p, Waiting
  <1> HIDE DEF p
  <1>12. CASE pc[c] # tx[1].ask
    BY <1>3, <1>4, <1>7, <1>8, <1>9, <1>12 DEF c, p
  <1> QED
    BY <1>10, <1>11, <1>12

\* What the answer at the head means for what a call has taken of the agent's model and effort.
LEMMA TookBefore ==
  ASSUME NEW d \in Calls, call' = call, 1 \in DOMAIN tx,
         \A i \in DOMAIN tx' : i + 1 \in DOMAIN tx /\ tx'[i] = tx[i + 1] /\ (Accepted(i, d)' <=> Accepted(i + 1, d)),
         pc'[d] = "took option" => pc[d] = pc'[d] \/ (Accepted(1, d) /\ tx[1].ask = "option"),
         pc'[d] = "took effort" => pc[d] = pc'[d] \/ (Accepted(1, d) /\ tx[1].ask = "effort"),
         pc'[d] = "took old" => pc[d] = pc'[d] \/ (Accepted(1, d) /\ tx[1].ask = "old")
  PROVE  (TookModel(d)' => TookModel(d)) /\ (TookEffort(d)' => TookEffort(d))
  <1>1. TookModel(d)' => TookModel(d)
    BY DEF TookModel
  <1>2. TookEffort(d)' => TookEffort(d)
    BY DEF TookEffort
  <1> QED
    BY <1>1, <1>2

LEMMA TookAfter ==
  ASSUME NEW d \in Calls, call' = call,
         \A i \in DOMAIN tx : i # 1 /\ Accepted(i, d) => i - 1 \in DOMAIN tx' /\ Accepted(i - 1, d)',
         \A i \in DOMAIN tx : i # 1 => i - 1 \in DOMAIN tx' /\ tx'[i - 1] = tx[i],
         pc[d] \in {"took option", "took effort", "took old"} => pc'[d] = pc[d],
         Accepted(1, d) /\ tx[1].ask = "option" => pc'[d] = "took option",
         Accepted(1, d) /\ tx[1].ask = "effort" => pc'[d] = "took effort",
         Accepted(1, d) /\ tx[1].ask = "old" => pc'[d] = "took old"
  PROVE  (TookModel(d) => TookModel(d)') /\ (TookEffort(d) => TookEffort(d)')
  <1>1. ASSUME NEW i \in DOMAIN tx, Accepted(i, d), tx[i].ask \in {"option", "old"} PROVE TookModel(d)'
    <2>1. CASE i = 1
      BY <1>1, <2>1 DEF TookModel
    <2>2. CASE i # 1
      <3>1. i - 1 \in DOMAIN tx' /\ Accepted(i - 1, d)' /\ tx'[i - 1] = tx[i]
        BY <1>1, <2>2
      <3> QED
        BY <1>1, <3>1 DEF TookModel
    <2> QED
      BY <2>1, <2>2
  <1>2. ASSUME NEW i \in DOMAIN tx, Accepted(i, d), tx[i].ask = "effort" \/ (tx[i].ask = "old" /\ call[d].effort # None)
        PROVE  TookEffort(d)'
    <2>1. CASE i = 1
      BY <1>2, <2>1 DEF TookEffort
    <2>2. CASE i # 1
      <3>1. i - 1 \in DOMAIN tx' /\ Accepted(i - 1, d)' /\ tx'[i - 1] = tx[i]
        BY <1>2, <2>2
      <3> QED
        BY <1>2, <3>1 DEF TookEffort
    <2> QED
      BY <2>1, <2>2
  <1>3. pc[d] \in {"took option", "took old"} => TookModel(d)'
    BY DEF TookModel
  <1>4. pc[d] = "took effort" \/ (pc[d] = "took old" /\ call[d].effort # None) => TookEffort(d)'
    BY DEF TookEffort
  <1>5. TookModel(d) => TookModel(d)'
    BY <1>1, <1>3 DEF TookModel
  <1>6. TookEffort(d) => TookEffort(d)'
    BY <1>2, <1>4 DEF TookEffort
  <1> QED
    BY <1>5, <1>6

LEMMA HearsAnswerInv == ASSUME SettingsInv, HearsAnswer PROVE SettingsInv'
  <1> SUFFICES ASSUME NEW c, c = tx[1].by,
                      NEW p, p = IF pc[c] # tx[1].ask THEN pc[c] ELSE IF tx[1].ok THEN Took[tx[1].ask] ELSE AfterError(c)
               PROVE  SettingsInv'
    OBVIOUS
  <1>1. /\ tx # <<>> /\ tx' = Tail(tx) /\ note[Reader] = Nothing
        /\ UNCHANGED <<external, req, copies, call, table, files, excused, moves>>
    BY DEF HearsAnswer, Hears
  <1>2. /\ c \in Calls /\ tx[1].kind = "answer" /\ tx[1].new = Nothing
        /\ tx[1].ask \in AsksOf(call[c].op) \cap Waiting
        /\ pc' = [pc EXCEPT ![c] = p] /\ p \in PlacesOf(call[c].op) /\ warned' \subseteq Warnable
        /\ pc[c] # tx[1].ask => p = pc[c]
        /\ pc[c] = tx[1].ask => p \in {"took mode", "took option", "took effort", "took old", "ok", "fall back",
                                       "file", "warning", "error"}
        /\ pc[c] = tx[1].ask /\ p \in Busy => tx[1].ok /\ tx[1].ask # "reload"
        /\ call[c].op = "default" /\ pc[c] \in Switching \cup {"file", "save"} => p \in Switching \cup {"file", "save"}
    BY AnswerFacts
  <1>3. /\ pc[c] = tx[1].ask /\ tx[1].ok /\ tx[1].ask = "option" => p = "took option"
        /\ pc[c] = tx[1].ask /\ tx[1].ok /\ tx[1].ask = "effort" => p = "took effort"
        /\ pc[c] = tx[1].ask /\ tx[1].ok /\ tx[1].ask = "old" => p = "took old"
        /\ pc[c] = tx[1].ask /\ p = "ok" => call[c].op \notin {"model", "effort"}
        /\ pc[c] = tx[1].ask /\ p = "took option" => tx[1].ok /\ tx[1].ask = "option"
        /\ pc[c] = tx[1].ask /\ p = "took effort" => tx[1].ok /\ tx[1].ask = "effort"
        /\ pc[c] = tx[1].ask /\ p = "took old" => tx[1].ok /\ tx[1].ask = "old"
    BY AnswerFacts
  <1>4. /\ PipesShape' /\ RequestsFit' /\ AnswersFit' /\ NewsFit' /\ ToggledOnce'
        /\ 1 \in DOMAIN tx
        /\ \A i \in DOMAIN tx' : i + 1 \in DOMAIN tx /\ i + 1 # 1 /\ tx'[i] = tx[i + 1]
        /\ \A i, j \in DOMAIN tx' : i + 1 = j + 1 => i = j
        /\ \A i \in DOMAIN tx : i # 1 => i - 1 \in DOMAIN tx' /\ tx'[i - 1] = tx[i]
    BY <1>1, HeardFacts
  <1>5. /\ \A d \in Calls, i \in DOMAIN tx' : Accepted(i, d)' <=> Accepted(i + 1, d)
        /\ \A d \in Calls, i \in DOMAIN tx : i # 1 /\ Accepted(i, d) => i - 1 \in DOMAIN tx' /\ Accepted(i - 1, d)'
        /\ \A g : \A i \in DOMAIN tx' : ByHost(i, g)' <=> ByHost(i + 1, g)
        /\ \A d \in Calls : (Touches(d)' = Touches(d)) /\ (Toggling(d)' <=> Toggling(d))
    BY <1>1, HeardShift
  <1>6. pc \in [Calls -> Places] /\ SettingsShape
    BY DEF SettingsInv, SettingsShape, CallsShape
  <1>7. \A d \in Calls : pc'[d] = IF d = c THEN p ELSE pc[d]
    BY <1>2, <1>6
  <1>8. tx[1].ask \in Waiting /\ tx[1].ask \notin Busy /\ tx[1].ask \notin {"hello", "on", "write", "flip", "tell", "tell option", "idle"}
    BY <1>2 DEF Waiting, Busy
  <1>9. p \in Places
    BY <1>2 DEF PlacesOf, Places, Switching, Waiting, Decided
  <1>10. SettingsShape'
    <2>1. AgentShape' /\ CopiesShape' /\ BoundsShape'
      BY <1>1, <1>6 DEF SettingsShape, AgentShape, CopiesShape, BoundsShape, external, copies, screens
    <2>2. p = "save" => pc[c] = "save"
      BY <1>2
    <2>3. FilesShape'
      BY <1>1, <1>2, <1>6, <1>7, <2>2 DEF SettingsShape, FilesShape, files
    <2>4. CallsShape'
      BY <1>1, <1>2, <1>6, <1>7, <1>9 DEF SettingsShape, CallsShape, Warnable, external
    <2> QED
      BY <1>4, <2>1, <2>3, <2>4 DEF SettingsShape
  <1>11. \A d \in Calls : /\ pc'[d] \in {"hello", "on"} => pc'[d] = pc[d]
                          /\ pc'[d] = "write" <=> pc[d] = "write"
                          /\ pc'[d] = "flip" <=> pc[d] = "flip"
                          /\ pc[d] \in Busy => pc'[d] = pc[d]
    BY <1>2, <1>7, <1>8
  <1>12. NotesFit'
    <2>1. note' = note /\ \A d \in Calls : note[d] # Nothing => pc[d] \in Busy
      BY <1>1 DEF SettingsInv, NotesFit, Busy, copies
    <2>2. \A d \in Calls : note'[d] # Nothing => pc'[d] \in {"tell", "tell option"}
      BY <1>11, <2>1 DEF SettingsInv, NotesFit
    <2> QED
      BY <1>5, <2>1, <2>2 DEF SettingsInv, NotesFit
  <1>13. Waited'
    <2> SUFFICES ASSUME NEW d \in Calls, ~GivenUp(d)' PROVE Waits(d)'
      BY DEF Waited
    <2>1. Waits(d)
      BY <1>1, <1>5 DEF SettingsInv, Waited, GivenUp
    <2>2. pc'[d] = pc[d] \/ (tx[1].kind = "answer" /\ tx[1].by = d)
      BY <1>2, <1>7
    <2> QED
      BY <1>1, <2>1, <2>2, HeardWaits
  <1>14. AdoptedInv'
    <2>1. AdoptedInv
      BY DEF SettingsInv
    <2>2. pc[c] = tx[1].ask /\ tx[1].ok => PartsOf(call[c], tx[1].ask) \subseteq adopted[c]
      BY <1>2, <1>4, <2>1 DEF AdoptedInv
    <2>3. /\ p = "took option" => "model" \in adopted[c]
          /\ p = "took effort" => "effort" \in adopted[c]
          /\ p = "took old" => PartsOf(call[c], "old") \subseteq adopted[c]
      BY <1>2, <1>3, <2>1, <2>2 DEF AdoptedInv, PartsOf
    <2>4. p \in {"effort", "took effort"} /\ call[c].op = "model" => "model" \in adopted[c]
      <3>1. p \in {"effort", "took effort"} => pc[c] \in {"effort", "took effort"}
        BY <1>2, <1>3
      <3> QED
        BY <1>2, <2>1, <3>1 DEF AdoptedInv
    <2>5. /\ p = "tell option" => "model" \in adopted[c]
          /\ p \in {"tell", "ok"} /\ call[c].op \in {"model", "effort"} => {f \in {"model", "effort"} : call[c][f] # None} \subseteq adopted[c]
      <3>1. p \in {"tell", "tell option"} => pc[c] = p
        BY <1>2
      <3>2. p = "ok" /\ call[c].op \in {"model", "effort"} => pc[c] = p
        BY <1>2, <1>3
      <3> QED
        BY <1>2, <2>1, <3>1, <3>2 DEF AdoptedInv
    <2>6. UNCHANGED <<call, adopted>>
      BY <1>1 DEF external
    <2>7. \A i \in DOMAIN tx' : tx'[i].kind = "answer" /\ tx'[i].ok => PartsOf(call[tx'[i].by], tx'[i].ask) \subseteq adopted[tx'[i].by]
      <3> SUFFICES ASSUME NEW i \in DOMAIN tx', tx'[i].kind = "answer", tx'[i].ok
                   PROVE  PartsOf(call[tx'[i].by], tx'[i].ask) \subseteq adopted[tx'[i].by]
        OBVIOUS
      <3>1. i + 1 \in DOMAIN tx /\ tx'[i] = tx[i + 1]
        BY <1>4
      <3>2. PartsOf(call[tx[i + 1].by], tx[i + 1].ask) \subseteq adopted[tx[i + 1].by]
        BY <2>1, <3>1 DEF AdoptedInv
      <3> QED
        BY <3>1, <3>2
    <2>8. (\A i \in DOMAIN tx : tx[i].kind = "answer" /\ tx[i].ok => PartsOf(call[tx[i].by], tx[i].ask) \subseteq adopted[tx[i].by])'
      BY <2>6, <2>7 DEF PartsOf
    <2> QED
      BY <1>7, <2>1, <2>3, <2>4, <2>5, <2>6, <2>8 DEF AdoptedInv, PartsOf
  <1>15. CatalogInv'
    <2>1. Reloading' <=> Reloading
      BY <1>1 DEF Reloading
    <2>2. \A d \in Calls : call[d].op = "default" /\ pc[d] \in Switching \cup {"file", "save"} => pc'[d] \in Switching \cup {"file", "save"}
      BY <1>2, <1>7
    <2> QED
      BY <1>1, <2>1, <2>2 DEF SettingsInv, CatalogInv, external, files
  <1>16. pc[c] = tx[1].ask /\ p \in Busy => Accepted(1, c)
    BY <1>2 DEF Accepted
  <1>17. \A d \in Calls : Deep(d)' => Deep(d) \/ (d = c /\ Accepted(1, c))
    BY <1>1, <1>2, <1>7, <1>16 DEF Deep
  <1>18. \A d \in Calls : Pending(d)' => Pending(d)
    BY <1>4, <1>5, <1>17 DEF Pending
  <1>19. ExclusiveInv'
    <2> SUFFICES ASSUME NEW g \in {"mode", "model", "perm"}, g \notin excused PROVE Exclusive(g)'
      BY <1>1 DEF ExclusiveInv
    <2>1. Exclusive(g)
      BY DEF SettingsInv, ExclusiveInv
    <2>2. note'[Reader][g] = None
      BY <1>1, NothingSaid DEF copies, Fields
    <2>3. \A i \in DOMAIN tx' : ByHost(i, g)' => ByHost(i + 1, g)
      BY <1>5
    <2>4. \A d \in Calls : Touches(d)' = Touches(d) /\ (Pending(d)' => Pending(d))
      BY <1>5, <1>18
    <2>5. \A i \in DOMAIN tx' : i + 1 \in DOMAIN tx
      BY <1>4
    <2>6. \A i, j \in DOMAIN tx' : i + 1 = j + 1 => i = j
      BY <1>4
    <2> QED
      BY <2>1, <2>2, <2>3, <2>4, <2>5, <2>6, ShiftExclusive
  <1>20. \A f \in Fields : (Free(f)' <=> Free(f)) /\ (Unsaid(f)' <=> Unsaid(f)) /\ Snapshot'[f] = Snapshot[f]
    BY <1>1, <1>11 DEF Free, Loaded, Unsaid, Snapshot, copies, screens
  <1>21. ToldInv' /\ HelloInv'
    <2>1. ToldInv'
      BY <1>1, <1>20 DEF SettingsInv, ToldInv, copies, screens
    <2>2. HelloInv'
      BY <1>1, <1>11, <1>20 DEF SettingsInv, HelloInv, copies, screens
    <2> QED
      BY <2>1, <2>2
  <1>22. /\ \A f \in Fields, i \in DOMAIN tx : tx[i].new[f] # None => i - 1 \in DOMAIN tx' /\ tx'[i - 1] = tx[i]
         /\ CatalogAhead' <=> CatalogAhead
    <2>1. \A f \in Fields, i \in DOMAIN tx : tx[i].new[f] # None => i - 1 \in DOMAIN tx' /\ tx'[i - 1] = tx[i]
      BY <1>2, <1>4, NothingSaid
    <2>2. CatalogAhead' <=> CatalogAhead
      <3>1. ASSUME NEW i \in DOMAIN tx, tx[i].kind = "catalog" PROVE i - 1 \in DOMAIN tx' /\ tx'[i - 1].kind = "catalog"
        BY <1>2, <1>4, <3>1
      <3>2. ASSUME NEW i \in DOMAIN tx', tx'[i].kind = "catalog" PROVE i + 1 \in DOMAIN tx /\ tx[i + 1].kind = "catalog"
        BY <1>4, <3>2
      <3> QED
        BY <3>1, <3>2 DEF CatalogAhead
    <2> QED
      BY <2>1, <2>2
  <1>23. NewsInv'
    BY <1>1, <1>4, <1>20 DEF SettingsInv, NewsInv, external
  <1>24. ModeInv'
    <2>1. \A d \in Calls : Half(d)' <=> Half(d)
      BY <1>1, <1>5, <1>11 DEF Half
    <2> QED
      BY <1>1, <1>18, <1>20, <1>22, <2>1, FieldSplit DEF SettingsInv, ModeInv, external, copies
  <1>25. PermInv'
    BY <1>1, <1>11, <1>18, <1>20, <1>22, FieldSplit DEF SettingsInv, PermInv, external, copies
  <1>26. ASSUME "model" \notin excused
         PROVE  \A d \in Calls : (TookModel(d)' <=> TookModel(d)) /\ (TookEffort(d)' <=> TookEffort(d))
    <2>1. Accepted(1, c) /\ tx[1].ask \in {"option", "effort", "old"} => pc[c] = tx[1].ask
      <3> SUFFICES ASSUME Accepted(1, c), tx[1].ask \in {"option", "effort", "old"} PROVE pc[c] = tx[1].ask
        OBVIOUS
      <3>1. TookModel(c) \/ TookEffort(c)
        BY <1>4 DEF TookModel, TookEffort
      <3>2. "model" \in Touches(c)
        BY <1>2, <3>1, OpenFacts
      <3>3. Waits(c)
        BY <1>2, <1>26, <3>2 DEF SettingsInv, Waited, GivenUp
      <3> QED
        BY <1>2, <1>4, <3>3 DEF Waits, Answering
    <2>2. ASSUME NEW d \in Calls, d # c
          PROVE  pc'[d] = pc[d] /\ ~Accepted(1, d)
      BY <1>7, <2>2 DEF Accepted
    <2>3. /\ pc'[c] = p /\ (pc[c] \in {"took option", "took effort", "took old"} => p = pc[c])
          /\ p = "took option" => p = pc[c] \/ (Accepted(1, c) /\ tx[1].ask = "option")
          /\ p = "took effort" => p = pc[c] \/ (Accepted(1, c) /\ tx[1].ask = "effort")
          /\ p = "took old" => p = pc[c] \/ (Accepted(1, c) /\ tx[1].ask = "old")
      BY <1>2, <1>3, <1>7, <1>8, <1>16 DEF Busy
    <2>4. /\ Accepted(1, c) /\ tx[1].ask = "option" => p = "took option"
          /\ Accepted(1, c) /\ tx[1].ask = "effort" => p = "took effort"
          /\ Accepted(1, c) /\ tx[1].ask = "old" => p = "took old"
      BY <1>3, <2>1 DEF Accepted
    <2>5. ASSUME NEW d \in Calls
          PROVE  /\ pc'[d] = "took option" => pc[d] = pc'[d] \/ (Accepted(1, d) /\ tx[1].ask = "option")
                 /\ pc'[d] = "took effort" => pc[d] = pc'[d] \/ (Accepted(1, d) /\ tx[1].ask = "effort")
                 /\ pc'[d] = "took old" => pc[d] = pc'[d] \/ (Accepted(1, d) /\ tx[1].ask = "old")
                 /\ pc[d] \in {"took option", "took effort", "took old"} => pc'[d] = pc[d]
                 /\ Accepted(1, d) /\ tx[1].ask = "option" => pc'[d] = "took option"
                 /\ Accepted(1, d) /\ tx[1].ask = "effort" => pc'[d] = "took effort"
                 /\ Accepted(1, d) /\ tx[1].ask = "old" => pc'[d] = "took old"
      BY <2>2, <2>3, <2>4
    <2>6. ASSUME NEW d \in Calls PROVE (TookModel(d)' => TookModel(d)) /\ (TookEffort(d)' => TookEffort(d))
      BY <1>1, <1>4, <1>5, <2>5, TookBefore
    <2>7. ASSUME NEW d \in Calls PROVE (TookModel(d) => TookModel(d)') /\ (TookEffort(d) => TookEffort(d)')
      BY <1>1, <1>4, <1>5, <2>5, TookAfter
    <2> QED
      BY <2>6, <2>7
  <1>27. ModelInv'
    <2> SUFFICES ASSUME Free("model") PROVE ModelInv'
      BY <1>20, FieldSplit DEF ModelInv
    <2>1. "model" \notin excused
      BY DEF Free
    <2>2. \A i \in DOMAIN tx' : tx'[i].kind = "catalog" => WithCatalog(row, tx'[i].k).model = ag.model
      BY <1>4 DEF SettingsInv, ModelInv
    <2> QED
      BY <1>1, <1>22, <1>26, <2>1, <2>2, FieldSplit DEF SettingsInv, ModelInv, external, copies
  <1>28. EffortInv'
    <2> SUFFICES ASSUME Free("effort") PROVE EffortInv'
      BY <1>20, FieldSplit DEF EffortInv
    <2>1. "model" \notin excused
      BY FieldSplit DEF Free
    <2>2. \A i \in DOMAIN tx' : tx'[i].kind = "catalog" => WithCatalog(row, tx'[i].k).effort \in {ag.effort, Unset}
      BY <1>4 DEF SettingsInv, EffortInv
    <2> QED
      BY <1>1, <1>22, <1>26, <2>1, <2>2, FieldSplit DEF SettingsInv, EffortInv, external, copies
  <1> QED
    BY <1>4, <1>10, <1>12, <1>13, <1>14, <1>15, <1>19, <1>21, <1>23, <1>24, <1>25, <1>27, <1>28 DEF SettingsInv

\* The reader stores what is at the head, and is to broadcast n.
LEMMA HeardNote ==
  ASSUME SettingsInv, tx # <<>>, tx' = Tail(tx), note[Reader] = Nothing, tx[1].kind \in {"news", "catalog"},
         UNCHANGED <<external, req, screens, threads, files, excused, moves>>,
         NEW n \in Changes, note' = [note EXCEPT ![Reader] = n], n["model"] = None <=> n["effort"] = None,
         row' \in Rows \cup {NoRow}, Loaded' <=> Loaded, permMode' \in Perms,
         \A g \in {"mode", "model", "perm"} : n[g] # None => tx[1].new[g] # None \/ (tx[1].kind = "catalog" /\ g = "model"),
         \A f \in Fields : Free(f) => Snapshot'[f] = IF n[f] = None THEN Snapshot[f] ELSE n[f]
  PROVE  /\ SettingsShape' /\ RequestsFit' /\ AnswersFit' /\ NewsFit' /\ NotesFit' /\ ToggledOnce' /\ Waited'
         /\ AdoptedInv' /\ CatalogInv' /\ ExclusiveInv' /\ ToldInv' /\ NewsInv' /\ HelloInv'
         /\ \A d \in Calls : (Deep(d)' <=> Deep(d)) /\ (Pending(d)' <=> Pending(d)) /\ (Half(d)' <=> Half(d))
         /\ \A d \in Calls : (TookModel(d)' <=> TookModel(d)) /\ (TookEffort(d)' <=> TookEffort(d))
         /\ \A f \in Fields : Free(f)' <=> Free(f)
         /\ note'[Reader] = n
  <1>1. UNCHANGED <<ag, cat, modern, adopted, told, seen, missed, pc, call, warned, table, cfg, promoted>>
    BY DEF external, screens, threads, files
  <1>2. /\ PipesShape' /\ RequestsFit' /\ AnswersFit' /\ NewsFit' /\ ToggledOnce'
        /\ 1 \in DOMAIN tx /\ IsMessage(tx[1])
        /\ \A i \in DOMAIN tx' : i + 1 \in DOMAIN tx /\ i + 1 # 1 /\ tx'[i] = tx[i + 1]
        /\ \A i, j \in DOMAIN tx' : i + 1 = j + 1 => i = j
        /\ \A i \in DOMAIN tx : i # 1 => i - 1 \in DOMAIN tx' /\ tx'[i - 1] = tx[i]
    BY <1>1, HeardFacts
  <1>3. /\ \A d \in Calls, i \in DOMAIN tx' : Accepted(i, d)' <=> Accepted(i + 1, d)
        /\ \A d \in Calls, i \in DOMAIN tx : i # 1 /\ Accepted(i, d) => i - 1 \in DOMAIN tx' /\ Accepted(i - 1, d)'
        /\ \A g : \A i \in DOMAIN tx' : ByHost(i, g)' <=> ByHost(i + 1, g)
        /\ \A d \in Calls : (Touches(d)' = Touches(d)) /\ (Toggling(d)' <=> Toggling(d))
    BY <1>1, HeardShift
  <1>4. SettingsShape /\ note \in [Calls \cup {Reader} -> Changes]
    BY DEF SettingsInv, SettingsShape, CopiesShape
  <1>5. /\ note'[Reader] = n /\ \A d \in Calls : note'[d] = note[d]
        /\ note' \in [Calls \cup {Reader} -> Changes]
    BY <1>4, NoValue
  <1>6. SettingsShape'
    <2>1. AgentShape' /\ FilesShape' /\ CallsShape' /\ BoundsShape'
      BY <1>1, <1>4 DEF SettingsShape, AgentShape, FilesShape, CallsShape, Warnable, BoundsShape
    <2>2. CopiesShape'
      BY <1>1, <1>4, <1>5 DEF SettingsShape, CopiesShape
    <2> QED
      BY <1>2, <2>1, <2>2 DEF SettingsShape
  <1>7. NotesFit'
    <2>1. n.model = None <=> n.effort = None
      BY ChangeFields
    <2>2. \A d \in Calls : note'[d] # Nothing => pc'[d] \in {"tell", "tell option"}
      BY <1>1, <1>5 DEF SettingsInv, NotesFit
    <2>3. \A d \in Calls, f \in Fields : note'[d][f] # None => f \in Touches(d)'
      <3>1. \A d \in Calls, f \in Fields : note[d][f] # None => f \in Touches(d)
        BY DEF SettingsInv, NotesFit
      <3>2. \A d \in Calls : Touches(d)' = Touches(d) /\ note'[d] = note[d]
        BY <1>3, <1>5
      <3> QED
        BY <3>1, <3>2
    <2> QED
      BY <1>5, <2>1, <2>2, <2>3 DEF NotesFit
  <1>8. Waited'
    <2> SUFFICES ASSUME NEW d \in Calls, ~GivenUp(d) PROVE Waits(d)'
      BY <1>3 DEF Waited, GivenUp
    <2> QED
      BY <1>1, HeardWaits DEF SettingsInv, Waited
  <1>9. AdoptedInv'
    <2>1. AdoptedInv
      BY DEF SettingsInv
    <2>2. \A i \in DOMAIN tx' : tx'[i].kind = "answer" /\ tx'[i].ok => PartsOf(call[tx'[i].by], tx'[i].ask) \subseteq adopted[tx'[i].by]
      <3> SUFFICES ASSUME NEW i \in DOMAIN tx', tx'[i].kind = "answer", tx'[i].ok
                   PROVE  PartsOf(call[tx'[i].by], tx'[i].ask) \subseteq adopted[tx'[i].by]
        OBVIOUS
      <3>1. i + 1 \in DOMAIN tx /\ tx'[i] = tx[i + 1]
        BY <1>2
      <3>2. PartsOf(call[tx[i + 1].by], tx[i + 1].ask) \subseteq adopted[tx[i + 1].by]
        BY <2>1, <3>1 DEF AdoptedInv
      <3> QED
        BY <3>1, <3>2
    <2>3. (\A i \in DOMAIN tx : tx[i].kind = "answer" /\ tx[i].ok => PartsOf(call[tx[i].by], tx[i].ask) \subseteq adopted[tx[i].by])'
      BY <1>1, <2>2 DEF PartsOf
    <2> QED
      BY <1>1, <2>1, <2>3 DEF AdoptedInv, PartsOf
  <1>10. CatalogInv'
    BY <1>1 DEF SettingsInv, CatalogInv, Reloading
  <1>11. \A d \in Calls : Deep(d)' <=> Deep(d)
    BY <1>1 DEF Deep
  <1>12. \A d \in Calls : ~Accepted(1, d)
    BY DEF Accepted
  <1>13. \A d \in Calls : Pending(d)' <=> Pending(d)
    <2>1. \A d \in Calls : Pending(d)' => Pending(d)
      BY <1>2, <1>3, <1>11 DEF Pending
    <2>2. ASSUME NEW d \in Calls, NEW i \in DOMAIN tx, Accepted(i, d) PROVE Pending(d)'
      <3>1. i # 1
        BY <1>12, <2>2
      <3>2. i - 1 \in DOMAIN tx' /\ Accepted(i - 1, d)'
        BY <1>3, <2>2, <3>1
      <3> QED
        BY <3>2 DEF Pending
    <2>3. \A d \in Calls : Pending(d) => Pending(d)'
      BY <1>11, <2>2 DEF Pending
    <2> QED
      BY <2>1, <2>3
  <1>14. \A d \in Calls : Half(d)' <=> Half(d)
    BY <1>1, <1>3 DEF Half
  <1>15. ASSUME NEW d \in Calls PROVE (TookModel(d)' <=> TookModel(d)) /\ (TookEffort(d)' <=> TookEffort(d))
    <2>1. (TookModel(d)' => TookModel(d)) /\ (TookEffort(d)' => TookEffort(d))
      BY <1>1, <1>2, <1>3, TookBefore
    <2>2. (TookModel(d) => TookModel(d)') /\ (TookEffort(d) => TookEffort(d)')
      BY <1>1, <1>2, <1>3, <1>12, TookAfter
    <2> QED
      BY <2>1, <2>2
  <1>16. \A f \in Fields : Free(f)' <=> Free(f)
    BY DEF Free
  <1>17. ASSUME NEW g \in {"mode", "model", "perm"}, g \notin excused, n[g] # None
         PROVE  /\ \A d \in Calls : g \in Touches(d) => ~Deep(d)
                /\ \A i \in DOMAIN tx' : ~ByHost(i, g)'
    <2>1. Exclusive(g) /\ g \in Fields
      BY <1>17 DEF SettingsInv, ExclusiveInv, Fields
    <2>2. CASE tx[1].by = Host
      <3>1. ByHost(1, g)
        BY <1>17, <2>2 DEF ByHost
      <3>2. \A d \in Calls : g \in Touches(d) => ~Pending(d)
        BY <1>2, <2>1, <3>1 DEF Exclusive
      <3>3. \A i \in DOMAIN tx : ByHost(i, g) => i = 1
        BY <1>2, <2>1, <3>1 DEF Exclusive
      <3> QED
        BY <1>2, <1>3, <3>2, <3>3 DEF Pending
    <2>3. CASE tx[1].by # Host
      <3> DEFINE d == tx[1].by
      <3>1. tx[1].kind = "news" /\ d \in Calls /\ g = "mode"
        BY <1>2, <1>17, <2>3 DEF IsMessage
      <3>2. Pending(d) /\ "mode" \in Touches(d)
        BY <1>2, <3>1, OpenFacts
      <3>3. call[d].op = "mode"
        BY <1>2, <2>3, <3>1 DEF SettingsInv, NewsFit
      <3>4. PICK j \in DOMAIN tx : tx[j].kind = "answer" /\ tx[j].by = d
        BY <1>2, <2>3, <3>1 DEF SettingsInv, NewsFit
      <3> HIDE DEF d
      <3>5. Waits(d)
        BY <1>17, <3>1, <3>2 DEF SettingsInv, Waited, GivenUp
      <3>6. pc[d] = tx[j].ask /\ tx[j].ask \in Waiting
        BY <3>4, <3>5 DEF Waits, Answering, SettingsInv, AnswersFit
      <3>7. \A i \in DOMAIN req : req[i].by = d => req[i].ask = "mode"
        BY <3>3 DEF SettingsInv, RequestsFit, AsksOf
      <3>8. ~Deep(d)
        BY <3>6, <3>7 DEF Deep, Busy, Waiting
      <3>9. \A c \in Calls : g \in Touches(c) /\ Pending(c) => c = d
        BY <2>1, <3>1, <3>2 DEF Exclusive
      <3>10. \A i \in DOMAIN tx : ~ByHost(i, g)
        BY <2>1, <3>1, <3>2 DEF Exclusive
      <3>11. \A c \in Calls : Deep(c) => Pending(c)
        BY DEF Pending
      <3> QED
        BY <1>2, <1>3, <3>8, <3>9, <3>10, <3>11
    <2> QED
      BY <2>2, <2>3
  <1>18. ExclusiveInv'
    <2> SUFFICES ASSUME NEW g \in {"mode", "model", "perm"}, g \notin excused PROVE Exclusive(g)'
      BY DEF ExclusiveInv
    <2>1. Exclusive(g)
      BY DEF SettingsInv, ExclusiveInv
    <2>2. \A d \in Calls : g \in Touches(d) /\ Deep(d)' => note'[Reader][g] = None
      BY <1>5, <1>11, <1>17
    <2>3. \A i \in DOMAIN tx' : ByHost(i, g)' => note'[Reader][g] = None
      BY <1>5, <1>17
    <2>4. \A i \in DOMAIN tx' : ByHost(i, g)' => ByHost(i + 1, g)
      BY <1>3
    <2>5. \A d \in Calls : Touches(d)' = Touches(d) /\ (Pending(d)' => Pending(d))
      BY <1>3, <1>13
    <2>6. (\A i \in DOMAIN tx' : i + 1 \in DOMAIN tx) /\ \A i, j \in DOMAIN tx' : i + 1 = j + 1 => i = j
      BY <1>2
    <2> QED
      BY <2>1, <2>2, <2>3, <2>4, <2>5, <2>6, ShiftExclusive
  <1>19. \A f \in Fields : note[Reader][f] = None
    BY NothingSaid
  <1>20. \A f \in Fields : Unsaid(f) => Unsaid(f)'
    BY <1>1, <1>5, <1>19 DEF Unsaid
  <1>21. ToldInv'
    <2> SUFFICES ASSUME NEW f \in Fields, Free(f)
                 PROVE  /\ \A y \in Calls \cup {Reader} : note'[y][f] \in {None, Snapshot'[f]}
                        /\ told[f] = Snapshot'[f] \/ Unsaid(f)' \/ (f = "perm" /\ "perm told" \in excused)
      BY <1>1, <1>16 DEF ToldInv
    <2>1. /\ \A y \in Calls \cup {Reader} : note[y][f] \in {None, Snapshot[f]}
          /\ told[f] = Snapshot[f] \/ Unsaid(f) \/ (f = "perm" /\ "perm told" \in excused)
      BY DEF SettingsInv, ToldInv
    <2>2. CASE n[f] = None
      BY <1>5, <1>20, <2>1, <2>2
    <2>3. CASE n[f] # None
      <3>1. Group(f) \in {"mode", "model", "perm"} /\ Group(f) \notin excused /\ n[Group(f)] # None
        BY <2>3, FieldSplit DEF Free
      <3>2. \A c \in Calls : note[c][f] = None
        <4> SUFFICES ASSUME NEW c \in Calls, note[c][f] # None PROVE FALSE
          OBVIOUS
        <4>1. Group(f) \in Touches(c) /\ note[c] # Nothing
          BY NothingSaid, OpenFacts
        <4>2. Deep(c)
          BY <4>1 DEF SettingsInv, NotesFit, Deep, Busy
        <4> QED
          BY <1>17, <3>1, <4>1, <4>2
      <3>3. Unsaid(f)'
        BY <1>5, <2>3 DEF Unsaid
      <3> QED
        BY <1>5, <2>3, <3>2, <3>3
    <2> QED
      BY <2>2, <2>3
  <1>22. HelloInv'
    BY <1>1, <1>16, <1>20 DEF SettingsInv, HelloInv
  <1>23. NewsInv'
    BY <1>1, <1>2, <1>16 DEF SettingsInv, NewsInv
  <1> QED
    BY <1>2, <1>5, <1>6, <1>7, <1>8, <1>9, <1>10, <1>11, <1>13, <1>14, <1>15, <1>16, <1>18, <1>21, <1>22, <1>23

LEMMA HearsCatalogInv == ASSUME SettingsInv, HearsCatalog PROVE SettingsInv'
  <1> SUFFICES ASSUME NEW k, k = tx[1].k,
                      NEW n, n = IF Loaded THEN [Nothing EXCEPT !.model = row'.model, !.effort = row'.effort] ELSE Nothing
               PROVE  SettingsInv'
    OBVIOUS
  <1>1. /\ tx # <<>> /\ Head(tx).kind = "catalog" /\ tx' = Tail(tx) /\ note[Reader] = Nothing
        /\ row' = IF Loaded THEN WithCatalog(row, Head(tx).k) ELSE row
        /\ note' = [note EXCEPT ![Reader] = n]
        /\ UNCHANGED <<external, req, permMode, screens, threads, files, excused, moves>>
    BY DEF HearsCatalog, Hears
  <1>2. /\ 1 \in DOMAIN tx /\ Head(tx) = tx[1] /\ IsMessage(tx[1])
        /\ \A i \in DOMAIN tx' : i + 1 \in DOMAIN tx /\ i + 1 # 1 /\ tx'[i] = tx[i + 1]
        /\ \A i \in DOMAIN tx : i # 1 => i - 1 \in DOMAIN tx' /\ tx'[i - 1] = tx[i]
    <2>1. UNCHANGED <<req, call>>
      BY <1>1 DEF threads
    <2> QED
      BY <1>1, <2>1, HeardFacts
  <1>3. tx[1].kind = "catalog" /\ tx[1].by = Host /\ tx[1].new = Nothing /\ k \in Catalogs
    BY <1>1, <1>2 DEF IsMessage
  <1>4. Loaded => /\ row \in Rows /\ row' \in Rows /\ row' = WithCatalog(row, k)
                  /\ row'.mode = row.mode /\ row'["mode"] = row["mode"]
                  /\ row'["model"] = row'.model /\ row'["effort"] = row'.effort
    BY <1>1, <1>2, <1>3, LoadedFacts, WithCatalogFacts DEF Rows
  <1>5. row' \in Rows \cup {NoRow} /\ (Loaded' <=> Loaded)
    <2>1. CASE Loaded
      <3>1. row' # NoRow
        BY <1>4, <2>1, NoValue DEF Rows, NoRow
      <3> QED
        BY <1>4, <2>1, <3>1 DEF Loaded
    <2>2. CASE ~Loaded
      BY <1>1, <2>2 DEF SettingsInv, SettingsShape, CopiesShape, Loaded
    <2> QED
      BY <2>1, <2>2
  <1>6. /\ n \in Changes /\ n["mode"] = None /\ n["perm"] = None /\ (n["model"] = None <=> n["effort"] = None)
        /\ Loaded => n["model"] = row'["model"] /\ n["effort"] = row'["effort"] /\ n["model"] # None /\ n["effort"] # None
    BY <1>4, NoteFacts, NothingSaid, FieldSplit
  <1>7. \A f \in Fields : Free(f) => Snapshot'[f] = IF n[f] = None THEN Snapshot[f] ELSE n[f]
    <2> SUFFICES ASSUME NEW f \in Fields, Free(f) PROVE Snapshot'[f] = IF n[f] = None THEN Snapshot[f] ELSE n[f]
      OBVIOUS
    <2>1. CASE f = "perm"
      BY <1>1, <1>6, <2>1 DEF Snapshot
    <2>2. CASE f # "perm"
      <3>1. Loaded /\ Snapshot[f] = row[f] /\ Snapshot'[f] = row'[f]
        BY <2>2 DEF Free, Snapshot
      <3> QED
        BY <1>4, <1>6, <2>2, <3>1, FieldSplit
    <2> QED
      BY <2>1, <2>2
  <1>8. /\ permMode' \in Perms /\ tx[1].kind \in {"news", "catalog"}
        /\ \A g \in {"mode", "model", "perm"} : n[g] # None => tx[1].new[g] # None \/ (tx[1].kind = "catalog" /\ g = "model")
    BY <1>1, <1>3, <1>6 DEF SettingsInv, SettingsShape, CopiesShape
  <1>9. /\ SettingsShape' /\ RequestsFit' /\ AnswersFit' /\ NewsFit' /\ NotesFit' /\ ToggledOnce' /\ Waited'
        /\ AdoptedInv' /\ CatalogInv' /\ ExclusiveInv' /\ ToldInv' /\ NewsInv' /\ HelloInv'
        /\ \A d \in Calls : (Deep(d)' <=> Deep(d)) /\ (Pending(d)' <=> Pending(d)) /\ (Half(d)' <=> Half(d))
        /\ \A d \in Calls : (TookModel(d)' <=> TookModel(d)) /\ (TookEffort(d)' <=> TookEffort(d))
        /\ \A f \in Fields : Free(f)' <=> Free(f)
    BY <1>1, <1>5, <1>6, <1>7, <1>8, HeardNote
  <1>10. UNCHANGED <<ag, call, pc, req, permMode>>
    BY <1>1 DEF external, threads
  <1>11. \A f \in Fields, i \in DOMAIN tx : tx[i].new[f] # None => i - 1 \in DOMAIN tx' /\ tx'[i - 1] = tx[i]
    BY <1>2, <1>3, NothingSaid
  <1>12. ModeInv'
    <2> SUFFICES ASSUME Free("mode") PROVE ModeInv'
      BY <1>9, FieldSplit DEF ModeInv
    <2>1. row'.mode = row.mode
      BY <1>4 DEF Free
    <2> QED
      BY <1>9, <1>10, <1>11, <2>1, FieldSplit DEF SettingsInv, ModeInv
  <1>13. PermInv'
    BY <1>9, <1>10, <1>11, FieldSplit DEF SettingsInv, PermInv
  <1>14. ASSUME "model" \notin excused PROVE \A i \in DOMAIN tx' : tx'[i].kind # "catalog"
    <2>1. Exclusive("model")
      BY <1>14 DEF SettingsInv, ExclusiveInv
    <2>2. ASSUME NEW i \in DOMAIN tx, tx[i].kind = "catalog" PROVE i = 1
      <3>1. ByHost(i, "model") /\ ByHost(1, "model")
        BY <1>3, <2>2 DEF ByHost, SettingsInv, SettingsShape, PipesShape, IsMessage
      <3> QED
        BY <1>2, <2>1, <3>1 DEF Exclusive
    <2> QED
      BY <1>2, <2>2
  <1>15. ModelInv'
    <2> SUFFICES ASSUME Free("model") PROVE ModelInv'
      BY <1>9, FieldSplit DEF ModelInv
    <2>1. Loaded /\ "model" \notin excused
      BY FieldSplit DEF Free
    <2>2. row'.model = ag.model
      BY <1>2, <1>3, <1>4, <2>1 DEF SettingsInv, ModelInv
    <2>3. \A i \in DOMAIN tx' : tx'[i].kind # "catalog"
      BY <1>14, <2>1
    <2>4. \A d \in Calls : TookModel(d)' => call'[d].model = ag'.model
      BY <1>9, <1>10 DEF SettingsInv, ModelInv
    <2> QED
      BY <1>10, <2>2, <2>3, <2>4 DEF ModelInv
  <1>16. EffortInv'
    <2> SUFFICES ASSUME Free("effort") PROVE EffortInv'
      BY <1>9, FieldSplit DEF EffortInv
    <2>1. Loaded /\ "model" \notin excused
      BY FieldSplit DEF Free
    <2>2. row'.effort \in {ag.effort, Unset}
      BY <1>2, <1>3, <1>4, <2>1 DEF SettingsInv, EffortInv
    <2>3. \A i \in DOMAIN tx' : tx'[i].kind # "catalog"
      BY <1>14, <2>1
    <2>4. \A d \in Calls : TookEffort(d)' => call'[d].effort = ag'.effort
      BY <1>9, <1>10 DEF SettingsInv, EffortInv
    <2> QED
      BY <1>10, <2>2, <2>3, <2>4 DEF EffortInv
  <1> QED
    BY <1>9, <1>12, <1>13, <1>15, <1>16 DEF SettingsInv

LEMMA HearsNewsInv == ASSUME SettingsInv, HearsNews PROVE SettingsInv'
  <1> SUFFICES ASSUME NEW n, n = tx[1].new PROVE SettingsInv'
    OBVIOUS
  <1>1. /\ tx # <<>> /\ Head(tx).kind = "news" /\ tx' = Tail(tx) /\ note[Reader] = Nothing
        /\ row' = IF Loaded THEN Merge(Merge(row, ModeNews(Head(tx).new)), ModelNews(Head(tx).new)) ELSE row
        /\ permMode' = PermNews(Head(tx).new)
        /\ note' = [note EXCEPT ![Reader] = Head(tx).new]
        /\ UNCHANGED <<external, req, screens, threads, files, excused, moves>>
    BY DEF HearsNews, Hears
  <1>2. /\ 1 \in DOMAIN tx /\ Head(tx) = tx[1] /\ IsMessage(tx[1])
        /\ \A i \in DOMAIN tx' : i + 1 \in DOMAIN tx /\ i + 1 # 1 /\ tx'[i] = tx[i + 1]
        /\ \A i \in DOMAIN tx : i # 1 => i - 1 \in DOMAIN tx' /\ tx'[i - 1] = tx[i]
    <2>1. UNCHANGED <<req, call>>
      BY <1>1 DEF threads
    <2> QED
      BY <1>1, <2>1, HeardFacts
  <1>3. /\ tx[1].kind = "news" /\ n \in Changes /\ (n["model"] = None <=> n["effort"] = None)
        /\ n.mode = n["mode"] /\ n.model = n["model"] /\ n.effort = n["effort"] /\ n.perm = n["perm"]
        /\ tx[1].by # Host => n["model"] = None /\ n["effort"] = None /\ n["perm"] = None
        /\ note' = [note EXCEPT ![Reader] = n]
    <2>1. IsMessage(tx[1]) /\ tx[1].kind = "news"
      BY <1>1, <1>2
    <2>2. /\ n \in Changes /\ (n.model = None <=> n.effort = None)
          /\ tx[1].by # Host => n.model = None /\ n.effort = None /\ n.perm = None
      BY <2>1 DEF IsMessage
    <2> QED
      BY <1>1, <1>2, <2>1, <2>2, ChangeFields
  <1>4. Loaded => /\ row \in Rows /\ row' \in Rows
                  /\ \A f \in {"mode", "model", "effort"} : row'[f] = IF n[f] = None THEN row[f] ELSE n[f]
                  /\ row'.mode = row'["mode"] /\ row'.model = row'["model"] /\ row'.effort = row'["effort"]
                  /\ row.mode = row["mode"] /\ row.model = row["model"] /\ row.effort = row["effort"]
    <2> SUFFICES ASSUME Loaded
                 PROVE  /\ row \in Rows /\ row' \in Rows
                        /\ \A f \in {"mode", "model", "effort"} : row'[f] = IF n[f] = None THEN row[f] ELSE n[f]
      BY DEF Rows
    <2> DEFINE a == ModeNews(n)
               b == ModelNews(n)
               r == Merge(row, a)
    <2>1. /\ a \in Changes /\ a["mode"] = n["mode"] /\ a["model"] = None /\ a["effort"] = None
          /\ b \in Changes /\ b["mode"] = None /\ b["model"] = n["model"] /\ b["effort"] = n["effort"]
      BY <1>3, NothingSaid DEF ModeNews, ModelNews, Nothing, Fields, Changes
    <2>2. row \in Rows /\ row' = Merge(r, b)
      BY <1>1, <1>2, LoadedFacts
    <2> HIDE DEF a, b
    <2>3. r \in Rows /\ \A f \in {"mode", "model", "effort"} : r[f] = IF a[f] = None THEN row[f] ELSE a[f]
      BY <2>1, <2>2, MergedRow
    <2> HIDE DEF r
    <2>4. row' \in Rows /\ \A f \in {"mode", "model", "effort"} : row'[f] = IF b[f] = None THEN r[f] ELSE b[f]
      BY <2>1, <2>2, <2>3, MergedRow
    <2> QED
      BY <2>1, <2>2, <2>3, <2>4
  <1>5. row' \in Rows \cup {NoRow} /\ (Loaded' <=> Loaded)
    <2>1. CASE Loaded
      <3>1. row' # NoRow
        BY <1>4, <2>1, NoValue DEF Rows, NoRow
      <3> QED
        BY <1>4, <2>1, <3>1 DEF Loaded
    <2>2. CASE ~Loaded
      BY <1>1, <2>2 DEF SettingsInv, SettingsShape, CopiesShape, Loaded
    <2> QED
      BY <2>1, <2>2
  <1>6. permMode' = (IF n["perm"] = None THEN permMode ELSE n["perm"]) /\ permMode' \in Perms
    BY <1>1, <1>2, <1>3 DEF PermNews, Changes, SettingsInv, SettingsShape, CopiesShape
  <1>7. \A f \in Fields : Free(f) => Snapshot'[f] = IF n[f] = None THEN Snapshot[f] ELSE n[f]
    <2> SUFFICES ASSUME NEW f \in Fields, Free(f) PROVE Snapshot'[f] = IF n[f] = None THEN Snapshot[f] ELSE n[f]
      OBVIOUS
    <2>1. CASE f = "perm"
      BY <1>6, <2>1 DEF Snapshot
    <2>2. CASE f # "perm"
      <3>1. Loaded /\ Snapshot[f] = row[f] /\ Snapshot'[f] = row'[f]
        BY <2>2 DEF Free, Snapshot
      <3> QED
        BY <1>4, <2>2, <3>1, FieldSplit
    <2> QED
      BY <2>1, <2>2
  <1>8. /\ tx[1].kind \in {"news", "catalog"}
        /\ \A g \in {"mode", "model", "perm"} : n[g] # None => tx[1].new[g] # None \/ (tx[1].kind = "catalog" /\ g = "model")
    BY <1>3
  <1>9. /\ SettingsShape' /\ RequestsFit' /\ AnswersFit' /\ NewsFit' /\ NotesFit' /\ ToggledOnce' /\ Waited'
        /\ AdoptedInv' /\ CatalogInv' /\ ExclusiveInv' /\ ToldInv' /\ NewsInv' /\ HelloInv'
        /\ \A d \in Calls : (Deep(d)' <=> Deep(d)) /\ (Pending(d)' <=> Pending(d)) /\ (Half(d)' <=> Half(d))
        /\ \A d \in Calls : (TookModel(d)' <=> TookModel(d)) /\ (TookEffort(d)' <=> TookEffort(d))
        /\ \A f \in Fields : Free(f)' <=> Free(f)
        /\ note'[Reader] = n
    BY <1>1, <1>3, <1>5, <1>6, <1>7, <1>8, HeardNote
  <1>10. UNCHANGED <<ag, call, pc, req, excused>>
    BY <1>1 DEF external, threads
  <1>11. \A f \in Fields, i \in DOMAIN tx : n[f] = None /\ tx[i].new[f] # None => i - 1 \in DOMAIN tx' /\ tx'[i - 1] = tx[i]
    BY <1>2
  <1>12. \A f \in Fields : Free(f) => n[f] \in {None, ag[f]}
    BY <1>2 DEF SettingsInv, NewsInv
  <1>13. ModeInv'
    <2> SUFFICES ASSUME Free("mode") PROVE ModeInv'
      BY <1>9, FieldSplit DEF ModeInv
    <2>0. Loaded /\ "mode" \notin excused
      BY DEF Free
    <2>1. CASE n["mode"] = None
      <3>1. row'.mode = row.mode
        BY <1>4, <2>0, <2>1
      <3> QED
        BY <1>9, <1>10, <1>11, <2>1, <3>1, FieldSplit DEF SettingsInv, ModeInv
    <2>2. CASE n["mode"] # None
      <3>1. row'.mode = ag.mode
        BY <1>4, <1>12, <2>0, <2>2, FieldSplit
      <3>2. ASSUME NEW d \in Calls, Half(d)' PROVE FALSE
        <4>1. "mode" \in Touches(d) /\ Half(d)
          BY <1>9, <3>2, OpenFacts
        <4>2. Deep(d)'
          <5>1. Deep(d)
            BY <4>1 DEF Half, Toggling, Deep, Busy
          <5> QED
            BY <1>9, <5>1
        <4>3. Exclusive("mode")'
          BY <1>9, <1>10, <2>0 DEF ExclusiveInv
        <4>4. "mode" \in Touches(d)'
          BY <1>10, <4>1 DEF Touches
        <4> QED
          BY <1>9, <2>2, <4>2, <4>3, <4>4 DEF Exclusive
      <3>3. \A d \in Calls : call'[d].op = "mode" /\ Pending(d)' => call'[d].mode = ag'.mode
        BY <1>9, <1>10 DEF SettingsInv, ModeInv
      <3> QED
        BY <1>10, <3>1, <3>2, <3>3 DEF ModeInv
    <2> QED
      BY <2>1, <2>2
  <1>14. PermInv'
    <2> SUFFICES ASSUME Free("perm") PROVE PermInv'
      BY <1>9, FieldSplit DEF PermInv
    <2>1. CASE n["perm"] = None
      BY <1>6, <1>9, <1>10, <1>11, <2>1, FieldSplit DEF SettingsInv, PermInv
    <2>2. CASE n["perm"] # None
      <3>1. permMode' = ag.perm
        BY <1>6, <1>12, <2>2, FieldSplit
      <3>2. Exclusive("perm") /\ ByHost(1, "perm")
        BY <1>3, <2>2, FieldSplit DEF SettingsInv, ExclusiveInv, Free, ByHost
      <3>3. \A d \in Calls : call[d].op = "perm" => ~Pending(d)
        BY <1>2, <3>2, TouchesFacts DEF Exclusive
      <3>4. \A d \in Calls : ~(call[d].op = "perm" /\ Pending(d))'
        BY <1>9, <1>10, <3>3
      <3> QED
        BY <1>10, <3>1, <3>4 DEF PermInv
    <2> QED
      BY <2>1, <2>2
  <1>15. ASSUME "model" \notin excused, n["model"] # None PROVE \A i \in DOMAIN tx' : tx'[i].kind # "catalog"
    <2>1. Exclusive("model")
      BY <1>15 DEF SettingsInv, ExclusiveInv
    <2>2. ByHost(1, "model")
      BY <1>3, <1>15 DEF ByHost
    <2>3. ASSUME NEW i \in DOMAIN tx, tx[i].kind = "catalog" PROVE i = 1
      <3>1. ByHost(i, "model")
        BY <2>3 DEF ByHost, SettingsInv, SettingsShape, PipesShape, IsMessage
      <3> QED
        BY <1>2, <2>1, <2>2, <3>1 DEF Exclusive
    <2> QED
      BY <1>2, <2>3
  <1>16. ASSUME Loaded, n["model"] = None, NEW i \in DOMAIN tx', tx'[i].kind = "catalog"
         PROVE  /\ i + 1 \in DOMAIN tx /\ tx'[i] = tx[i + 1]
                /\ WithCatalog(row', tx'[i].k).model = WithCatalog(row, tx[i + 1].k).model
                /\ WithCatalog(row', tx'[i].k).effort = WithCatalog(row, tx[i + 1].k).effort
    <2>1. i + 1 \in DOMAIN tx /\ tx'[i] = tx[i + 1]
      BY <1>2
    <2>2. tx'[i].k \in Catalogs
      BY <1>16, <2>1 DEF SettingsInv, SettingsShape, PipesShape, IsMessage
    <2>3. row' \in Rows /\ row'.model = row.model /\ row'.effort = row.effort
      BY <1>3, <1>4, <1>16
    <2> QED
      BY <1>16, <2>1, <2>2, <2>3, SameCatalog
  <1>17. n["model"] = None => (CatalogAhead => CatalogAhead')
    <2>1. ASSUME NEW i \in DOMAIN tx, tx[i].kind = "catalog" PROVE i - 1 \in DOMAIN tx' /\ tx'[i - 1].kind = "catalog"
      BY <1>2, <1>3, <2>1
    <2> QED
      BY <2>1 DEF CatalogAhead
  <1>18. ModelInv'
    <2> SUFFICES ASSUME Free("model") PROVE ModelInv'
      BY <1>9, FieldSplit DEF ModelInv
    <2>0. Loaded /\ "model" \notin excused
      BY FieldSplit DEF Free
    <2>1. \A d \in Calls : TookModel(d)' => call'[d].model = ag'.model
      BY <1>9, <1>10 DEF SettingsInv, ModelInv
    <2>2. CASE n["model"] = None
      <3>1. row'.model = row.model
        BY <1>4, <2>0, <2>2
      <3>2. \A i \in DOMAIN tx' : tx'[i].kind = "catalog" => WithCatalog(row', tx'[i].k).model = ag.model
        BY <1>16, <2>0, <2>2 DEF SettingsInv, ModelInv
      <3> QED
        BY <1>9, <1>10, <1>11, <1>17, <2>1, <2>2, <3>1, <3>2, FieldSplit DEF SettingsInv, ModelInv
    <2>3. CASE n["model"] # None
      <3>1. row'.model = ag.model
        BY <1>4, <1>12, <2>0, <2>3, FieldSplit
      <3> QED
        BY <1>10, <1>15, <2>0, <2>1, <2>3, <3>1 DEF ModelInv
    <2> QED
      BY <2>2, <2>3
  <1>19. EffortInv'
    <2> SUFFICES ASSUME Free("effort") PROVE EffortInv'
      BY <1>9, FieldSplit DEF EffortInv
    <2>0. Loaded /\ "model" \notin excused
      BY FieldSplit DEF Free
    <2>1. \A d \in Calls : TookEffort(d)' => call'[d].effort = ag'.effort
      BY <1>9, <1>10 DEF SettingsInv, EffortInv
    <2>2. CASE n["model"] = None
      <3>1. row'.effort = row.effort
        BY <1>3, <1>4, <2>0, <2>2
      <3>2. \A i \in DOMAIN tx' : tx'[i].kind = "catalog" => WithCatalog(row', tx'[i].k).effort \in {ag.effort, Unset}
        BY <1>16, <2>0, <2>2 DEF SettingsInv, EffortInv
      <3> QED
        BY <1>3, <1>9, <1>10, <1>11, <1>17, <2>1, <2>2, <3>1, <3>2, FieldSplit DEF SettingsInv, EffortInv
    <2>3. CASE n["model"] # None
      <3>1. row'.effort = ag.effort
        BY <1>3, <1>4, <1>12, <2>0, <2>3, FieldSplit
      <3> QED
        BY <1>10, <1>15, <2>0, <2>1, <2>3, <3>1 DEF EffortInv
    <2> QED
      BY <2>2, <2>3
  <1> QED
    BY <1>9, <1>13, <1>14, <1>18, <1>19 DEF SettingsInv

(***************************************************************************)
(* Settings: what the agent does with a request.                           *)
(***************************************************************************)
LEMMA OneBehind ==
  ASSUME NEW s, Len(s) \in Nat, DOMAIN s = 1..Len(s), NEW e, NEW t, t = s \o <<e>>
  PROVE  /\ Len(t) = Len(s) + 1 /\ DOMAIN t = 1..Len(t) /\ Len(t) \in Nat
         /\ \A i \in DOMAIN s : i \in DOMAIN t /\ t[i] = s[i]
         /\ Len(t) \in DOMAIN t /\ t[Len(t)] = e
         /\ \A i \in DOMAIN t : i \in DOMAIN s \/ i = Len(t)
  OBVIOUS

LEMMA NoneBehind ==
  ASSUME NEW s, Len(s) \in Nat, DOMAIN s = 1..Len(s), NEW t, t = s \o <<>>
  PROVE  /\ Len(t) = Len(s) /\ DOMAIN t = DOMAIN s
         /\ \A i \in DOMAIN s : t[i] = s[i]
  OBVIOUS

\* Each kind of request by itself.
LEMMA ServedArms ==
  ASSUME NEW r, NEW w, w = call[r.by]
  PROVE  /\ r.ask = "mode" => Served(r) = IF Loaded THEN Done(TRUE, [ag EXCEPT !.mode = w.mode], {},
                                                             <<News(r.by, [Nothing EXCEPT !.mode = w.mode])>>) ELSE Refused
         /\ r.ask = "option" => Served(r) = IF Loaded /\ modern /\ w.model \in cat.models
                                              THEN Done(TRUE, Switched(ag, w.model), {"model"}, <<>>) ELSE Refused
         /\ r.ask = "effort" => Served(r) = IF Loaded /\ modern /\ w.effort \in Offers[ag.model]
                                              THEN Done(TRUE, [ag EXCEPT !.effort = w.effort], {"effort"}, <<>>) ELSE Refused
         /\ r.ask = "toggle" => Served(r) = IF Loaded THEN Done(TRUE, [ag EXCEPT !.mode = Flip(@)], {}, <<>>) ELSE Refused
         /\ r.ask = "perm" => Served(r) = Done(TRUE, [ag EXCEPT !.perm = w.perm], {}, <<>>)
         /\ r.ask = "reload" => Served(r) = [Done(TRUE, Revalidated(ag, Catalog(cfg, promoted)), {},
                                                 <<CatalogNews(Catalog(cfg, promoted))>>)
                                               EXCEPT !.cat = Catalog(cfg, promoted)]
  <1>1. r.ask = "mode" => Served(r) = IF Loaded THEN Done(TRUE, [ag EXCEPT !.mode = w.mode], {},
                                                          <<News(r.by, [Nothing EXCEPT !.mode = w.mode])>>) ELSE Refused
    BY DEF Served
  <1>2. r.ask = "option" => Served(r) = IF Loaded /\ modern /\ w.model \in cat.models
                                          THEN Done(TRUE, Switched(ag, w.model), {"model"}, <<>>) ELSE Refused
    BY DEF Served
  <1>3. r.ask = "effort" => Served(r) = IF Loaded /\ modern /\ w.effort \in Offers[ag.model]
                                          THEN Done(TRUE, [ag EXCEPT !.effort = w.effort], {"effort"}, <<>>) ELSE Refused
    BY DEF Served
  <1>4. r.ask = "toggle" => Served(r) = IF Loaded THEN Done(TRUE, [ag EXCEPT !.mode = Flip(@)], {}, <<>>) ELSE Refused
    BY DEF Served, Flip
  <1>5. r.ask = "perm" => Served(r) = Done(TRUE, [ag EXCEPT !.perm = w.perm], {}, <<>>)
    BY DEF Served
  <1>6. r.ask = "reload" => Served(r) = [Done(TRUE, Revalidated(ag, Catalog(cfg, promoted)), {},
                                              <<CatalogNews(Catalog(cfg, promoted))>>)
                                           EXCEPT !.cat = Catalog(cfg, promoted)]
    BY DEF Served
  <1> QED
    BY <1>1, <1>2, <1>3, <1>4, <1>5, <1>6

LEMMA ServedOld ==
  ASSUME NEW r, NEW w, w = call[r.by], r.ask = "old", None \notin Offers[w.model]
  PROVE  \/ /\ Loaded /\ w.model \in cat.models /\ w.effort = None
            /\ Served(r) = Done(TRUE, Switched(ag, w.model), {"model"}, <<>>)
         \/ /\ Loaded /\ w.model \in cat.models /\ w.effort \in Offers[w.model]
            /\ Served(r) = Done(TRUE, [ag EXCEPT !.model = w.model, !.effort = w.effort], {"model", "effort"}, <<>>)
         \/ Served(r) = Refused
  <1>1. CASE Loaded /\ w.model \in cat.models /\ w.effort = None
    BY <1>1 DEF Served
  <1>2. CASE Loaded /\ w.model \in cat.models /\ w.effort \in Offers[w.model]
    BY <1>2 DEF Served
  <1>3. CASE ~(Loaded /\ w.model \in cat.models /\ (w.effort = None \/ w.effort \in Offers[w.model]))
    BY <1>3 DEF Served
  <1> QED
    BY <1>1, <1>2, <1>3

\* What the session is after the agent has served a request.
ServedAs(s, r, w, k) ==
  /\ s.yes \in BOOLEAN /\ k \in Catalogs
  /\ s.ag \in Sessions /\ s.cat \in Catalogs /\ s.ag.model \in s.cat.models /\ s.ag.effort \in Offers[s.ag.model]
  /\ ~s.yes => s.ag = ag /\ s.cat = cat /\ s.parts = {}
  /\ r.ask # "reload" => s.cat = cat
  /\ r.ask \notin {"mode", "toggle"} => s.ag.mode = ag.mode
  /\ r.ask \notin {"option", "old", "reload"} => s.ag.model = ag.model
  /\ r.ask \notin {"option", "old", "effort", "reload"} => s.ag.effort = ag.effort
  /\ r.ask # "perm" => s.ag.perm = ag.perm
  /\ s.yes /\ r.ask = "mode" => s.ag.mode = w.mode
  /\ s.yes /\ r.ask = "toggle" => s.ag.mode = Flip(ag.mode)
  /\ s.yes /\ r.ask \in {"option", "old"} => s.ag.model = w.model
  /\ s.yes /\ (r.ask = "effort" \/ (r.ask = "old" /\ w.effort # None)) => s.ag.effort = w.effort
  /\ s.yes /\ r.ask = "perm" => s.ag.perm = w.perm
  /\ s.yes /\ r.ask = "reload" => s.cat = k /\ s.ag = Revalidated(ag, k)
  /\ s.yes => Loaded \/ r.ask \in {"perm", "reload"}
  /\ r.ask \in {"perm", "reload"} \/ (r.ask = "toggle" /\ Loaded) => s.yes
  /\ s.parts \subseteq {"model", "effort"}
  /\ s.yes => s.parts = PartsOf(w, r.ask)
  /\ s.news = IF s.yes /\ r.ask = "mode" THEN <<News(r.by, [Nothing EXCEPT !.mode = w.mode])>>
              ELSE IF s.yes /\ r.ask = "reload" THEN <<CatalogNews(k)>> ELSE <<>>

LEMMA ServedFacts ==
  ASSUME SettingsInv, NEW r \in Requests, r.ask \in AsksOf(call[r.by].op), NEW k, k = Catalog(cfg, promoted),
         NEW s, s = Served(r), NEW w, w = call[r.by]
  PROVE  ServedAs(s, r, w, k)
  <1> SUFFICES /\ s.yes \in BOOLEAN /\ k \in Catalogs
               /\ s.ag \in Sessions /\ s.cat \in Catalogs /\ s.ag.model \in s.cat.models /\ s.ag.effort \in Offers[s.ag.model]
               /\ ~s.yes => s.ag = ag /\ s.cat = cat /\ s.parts = {}
               /\ r.ask # "reload" => s.cat = cat
               /\ r.ask \notin {"mode", "toggle"} => s.ag.mode = ag.mode
               /\ r.ask \notin {"option", "old", "reload"} => s.ag.model = ag.model
               /\ r.ask \notin {"option", "old", "effort", "reload"} => s.ag.effort = ag.effort
               /\ r.ask # "perm" => s.ag.perm = ag.perm
               /\ s.yes /\ r.ask = "mode" => s.ag.mode = w.mode
               /\ s.yes /\ r.ask = "toggle" => s.ag.mode = Flip(ag.mode)
               /\ s.yes /\ r.ask \in {"option", "old"} => s.ag.model = w.model
               /\ s.yes /\ (r.ask = "effort" \/ (r.ask = "old" /\ w.effort # None)) => s.ag.effort = w.effort
               /\ s.yes /\ r.ask = "perm" => s.ag.perm = w.perm
               /\ s.yes /\ r.ask = "reload" => s.cat = k /\ s.ag = Revalidated(ag, k)
               /\ s.yes => Loaded \/ r.ask \in {"perm", "reload"}
               /\ r.ask \in {"perm", "reload"} \/ (r.ask = "toggle" /\ Loaded) => s.yes
               /\ s.parts \subseteq {"model", "effort"}
               /\ s.yes => s.parts = PartsOf(w, r.ask)
               /\ s.news = IF s.yes /\ r.ask = "mode" THEN <<News(r.by, [Nothing EXCEPT !.mode = w.mode])>>
                           ELSE IF s.yes /\ r.ask = "reload" THEN <<CatalogNews(k)>> ELSE <<>>
    BY DEF ServedAs
  <1>1. ag \in Sessions /\ cat \in Catalogs /\ ag.model \in cat.models /\ ag.effort \in Offers[ag.model] /\ cfg \in Files /\ promoted \in BOOLEAN
    BY DEF SettingsInv, SettingsShape, AgentShape, FilesShape
  <1>2. k \in Catalogs
    BY <1>1, CatalogFacts
  <1>3. r.by \in Calls /\ r.ask \in Asked
    BY RequestOf
  <1>4. /\ w \in Wishes \cup {Wish} /\ r.ask \in AsksOf(w.op)
        /\ w.op \in {None, "mode", "toggle", "hello", "perm", "effort", "model", "default", "upsert", "delete", "disable", "enable"}
    <2>1. w \in Wishes \cup {Wish}
      BY <1>3 DEF SettingsInv, SettingsShape, CallsShape
    <2> QED
      BY <2>1, WishFields, NoWish
  <1>5. /\ r.ask = "mode" => w.op = "mode"
        /\ r.ask = "toggle" => w.op = "toggle"
        /\ r.ask = "perm" => w.op = "perm"
        /\ r.ask = "effort" => w.op \in {"effort", "model", "default"}
        /\ r.ask \in {"option", "old"} => w.op \in {"model", "default"}
    BY <1>4 DEF AsksOf, None
  <1>6. /\ r.ask = "mode" => w.mode \in Modes
        /\ r.ask = "perm" => w.perm \in Perms
        /\ r.ask \in {"option", "old"} => w.model \in Models
        /\ w.effort \in Efforts \cup {None}
    <2>1. CASE w = Wish
      BY <1>5, <2>1, NoWish DEF None
    <2>2. CASE w \in Wishes
      BY <1>5, <2>2, WishFields
    <2> QED
      BY <1>4, <2>1, <2>2
  <1>r. Refused.yes = FALSE /\ Refused.ag = ag /\ Refused.parts = {} /\ Refused.news = <<>> /\ Refused.cat = cat
    BY DEF Done, Refused
  <1>7. CASE s = Refused /\ r.ask \notin {"perm", "reload"} /\ ~(r.ask = "toggle" /\ Loaded)
    BY <1>1, <1>2, <1>7, <1>r
  <1>8. CASE r.ask = "mode" /\ s # Refused
    <2> DEFINE a == [ag EXCEPT !.mode = w.mode]
               n == <<News(r.by, [Nothing EXCEPT !.mode = w.mode])>>
    <2>1. Loaded /\ s = Done(TRUE, a, {}, n)
      BY <1>8, ServedArms
    <2>2. a \in Sessions /\ a.mode = w.mode /\ a.model = ag.model /\ a.effort = ag.effort /\ a.perm = ag.perm
      BY <1>1, <1>6, <1>8 DEF Sessions
    <2> HIDE DEF a
    <2>3. s.yes = TRUE /\ s.ag = a /\ s.parts = {} /\ s.news = n /\ s.cat = cat
      BY <2>1 DEF Done
    <2>4. PartsOf(w, "mode") = {}
      BY DEF PartsOf
    <2> QED
      BY <1>1, <1>2, <1>8, <2>1, <2>2, <2>3, <2>4
  <1>9. CASE r.ask = "option" /\ s # Refused
    <2> DEFINE a == Switched(ag, w.model)
    <2>1. Loaded /\ w.model \in cat.models /\ s = Done(TRUE, a, {"model"}, <<>>)
      BY <1>9, ServedArms
    <2>2. a \in Sessions /\ a.mode = ag.mode /\ a.model = w.model /\ a.effort \in Offers[w.model] /\ a.perm = ag.perm
      BY <1>1, <1>6, <1>9, SwitchedFacts
    <2> HIDE DEF a
    <2>3. s.yes = TRUE /\ s.ag = a /\ s.parts = {"model"} /\ s.news = <<>> /\ s.cat = cat
      BY <2>1 DEF Done
    <2>4. PartsOf(w, "option") = {"model"}
      BY DEF PartsOf
    <2> QED
      BY <1>1, <1>2, <1>9, <2>1, <2>2, <2>3, <2>4
  <1>10. CASE r.ask = "effort" /\ s # Refused
    <2> DEFINE a == [ag EXCEPT !.effort = w.effort]
    <2>1. Loaded /\ w.effort \in Offers[ag.model] /\ s = Done(TRUE, a, {"effort"}, <<>>)
      BY <1>10, ServedArms
    <2>2. w.effort \in Efforts
      BY <1>1, <2>1, DefaultFacts DEF Sessions
    <2>3. a \in Sessions /\ a.mode = ag.mode /\ a.model = ag.model /\ a.effort = w.effort /\ a.perm = ag.perm
      BY <1>1, <2>2 DEF Sessions
    <2> HIDE DEF a
    <2>4. s.yes = TRUE /\ s.ag = a /\ s.parts = {"effort"} /\ s.news = <<>> /\ s.cat = cat
      BY <2>1 DEF Done
    <2>5. PartsOf(w, "effort") = {"effort"}
      BY DEF PartsOf
    <2> QED
      BY <1>1, <1>2, <1>10, <2>1, <2>3, <2>4, <2>5
  <1>11. CASE r.ask = "old" /\ s # Refused
    <2>1. None \notin Offers[w.model] /\ w.model \in Models
      BY <1>6, <1>11, DefaultFacts, NoValue
    <2>2. CASE Loaded /\ w.model \in cat.models /\ w.effort = None /\ s = Done(TRUE, Switched(ag, w.model), {"model"}, <<>>)
      <3> DEFINE a == Switched(ag, w.model)
      <3>1. a \in Sessions /\ a.mode = ag.mode /\ a.model = w.model /\ a.effort \in Offers[w.model] /\ a.perm = ag.perm
        BY <1>1, <2>1, SwitchedFacts
      <3>0. s = Done(TRUE, a, {"model"}, <<>>)
        BY <2>2
      <3> HIDE DEF a
      <3>2. s.yes = TRUE /\ s.ag = a /\ s.parts = {"model"} /\ s.news = <<>> /\ s.cat = cat
        BY <3>0 DEF Done
      <3>3. PartsOf(w, "old") = {"model"}
        BY <2>2 DEF PartsOf
      <3> QED
        BY <1>1, <1>2, <1>11, <2>2, <3>1, <3>2, <3>3
    <2>3. CASE /\ Loaded /\ w.model \in cat.models /\ w.effort \in Offers[w.model]
               /\ s = Done(TRUE, [ag EXCEPT !.model = w.model, !.effort = w.effort], {"model", "effort"}, <<>>)
      <3> DEFINE a == [ag EXCEPT !.model = w.model, !.effort = w.effort]
      <3>1. w.effort \in Efforts /\ w.effort # None
        BY <2>1, <2>3, DefaultFacts
      <3>2. a \in Sessions /\ a.mode = ag.mode /\ a.model = w.model /\ a.effort = w.effort /\ a.perm = ag.perm
        BY <1>1, <2>1, <3>1 DEF Sessions
      <3>0. s = Done(TRUE, a, {"model", "effort"}, <<>>)
        BY <2>3
      <3> HIDE DEF a
      <3>3. s.yes = TRUE /\ s.ag = a /\ s.parts = {"model", "effort"} /\ s.news = <<>> /\ s.cat = cat
        BY <3>0 DEF Done
      <3>4. PartsOf(w, "old") = {"model", "effort"}
        BY <3>1 DEF PartsOf
      <3> QED
        BY <1>1, <1>2, <1>11, <2>3, <3>2, <3>3, <3>4
    <2> QED
      BY <1>11, <2>1, <2>2, <2>3, ServedOld
  <1>12. CASE r.ask = "toggle" /\ s # Refused
    <2> DEFINE a == [ag EXCEPT !.mode = Flip(@)]
    <2>1. Loaded /\ s = Done(TRUE, a, {}, <<>>)
      BY <1>12, ServedArms
    <2>2. a \in Sessions /\ a.mode = Flip(ag.mode) /\ a.model = ag.model /\ a.effort = ag.effort /\ a.perm = ag.perm
      BY <1>1 DEF Sessions, Flip, Modes
    <2> HIDE DEF a
    <2>3. s.yes = TRUE /\ s.ag = a /\ s.parts = {} /\ s.news = <<>> /\ s.cat = cat
      BY <2>1 DEF Done
    <2>4. PartsOf(w, "toggle") = {}
      BY DEF PartsOf
    <2> QED
      BY <1>1, <1>2, <1>12, <2>1, <2>2, <2>3, <2>4
  <1>13. CASE r.ask = "perm"
    <2> DEFINE a == [ag EXCEPT !.perm = w.perm]
    <2>1. s = Done(TRUE, a, {}, <<>>)
      BY <1>13, ServedArms
    <2>2. a \in Sessions /\ a.mode = ag.mode /\ a.model = ag.model /\ a.effort = ag.effort /\ a.perm = w.perm
      BY <1>1, <1>6, <1>13 DEF Sessions
    <2> HIDE DEF a
    <2>3. s.yes = TRUE /\ s.ag = a /\ s.parts = {} /\ s.news = <<>> /\ s.cat = cat
      BY <2>1 DEF Done
    <2>4. PartsOf(w, "perm") = {}
      BY DEF PartsOf
    <2> QED
      BY <1>1, <1>2, <1>13, <2>2, <2>3, <2>4
  <1>14. CASE r.ask = "reload"
    <2> DEFINE a == Revalidated(ag, k)
               d == Done(TRUE, a, {}, <<CatalogNews(k)>>)
    <2>1. s = [d EXCEPT !.cat = k]
      BY <1>14, ServedArms
    <2>2. /\ a \in Sessions /\ a.mode = ag.mode /\ a.model \in k.models /\ a.effort \in Offers[a.model] /\ a.perm = ag.perm
      BY <1>1, <1>2, RevalidatedFacts
    <2> HIDE DEF a
    <2>3. s.yes = TRUE /\ s.ag = a /\ s.parts = {} /\ s.news = <<CatalogNews(k)>> /\ s.cat = k
      BY <2>1 DEF Done
    <2>4. PartsOf(w, "reload") = {}
      BY DEF PartsOf
    <2> QED
      BY <1>1, <1>2, <1>14, <2>2, <2>3, <2>4 DEF a
  <1>15. s = Refused => r.ask \notin {"perm", "reload"} /\ ~(r.ask = "toggle" /\ Loaded)
    <2>0. \A a, p, n : Done(TRUE, a, p, n).yes = TRUE
      BY DEF Done
    <2>1. r.ask \in {"perm", "reload"} => s.yes = TRUE
      <3>1. r.ask = "perm" => s.yes = TRUE
        <4>1. r.ask = "perm" => s = Done(TRUE, [ag EXCEPT !.perm = w.perm], {}, <<>>)
          BY ServedArms
        <4> QED
          BY <2>0, <4>1
      <3>2. r.ask = "reload" => s.yes = TRUE
        BY ServedArms DEF Done
      <3> QED
        BY <3>1, <3>2
    <2>2. r.ask = "toggle" /\ Loaded => s.yes = TRUE
      <3>1. r.ask = "toggle" /\ Loaded => s = Done(TRUE, [ag EXCEPT !.mode = Flip(@)], {}, <<>>)
        BY ServedArms
      <3> QED
        BY <2>0, <3>1
    <2> QED
      BY <1>r, <2>1, <2>2
  <1> QED
    BY <1>3, <1>7, <1>8, <1>9, <1>10, <1>11, <1>12, <1>13, <1>14, <1>15 DEF Asked

\* What the agent's service of the request r leaves on the pipes, in the session and in what
\* is excused.
Scope(r) == IF r.ask = "reload" THEN {"model", "effort"} ELSE Touches(r.by)
Answers(i, r, yes) ==
  /\ i \notin DOMAIN tx /\ i = Len(tx')
  /\ tx'[i].kind = "answer" /\ tx'[i].by = r.by /\ tx'[i].ask = r.ask /\ tx'[i].ok = yes /\ tx'[i].new = Nothing
Announces(i, c) ==
  /\ i \notin DOMAIN tx /\ i < Len(tx') /\ tx'[i].kind = "news" /\ tx'[i].by = c /\ tx'[i].ok = TRUE
  /\ tx'[i].new = [Nothing EXCEPT !.mode = call[c].mode]
Brings(i, k) ==
  /\ i \notin DOMAIN tx /\ i = Len(tx) + 1 /\ tx'[i].kind = "catalog" /\ tx'[i].by = Host /\ tx'[i].ok = TRUE
  /\ tx'[i].k = k /\ tx'[i].new = Nothing
Posted(r, yes, k) ==
  /\ Len(tx') \in Nat /\ DOMAIN tx' = 1..Len(tx')
  /\ \A i \in DOMAIN tx : i \in DOMAIN tx' /\ tx'[i] = tx[i]
  /\ \A i \in DOMAIN tx' : \/ i \in DOMAIN tx
                           \/ r.ask \in Waiting /\ Answers(i, r, yes)
                           \/ r.ask = "mode" /\ yes /\ Announces(i, r.by)
                           \/ r.ask = "reload" /\ Brings(i, k)
  /\ r.ask \in Waiting => Len(tx') \in DOMAIN tx' /\ Answers(Len(tx'), r, yes)
  /\ r.ask = "mode" /\ yes => \E i \in DOMAIN tx' : Announces(i, r.by)
  /\ r.ask = "reload" => \E i \in DOMAIN tx' : Brings(i, k)
Taken(r) ==
  /\ r \in Requests /\ r.ask \in AsksOf(call[r.by].op) /\ req' \in Seq(Requests)
  /\ 1 \in DOMAIN req /\ req[1] = r
  /\ \A i \in DOMAIN req' : i + 1 \in DOMAIN req /\ i + 1 # 1 /\ req'[i] = req[i + 1]
  /\ \A i, j \in DOMAIN req' : i + 1 = j + 1 => i = j
  /\ \A i \in DOMAIN req : i # 1 => i - 1 \in DOMAIN req' /\ req'[i - 1] = req[i]
Session(r, yes, k) ==
  /\ yes \in BOOLEAN /\ k \in Catalogs /\ k = Catalog(cfg, promoted)
  /\ ag' \in Sessions /\ cat' \in Catalogs /\ ag'.model \in cat'.models /\ ag'.effort \in Offers[ag'.model]
  /\ \A f \in Fields : ag'[f] = ag[f] \/ (yes /\ f \in Scope(r) /\ Group(f) \in Scope(r))
  /\ r.ask # "reload" => cat' = cat
  /\ r.ask = "reload" => yes /\ cat' = k /\ ag' = Revalidated(ag, k)
  /\ yes /\ r.ask = "mode" => ag'.mode = call[r.by].mode
  /\ yes /\ r.ask = "toggle" => ag'.mode = Flip(ag.mode)
  /\ r.ask \notin {"mode", "toggle"} => ag'.mode = ag.mode
  /\ r.ask \notin {"option", "old", "reload"} => ag'.model = ag.model
  /\ r.ask \notin {"option", "old", "effort", "reload"} => ag'.effort = ag.effort
  /\ ~yes => ag' = ag
  /\ yes /\ r.ask \in {"option", "old"} => ag'.model = call[r.by].model
  /\ yes /\ (r.ask = "effort" \/ (r.ask = "old" /\ call[r.by].effort # None)) => ag'.effort = call[r.by].effort
  /\ yes /\ r.ask = "perm" => ag'.perm = call[r.by].perm
  /\ r.ask = "perm" => yes
  /\ r.ask = "toggle" /\ Loaded => yes
Excuses(r, yes) ==
  /\ excused \subseteq excused' /\ excused' \subseteq Fields \cup {"perm told"}
  /\ yes => Scope(r) \cap OpenAmong(Calls \ {r.by}) \subseteq excused'
  /\ yes /\ (r.ask = "option" \/ (r.ask = "old" /\ call[r.by].effort = None)) =>
       ag'.effort = ag.effort \/ "effort" \in excused'
Adopts(r, yes) ==
  /\ adopted' \in [Calls -> SUBSET {"model", "effort"}]
  /\ \A c \in Calls : adopted[c] \subseteq adopted'[c]
  /\ yes => PartsOf(call[r.by], r.ask) \subseteq adopted'[r.by]
Serves(r, yes, k) ==
  /\ Taken(r) /\ Session(r, yes, k) /\ Posted(r, yes, k) /\ Excuses(r, yes) /\ Adopts(r, yes)
  /\ UNCHANGED <<modern, copies, threads, files, moves>>

LEMMA MessageFacts ==
  ASSUME NEW r, NEW yes, NEW c, NEW n, NEW k
  PROVE  /\ LET a == Answer(r, yes)
            IN a.kind = "answer" /\ a.by = r.by /\ a.ask = r.ask /\ a.ok = yes /\ a.new = Nothing
         /\ LET m == News(c, n) IN m.kind = "news" /\ m.by = c /\ m.ok = TRUE /\ m.new = n
         /\ LET u == CatalogNews(k)
            IN u.kind = "catalog" /\ u.by = Host /\ u.ok = TRUE /\ u.k = k /\ u.new = Nothing
  BY DEF Answer, News, CatalogNews, Message

\* What a sequence is with two more behind it, some of them maybe none.
Joined(t, s, n, w) == t = s \o n \o w

LEMMA TwoBehind ==
  ASSUME NEW s, Len(s) \in Nat, DOMAIN s = 1..Len(s), NEW e, NEW g, NEW t, Joined(t, s, <<e>>, <<g>>)
  PROVE  /\ Len(t) = Len(s) + 2 /\ DOMAIN t = 1..Len(t) /\ Len(t) \in Nat
         /\ \A i \in DOMAIN s : i \in DOMAIN t /\ t[i] = s[i]
         /\ t[Len(s) + 1] = e /\ t[Len(t)] = g
         /\ Len(s) + 1 \notin DOMAIN s /\ Len(t) \notin DOMAIN s /\ Len(s) + 1 \in DOMAIN t /\ Len(t) \in DOMAIN t
         /\ Len(s) + 1 < Len(t)
         /\ \A i \in DOMAIN t : i \in DOMAIN s \/ i = Len(s) + 1 \/ i = Len(t)
  <1>1. ASSUME NEW v, v = s \o <<e>>, t = v \o <<g>>
        PROVE  /\ Len(t) = Len(s) + 2 /\ DOMAIN t = 1..Len(t) /\ Len(t) \in Nat
               /\ \A i \in DOMAIN s : i \in DOMAIN t /\ t[i] = s[i]
               /\ t[Len(s) + 1] = e /\ t[Len(t)] = g
               /\ \A i \in DOMAIN t : i \in DOMAIN s \/ i = Len(s) + 1 \/ i = Len(t)
    <2>1. /\ Len(v) = Len(s) + 1 /\ DOMAIN v = 1..Len(v) /\ v[Len(v)] = e /\ \A i \in DOMAIN s : v[i] = s[i]
          /\ \A i \in DOMAIN v : i \in DOMAIN s \/ i = Len(v)
      BY <1>1, OneBehind
    <2>2. /\ Len(t) = Len(v) + 1 /\ DOMAIN t = 1..Len(t) /\ t[Len(t)] = g /\ \A i \in DOMAIN v : t[i] = v[i]
          /\ \A i \in DOMAIN t : i \in DOMAIN v \/ i = Len(t)
      BY <1>1, <2>1, OneBehind
    <2> QED
      BY <2>1, <2>2
  <1>2. /\ Len(t) = Len(s) + 2 /\ DOMAIN t = 1..Len(t) /\ Len(t) \in Nat
        /\ \A i \in DOMAIN s : i \in DOMAIN t /\ t[i] = s[i]
        /\ t[Len(s) + 1] = e /\ t[Len(t)] = g
        /\ \A i \in DOMAIN t : i \in DOMAIN s \/ i = Len(s) + 1 \/ i = Len(t)
    BY <1>1 DEF Joined
  <1> QED
    BY <1>2

LEMMA LastBehind ==
  ASSUME NEW s, Len(s) \in Nat, DOMAIN s = 1..Len(s), NEW g, NEW t, Joined(t, s, <<>>, <<g>>)
  PROVE  /\ Len(t) = Len(s) + 1 /\ DOMAIN t = 1..Len(t) /\ Len(t) \in Nat
         /\ \A i \in DOMAIN s : i \in DOMAIN t /\ t[i] = s[i]
         /\ t[Len(t)] = g /\ Len(t) \notin DOMAIN s /\ Len(t) \in DOMAIN t
         /\ \A i \in DOMAIN t : i \in DOMAIN s \/ i = Len(t)
  <1>1. ASSUME NEW v, v = s \o <<>>, t = v \o <<g>>
        PROVE  /\ Len(t) = Len(s) + 1 /\ DOMAIN t = 1..Len(t) /\ Len(t) \in Nat
               /\ \A i \in DOMAIN s : i \in DOMAIN t /\ t[i] = s[i]
               /\ t[Len(t)] = g
               /\ \A i \in DOMAIN t : i \in DOMAIN s \/ i = Len(t)
    <2>1. Len(v) = Len(s) /\ DOMAIN v = DOMAIN s /\ \A i \in DOMAIN s : v[i] = s[i]
      BY <1>1, NoneBehind
    <2>2. /\ Len(t) = Len(v) + 1 /\ DOMAIN t = 1..Len(t) /\ t[Len(t)] = g /\ \A i \in DOMAIN v : t[i] = v[i]
          /\ \A i \in DOMAIN t : i \in DOMAIN v \/ i = Len(t)
      BY <1>1, <2>1, OneBehind
    <2> QED
      BY <2>1, <2>2
  <1>2. /\ Len(t) = Len(s) + 1 /\ DOMAIN t = 1..Len(t) /\ Len(t) \in Nat
        /\ \A i \in DOMAIN s : i \in DOMAIN t /\ t[i] = s[i]
        /\ t[Len(t)] = g
        /\ \A i \in DOMAIN t : i \in DOMAIN s \/ i = Len(t)
    BY <1>1 DEF Joined
  <1> QED
    BY <1>2

LEMMA SameBehind ==
  ASSUME NEW s, Len(s) \in Nat, DOMAIN s = 1..Len(s), NEW t, Joined(t, s, <<>>, <<>>)
  PROVE  Len(t) \in Nat /\ DOMAIN t = 1..Len(t) /\ DOMAIN t = DOMAIN s /\ \A i \in DOMAIN s : t[i] = s[i]
  <1>1. ASSUME NEW v, v = s \o <<>>, t = v \o <<>>
        PROVE  Len(t) = Len(s) /\ DOMAIN t = DOMAIN s /\ \A i \in DOMAIN s : t[i] = s[i]
    <2>1. Len(v) = Len(s) /\ DOMAIN v = DOMAIN s /\ \A i \in DOMAIN s : v[i] = s[i]
      BY <1>1, NoneBehind
    <2>2. Len(t) = Len(v) /\ DOMAIN t = DOMAIN v /\ \A i \in DOMAIN v : t[i] = v[i]
      BY <1>1, <2>1, NoneBehind
    <2> QED
      BY <2>1, <2>2
  <1>2. Len(t) = Len(s) /\ DOMAIN t = DOMAIN s /\ \A i \in DOMAIN s : t[i] = s[i]
    BY <1>1 DEF Joined
  <1> QED
    BY <1>2

Written(a, m, u, r, yes, k) ==
  /\ a.kind = "answer" /\ a.by = r.by /\ a.ask = r.ask /\ a.ok = yes /\ a.new = Nothing
  /\ m.kind = "news" /\ m.by = r.by /\ m.ok = TRUE /\ m.new = [Nothing EXCEPT !.mode = call[r.by].mode]
  /\ u.kind = "catalog" /\ u.by = Host /\ u.ok = TRUE /\ u.k = k /\ u.new = Nothing

LEMMA SentOne ==
  ASSUME Len(tx) \in Nat, DOMAIN tx = 1..Len(tx), NEW r, NEW yes, NEW k, NEW n, NEW w, NEW t,
         NEW a, NEW m, NEW u, Written(a, m, u, r, yes, k),
         yes /\ r.ask = "mode" => n = <<m>>, r.ask = "reload" => n = <<u>>,
         ~(yes /\ r.ask = "mode") /\ r.ask # "reload" => n = <<>>,
         r.ask \in Waiting => w = <<a>>, r.ask \notin Waiting => w = <<>>,
         Joined(t, tx, n, w), tx' = t
  PROVE  Posted(r, yes, k)
  <1>1. /\ a.kind = "answer" /\ a.by = r.by /\ a.ask = r.ask /\ a.ok = yes /\ a.new = Nothing
        /\ m.kind = "news" /\ m.by = r.by /\ m.ok = TRUE /\ m.new = [Nothing EXCEPT !.mode = call[r.by].mode]
        /\ u.kind = "catalog" /\ u.by = Host /\ u.ok = TRUE /\ u.k = k /\ u.new = Nothing
    BY DEF Written
  <1>4. CASE r.ask = "mode" /\ yes
    <2>1. Joined(t, tx, <<m>>, <<a>>)
      BY <1>4 DEF Waiting
    <2>2. /\ Len(t) = Len(tx) + 2 /\ DOMAIN t = 1..Len(t) /\ Len(t) \in Nat
          /\ \A i \in DOMAIN tx : i \in DOMAIN t /\ t[i] = tx[i]
          /\ t[Len(tx) + 1] = m /\ t[Len(t)] = a
          /\ Len(tx) + 1 \notin DOMAIN tx /\ Len(t) \notin DOMAIN tx /\ Len(tx) + 1 \in DOMAIN t /\ Len(t) \in DOMAIN t
          /\ Len(tx) + 1 < Len(t)
          /\ \A i \in DOMAIN t : i \in DOMAIN tx \/ i = Len(tx) + 1 \/ i = Len(t)
      BY <2>1, TwoBehind
    <2>3. Answers(Len(t), r, yes)
      BY <1>1, <2>2 DEF Answers
    <2>4. Announces(Len(tx) + 1, r.by)
      BY <1>1, <2>2 DEF Announces
    <2> QED
      BY <1>4, <2>2, <2>3, <2>4 DEF Posted, Waiting
  <1>5. CASE r.ask = "reload"
    <2>1. Joined(t, tx, <<u>>, <<a>>)
      BY <1>5 DEF Waiting
    <2>2. /\ Len(t) = Len(tx) + 2 /\ DOMAIN t = 1..Len(t) /\ Len(t) \in Nat
          /\ \A i \in DOMAIN tx : i \in DOMAIN t /\ t[i] = tx[i]
          /\ t[Len(tx) + 1] = u /\ t[Len(t)] = a
          /\ Len(tx) + 1 \notin DOMAIN tx /\ Len(t) \notin DOMAIN tx /\ Len(tx) + 1 \in DOMAIN t /\ Len(t) \in DOMAIN t
          /\ Len(tx) + 1 < Len(t)
          /\ \A i \in DOMAIN t : i \in DOMAIN tx \/ i = Len(tx) + 1 \/ i = Len(t)
      BY <2>1, TwoBehind
    <2>3. Answers(Len(t), r, yes)
      BY <1>1, <2>2 DEF Answers
    <2>4. Brings(Len(tx) + 1, k)
      BY <1>1, <2>2 DEF Brings
    <2> QED
      BY <1>5, <2>2, <2>3, <2>4 DEF Posted, Waiting
  <1>6. CASE ~(r.ask = "mode" /\ yes) /\ r.ask # "reload" /\ r.ask \in Waiting
    <2>1. Joined(t, tx, <<>>, <<a>>)
      BY <1>6
    <2>2. /\ Len(t) = Len(tx) + 1 /\ DOMAIN t = 1..Len(t) /\ Len(t) \in Nat
          /\ \A i \in DOMAIN tx : i \in DOMAIN t /\ t[i] = tx[i]
          /\ t[Len(t)] = a /\ Len(t) \notin DOMAIN tx /\ Len(t) \in DOMAIN t
          /\ \A i \in DOMAIN t : i \in DOMAIN tx \/ i = Len(t)
      BY <2>1, LastBehind
    <2>3. Answers(Len(t), r, yes)
      BY <1>1, <2>2 DEF Answers
    <2> QED
      BY <1>6, <2>2, <2>3 DEF Posted
  <1>7. CASE ~(r.ask = "mode" /\ yes) /\ r.ask # "reload" /\ r.ask \notin Waiting
    <2>1. Joined(t, tx, <<>>, <<>>)
      BY <1>7
    <2>2. Len(t) \in Nat /\ DOMAIN t = 1..Len(t) /\ DOMAIN t = DOMAIN tx /\ \A i \in DOMAIN tx : t[i] = tx[i]
      BY <2>1, SameBehind
    <2> QED
      BY <1>7, <2>2 DEF Posted, Waiting
  <1> QED
    BY <1>4, <1>5, <1>6, <1>7

LEMMA TakenOne ==
  ASSUME SettingsInv, req # <<>>, req' = Tail(req), NEW r, r = Head(req)
  PROVE  Taken(r)
  <1>1. req \in Seq(Requests) /\ RequestsFit
    BY DEF SettingsInv, SettingsShape, PipesShape
  <1>2. req' \in Seq(Requests) /\ r \in Requests
    BY <1>1
  <1>3. Len(req) \in Nat /\ DOMAIN req = 1..Len(req)
    BY <1>1, SeqFacts
  <1>4. /\ 1 \in DOMAIN req /\ req[1] = r
        /\ Len(req') \in Nat /\ DOMAIN req' = 1..Len(req')
        /\ \A i \in DOMAIN req' : i + 1 \in DOMAIN req /\ req'[i] = req[i + 1]
        /\ \A i \in DOMAIN req : i # 1 => i - 1 \in DOMAIN req' /\ req'[i - 1] = req[i]
    BY <1>3, TailFacts
  <1>5. r.ask \in AsksOf(call[r.by].op)
    BY <1>1, <1>4 DEF RequestsFit
  <1> QED
    BY <1>2, <1>4, <1>5 DEF Taken

LEMMA AsksFacts ==
  ASSUME NEW op, NEW p \in AsksOf(op),
         op \in {None, "mode", "toggle", "hello", "perm", "effort", "model", "default", "upsert", "delete", "disable", "enable"}
  PROVE  /\ p = "mode" => op = "mode"
         /\ p = "toggle" => op = "toggle"
         /\ p \in {"option", "old", "effort"} => op \in {"model", "default", "effort"}
         /\ p \in {"option", "old"} => op \in {"model", "default"}
         /\ p = "perm" => op = "perm"
         /\ p = "reload" => op \in {"default", "upsert", "delete", "disable", "enable"}
         /\ op = "mode" => p = "mode"
         /\ op = "toggle" => p = "toggle"
         /\ op = "perm" => p = "perm"
         /\ op \in {"model", "effort"} => p \in {"option", "effort", "old"}
  BY DEF AsksOf, None

LEMMA OpFacts ==
  ASSUME SettingsInv, NEW c \in Calls
  PROVE  call[c].op \in {None, "mode", "toggle", "hello", "perm", "effort", "model", "default",
                         "upsert", "delete", "disable", "enable"}
  <1>1. call[c] \in Wishes \cup {Wish}
    BY DEF SettingsInv, SettingsShape, CallsShape
  <1>2. call[c] = Wish => call[c].op = None
    BY NoWish
  <1>3. call[c] \in Wishes => call[c].op \in {"mode", "toggle", "hello", "perm", "effort", "model", "default",
                                              "upsert", "delete", "disable", "enable"}
    BY WishFields
  <1> QED
    BY <1>1, <1>2, <1>3

LEMMA SessionOne ==
  ASSUME SettingsInv, NEW r, Taken(r), NEW k, k = Catalog(cfg, promoted), NEW s, s = Served(r),
         ag' = s.ag, cat' = s.cat
  PROVE  Session(r, s.yes, k)
  <1> DEFINE w == call[r.by]
  <1>1. r \in Requests /\ r.ask \in AsksOf(w.op) /\ r.by \in Calls /\ r.ask \in Asked
    BY RequestOf DEF Taken
  <1>2. /\ s.yes \in BOOLEAN /\ k \in Catalogs
        /\ ag' \in Sessions /\ cat' \in Catalogs /\ ag'.model \in cat'.models /\ ag'.effort \in Offers[ag'.model]
        /\ ~s.yes => ag' = ag /\ cat' = cat
        /\ r.ask # "reload" => cat' = cat
        /\ r.ask \notin {"mode", "toggle"} => ag'.mode = ag.mode
        /\ r.ask \notin {"option", "old", "reload"} => ag'.model = ag.model
        /\ r.ask \notin {"option", "old", "effort", "reload"} => ag'.effort = ag.effort
        /\ r.ask # "perm" => ag'.perm = ag.perm
        /\ s.yes /\ r.ask = "mode" => ag'.mode = w.mode
        /\ s.yes /\ r.ask = "toggle" => ag'.mode = Flip(ag.mode)
        /\ s.yes /\ r.ask \in {"option", "old"} => ag'.model = w.model
        /\ s.yes /\ (r.ask = "effort" \/ (r.ask = "old" /\ w.effort # None)) => ag'.effort = w.effort
        /\ s.yes /\ r.ask = "perm" => ag'.perm = w.perm
        /\ s.yes /\ r.ask = "reload" => cat' = k /\ ag' = Revalidated(ag, k)
        /\ r.ask \in {"perm", "reload"} \/ (r.ask = "toggle" /\ Loaded) => s.yes
    <2> SUFFICES ASSUME NEW v, v = w
                 PROVE  ServedAs(s, r, v, k)
      BY DEF ServedAs
    <2> QED
      BY <1>1, ServedFacts
  <1>3. /\ r.ask \in {"mode", "toggle"} => "mode" \in Scope(r)
        /\ r.ask \in {"option", "old", "effort", "reload"} => "model" \in Scope(r) /\ "effort" \in Scope(r)
        /\ r.ask = "perm" => "perm" \in Scope(r)
    <2>1. /\ r.ask \in {"mode", "toggle"} => w.op \in {"mode", "toggle"}
          /\ r.ask \in {"option", "old", "effort"} => w.op \in {"model", "default", "effort"}
          /\ r.ask = "perm" => w.op = "perm"
      BY <1>1, AsksFacts, OpFacts
    <2> QED
      BY <2>1, TouchesFacts DEF Scope
  <1>4. \A f \in Fields : ag'[f] = ag[f] \/ (s.yes /\ f \in Scope(r) /\ Group(f) \in Scope(r))
    <2>1. ag'["mode"] = ag["mode"] \/ (s.yes /\ "mode" \in Scope(r))
      BY <1>2, <1>3
    <2>2. ag'["model"] = ag["model"] \/ (s.yes /\ "model" \in Scope(r))
      BY <1>2, <1>3
    <2>3. ag'["effort"] = ag["effort"] \/ (s.yes /\ "effort" \in Scope(r) /\ "model" \in Scope(r))
      BY <1>2, <1>3
    <2>4. ag'["perm"] = ag["perm"] \/ (s.yes /\ "perm" \in Scope(r))
      BY <1>2, <1>3
    <2> QED
      BY <2>1, <2>2, <2>3, <2>4 DEF Fields, Group
  <1> QED
    BY <1>2, <1>4 DEF Session

LEMMA ServesOne == ASSUME SettingsInv, AgentServes PROVE \E r, yes, k : Serves(r, yes, k)
  <1> SUFFICES ASSUME NEW r, r = Head(req), NEW s, s = Served(r), NEW k, k = Catalog(cfg, promoted)
               PROVE  Serves(r, s.yes, k)
    OBVIOUS
  <1>1. /\ req # <<>> /\ req' = Tail(req) /\ ag' = s.ag /\ cat' = s.cat
        /\ adopted' = [adopted EXCEPT ![r.by] = @ \cup s.parts]
        /\ tx' = tx \o s.news \o (IF r.ask \in Waiting THEN <<Answer(r, s.yes)>> ELSE <<>>)
        /\ excused' = excused \cup (IF s.yes THEN Apart(Scope(r), r.by) ELSE {})
                        \cup {f \in {"effort"} : s.ag.effort # ag.effort /\ r.ask \in {"option", "old"} /\ f \notin s.parts}
        /\ UNCHANGED <<modern, copies, threads, files, moves>>
    BY DEF AgentServes, Scope
  <1>2. Taken(r)
    BY <1>1, TakenOne
  <1>3. r \in Requests /\ r.ask \in AsksOf(call[r.by].op) /\ r.by \in Calls
    BY <1>2, RequestOf DEF Taken
  <1>4. Session(r, s.yes, k)
    BY <1>1, <1>2, SessionOne
  <1>5. /\ s.parts \subseteq {"model", "effort"}
        /\ s.yes => s.parts = PartsOf(call[r.by], r.ask)
        /\ s.news = IF s.yes /\ r.ask = "mode" THEN <<News(r.by, [Nothing EXCEPT !.mode = call[r.by].mode])>>
                    ELSE IF s.yes /\ r.ask = "reload" THEN <<CatalogNews(k)>> ELSE <<>>
        /\ r.ask = "reload" => s.yes
    <2> SUFFICES ASSUME NEW v, v = call[r.by]
                 PROVE  ServedAs(s, r, v, k)
      BY DEF ServedAs
    <2> QED
      BY <1>3, ServedFacts
  <1>6. Posted(r, s.yes, k)
    <2> SUFFICES ASSUME NEW a, a = Answer(r, s.yes), NEW m, m = News(r.by, [Nothing EXCEPT !.mode = call[r.by].mode]),
                        NEW u, u = CatalogNews(k), NEW w, w = IF r.ask \in Waiting THEN <<a>> ELSE <<>>,
                        NEW n, n = s.news, NEW t, t = tx', NEW yes, yes = s.yes
                 PROVE  Posted(r, yes, k)
      OBVIOUS
    <2>1. a.kind = "answer" /\ a.by = r.by /\ a.ask = r.ask /\ a.ok = yes /\ a.new = Nothing
      BY DEF Answer, Message
    <2>2. m.kind = "news" /\ m.by = r.by /\ m.ok = TRUE /\ m.new = [Nothing EXCEPT !.mode = call[r.by].mode]
      BY DEF News, Message
    <2>3. u.kind = "catalog" /\ u.by = Host /\ u.ok = TRUE /\ u.k = k /\ u.new = Nothing
      BY DEF CatalogNews, Message
    <2>4. Joined(t, tx, n, w)
      BY <1>1 DEF Joined
    <2>5. Len(tx) \in Nat /\ DOMAIN tx = 1..Len(tx)
      BY DEF SettingsInv, SettingsShape, PipesShape
    <2>6. /\ yes /\ r.ask = "mode" => n = <<m>>
          /\ r.ask = "reload" => n = <<u>>
          /\ ~(yes /\ r.ask = "mode") /\ r.ask # "reload" => n = <<>>
      BY <1>5
    <2>7. Written(a, m, u, r, yes, k)
      BY <2>1, <2>2, <2>3 DEF Written
    <2> QED
      BY <2>4, <2>5, <2>6, <2>7, SentOne
  <1>7. Excuses(r, s.yes)
    <2>1. excused \subseteq Fields \cup {"perm told"}
      BY DEF SettingsInv, SettingsShape, BoundsShape
    <2>2. Apart(Scope(r), r.by) \subseteq Fields \cup {"perm told"}
      BY OpenBounds DEF Apart
    <2>3. excused \subseteq excused' /\ excused' \subseteq Fields \cup {"perm told"}
      BY <1>1, <2>1, <2>2 DEF Fields
    <2>4. s.yes => Scope(r) \cap OpenAmong(Calls \ {r.by}) \subseteq excused'
      BY <1>1 DEF Apart
    <2>5. s.yes /\ (r.ask = "option" \/ (r.ask = "old" /\ call[r.by].effort = None)) =>
            ag'.effort = ag.effort \/ "effort" \in excused'
      <3>1. PartsOf(call[r.by], "option") = {"model"} /\ (call[r.by].effort = None => PartsOf(call[r.by], "old") = {"model"})
        BY DEF PartsOf
      <3> QED
        BY <1>1, <1>5, <3>1
    <2> QED
      BY <2>3, <2>4, <2>5 DEF Excuses
  <1>8. Adopts(r, s.yes)
    <2>1. adopted \in [Calls -> SUBSET {"model", "effort"}]
      BY DEF SettingsInv, SettingsShape, CallsShape
    <2> QED
      BY <1>1, <1>3, <1>5, <2>1 DEF Adopts
  <1> QED
    BY <1>1, <1>2, <1>4, <1>6, <1>7, <1>8 DEF Serves

LEMMA ServedPipes ==
  ASSUME SettingsInv, NEW r, NEW yes, NEW k, Serves(r, yes, k)
  PROVE  /\ r.by \in Calls /\ r.ask \in Asked /\ yes \in BOOLEAN
         /\ \A d \in Calls : Touches(d)' = Touches(d)
         /\ \A d \in Calls : Deep(d)' => Deep(d)
         /\ \A d \in Calls : Pending(d)' => Pending(d) \/ (d = r.by /\ yes /\ r.ask \in Waiting \ {"reload"})
         /\ \A d \in Calls : r.ask # "toggle" \/ d # r.by => (Toggling(d)' <=> Toggling(d))
         /\ \A d \in Calls : TookModel(d) => TookModel(d)'
         /\ \A d \in Calls : TookModel(d)' => TookModel(d) \/ (d = r.by /\ yes /\ r.ask \in {"option", "old"})
         /\ yes /\ r.ask \in {"option", "old"} => TookModel(r.by)'
         /\ \A d \in Calls : TookEffort(d) => TookEffort(d)'
         /\ \A d \in Calls : TookEffort(d)' => \/ TookEffort(d)
                                               \/ /\ d = r.by /\ yes
                                                  /\ r.ask = "effort" \/ (r.ask = "old" /\ call[d].effort # None)
         /\ yes /\ (r.ask = "effort" \/ (r.ask = "old" /\ call[r.by].effort # None)) => TookEffort(r.by)'
         /\ \A g \in Fields, i \in DOMAIN tx' : ByHost(i, g)' => \/ i \in DOMAIN tx /\ ByHost(i, g)
                                                                 \/ r.ask = "reload" /\ g = "model" /\ i = Len(tx) + 1
  <1>1. /\ r \in Requests /\ r.by \in Calls /\ r.ask \in Asked /\ yes \in BOOLEAN
        /\ \A i \in DOMAIN req' : i + 1 \in DOMAIN req /\ i + 1 # 1 /\ req'[i] = req[i + 1]
        /\ \A i \in DOMAIN req : i # 1 => i - 1 \in DOMAIN req' /\ req'[i - 1] = req[i]
        /\ 1 \in DOMAIN req /\ req[1] = r
        /\ pc' = pc /\ call' = call
    BY RequestOf DEF Serves, Taken, Session, threads
  <1>2. /\ \A i \in DOMAIN tx : i \in DOMAIN tx' /\ tx'[i] = tx[i]
        /\ \A i \in DOMAIN tx' : \/ i \in DOMAIN tx
                                 \/ r.ask \in Waiting /\ Answers(i, r, yes)
                                 \/ r.ask = "mode" /\ yes /\ Announces(i, r.by)
                                 \/ r.ask = "reload" /\ Brings(i, k)
        /\ r.ask \in Waiting => Len(tx') \in DOMAIN tx' /\ Answers(Len(tx'), r, yes)
    BY DEF Serves, Posted
  <1>3. \A d \in Calls : Touches(d)' = Touches(d)
    BY <1>1 DEF Touches
  <1>4. \A d \in Calls : Deep(d)' => Deep(d)
    BY <1>1 DEF Deep
  <1>5. \A d \in Calls : r.ask # "toggle" \/ d # r.by => (Toggling(d)' <=> Toggling(d))
    BY <1>1 DEF Toggling
  <1>6. \A d \in Calls, i \in DOMAIN tx : Accepted(i, d) => i \in DOMAIN tx' /\ Accepted(i, d)' /\ tx'[i].ask = tx[i].ask
    BY <1>2 DEF Accepted
  <1>7. \A d \in Calls, i \in DOMAIN tx' : Accepted(i, d)' =>
          \/ i \in DOMAIN tx /\ Accepted(i, d) /\ tx'[i].ask = tx[i].ask
          \/ d = r.by /\ yes /\ r.ask \in Waiting \ {"reload"} /\ tx'[i].ask = r.ask
    <2> SUFFICES ASSUME NEW d \in Calls, NEW i \in DOMAIN tx', Accepted(i, d)'
                 PROVE  \/ i \in DOMAIN tx /\ Accepted(i, d) /\ tx'[i].ask = tx[i].ask
                        \/ d = r.by /\ yes /\ r.ask \in Waiting \ {"reload"} /\ tx'[i].ask = r.ask
      OBVIOUS
    <2>1. tx'[i].kind = "answer" /\ tx'[i].by = d /\ tx'[i].ok /\ tx'[i].ask # "reload"
      BY DEF Accepted
    <2>2. CASE i \in DOMAIN tx
      BY <1>2, <2>1, <2>2 DEF Accepted
    <2>3. CASE r.ask \in Waiting /\ Answers(i, r, yes)
      BY <2>1, <2>3 DEF Answers
    <2>4. CASE Announces(i, r.by)
      BY <2>1, <2>4 DEF Announces
    <2>5. CASE Brings(i, k)
      BY <2>1, <2>5 DEF Brings
    <2> QED
      BY <1>2, <2>2, <2>3, <2>4, <2>5
  <1>8. yes /\ r.ask \in Waiting \ {"reload"} => \E i \in DOMAIN tx' : Accepted(i, r.by)' /\ tx'[i].ask = r.ask
    <2> SUFFICES ASSUME yes, r.ask \in Waiting \ {"reload"}, NEW i \in DOMAIN tx', i = Len(tx')
                 PROVE  Accepted(i, r.by)' /\ tx'[i].ask = r.ask
      BY <1>2
    <2> QED
      BY <1>2 DEF Answers, Accepted
  <1>9. \A d \in Calls : Pending(d)' => Pending(d) \/ (d = r.by /\ yes /\ r.ask \in Waiting \ {"reload"})
    BY <1>4, <1>7 DEF Pending
  <1>10. /\ \A d \in Calls : TookModel(d) => TookModel(d)'
         /\ \A d \in Calls : TookModel(d)' => TookModel(d) \/ (d = r.by /\ yes /\ r.ask \in {"option", "old"})
         /\ yes /\ r.ask \in {"option", "old"} => TookModel(r.by)'
    <2>1. \A d \in Calls : TookModel(d) => TookModel(d)'
      BY <1>1, <1>6 DEF TookModel
    <2>2. \A d \in Calls : TookModel(d)' => TookModel(d) \/ (d = r.by /\ yes /\ r.ask \in {"option", "old"})
      BY <1>1, <1>7 DEF TookModel
    <2>3. yes /\ r.ask \in {"option", "old"} => TookModel(r.by)'
      BY <1>8 DEF TookModel, Waiting
    <2> QED
      BY <2>1, <2>2, <2>3
  <1>11. /\ \A d \in Calls : TookEffort(d) => TookEffort(d)'
         /\ \A d \in Calls : TookEffort(d)' => \/ TookEffort(d)
                                               \/ /\ d = r.by /\ yes
                                                  /\ r.ask = "effort" \/ (r.ask = "old" /\ call[d].effort # None)
         /\ yes /\ (r.ask = "effort" \/ (r.ask = "old" /\ call[r.by].effort # None)) => TookEffort(r.by)'
    <2>1. \A d \in Calls : TookEffort(d) => TookEffort(d)'
      BY <1>1, <1>6 DEF TookEffort
    <2>2. \A d \in Calls : TookEffort(d)' => \/ TookEffort(d)
                                             \/ /\ d = r.by /\ yes
                                                /\ r.ask = "effort" \/ (r.ask = "old" /\ call[d].effort # None)
      BY <1>1, <1>7 DEF TookEffort
    <2>3. yes /\ (r.ask = "effort" \/ (r.ask = "old" /\ call[r.by].effort # None)) => TookEffort(r.by)'
      BY <1>1, <1>8 DEF TookEffort, Waiting
    <2> QED
      BY <2>1, <2>2, <2>3
  <1>12. \A g \in Fields, i \in DOMAIN tx' : ByHost(i, g)' => \/ i \in DOMAIN tx /\ ByHost(i, g)
                                                              \/ r.ask = "reload" /\ g = "model" /\ i = Len(tx) + 1
    <2> SUFFICES ASSUME NEW g \in Fields, NEW i \in DOMAIN tx', ByHost(i, g)'
                 PROVE  \/ i \in DOMAIN tx /\ ByHost(i, g)
                        \/ r.ask = "reload" /\ g = "model" /\ i = Len(tx) + 1
      OBVIOUS
    <2>1. tx'[i].by = Host /\ (tx'[i].new[g] # None \/ (tx'[i].kind = "catalog" /\ g = "model"))
      BY DEF ByHost
    <2>2. CASE i \in DOMAIN tx
      BY <1>2, <2>1, <2>2 DEF ByHost
    <2>3. CASE Answers(i, r, yes)
      BY <1>1, <2>1, <2>3, NoValue DEF Answers
    <2>4. CASE Announces(i, r.by)
      BY <1>1, <2>1, <2>4, NoValue DEF Announces
    <2>5. CASE r.ask = "reload" /\ Brings(i, k)
      <3>1. g = "model" \/ tx'[i].new[g] # None
        BY <2>1
      <3>2. Nothing \in [Fields -> {None}]
        BY DEF Nothing
      <3> QED
        BY <2>1, <2>5, <3>1, <3>2 DEF Brings
    <2> QED
      BY <1>2, <2>2, <2>3, <2>4, <2>5
  <1> QED
    BY <1>1, <1>3, <1>4, <1>5, <1>9, <1>10, <1>11, <1>12

\* Nobody but the call served is changing a setting that is not excused after it.
LEMMA ServesAlone ==
  ASSUME SettingsInv, NEW r, NEW yes, NEW k, Serves(r, yes, k), yes, NEW f \in Fields,
         f \in Scope(r), Group(f) \in Scope(r), f \notin excused', Group(f) \notin excused'
  PROVE  /\ note[Reader][f] = None
         /\ \A d \in Calls : d # r.by => note[d][f] = None
         /\ \A d \in Calls : Pending(d) /\ Group(f) \in Touches(d) => d = r.by /\ r.ask \notin Waiting
         /\ \A i \in DOMAIN tx : tx[i].new[f] = None /\ ~ByHost(i, f)
         /\ \A i \in DOMAIN tx : tx[i].kind = "catalog" => f \notin {"model", "effort"}
         /\ r.ask \in Waiting => note[r.by][f] = None
  <1> DEFINE c == r.by
             X == Calls \ {r.by}
  <1>1. /\ c \in Calls /\ r.ask \in Asked /\ r.ask \in AsksOf(call[c].op) /\ 1 \in DOMAIN req /\ req[1] = r
    BY RequestOf DEF Serves, Taken
  <1>2. excused \subseteq excused' /\ f \notin OpenAmong(X) /\ Group(f) \notin OpenAmong(X)
    BY DEF Serves, Excuses
  <1>3. /\ note[Reader][f] = None
        /\ \A d \in X : note[d][f] = None
        /\ \A d \in X : Pending(d) => f \notin Touches(d) /\ Group(f) \notin Touches(d)
        /\ \A i \in DOMAIN tx : tx[i].new[f] # None => tx[i].by \in Calls \ X /\ f = "mode"
        /\ \A i \in DOMAIN tx : tx[i].kind = "catalog" => f \notin {"model", "effort"}
        /\ \A i \in DOMAIN tx : ~ByHost(i, f)
    BY <1>2, ShutFacts
  <1>4. call[c].op \in {None, "mode", "toggle", "hello", "perm", "effort", "model", "default",
                        "upsert", "delete", "disable", "enable"}
    BY <1>1, OpFacts
  <1>5. ASSUME r.ask \in Waiting, Group(f) \in Touches(c)
        PROVE  pc[c] = r.ask /\ ~Pending(c) /\ \A i \in DOMAIN tx : ~Answering(i, c)
    <2>1. GivenUp(c) \/ Waits(c)
      BY <1>1 DEF SettingsInv, Waited
    <2>2. ~GivenUp(c)
      BY <1>2, <1>5 DEF GivenUp
    <2>3. Asking(1, c)
      BY <1>1, <1>5 DEF Asking
    <2>4. pc[c] = r.ask /\ \A i \in DOMAIN tx : ~Answering(i, c)
      BY <1>1, <2>1, <2>2, <2>3 DEF Waits
    <2>5. pc[c] \notin Busy
      BY <1>5, <2>4 DEF Waiting, Busy
    <2>6. call[c].op \notin {"toggle", "perm"}
      BY <1>1, <1>4, <1>5, AsksFacts DEF Waiting
    <2>7. \A i \in DOMAIN req : req[i].by = c => req[i].ask \notin {"toggle", "perm"}
      <3>1. \A i \in DOMAIN req : req[i].by = c => req[i].ask \in AsksOf(call[c].op)
        BY DEF SettingsInv, RequestsFit
      <3> QED
        BY <1>4, <2>6, <3>1, AsksFacts
    <2>8. \A i \in DOMAIN tx : ~Accepted(i, c)
      BY <2>4 DEF Accepted, Answering
    <2> QED
      BY <2>4, <2>5, <2>7, <2>8 DEF Pending, Deep
  <1>6. \A d \in Calls : Pending(d) /\ Group(f) \in Touches(d) => d = c /\ r.ask \notin Waiting
    BY <1>3, <1>5
  <1>7. \A i \in DOMAIN tx : tx[i].new[f] = None
    <2> SUFFICES ASSUME NEW i \in DOMAIN tx, tx[i].new[f] # None PROVE FALSE
      OBVIOUS
    <2>1. tx[i].by = c /\ f = "mode"
      BY <1>3
    <2>2. IsMessage(tx[i]) /\ c # Host
      BY <1>1, NoValue DEF SettingsInv, SettingsShape, PipesShape
    <2>3. tx[i].new # Nothing
      BY NothingSaid
    <2>4. tx[i].kind = "news"
      BY <2>2, <2>3 DEF IsMessage
    <2>5. call[c].op = "mode" /\ \E j \in DOMAIN tx : j > i /\ tx[j].kind = "answer" /\ tx[j].by = c /\ tx[j].ok
      BY <2>1, <2>2, <2>4 DEF SettingsInv, NewsFit
    <2>6. r.ask = "mode" /\ r.ask \in Waiting /\ Group(f) \in Touches(c)
      BY <1>1, <1>4, <2>1, <2>5, AsksFacts, TouchesFacts DEF Waiting, Group
    <2> QED
      BY <1>5, <2>5, <2>6 DEF Answering
  <1>8. r.ask \in Waiting => note[c][f] = None
    <2> SUFFICES ASSUME r.ask \in Waiting, note[c][f] # None PROVE FALSE
      OBVIOUS
    <2>1. f \in Touches(c) /\ note[c] # Nothing
      BY <1>1, NothingSaid DEF SettingsInv, NotesFit
    <2>2. pc[c] \in {"tell", "tell option"} /\ Group(f) \in Touches(c)
      BY <1>1, <2>1, GroupTouched DEF SettingsInv, NotesFit
    <2> QED
      BY <1>5, <2>2 DEF Waiting
  <1> QED
    BY <1>3, <1>6, <1>7, <1>8

LEMMA ServesShape ==
  ASSUME SettingsInv, NEW r, NEW yes, NEW k, Serves(r, yes, k)
  PROVE  SettingsShape'
  <1>1. AgentShape /\ FilesShape /\ CopiesShape /\ PipesShape /\ CallsShape /\ BoundsShape
    BY DEF SettingsInv, SettingsShape
  <1>2. AgentShape'
    BY <1>1 DEF Serves, Session, AgentShape
  <1>3. FilesShape'
    BY <1>1 DEF Serves, FilesShape, threads, files
  <1>4. CopiesShape'
    BY <1>1 DEF Serves, CopiesShape, copies, screens, threads
  <1>5. PipesShape'
    <2>1. /\ req' \in Seq(Requests) /\ Len(tx') \in Nat /\ DOMAIN tx' = 1..Len(tx')
          /\ r \in Requests /\ r.by \in Calls /\ yes \in BOOLEAN /\ k \in Catalogs /\ r.ask \in AsksOf(call[r.by].op)
      BY RequestOf DEF Serves, Taken, Posted, Session
    <2>2. ASSUME NEW i \in DOMAIN tx' PROVE IsMessage(tx'[i])
      <3>1. CASE i \in DOMAIN tx
        BY <1>1, <3>1 DEF Serves, Posted, PipesShape
      <3>2. CASE Answers(i, r, yes)
        BY <2>1, <3>2, NothingSaid DEF Answers, IsMessage
      <3>3. CASE r.ask = "mode" /\ Announces(i, r.by)
        <4>1. call[r.by].mode \in Modes
          <5>1. call[r.by].op = "mode"
            BY <2>1, <3>3, AsksFacts, OpFacts
          <5>2. call[r.by] \in Wishes \cup {Wish}
            BY <1>1, <2>1 DEF CallsShape
          <5>3. call[r.by] # Wish
            BY <5>1, NoWish DEF None
          <5> QED
            BY <5>1, <5>2, <5>3, WishFields
        <4>2. tx'[i].new = [Nothing EXCEPT !.mode = call[r.by].mode] /\ tx'[i].kind = "news" /\ tx'[i].by = r.by /\ tx'[i].ok = TRUE
          BY <3>3 DEF Announces
        <4>3. ASSUME NEW m \in Modes, NEW n, n = [Nothing EXCEPT !.mode = m]
              PROVE  n \in Changes /\ n.mode = m /\ n.model = None /\ n.effort = None /\ n.perm = None
          BY <4>3 DEF Nothing, Changes, Fields
        <4>4. call[r.by].mode # None
          BY <4>1, NoValue
        <4> QED
          BY <2>1, <4>1, <4>2, <4>3, <4>4 DEF IsMessage
      <3>4. CASE Brings(i, k)
        BY <2>1, <3>4, NothingSaid DEF Brings, IsMessage
      <3> QED
        BY <3>1, <3>2, <3>3, <3>4 DEF Serves, Posted
    <2> QED
      BY <2>1, <2>2 DEF PipesShape
  <1>6. CallsShape'
    BY <1>1 DEF Serves, Adopts, CallsShape, threads, Warnable
  <1>7. BoundsShape'
    BY <1>1 DEF Serves, Excuses, BoundsShape
  <1> QED
    BY <1>2, <1>3, <1>4, <1>5, <1>6, <1>7 DEF SettingsShape

LEMMA ServesFits ==
  ASSUME SettingsInv, NEW r, NEW yes, NEW k, Serves(r, yes, k)
  PROVE  /\ RequestsFit' /\ AnswersFit' /\ NewsFit' /\ NotesFit' /\ ToggledOnce' /\ Waited' /\ AdoptedInv' /\ CatalogInv'
  <1>1. /\ r.by \in Calls /\ r.ask \in Asked /\ r.ask \in AsksOf(call[r.by].op) /\ 1 \in DOMAIN req /\ req[1] = r
        /\ \A i \in DOMAIN req' : i + 1 \in DOMAIN req /\ i + 1 # 1 /\ req'[i] = req[i + 1]
        /\ \A i, j \in DOMAIN req' : i + 1 = j + 1 => i = j
        /\ \A i \in DOMAIN req : i # 1 => i - 1 \in DOMAIN req' /\ req'[i - 1] = req[i]
        /\ pc' = pc /\ call' = call /\ note' = note /\ cfg' = cfg /\ promoted' = promoted
    BY RequestOf DEF Serves, Taken, threads, copies, files
  <1>2. /\ \A i \in DOMAIN tx : i \in DOMAIN tx' /\ tx'[i] = tx[i]
        /\ \A i \in DOMAIN tx' : \/ i \in DOMAIN tx
                                 \/ r.ask \in Waiting /\ Answers(i, r, yes)
                                 \/ r.ask = "mode" /\ yes /\ Announces(i, r.by)
                                 \/ r.ask = "reload" /\ Brings(i, k)
        /\ r.ask \in Waiting => Len(tx') \in DOMAIN tx' /\ Answers(Len(tx'), r, yes)
    BY DEF Serves, Posted
  <1>3. \A d \in Calls : Touches(d)' = Touches(d)
    BY ServedPipes
  <1>4. excused \subseteq excused' /\ adopted' \in [Calls -> SUBSET {"model", "effort"}]
        /\ (\A d \in Calls : adopted[d] \subseteq adopted'[d]) /\ (yes => PartsOf(call[r.by], r.ask) \subseteq adopted'[r.by])
    BY DEF Serves, Excuses, Adopts
  <1>5. RequestsFit'
    BY <1>1 DEF SettingsInv, RequestsFit
  <1>6. AnswersFit'
    <2> SUFFICES ASSUME NEW i \in DOMAIN tx', tx'[i].kind = "answer"
                 PROVE  tx'[i].ask \in AsksOf(call[tx'[i].by].op) \cap Waiting
      BY <1>1 DEF AnswersFit
    <2>1. CASE i \in DOMAIN tx
      BY <1>2, <2>1 DEF SettingsInv, AnswersFit
    <2>2. CASE r.ask \in Waiting /\ Answers(i, r, yes)
      BY <1>1, <2>2 DEF Answers
    <2> QED
      BY <1>2, <2>1, <2>2 DEF Announces, Brings
  <1>7. NewsFit'
    <2> SUFFICES ASSUME NEW i \in DOMAIN tx', tx'[i].kind = "news", tx'[i].by # Host
                 PROVE  /\ call[tx'[i].by].op = "mode" /\ tx'[i].new.mode = call[tx'[i].by].mode
                        /\ \E j \in DOMAIN tx' : j > i /\ tx'[j].kind = "answer" /\ tx'[j].by = tx'[i].by /\ tx'[j].ok
      BY <1>1 DEF NewsFit
    <2>1. CASE i \in DOMAIN tx
      BY <1>2, <2>1 DEF SettingsInv, NewsFit
    <2>2. CASE r.ask = "mode" /\ yes /\ Announces(i, r.by)
      <3>1. call[r.by].op = "mode"
        BY <1>1, <2>2, AsksFacts, OpFacts
      <3>2. r.ask \in Waiting
        BY <2>2 DEF Waiting
      <3>3. tx'[i].by = r.by /\ i < Len(tx') /\ tx'[i].new = [Nothing EXCEPT !.mode = call[r.by].mode]
        BY <2>2 DEF Announces
      <3>4. tx'[i].new.mode = call[r.by].mode
        BY <3>3 DEF Nothing, Fields
      <3>5. Len(tx') \in DOMAIN tx' /\ tx'[Len(tx')].kind = "answer" /\ tx'[Len(tx')].by = r.by /\ tx'[Len(tx')].ok
        BY <1>2, <2>2, <3>2 DEF Answers
      <3>6. Len(tx') > i
        <4>1. Len(tx') \in Nat /\ DOMAIN tx' = 1..Len(tx')
          BY DEF Serves, Posted
        <4> QED
          BY <3>3, <4>1
      <3> QED
        BY <3>1, <3>3, <3>4, <3>5, <3>6
    <2> QED
      BY <1>2, <2>1, <2>2 DEF Answers, Brings
  <1>8. NotesFit'
    <2>1. NotesFit
      BY DEF SettingsInv
    <2>2. \A d \in Calls, f \in Fields : note'[d][f] # None => f \in Touches(d)'
      <3> SUFFICES ASSUME NEW d \in Calls, NEW f \in Fields, note[d][f] # None PROVE f \in Touches(d)
        BY <1>1, <1>3
      <3> QED
        BY <2>1 DEF NotesFit
    <2> QED
      BY <1>1, <2>1, <2>2 DEF NotesFit
  <1>9. ToggledOnce'
    BY <1>1 DEF SettingsInv, ToggledOnce
  <1>10. Waited'
    <2> SUFFICES ASSUME NEW d \in Calls, ~GivenUp(d)' PROVE Waits(d)'
      BY DEF Waited
    <2>1. Waits(d)
      BY <1>3, <1>4 DEF SettingsInv, Waited, GivenUp
    <2>2. \A i \in DOMAIN req' : Asking(i, d)' => i + 1 \in DOMAIN req /\ i + 1 # 1 /\ Asking(i + 1, d) /\ req'[i].ask = req[i + 1].ask
      BY <1>1 DEF Asking
    <2>3. \A i \in DOMAIN tx' : Answering(i, d)' =>
            \/ i \in DOMAIN tx /\ Answering(i, d) /\ tx'[i].ask = tx[i].ask
            \/ d = r.by /\ r.ask \in Waiting /\ i = Len(tx') /\ tx'[i].ask = r.ask
      <3> SUFFICES ASSUME NEW i \in DOMAIN tx', tx'[i].kind = "answer", tx'[i].by = d
                   PROVE  \/ i \in DOMAIN tx /\ Answering(i, d) /\ tx'[i].ask = tx[i].ask
                          \/ d = r.by /\ r.ask \in Waiting /\ i = Len(tx') /\ tx'[i].ask = r.ask
        BY DEF Answering
      <3>1. CASE i \in DOMAIN tx
        BY <1>2, <3>1 DEF Answering
      <3>2. CASE i \notin DOMAIN tx
        <4>1. r.ask \in Waiting /\ Answers(i, r, yes)
          BY <1>2, <3>2 DEF Announces, Brings
        <4> QED
          BY <4>1 DEF Answers
      <3> QED
        BY <3>1, <3>2
    <2>4. d = r.by /\ r.ask \in Waiting => Asking(1, d)
      BY <1>1 DEF Asking
    <2>5. Asking(1, d) => /\ pc[d] = req[1].ask /\ \A i \in DOMAIN tx : ~Answering(i, d)
                          /\ \A i \in DOMAIN req : i # 1 => ~Asking(i, d)
      BY <1>1, <2>1 DEF Waits
    <2>6. CASE d = r.by /\ r.ask \in Waiting
      <3>1. pc[d] = r.ask /\ (\A i \in DOMAIN tx : ~Answering(i, d)) /\ \A i \in DOMAIN req : i # 1 => ~Asking(i, d)
        BY <1>1, <2>4, <2>5, <2>6
      <3>2. \A i \in DOMAIN req' : ~Asking(i, d)'
        BY <2>2, <3>1
      <3>3. \A i \in DOMAIN tx' : Answering(i, d)' => i = Len(tx') /\ tx'[i].ask = r.ask
        BY <2>3, <3>1
      <3> QED
        BY <1>1, <3>1, <3>2, <3>3 DEF Waits
    <2>7. CASE ~(d = r.by /\ r.ask \in Waiting)
      <3>1. \A i \in DOMAIN tx' : Answering(i, d)' => i \in DOMAIN tx /\ Answering(i, d) /\ tx'[i].ask = tx[i].ask
        BY <2>3, <2>7
      <3>2. \A i \in DOMAIN req' : Asking(i, d)' => pc'[d] = req'[i].ask
        BY <1>1, <2>1, <2>2 DEF Waits
      <3>3. \A i \in DOMAIN tx' : Answering(i, d)' => pc'[d] = tx'[i].ask
        BY <1>1, <2>1, <3>1 DEF Waits
      <3>4. \A i, j \in DOMAIN req' : Asking(i, d)' /\ Asking(j, d)' => i = j
        <4> SUFFICES ASSUME NEW i \in DOMAIN req', NEW j \in DOMAIN req', Asking(i, d)', Asking(j, d)' PROVE i = j
          OBVIOUS
        <4>1. i + 1 \in DOMAIN req /\ j + 1 \in DOMAIN req /\ Asking(i + 1, d) /\ Asking(j + 1, d)
          BY <2>2
        <4>2. i + 1 = j + 1
          BY <2>1, <4>1 DEF Waits
        <4> QED
          BY <1>1, <4>2
      <3>5. \A i, j \in DOMAIN tx' : Answering(i, d)' /\ Answering(j, d)' => i = j
        BY <2>1, <3>1 DEF Waits
      <3>6. \A i \in DOMAIN req', j \in DOMAIN tx' : ~(Asking(i, d)' /\ Answering(j, d)')
        <4> SUFFICES ASSUME NEW i \in DOMAIN req', NEW j \in DOMAIN tx', Asking(i, d)', Answering(j, d)' PROVE FALSE
          OBVIOUS
        <4>1. i + 1 \in DOMAIN req /\ Asking(i + 1, d) /\ j \in DOMAIN tx /\ Answering(j, d)
          BY <2>2, <3>1
        <4> QED
          BY <2>1, <4>1 DEF Waits
      <3> QED
        BY <3>2, <3>3, <3>4, <3>5, <3>6 DEF Waits
    <2> QED
      BY <2>6, <2>7
  <1>11. AdoptedInv'
    <2>1. ASSUME NEW i \in DOMAIN tx', tx'[i].kind = "answer", tx'[i].ok
          PROVE  PartsOf(call[tx'[i].by], tx'[i].ask) \subseteq adopted'[tx'[i].by]
      <3>1. CASE i \in DOMAIN tx
        <4>1. tx'[i] = tx[i] /\ PartsOf(call[tx[i].by], tx[i].ask) \subseteq adopted[tx[i].by]
          BY <1>2, <2>1, <3>1 DEF SettingsInv, AdoptedInv
        <4>2. tx[i].by \in Calls
          BY <2>1, <3>1, <4>1 DEF SettingsInv, SettingsShape, PipesShape, IsMessage
        <4> QED
          BY <1>4, <4>1, <4>2
      <3>2. CASE i \notin DOMAIN tx
        <4>1. Answers(i, r, yes)
          BY <1>2, <2>1, <3>2 DEF Announces, Brings
        <4>2. tx'[i].by = r.by /\ tx'[i].ask = r.ask /\ yes
          BY <2>1, <4>1 DEF Answers
        <4> QED
          BY <1>4, <4>2
      <3> QED
        BY <3>1, <3>2
    <2>2. ASSUME NEW d \in Calls
          PROVE  /\ pc[d] \in {"took option", "tell option"} => "model" \in adopted'[d]
                 /\ pc[d] = "took effort" => "effort" \in adopted'[d]
                 /\ pc[d] \in {"effort", "took effort"} /\ call[d].op = "model" => "model" \in adopted'[d]
                 /\ pc[d] = "took old" => PartsOf(call[d], "old") \subseteq adopted'[d]
                 /\ pc[d] \in {"tell", "ok"} /\ call[d].op \in {"model", "effort"} =>
                      {f \in {"model", "effort"} : call[d][f] # None} \subseteq adopted'[d]
      <3>1. /\ pc[d] \in {"took option", "tell option"} => "model" \in adopted[d]
            /\ pc[d] = "took effort" => "effort" \in adopted[d]
            /\ pc[d] \in {"effort", "took effort"} /\ call[d].op = "model" => "model" \in adopted[d]
            /\ pc[d] = "took old" => PartsOf(call[d], "old") \subseteq adopted[d]
            /\ pc[d] \in {"tell", "ok"} /\ call[d].op \in {"model", "effort"} =>
                 {f \in {"model", "effort"} : call[d][f] # None} \subseteq adopted[d]
        BY DEF SettingsInv, AdoptedInv
      <3>2. adopted[d] \subseteq adopted'[d]
        BY <1>4
      <3> QED
        BY <3>1, <3>2
    <2> QED
      BY <1>1, <2>1, <2>2 DEF AdoptedInv
  <1>12. CatalogInv'
    <2>1. CASE r.ask = "reload"
      <3>1. cat' = Catalog(cfg, promoted)
        BY <2>1 DEF Serves, Session
      <3> QED
        BY <1>1, <3>1 DEF CatalogInv
    <2>2. CASE r.ask # "reload"
      <3>1. cat' = cat
        BY <2>2 DEF Serves, Session
      <3>2. Reloading => Reloading'
        BY <1>1, <2>2 DEF Reloading
      <3> QED
        BY <1>1, <3>1, <3>2 DEF SettingsInv, CatalogInv
    <2> QED
      BY <2>1, <2>2
  <1> QED
    BY <1>5, <1>6, <1>7, <1>8, <1>9, <1>10, <1>11, <1>12

LEMMA ServesExclusive ==
  ASSUME SettingsInv, NEW r, NEW yes, NEW k, Serves(r, yes, k)
  PROVE  ExclusiveInv'
  <1>1. /\ r.by \in Calls /\ r.ask \in Asked /\ yes \in BOOLEAN
        /\ \A d \in Calls : Touches(d)' = Touches(d)
        /\ \A d \in Calls : Deep(d)' => Deep(d)
        /\ \A d \in Calls : Pending(d)' => Pending(d) \/ (d = r.by /\ yes /\ r.ask \in Waiting \ {"reload"})
        /\ \A g \in Fields, i \in DOMAIN tx' : ByHost(i, g)' => \/ i \in DOMAIN tx /\ ByHost(i, g)
                                                                \/ r.ask = "reload" /\ g = "model" /\ i = Len(tx) + 1
    BY ServedPipes
  <1>2. /\ excused \subseteq excused' /\ note' = note /\ (r.ask = "reload" => yes)
    BY DEF Serves, Excuses, Session, copies
  <1> SUFFICES ASSUME NEW g \in {"mode", "model", "perm"}, g \notin excused' PROVE Exclusive(g)'
    BY DEF ExclusiveInv
  <1>3. g \in Fields /\ Group(g) = g /\ Exclusive(g)
    BY <1>2 DEF SettingsInv, ExclusiveInv, Fields, Group
  <1>4. CASE yes /\ g \in Scope(r)
    <2>1. /\ note[Reader][g] = None
          /\ \A d \in Calls : Pending(d) /\ g \in Touches(d) => d = r.by /\ r.ask \notin Waiting
          /\ \A i \in DOMAIN tx : ~ByHost(i, g)
      BY <1>3, <1>4, ServesAlone
    <2>2. ASSUME NEW d \in Calls, g \in Touches(d), Pending(d)' PROVE d = r.by /\ r.ask # "reload"
      <3>1. Pending(d) => d = r.by /\ r.ask # "reload"
        BY <2>1, <2>2 DEF Waiting
      <3> QED
        BY <1>1, <2>2, <3>1
    <2>3. \A i \in DOMAIN tx' : ByHost(i, g)' => r.ask = "reload" /\ i = Len(tx) + 1
      BY <1>1, <1>3, <2>1
    <2>4. \A c, d \in Calls : g \in Touches(c)' /\ g \in Touches(d)' /\ Pending(c)' /\ Pending(d)' => c = d
      BY <1>1, <2>2
    <2>5. \A c \in Calls, i \in DOMAIN tx' : g \in Touches(c)' /\ Pending(c)' => ~ByHost(i, g)'
      <3> SUFFICES ASSUME NEW c \in Calls, NEW i \in DOMAIN tx', g \in Touches(c)', Pending(c)', ByHost(i, g)' PROVE FALSE
        OBVIOUS
      <3>1. r.ask = "reload"
        BY <2>3
      <3>2. r.ask # "reload"
        BY <1>1, <2>2
      <3> QED
        BY <3>1, <3>2
    <2>6. \A i, j \in DOMAIN tx' : ByHost(i, g)' /\ ByHost(j, g)' => i = j
      BY <2>3
    <2> QED
      BY <1>2, <2>1, <2>4, <2>5, <2>6 DEF Exclusive
  <1>5. CASE ~(yes /\ g \in Scope(r))
    <2>1. ~(r.ask = "reload" /\ g = "model")
      BY <1>2, <1>5 DEF Scope
    <2>2. ASSUME NEW d \in Calls, g \in Touches(d), Pending(d)' PROVE Pending(d)
      BY <1>1, <1>5, <2>2 DEF Scope
    <2>3. \A i \in DOMAIN tx' : ByHost(i, g)' => i \in DOMAIN tx /\ ByHost(i, g)
      BY <1>1, <1>3, <2>1
    <2>4. \A c, d \in Calls : g \in Touches(c)' /\ g \in Touches(d)' /\ Pending(c)' /\ Pending(d)' => c = d
      <3> SUFFICES ASSUME NEW c \in Calls, NEW d \in Calls, g \in Touches(c)', g \in Touches(d)', Pending(c)', Pending(d)' PROVE c = d
        OBVIOUS
      <3>1. g \in Touches(c) /\ g \in Touches(d) /\ Pending(c) /\ Pending(d)
        BY <1>1, <2>2
      <3> QED
        BY <1>3, <3>1 DEF Exclusive
    <2>5. \A c \in Calls, i \in DOMAIN tx' : g \in Touches(c)' /\ Pending(c)' => ~ByHost(i, g)'
      <3> SUFFICES ASSUME NEW c \in Calls, NEW i \in DOMAIN tx', g \in Touches(c)', Pending(c)', ByHost(i, g)' PROVE FALSE
        OBVIOUS
      <3>1. g \in Touches(c) /\ Pending(c) /\ i \in DOMAIN tx /\ ByHost(i, g)
        BY <1>1, <2>2, <2>3
      <3> QED
        BY <1>3, <3>1 DEF Exclusive
    <2>6. \A c \in Calls : g \in Touches(c)' /\ Deep(c)' => note'[Reader][g] = None
      <3> SUFFICES ASSUME NEW c \in Calls, g \in Touches(c)', Deep(c)' PROVE note[Reader][g] = None
        BY <1>2
      <3> QED
        BY <1>1, <1>3 DEF Exclusive
    <2>7. \A i, j \in DOMAIN tx' : ByHost(i, g)' /\ ByHost(j, g)' => i = j
      BY <1>3, <2>3 DEF Exclusive
    <2>8. \A i \in DOMAIN tx' : ByHost(i, g)' => note'[Reader][g] = None
      BY <1>2, <1>3, <2>3 DEF Exclusive
    <2> QED
      BY <2>4, <2>5, <2>6, <2>7, <2>8 DEF Exclusive
  <1> QED
    BY <1>4, <1>5

LEMMA ServesTold ==
  ASSUME SettingsInv, NEW r, NEW yes, NEW k, Serves(r, yes, k)
  PROVE  /\ \A f \in Fields : Free(f)' => Free(f)
         /\ ToldInv' /\ HelloInv' /\ NewsInv'
  <1>1. excused \subseteq excused' /\ UNCHANGED <<copies, threads>> /\ r.by \in Calls
    BY ServedPipes DEF Serves, Excuses
  <1>2. note' = note /\ told' = told /\ seen' = seen /\ missed' = missed /\ row' = row /\ permMode' = permMode /\ pc' = pc /\ call' = call
    BY <1>1 DEF copies, threads, screens
  <1>3. \A f \in Fields : Free(f)' => Free(f)
    BY <1>1, <1>2 DEF Free, Loaded, Group
  <1>4. \A f \in Fields : (Unsaid(f)' <=> Unsaid(f)) /\ Snapshot'[f] = Snapshot[f]
    BY <1>2 DEF Unsaid, Snapshot
  <1>5. ToldInv'
    BY <1>1, <1>2, <1>3, <1>4 DEF SettingsInv, ToldInv
  <1>6. HelloInv'
    <2> SUFFICES ASSUME NEW c \in Calls, NEW f \in Fields, pc[c] \in {"hello", "on"}, Free(f)'
                 PROVE  \/ seen[c][f] = told[f] \/ f \in missed \/ Unsaid(f)'
                        \/ f = "perm" /\ "perm told" \in excused'
      BY <1>2 DEF HelloInv
    <2>1. Free(f) /\ ("perm told" \in excused => "perm told" \in excused')
      BY <1>1, <1>3
    <2> QED
      BY <1>4, <2>1 DEF SettingsInv, HelloInv
  <1>7. NewsInv'
    <2> SUFFICES ASSUME NEW f \in Fields, Free(f)', NEW i \in DOMAIN tx' PROVE tx'[i].new[f] \in {None, ag'[f]}
      BY DEF NewsInv
    <2>1. Free(f) /\ f \notin excused' /\ Group(f) \notin excused'
      BY <1>3 DEF Free
    <2>2. CASE i \in DOMAIN tx
      <3>1. tx'[i] = tx[i] /\ tx[i].new[f] \in {None, ag[f]}
        BY <2>1, <2>2 DEF Serves, Posted, SettingsInv, NewsInv
      <3>2. ag'[f] = ag[f] \/ (yes /\ f \in Scope(r) /\ Group(f) \in Scope(r))
        BY DEF Serves, Session
      <3>3. yes /\ f \in Scope(r) /\ Group(f) \in Scope(r) => tx[i].new[f] = None
        BY <2>1, <2>2, ServesAlone
      <3> QED
        BY <3>1, <3>2, <3>3
    <2>3. CASE Answers(i, r, yes) \/ Brings(i, k)
      BY <2>3, NothingSaid DEF Answers, Brings
    <2>4. CASE r.ask = "mode" /\ yes /\ Announces(i, r.by)
      <3>1. ag'.mode = call[r.by].mode
        BY <2>4 DEF Serves, Session
      <3>2. tx'[i].new = [Nothing EXCEPT !.mode = call[r.by].mode]
        BY <2>4 DEF Announces
      <3>3. tx'[i].new[f] = IF f = "mode" THEN call[r.by].mode ELSE None
        BY <3>2 DEF Nothing, Fields
      <3> QED
        BY <3>1, <3>3
    <2> QED
      BY <2>2, <2>3, <2>4 DEF Serves, Posted
  <1> QED
    BY <1>3, <1>5, <1>6, <1>7

LEMMA FlipFacts == ASSUME NEW m \in Modes PROVE Flip(m) \in Modes /\ Flip(Flip(m)) = m
  BY DEF Flip, Modes

LEMMA ServesMode ==
  ASSUME SettingsInv, NEW r, NEW yes, NEW k, Serves(r, yes, k)
  PROVE  ModeInv'
  <1> SUFFICES ASSUME Free("mode")'
               PROVE  /\ \A d \in Calls : call[d].op = "mode" /\ Pending(d)' => call[d].mode = ag'.mode
                      /\ \/ row.mode = ag'.mode
                         \/ \E i \in DOMAIN tx' : tx'[i].new.mode # None
                         \/ \E d \in Calls : Half(d)'
                      /\ \A d \in Calls : Half(d)' => row.mode = Flip(ag'.mode)
    BY DEF ModeInv, Serves, copies, threads
  <1>1. /\ r.by \in Calls /\ r.ask \in Asked /\ yes \in BOOLEAN
        /\ \A d \in Calls : Pending(d)' => Pending(d) \/ (d = r.by /\ yes /\ r.ask \in Waiting \ {"reload"})
        /\ \A d \in Calls : r.ask # "toggle" \/ d # r.by => (Toggling(d)' <=> Toggling(d))
    BY ServedPipes
  <1>2. /\ Free("mode") /\ "mode" \in Fields /\ Group("mode") = "mode" /\ "mode" \notin excused' /\ Loaded
        /\ pc' = pc /\ call' = call /\ row' = row
    BY ServesTold DEF Free, Group, Fields, Serves, copies, threads
  <1>3. /\ \A d \in Calls : call[d].op = "mode" /\ Pending(d) => call[d].mode = ag.mode
        /\ \/ row.mode = ag.mode
           \/ \E i \in DOMAIN tx : tx[i].new.mode # None
           \/ \E d \in Calls : Half(d)
        /\ \A d \in Calls : Half(d) => row.mode = Flip(ag.mode)
    BY <1>2 DEF SettingsInv, ModeInv
  <1>4. /\ r.ask \in AsksOf(call[r.by].op) /\ 1 \in DOMAIN req /\ req[1] = r
        /\ \A i \in DOMAIN req' : i + 1 \in DOMAIN req /\ i + 1 # 1 /\ req'[i] = req[i + 1]
        /\ \A i \in DOMAIN tx : i \in DOMAIN tx' /\ tx'[i] = tx[i]
        /\ r.ask \notin {"mode", "toggle"} => ag'.mode = ag.mode
        /\ yes /\ r.ask = "mode" => ag'.mode = call[r.by].mode
        /\ yes /\ r.ask = "toggle" => ag'.mode = Flip(ag.mode)
        /\ r.ask = "toggle" /\ Loaded => yes
        /\ ag.mode \in Modes
    BY DEF Serves, Taken, Posted, Session, SettingsInv, SettingsShape, AgentShape, Sessions
  <1>5. /\ r.ask = "mode" => call[r.by].op = "mode"
        /\ r.ask = "toggle" => call[r.by].op = "toggle"
        /\ call[r.by].op = "mode" => r.ask = "mode"
        /\ call[r.by].op = "toggle" => r.ask = "toggle"
        /\ r.ask \in {"mode", "toggle"} => "mode" \in Scope(r)
    <2>1. call[r.by].op \in {None, "mode", "toggle", "hello", "perm", "effort", "model", "default",
                             "upsert", "delete", "disable", "enable"}
      BY <1>1, OpFacts
    <2>2. /\ r.ask = "mode" => call[r.by].op = "mode"
          /\ r.ask = "toggle" => call[r.by].op = "toggle"
          /\ call[r.by].op = "mode" => r.ask = "mode"
          /\ call[r.by].op = "toggle" => r.ask = "toggle"
      BY <1>4, <2>1, AsksFacts
    <2>3. r.ask \in {"mode", "toggle"} => "mode" \in Scope(r)
      BY <2>2, TouchesFacts DEF Scope
    <2> QED
      BY <2>2, <2>3
  <1>6. \A d \in Calls : r.ask # "toggle" \/ d # r.by => (Half(d)' <=> Half(d))
    BY <1>1, <1>2 DEF Half
  <1>7. ASSUME yes, r.ask \in {"mode", "toggle"}
        PROVE  /\ \A d \in Calls : Pending(d) /\ "mode" \in Touches(d) => d = r.by /\ r.ask \notin Waiting
               /\ \A i \in DOMAIN tx : tx[i].new["mode"] = None
    BY <1>2, <1>5, <1>7, ServesAlone
  <1>8. \A d \in Calls : Half(d) => Pending(d) /\ "mode" \in Touches(d)
    BY OpenFacts
  <1>9. CASE yes /\ r.ask = "mode"
    <2>1. \A d \in Calls : Pending(d) /\ "mode" \in Touches(d) => FALSE
      BY <1>7, <1>9 DEF Waiting
    <2>2. \A d \in Calls : ~Half(d)'
      BY <1>6, <1>8, <1>9, <2>1
    <2>3. ASSUME NEW d \in Calls, call[d].op = "mode", Pending(d)' PROVE call[d].mode = ag'.mode
      <3>1. d = r.by
        BY <1>1, <2>1, <2>3, TouchesFacts
      <3> QED
        BY <1>4, <1>9, <3>1
    <2>4. \E i \in DOMAIN tx' : tx'[i].new.mode # None
      <3>1. PICK i \in DOMAIN tx' : Announces(i, r.by)
        BY <1>9 DEF Serves, Posted
      <3>2. tx'[i].new.mode = call[r.by].mode
        BY <3>1 DEF Announces, Nothing, Fields
      <3>3. call[r.by].mode \in Modes
        <4>1. call[r.by] \in Wishes \cup {Wish} /\ call[r.by].op = "mode"
          BY <1>1, <1>5, <1>9 DEF SettingsInv, SettingsShape, CallsShape
        <4>2. call[r.by] # Wish
          BY <4>1, NoWish DEF None
        <4> QED
          BY <4>1, <4>2, WishFields
      <3> QED
        BY <3>2, <3>3, NoValue
    <2> QED
      BY <2>2, <2>3, <2>4
  <1>10. CASE yes /\ r.ask = "toggle"
    <2>1. \A d \in Calls : Pending(d) /\ "mode" \in Touches(d) => d = r.by
      BY <1>7, <1>10
    <2>2. ASSUME NEW d \in Calls, call[d].op = "mode", Pending(d)' PROVE FALSE
      <3>1. Pending(d)
        BY <1>1, <1>10, <2>2 DEF Waiting
      <3>2. d = r.by
        BY <2>1, <2>2, <3>1, TouchesFacts
      <3> QED
        BY <1>5, <1>10, <2>2, <3>2
    <2>3. Toggling(r.by) /\ ~Toggling(r.by)'
      <3>1. Toggling(r.by)
        BY <1>4, <1>10 DEF Toggling
      <3>2. ASSUME NEW i \in DOMAIN req', req'[i].by = r.by, req'[i].ask = "toggle" PROVE FALSE
        <4>1. i + 1 \in DOMAIN req /\ i + 1 # 1 /\ req[i + 1].by = req[1].by /\ req[i + 1].ask = "toggle" /\ req[1].ask = "toggle"
          BY <1>4, <1>10, <3>2
        <4> QED
          BY <1>4, <4>1 DEF SettingsInv, ToggledOnce
      <3> QED
        BY <3>1, <3>2 DEF Toggling
    <2>4. call[r.by].op = "toggle" /\ (Half(r.by) <=> pc[r.by] # "flip") /\ (Half(r.by)' <=> pc[r.by] = "flip")
      BY <1>2, <1>5, <1>10, <2>3 DEF Half
    <2>5. \A d \in Calls : d # r.by => ~Half(d) /\ ~Half(d)'
      BY <1>6, <1>8, <2>1
    <2>6. Flip(ag'.mode) = ag.mode
      BY <1>4, <1>10, FlipFacts
    <2>7. \A i \in DOMAIN tx : tx[i].new.mode = None
      BY <1>7, <1>10
    <2>8. CASE pc[r.by] = "flip"
      <3>1. row.mode = ag.mode
        BY <1>3, <2>4, <2>5, <2>7, <2>8
      <3>2. \A d \in Calls : Half(d)' => row.mode = Flip(ag'.mode)
        BY <2>6, <3>1
      <3> QED
        BY <1>1, <2>2, <2>4, <2>8, <3>2
    <2>9. CASE pc[r.by] # "flip"
      <3>1. row.mode = Flip(ag.mode)
        BY <1>1, <1>3, <2>4, <2>9
      <3>2. \A d \in Calls : ~Half(d)'
        BY <2>4, <2>5, <2>9
      <3> QED
        BY <1>4, <1>10, <2>2, <3>1, <3>2
    <2> QED
      BY <2>8, <2>9
  <1>11. CASE ~(yes /\ r.ask \in {"mode", "toggle"})
    <2>1. r.ask # "toggle"
      BY <1>2, <1>4, <1>11
    <2>2. ag'.mode = ag.mode
      <3>1. "mode" \in Fields => ag'["mode"] = ag["mode"] \/ (yes /\ "mode" \in Scope(r))
        BY DEF Serves, Session
      <3>2. r.ask = "mode" => ~yes
        BY <1>11
      <3> QED
        BY <1>2, <1>4, <2>1, <3>1, <3>2
    <2>3. \A d \in Calls : Half(d)' <=> Half(d)
      BY <1>6, <2>1
    <2>4. ASSUME NEW d \in Calls, call[d].op = "mode", Pending(d)' PROVE call[d].mode = ag'.mode
      <3>1. Pending(d)
        BY <1>1, <1>5, <1>11, <2>4
      <3> QED
        BY <1>3, <2>2, <2>4, <3>1
    <2>5. \/ row.mode = ag'.mode
          \/ \E i \in DOMAIN tx' : tx'[i].new.mode # None
          \/ \E d \in Calls : Half(d)'
      BY <1>3, <1>4, <2>2, <2>3
    <2> QED
      BY <1>3, <2>2, <2>3, <2>4, <2>5
  <1> QED
    BY <1>9, <1>10, <1>11

LEMMA ServesPerm ==
  ASSUME SettingsInv, NEW r, NEW yes, NEW k, Serves(r, yes, k)
  PROVE  PermInv'
  <1> SUFFICES ASSUME Free("perm")'
               PROVE  /\ \A d \in Calls : call[d].op = "perm" /\ Pending(d)' => call[d].perm = permMode
                      /\ \/ permMode = ag'.perm
                         \/ \E i \in DOMAIN tx' : tx'[i].new.perm # None
                         \/ \E d \in Calls : pc[d] = "write"
                         \/ \E i \in DOMAIN req' : req'[i].ask = "perm"
    BY DEF PermInv, Serves, copies, threads
  <1>1. /\ r.by \in Calls /\ r.ask \in Asked
        /\ \A d \in Calls : Pending(d)' => Pending(d) \/ (d = r.by /\ yes /\ r.ask \in Waiting \ {"reload"})
    BY ServedPipes
  <1>2. Free("perm") /\ "perm" \in Fields /\ Group("perm") = "perm" /\ "perm" \notin excused'
    BY ServesTold DEF Free, Group, Fields
  <1>3. /\ \A d \in Calls : call[d].op = "perm" /\ Pending(d) => call[d].perm = permMode
        /\ \/ permMode = ag.perm
           \/ \E i \in DOMAIN tx : tx[i].new.perm # None
           \/ \E d \in Calls : pc[d] = "write"
           \/ \E i \in DOMAIN req : req[i].ask = "perm"
    BY <1>2 DEF SettingsInv, PermInv
  <1>4. /\ r.ask \in AsksOf(call[r.by].op) /\ 1 \in DOMAIN req /\ req[1] = r
        /\ \A i \in DOMAIN req : i # 1 => i - 1 \in DOMAIN req' /\ req'[i - 1] = req[i]
        /\ \A i \in DOMAIN tx : i \in DOMAIN tx' /\ tx'[i] = tx[i]
        /\ ag'["perm"] = ag["perm"] \/ (yes /\ "perm" \in Scope(r))
        /\ r.ask = "perm" => yes
        /\ yes /\ r.ask = "perm" => ag'.perm = call[r.by].perm
    BY <1>2 DEF Serves, Taken, Posted, Session
  <1>5. /\ r.ask = "perm" <=> call[r.by].op = "perm"
        /\ "perm" \in Scope(r) <=> r.ask = "perm"
    <2>1. call[r.by].op \in {None, "mode", "toggle", "hello", "perm", "effort", "model", "default",
                             "upsert", "delete", "disable", "enable"}
      BY <1>1, OpFacts
    <2>2. r.ask = "perm" <=> call[r.by].op = "perm"
      BY <1>4, <2>1, AsksFacts
    <2>3. "perm" \in Scope(r) <=> r.ask = "perm"
      BY <2>2, TouchesFacts DEF Scope
    <2> QED
      BY <2>2, <2>3
  <1>6. ASSUME NEW d \in Calls, call[d].op = "perm", Pending(d)' PROVE call[d].perm = permMode
    <2>1. Pending(d)
      BY <1>1, <1>5, <1>6 DEF Waiting
    <2> QED
      BY <1>3, <1>6, <2>1
  <1>7. CASE r.ask = "perm"
    <2>1. Pending(r.by) /\ call[r.by].op = "perm"
      BY <1>4, <1>5, <1>7 DEF Pending, Deep
    <2>2. call[r.by].perm = permMode
      BY <1>1, <1>3, <2>1
    <2> QED
      BY <1>4, <1>6, <1>7, <2>2
  <1>8. CASE r.ask # "perm"
    <2>1. ag'.perm = ag.perm
      BY <1>4, <1>5, <1>8
    <2>2. (\E i \in DOMAIN req : req[i].ask = "perm") => \E i \in DOMAIN req' : req'[i].ask = "perm"
      BY <1>4, <1>8
    <2>3. (\E i \in DOMAIN tx : tx[i].new.perm # None) => \E i \in DOMAIN tx' : tx'[i].new.perm # None
      BY <1>4
    <2> QED
      BY <1>3, <1>6, <2>1, <2>2, <2>3
  <1> QED
    BY <1>7, <1>8

LEMMA ServesModel ==
  ASSUME SettingsInv, NEW r, NEW yes, NEW k, Serves(r, yes, k)
  PROVE  ModelInv'
  <1> SUFFICES ASSUME Free("model")'
               PROVE  /\ \A i \in DOMAIN tx' : tx'[i].kind = "catalog" => WithCatalog(row, tx'[i].k).model = ag'.model
                      /\ \A d \in Calls : TookModel(d)' => call[d].model = ag'.model
                      /\ \/ row.model = ag'.model \/ CatalogAhead'
                         \/ \E i \in DOMAIN tx' : tx'[i].new.model # None
                         \/ \E d \in Calls : TookModel(d)'
    <2>1. row' = row /\ call' = call
      BY DEF Serves, copies, threads
    <2> QED
      BY <2>1 DEF ModelInv, WithCatalog
  <1>1. /\ r.by \in Calls /\ r.ask \in Asked
        /\ \A d \in Calls : TookModel(d) => TookModel(d)'
        /\ \A d \in Calls : TookModel(d)' => TookModel(d) \/ (d = r.by /\ yes /\ r.ask \in {"option", "old"})
        /\ yes /\ r.ask \in {"option", "old"} => TookModel(r.by)'
    BY ServedPipes
  <1>2. Free("model") /\ "model" \in Fields /\ Group("model") = "model" /\ "model" \notin excused' /\ Loaded
    BY ServesTold DEF Free, Group, Fields
  <1>3. /\ \A i \in DOMAIN tx : tx[i].kind = "catalog" => WithCatalog(row, tx[i].k).model = ag.model
        /\ \A d \in Calls : TookModel(d) => call[d].model = ag.model
        /\ \/ row.model = ag.model \/ CatalogAhead
           \/ \E i \in DOMAIN tx : tx[i].new.model # None
           \/ \E d \in Calls : TookModel(d)
    BY <1>2 DEF SettingsInv, ModelInv
  <1>4. /\ \A i \in DOMAIN tx : i \in DOMAIN tx' /\ tx'[i] = tx[i]
        /\ \A i \in DOMAIN tx' : \/ i \in DOMAIN tx
                                 \/ r.ask \in Waiting /\ Answers(i, r, yes)
                                 \/ r.ask = "mode" /\ yes /\ Announces(i, r.by)
                                 \/ r.ask = "reload" /\ Brings(i, k)
        /\ r.ask = "reload" => \E i \in DOMAIN tx' : Brings(i, k)
        /\ r.ask \in AsksOf(call[r.by].op)
        /\ ag'["model"] = ag["model"] \/ (yes /\ "model" \in Scope(r))
        /\ yes /\ r.ask \in {"option", "old"} => ag'.model = call[r.by].model
        /\ r.ask = "reload" => yes /\ ag' = Revalidated(ag, k)
        /\ k \in Catalogs
    BY <1>2 DEF Serves, Posted, Taken, Session
  <1>5. r.ask \in {"option", "old"} \/ r.ask = "reload" => "model" \in Scope(r)
    <2>1. call[r.by].op \in {None, "mode", "toggle", "hello", "perm", "effort", "model", "default",
                             "upsert", "delete", "disable", "enable"}
      BY <1>1, OpFacts
    <2>2. r.ask \in {"option", "old"} => call[r.by].op \in {"model", "default"}
      BY <1>4, <2>1, AsksFacts
    <2> QED
      BY <2>2, TouchesFacts DEF Scope
  <1>6. \A i \in DOMAIN tx' : tx'[i].kind = "catalog" => i \in DOMAIN tx \/ (r.ask = "reload" /\ tx'[i].k = k)
    BY <1>4 DEF Answers, Announces, Brings
  <1>7. ASSUME yes, "model" \in Scope(r)
        PROVE  /\ \A d \in Calls : Pending(d) /\ "model" \in Touches(d) => r.ask \notin Waiting
               /\ \A i \in DOMAIN tx : tx[i].new["model"] = None
               /\ \A i \in DOMAIN tx : tx[i].kind # "catalog"
    BY <1>2, <1>7, ServesAlone
  <1>8. \A d \in Calls : TookModel(d) => Pending(d) /\ "model" \in Touches(d)
    BY OpenFacts
  <1>9. CASE yes /\ r.ask \in {"option", "old"}
    <2>1. \A i \in DOMAIN tx' : tx'[i].kind # "catalog"
      BY <1>4, <1>5, <1>6, <1>7, <1>9
    <2>2. \A d \in Calls : ~TookModel(d)
      BY <1>5, <1>7, <1>8, <1>9 DEF Waiting
    <2>3. \A d \in Calls : TookModel(d)' => call[d].model = ag'.model
      BY <1>1, <1>4, <1>9, <2>2
    <2> QED
      BY <1>1, <1>9, <2>1, <2>3
  <1>10. CASE r.ask = "reload"
    <2>1. /\ \A i \in DOMAIN tx : tx[i].new["model"] = None /\ tx[i].kind # "catalog"
          /\ \A d \in Calls : ~TookModel(d)
      BY <1>4, <1>5, <1>7, <1>8, <1>10 DEF Waiting
    <2>2. row.model = ag.model
      BY <1>3, <2>1 DEF CatalogAhead
    <2>3. row \in Rows /\ ag \in Sessions /\ ag.effort \in Offers[ag.model]
      BY <1>2, LoadedFacts DEF SettingsInv, SettingsShape, AgentShape
    <2>4. WithCatalog(row, k).model = IF row.model \in k.models THEN row.model ELSE k.current
      BY <1>4, <2>3, WithCatalogFacts
    <2>5. Revalidated(ag, k).model = IF ag.model \in k.models THEN ag.model ELSE k.current
      BY <1>4, <2>3, RevalidatedFacts
    <2>6. \A i \in DOMAIN tx' : tx'[i].kind = "catalog" => WithCatalog(row, tx'[i].k).model = ag'.model
      <3> SUFFICES ASSUME NEW i \in DOMAIN tx', tx'[i].kind = "catalog" PROVE WithCatalog(row, tx'[i].k).model = ag'.model
        OBVIOUS
      <3>1. tx'[i].k = k
        BY <1>4, <1>6, <2>1
      <3> QED
        BY <1>4, <1>10, <2>2, <2>4, <2>5, <3>1
    <2>7. \A d \in Calls : ~TookModel(d)'
      BY <1>1, <1>10, <2>1
    <2>8. CatalogAhead'
      BY <1>4, <1>10 DEF CatalogAhead, Brings
    <2> QED
      BY <2>6, <2>7, <2>8
  <1>11. CASE r.ask # "reload" /\ ~(yes /\ r.ask \in {"option", "old"})
    <2>1. ag'.model = ag.model
      BY <1>11 DEF Serves, Session
    <2>2. \A d \in Calls : TookModel(d)' <=> TookModel(d)
      BY <1>1, <1>11
    <2>3. CatalogAhead => CatalogAhead'
      BY <1>4 DEF CatalogAhead
    <2>4. (\E i \in DOMAIN tx : tx[i].new.model # None) => \E i \in DOMAIN tx' : tx'[i].new.model # None
      BY <1>4
    <2>5. \A i \in DOMAIN tx' : tx'[i].kind = "catalog" => WithCatalog(row, tx'[i].k).model = ag'.model
      BY <1>3, <1>4, <1>6, <1>11, <2>1
    <2> QED
      BY <1>3, <2>1, <2>2, <2>3, <2>4, <2>5
  <1> QED
    BY <1>9, <1>10, <1>11

LEMMA ServesEffort ==
  ASSUME SettingsInv, NEW r, NEW yes, NEW k, Serves(r, yes, k)
  PROVE  EffortInv'
  <1> SUFFICES ASSUME Free("effort")'
               PROVE  /\ \A i \in DOMAIN tx' : tx'[i].kind = "catalog" => WithCatalog(row, tx'[i].k).effort \in {ag'.effort, Unset}
                      /\ \A d \in Calls : TookEffort(d)' => call[d].effort = ag'.effort
                      /\ \/ row.effort \in {ag'.effort, Unset} \/ CatalogAhead'
                         \/ \E i \in DOMAIN tx' : tx'[i].new.effort # None
                         \/ \E d \in Calls : TookEffort(d)'
    <2>1. row' = row /\ call' = call
      BY DEF Serves, copies, threads
    <2> QED
      BY <2>1 DEF EffortInv, WithCatalog
  <1> DEFINE Took1 == yes /\ (r.ask = "effort" \/ (r.ask = "old" /\ call[r.by].effort # None))
             Lapses == yes /\ (r.ask = "option" \/ (r.ask = "old" /\ call[r.by].effort = None))
  <1>1. /\ r.by \in Calls /\ r.ask \in Asked
        /\ \A d \in Calls : TookEffort(d) => TookEffort(d)'
        /\ \A d \in Calls : TookEffort(d)' => TookEffort(d) \/ (d = r.by /\ Took1)
        /\ Took1 => TookEffort(r.by)'
    BY ServedPipes
  <1>2. /\ Free("effort") /\ Free("model") /\ "effort" \in Fields /\ Group("effort") = "model"
        /\ "model" \in Fields /\ Group("model") = "model"
        /\ "model" \notin excused' /\ "effort" \notin excused' /\ Loaded
    BY ServesTold DEF Free, Group, Fields
  <1>3. /\ \A i \in DOMAIN tx : tx[i].kind = "catalog" => WithCatalog(row, tx[i].k).effort \in {ag.effort, Unset}
        /\ \A d \in Calls : TookEffort(d) => call[d].effort = ag.effort
        /\ \/ row.effort \in {ag.effort, Unset} \/ CatalogAhead
           \/ \E i \in DOMAIN tx : tx[i].new.effort # None
           \/ \E d \in Calls : TookEffort(d)
    BY <1>2 DEF SettingsInv, EffortInv
  <1>4. /\ \A i \in DOMAIN tx : i \in DOMAIN tx' /\ tx'[i] = tx[i]
        /\ \A i \in DOMAIN tx' : \/ i \in DOMAIN tx
                                 \/ r.ask \in Waiting /\ Answers(i, r, yes)
                                 \/ r.ask = "mode" /\ yes /\ Announces(i, r.by)
                                 \/ r.ask = "reload" /\ Brings(i, k)
        /\ r.ask = "reload" => \E i \in DOMAIN tx' : Brings(i, k)
        /\ r.ask \in AsksOf(call[r.by].op)
        /\ ag'["effort"] = ag["effort"] \/ (yes /\ "effort" \in Scope(r) /\ "model" \in Scope(r))
        /\ Took1 => ag'.effort = call[r.by].effort
        /\ Lapses => ag'.effort = ag.effort
        /\ r.ask = "reload" => yes /\ ag' = Revalidated(ag, k)
        /\ k \in Catalogs
    BY <1>2 DEF Serves, Posted, Taken, Session, Excuses
  <1>5. r.ask \in {"option", "old", "effort", "reload"} => "model" \in Scope(r) /\ "effort" \in Scope(r)
    <2>1. call[r.by].op \in {None, "mode", "toggle", "hello", "perm", "effort", "model", "default",
                             "upsert", "delete", "disable", "enable"}
      BY <1>1, OpFacts
    <2>2. r.ask \in {"option", "old", "effort"} => call[r.by].op \in {"model", "default", "effort"}
      BY <1>4, <2>1, AsksFacts
    <2> QED
      BY <2>2, TouchesFacts DEF Scope
  <1>6. \A i \in DOMAIN tx' : tx'[i].kind = "catalog" => i \in DOMAIN tx \/ (r.ask = "reload" /\ tx'[i].k = k)
    BY <1>4 DEF Answers, Announces, Brings
  <1>7. ASSUME yes, r.ask \in {"option", "old", "effort", "reload"}
        PROVE  /\ \A d \in Calls : ~(Pending(d) /\ "model" \in Touches(d))
               /\ \A i \in DOMAIN tx : tx[i].new["model"] = None /\ tx[i].new["effort"] = None /\ tx[i].kind # "catalog"
    <2>1. /\ \A d \in Calls : Pending(d) /\ "model" \in Touches(d) => r.ask \notin Waiting
          /\ \A i \in DOMAIN tx : tx[i].new["model"] = None
          /\ \A i \in DOMAIN tx : tx[i].kind # "catalog"
      BY <1>2, <1>5, <1>7, ServesAlone
    <2>2. \A i \in DOMAIN tx : tx[i].new["effort"] = None
      BY <1>2, <1>5, <1>7, ServesAlone
    <2>3. r.ask \in Waiting
      BY <1>7 DEF Waiting
    <2> QED
      BY <2>1, <2>2, <2>3
  <1>8. \A d \in Calls : (TookEffort(d) \/ TookModel(d)) => Pending(d) /\ "model" \in Touches(d)
    BY OpenFacts
  <1>9. CASE Took1
    <2>1. \A i \in DOMAIN tx' : tx'[i].kind # "catalog"
      BY <1>4, <1>6, <1>7, <1>9
    <2>2. \A d \in Calls : ~TookEffort(d)
      BY <1>7, <1>8, <1>9
    <2>3. \A d \in Calls : TookEffort(d)' => call[d].effort = ag'.effort
      BY <1>1, <1>4, <1>9, <2>2
    <2> QED
      BY <1>1, <1>9, <2>1, <2>3
  <1>10. CASE r.ask = "reload"
    <2>1. /\ \A i \in DOMAIN tx : tx[i].new["model"] = None /\ tx[i].new["effort"] = None /\ tx[i].kind # "catalog"
          /\ \A d \in Calls : ~TookEffort(d) /\ ~TookModel(d)
      BY <1>4, <1>7, <1>8, <1>10
    <2>2. row.model = ag.model
      <3>1. \/ row.model = ag.model \/ CatalogAhead
            \/ \E i \in DOMAIN tx : tx[i].new.model # None
            \/ \E d \in Calls : TookModel(d)
        BY <1>2 DEF SettingsInv, ModelInv
      <3> QED
        BY <2>1, <3>1 DEF CatalogAhead
    <2>3. row.effort \in {ag.effort, Unset}
      BY <1>3, <2>1 DEF CatalogAhead
    <2>4. row \in Rows /\ ag \in Sessions /\ ag.effort \in Offers[ag.model]
      BY <1>2, LoadedFacts DEF SettingsInv, SettingsShape, AgentShape
    <2>5. PICK m : m = IF ag.model \in k.models THEN ag.model ELSE k.current
      OBVIOUS
    <2>6. WithCatalog(row, k).effort = IF row.effort \in Offers[m] THEN row.effort ELSE Unset
      BY <1>4, <2>2, <2>4, <2>5, WithCatalogFacts
    <2>7. Revalidated(ag, k).effort = IF ag.effort \in Offers[m] THEN ag.effort ELSE DefaultEffort(m)
      BY <1>4, <2>4, <2>5, RevalidatedFacts
    <2>8. WithCatalog(row, k).effort \in {ag'.effort, Unset}
      BY <1>4, <1>10, <2>3, <2>6, <2>7
    <2>9. \A i \in DOMAIN tx' : tx'[i].kind = "catalog" => WithCatalog(row, tx'[i].k).effort \in {ag'.effort, Unset}
      <3> SUFFICES ASSUME NEW i \in DOMAIN tx', tx'[i].kind = "catalog" PROVE WithCatalog(row, tx'[i].k).effort \in {ag'.effort, Unset}
        OBVIOUS
      <3>1. tx'[i].k = k
        BY <1>4, <1>6, <2>1
      <3> QED
        BY <2>8, <3>1
    <2>10. \A d \in Calls : ~TookEffort(d)'
      BY <1>1, <1>10, <2>1
    <2>11. CatalogAhead'
      BY <1>4, <1>10 DEF CatalogAhead, Brings
    <2> QED
      BY <2>9, <2>10, <2>11
  <1>11. CASE r.ask # "reload" /\ ~Took1
    <2>1. ag'.effort = ag.effort
      <3>1. (~yes => ag' = ag) /\ (r.ask \notin {"option", "old", "effort", "reload"} => ag'.effort = ag.effort)
        BY DEF Serves, Session
      <3> QED
        BY <1>4, <1>11, <3>1
    <2>2. \A d \in Calls : TookEffort(d)' <=> TookEffort(d)
      BY <1>1, <1>11
    <2>3. CatalogAhead => CatalogAhead'
      BY <1>4 DEF CatalogAhead
    <2>4. (\E i \in DOMAIN tx : tx[i].new.effort # None) => \E i \in DOMAIN tx' : tx'[i].new.effort # None
      BY <1>4
    <2>5. \A i \in DOMAIN tx' : tx'[i].kind = "catalog" => WithCatalog(row, tx'[i].k).effort \in {ag'.effort, Unset}
      BY <1>3, <1>4, <1>6, <1>11, <2>1
    <2> QED
      BY <1>3, <2>1, <2>2, <2>3, <2>4, <2>5
  <1> QED
    BY <1>9, <1>10, <1>11

LEMMA AgentServesInv == ASSUME SettingsInv, AgentServes PROVE SettingsInv'
  <1>1. PICK r, yes, k : Serves(r, yes, k)
    BY ServesOne
  <1>2. SettingsShape'
    BY <1>1, ServesShape
  <1>3. RequestsFit' /\ AnswersFit' /\ NewsFit' /\ NotesFit' /\ ToggledOnce' /\ Waited' /\ AdoptedInv' /\ CatalogInv'
    BY <1>1, ServesFits
  <1>4. ExclusiveInv'
    BY <1>1, ServesExclusive
  <1>5. ToldInv' /\ HelloInv' /\ NewsInv'
    BY <1>1, ServesTold
  <1>6. ModeInv' /\ ModelInv' /\ EffortInv' /\ PermInv'
    BY <1>1, ServesMode, ServesModel, ServesEffort, ServesPerm
  <1> QED
    BY <1>2, <1>3, <1>4, <1>5, <1>6 DEF SettingsInv

(***************************************************************************)
(* Settings: the agent changes something by itself.                        *)
(***************************************************************************)
Moved(n) ==
  /\ n \in Changes /\ (n.model = None <=> n.effort = None)
  /\ ag' \in Sessions /\ ag'.model \in cat.models /\ ag'.effort \in Offers[ag'.model]
  /\ \A f \in Fields : ag'[f] = IF n[f] = None THEN ag[f] ELSE n[f]
  /\ Len(tx') \in Nat /\ DOMAIN tx' = 1..Len(tx') /\ Len(tx') \in DOMAIN tx' /\ Len(tx') \notin DOMAIN tx
  /\ \A i \in DOMAIN tx : i \in DOMAIN tx' /\ tx'[i] = tx[i]
  /\ \A i \in DOMAIN tx' \ DOMAIN tx :
       i = Len(tx') /\ tx'[i].kind = "news" /\ tx'[i].by = Host /\ tx'[i].ok = TRUE /\ tx'[i].new = n
  /\ excused \subseteq excused' /\ excused' \subseteq Fields \cup {"perm told"}
  /\ \A f \in Fields : n[f] # None /\ f \in OpenAmong(Calls) => f \in excused'
  /\ Loaded /\ moves' \in 0..MaxMoves
  /\ UNCHANGED <<cat, modern, adopted, req, copies, threads, files>>

LEMMA MovesOne == ASSUME SettingsInv, AgentMoves PROVE \E n : Moved(n)
  <1>1. /\ ag \in Sessions /\ cat \in Catalogs /\ ag.model \in cat.models /\ ag.effort \in Offers[ag.model]
        /\ Len(tx) \in Nat /\ DOMAIN tx = 1..Len(tx) /\ excused \subseteq Fields \cup {"perm told"}
    BY DEF SettingsInv, SettingsShape, AgentShape, PipesShape, BoundsShape
  <1>2. PICK n : /\ \/ \E m \in Modes : n = [Nothing EXCEPT !.mode = m]
                    \/ \E p \in Perms : n = [Nothing EXCEPT !.perm = p]
                    \/ \E m \in cat.models : n = [Nothing EXCEPT !.model = m, !.effort = Switched(ag, m).effort]
                 /\ ag' = Merge(ag, n) /\ tx' = Append(tx, News(Host, n))
                 /\ excused' = excused \cup Apart({f \in Fields : n[f] # None}, Host)
    BY DEF AgentMoves
  <1>3. n \in Changes /\ (n.model = None <=> n.effort = None)
        /\ \/ n["model"] = None /\ n["effort"] = None
           \/ n["model"] \in cat.models /\ n["effort"] \in Offers[n["model"]]
    <2>1. ASSUME NEW m \in Modes, n = [Nothing EXCEPT !.mode = m]
          PROVE  n \in Changes /\ n.model = None /\ n.effort = None
      BY <2>1 DEF Nothing, Fields, Changes
    <2>2. ASSUME NEW p \in Perms, n = [Nothing EXCEPT !.perm = p]
          PROVE  n \in Changes /\ n.model = None /\ n.effort = None
      BY <2>2 DEF Nothing, Fields, Changes
    <2>3. ASSUME NEW m \in cat.models, n = [Nothing EXCEPT !.model = m, !.effort = Switched(ag, m).effort]
          PROVE  n \in Changes /\ n.model = m /\ n.effort \in Offers[m] /\ n.model # None /\ n.effort # None
      <3>1. m \in Models
        BY <1>1, <2>3 DEF Catalogs
      <3>2. Switched(ag, m).effort \in Offers[m] /\ Offers[m] \subseteq Efforts
        BY <1>1, <3>1, SwitchedFacts, DefaultFacts
      <3>3. ASSUME NEW e \in Efforts, n = [Nothing EXCEPT !.model = m, !.effort = e]
            PROVE  n \in Changes /\ n.model = m /\ n.effort = e
        BY <3>1, <3>3 DEF Nothing, Fields, Changes
      <3> QED
        BY <2>3, <3>1, <3>2, <3>3, NoValue
    <2> QED
      BY <1>2, <2>1, <2>2, <2>3
  <1>4. \A f \in Fields : ag'[f] = IF n[f] = None THEN ag[f] ELSE n[f]
    BY <1>1, <1>2 DEF Merge, Sessions, Fields
  <1>5. ag' \in Sessions /\ ag'.model \in cat.models /\ ag'.effort \in Offers[ag'.model]
    <2>1. n["model"] # None => n["model"] \in Models /\ n["effort"] \in Efforts
      BY <1>1, <1>3, DefaultFacts DEF Catalogs
    <2>2. ag' = [f \in Fields |-> IF n[f] = None THEN ag[f] ELSE n[f]]
      BY <1>1, <1>2 DEF Merge, Sessions, Fields
    <2>3. /\ ag'["mode"] \in Modes /\ ag'["perm"] \in Perms /\ ag'["model"] \in Models /\ ag'["effort"] \in Efforts
      BY <1>1, <1>3, <1>4, <2>1 DEF Changes, Sessions, Fields
    <2>4. ag' \in Sessions
      BY <2>2, <2>3 DEF Sessions, Fields
    <2>5. (n["model"] = None /\ n["effort"] = None) => ag'["model"] = ag["model"] /\ ag'["effort"] = ag["effort"]
      BY <1>4 DEF Fields
    <2>6. ~(n["model"] = None /\ n["effort"] = None) => ag'["model"] = n["model"] /\ ag'["effort"] = n["effort"]
      BY <1>3, <1>4 DEF Fields
    <2> QED
      BY <1>1, <1>3, <2>4, <2>5, <2>6
  <1>6. /\ Len(tx') \in Nat /\ DOMAIN tx' = 1..Len(tx') /\ Len(tx') \in DOMAIN tx' /\ Len(tx') \notin DOMAIN tx
        /\ \A i \in DOMAIN tx : i \in DOMAIN tx' /\ tx'[i] = tx[i]
        /\ \A i \in DOMAIN tx' \ DOMAIN tx :
             i = Len(tx') /\ tx'[i].kind = "news" /\ tx'[i].by = Host /\ tx'[i].ok = TRUE /\ tx'[i].new = n
    <2> SUFFICES ASSUME NEW u, u = News(Host, n), NEW t, t = tx'
                 PROVE  /\ Len(t) \in Nat /\ DOMAIN t = 1..Len(t) /\ Len(t) \in DOMAIN t /\ Len(t) \notin DOMAIN tx
                        /\ \A i \in DOMAIN tx : i \in DOMAIN t /\ t[i] = tx[i]
                        /\ \A i \in DOMAIN t \ DOMAIN tx :
                             i = Len(t) /\ t[i].kind = "news" /\ t[i].by = Host /\ t[i].ok = TRUE /\ t[i].new = n
      OBVIOUS
    <2>1. u.kind = "news" /\ u.by = Host /\ u.ok = TRUE /\ u.new = n
      BY DEF News, Message
    <2>2. /\ Len(t) = Len(tx) + 1 /\ DOMAIN t = 1..Len(t)
          /\ \A i \in DOMAIN tx : i \in DOMAIN t /\ t[i] = tx[i]
          /\ Len(t) \in DOMAIN t /\ t[Len(t)] = u
          /\ \A i \in DOMAIN t : i \in DOMAIN tx \/ i = Len(t)
      BY ZenonT(40), <1>1, <1>2, AppendFacts
    <2>3. Len(t) \in Nat /\ Len(t) \notin DOMAIN tx
      <3>1. \A a \in Nat : a + 1 \in Nat /\ a + 1 \notin 1..a
        OBVIOUS
      <3>2. Len(tx) \in Nat /\ DOMAIN tx = 1..Len(tx) /\ Len(t) = Len(tx) + 1
        BY <1>1, <2>2
      <3> QED
        BY <3>1, <3>2, Zenon
    <2> QED
      BY <2>1, <2>2, <2>3
  <1>7. /\ excused \subseteq excused' /\ excused' \subseteq Fields \cup {"perm told"}
        /\ \A f \in Fields : n[f] # None /\ f \in OpenAmong(Calls) => f \in excused'
    <2>1. Calls \ {Host} = Calls
      BY NoValue
    <2> QED
      BY <1>1, <1>2, <2>1 DEF Apart
  <1>8. Loaded /\ moves' \in 0..MaxMoves /\ UNCHANGED <<cat, modern, adopted, req, copies, threads, files>>
    BY MoveFacts DEF AgentMoves, SettingsInv
  <1> QED
    BY <1>3, <1>4, <1>5, <1>6, <1>7, <1>8 DEF Moved

\* Nobody is changing what the agent changes, or it is excused.
LEMMA MovesAlone ==
  ASSUME SettingsInv, NEW n, Moved(n), NEW f \in Fields, n[f] # None, f \notin excused', Group(f) \notin excused'
  PROVE  /\ note[Reader][f] = None
         /\ \A d \in Calls : ~(Pending(d) /\ Group(f) \in Touches(d))
         /\ \A i \in DOMAIN tx : tx[i].new[f] = None /\ ~ByHost(i, f)
         /\ \A i \in DOMAIN tx : tx[i].kind = "catalog" => f \notin {"model", "effort"}
  <1>1. n[Group(f)] # None /\ Group(f) \in Fields
    <2>1. f = "effort" => n["model"] # None
      BY DEF Moved
    <2> QED
      BY <2>1 DEF Group, Fields
  <1>2. f \notin OpenAmong(Calls) /\ Group(f) \notin OpenAmong(Calls)
    BY <1>1 DEF Moved
  <1>3. /\ note[Reader][f] = None
        /\ \A d \in Calls : Pending(d) => f \notin Touches(d) /\ Group(f) \notin Touches(d)
        /\ \A i \in DOMAIN tx : tx[i].new[f] # None => tx[i].by \in Calls \ Calls /\ f = "mode"
        /\ \A i \in DOMAIN tx : tx[i].kind = "catalog" => f \notin {"model", "effort"}
        /\ \A i \in DOMAIN tx : ~ByHost(i, f)
    BY <1>2, ShutFacts
  <1> QED
    BY <1>3

LEMMA MovesPipes ==
  ASSUME SettingsInv, NEW n, Moved(n)
  PROVE  /\ \A d \in Calls : Touches(d)' = Touches(d) /\ (Deep(d)' <=> Deep(d)) /\ (Pending(d)' <=> Pending(d))
         /\ \A d \in Calls : (Half(d)' <=> Half(d)) /\ (TookModel(d)' <=> TookModel(d)) /\ (TookEffort(d)' <=> TookEffort(d))
         /\ \A d \in Calls, i \in DOMAIN tx' : Answering(i, d)' => i \in DOMAIN tx /\ Answering(i, d)
         /\ \A f \in Fields : Free(f)' => Free(f)
         /\ CatalogAhead' <=> CatalogAhead
  <1>1. /\ req' = req /\ pc' = pc /\ call' = call /\ row' = row /\ excused \subseteq excused'
        /\ \A i \in DOMAIN tx : i \in DOMAIN tx' /\ tx'[i] = tx[i]
        /\ \A i \in DOMAIN tx' : i \in DOMAIN tx \/ tx'[i].kind = "news"
    BY DEF Moved, threads, copies
  <1>2. \A d \in Calls : Touches(d)' = Touches(d) /\ (Deep(d)' <=> Deep(d)) /\ (Toggling(d)' <=> Toggling(d))
    BY <1>1 DEF Touches, Deep, Toggling
  <1>3. \A d \in Calls, i \in DOMAIN tx' : Accepted(i, d)' => i \in DOMAIN tx /\ Accepted(i, d)
    BY <1>1 DEF Accepted
  <1>4. \A d \in Calls, i \in DOMAIN tx : Accepted(i, d) => Accepted(i, d)'
    BY <1>1 DEF Accepted
  <1>5. \A d \in Calls : Pending(d)' <=> Pending(d)
    BY <1>1, <1>2, <1>3, <1>4 DEF Pending
  <1>6. \A d \in Calls : Half(d)' <=> Half(d)
    BY <1>1, <1>2 DEF Half
  <1>7. \A d \in Calls : TookModel(d)' <=> TookModel(d)
    BY <1>1, <1>3, <1>4 DEF TookModel
  <1>8. \A d \in Calls : TookEffort(d)' <=> TookEffort(d)
    BY <1>1, <1>3, <1>4 DEF TookEffort
  <1>9. \A d \in Calls, i \in DOMAIN tx' : Answering(i, d)' => i \in DOMAIN tx /\ Answering(i, d)
    BY <1>1 DEF Answering
  <1>10. \A f \in Fields : Free(f)' => Free(f)
    BY <1>1 DEF Free, Loaded
  <1>11. CatalogAhead' <=> CatalogAhead
    BY <1>1 DEF CatalogAhead
  <1> QED
    BY <1>2, <1>5, <1>6, <1>7, <1>8, <1>9, <1>10, <1>11

LEMMA MovesFits ==
  ASSUME SettingsInv, NEW n, Moved(n)
  PROVE  /\ SettingsShape' /\ RequestsFit' /\ AnswersFit' /\ NewsFit' /\ NotesFit' /\ ToggledOnce' /\ Waited'
         /\ AdoptedInv' /\ CatalogInv' /\ ToldInv' /\ HelloInv'
  <1>1. /\ req' = req /\ cat' = cat /\ adopted' = adopted /\ UNCHANGED <<modern, copies, threads, files>>
        /\ \A i \in DOMAIN tx : i \in DOMAIN tx' /\ tx'[i] = tx[i]
        /\ \A i \in DOMAIN tx' \ DOMAIN tx : tx'[i].kind = "news" /\ tx'[i].by = Host /\ tx'[i].ok = TRUE /\ tx'[i].new = n
        /\ excused \subseteq excused' /\ n \in Changes /\ (n.model = None <=> n.effort = None)
    BY DEF Moved
  <1>2. /\ note' = note /\ told' = told /\ seen' = seen /\ missed' = missed /\ row' = row /\ permMode' = permMode
        /\ pc' = pc /\ call' = call /\ warned' = warned /\ table' = table /\ cfg' = cfg /\ promoted' = promoted
    BY <1>1 DEF copies, threads, screens, files
  <1>3. /\ \A d \in Calls : Touches(d)' = Touches(d)
        /\ \A d \in Calls, i \in DOMAIN tx' : Answering(i, d)' => i \in DOMAIN tx /\ Answering(i, d)
        /\ \A f \in Fields : Free(f)' => Free(f)
    BY MovesPipes
  <1>4. AgentShape /\ FilesShape /\ CopiesShape /\ PipesShape /\ CallsShape /\ BoundsShape
    BY DEF SettingsInv, SettingsShape
  <1>5. SettingsShape'
    <2>1. AgentShape'
      BY <1>1, <1>4 DEF AgentShape, Moved
    <2>2. FilesShape'
      BY <1>2, <1>4 DEF FilesShape
    <2>3. CopiesShape'
      BY <1>2, <1>4 DEF CopiesShape
    <2>4. PipesShape'
      <3>1. req' \in Seq(Requests) /\ Len(tx') \in Nat /\ DOMAIN tx' = 1..Len(tx')
        BY <1>1, <1>4 DEF PipesShape, Moved
      <3>2. ASSUME NEW i \in DOMAIN tx' PROVE IsMessage(tx'[i])
        <4>1. CASE i \in DOMAIN tx
          BY <1>1, <1>4, <4>1 DEF PipesShape
        <4>2. CASE i \notin DOMAIN tx
          BY <1>1, <4>2 DEF IsMessage
        <4> QED
          BY <4>1, <4>2
      <3> QED
        BY <3>1, <3>2 DEF PipesShape
    <2>5. CallsShape'
      BY <1>1, <1>2, <1>4 DEF CallsShape, Warnable
    <2>6. BoundsShape'
      BY DEF BoundsShape, Moved
    <2> QED
      BY <2>1, <2>2, <2>3, <2>4, <2>5, <2>6 DEF SettingsShape
  <1>6. RequestsFit' /\ ToggledOnce'
    BY <1>1, <1>2 DEF SettingsInv, RequestsFit, ToggledOnce
  <1>7. AnswersFit'
    <2> SUFFICES ASSUME NEW i \in DOMAIN tx', tx'[i].kind = "answer"
                 PROVE  tx'[i].ask \in AsksOf(call[tx'[i].by].op) \cap Waiting
      BY <1>2 DEF AnswersFit
    <2>1. i \in DOMAIN tx
      BY <1>1
    <2> QED
      BY <1>1, <2>1 DEF SettingsInv, AnswersFit
  <1>8. NewsFit'
    <2> SUFFICES ASSUME NEW i \in DOMAIN tx', tx'[i].kind = "news", tx'[i].by # Host
                 PROVE  /\ call[tx'[i].by].op = "mode" /\ tx'[i].new.mode = call[tx'[i].by].mode
                        /\ \E j \in DOMAIN tx' : j > i /\ tx'[j].kind = "answer" /\ tx'[j].by = tx'[i].by /\ tx'[j].ok
      BY <1>2 DEF NewsFit
    <2>1. i \in DOMAIN tx
      BY <1>1
    <2> QED
      BY <1>1, <2>1 DEF SettingsInv, NewsFit
  <1>9. NotesFit'
    <2>1. NotesFit
      BY DEF SettingsInv
    <2>2. \A d \in Calls, f \in Fields : note'[d][f] # None => f \in Touches(d)'
      <3> SUFFICES ASSUME NEW d \in Calls, NEW f \in Fields, note[d][f] # None PROVE f \in Touches(d)
        BY <1>2, <1>3
      <3> QED
        BY <2>1 DEF NotesFit
    <2> QED
      BY <1>2, <2>1, <2>2 DEF NotesFit
  <1>10. Waited'
    <2> SUFFICES ASSUME NEW d \in Calls, ~GivenUp(d)' PROVE Waits(d)'
      BY DEF Waited
    <2>1. Waits(d)
      BY <1>1, <1>3 DEF SettingsInv, Waited, GivenUp
    <2>2. \A i \in DOMAIN req : Asking(i, d)' <=> Asking(i, d)
      BY <1>1 DEF Asking
    <2> QED
      BY <1>1, <1>2, <1>3, <2>1, <2>2 DEF Waits
  <1>11. AdoptedInv'
    <2>1. \A i \in DOMAIN tx' : tx'[i].kind = "answer" => i \in DOMAIN tx /\ tx'[i] = tx[i]
      BY <1>1
    <2> QED
      BY <1>1, <1>2, <2>1 DEF SettingsInv, AdoptedInv
  <1>12. CatalogInv'
    BY <1>1, <1>2 DEF SettingsInv, CatalogInv, Reloading
  <1>13. \A f \in Fields : (Unsaid(f)' <=> Unsaid(f)) /\ Snapshot'[f] = Snapshot[f]
    BY <1>2 DEF Unsaid, Snapshot
  <1>14. ToldInv'
    BY <1>1, <1>2, <1>3, <1>13 DEF SettingsInv, ToldInv
  <1>15. HelloInv'
    <2> SUFFICES ASSUME NEW c \in Calls, NEW f \in Fields, pc[c] \in {"hello", "on"}, Free(f)'
                 PROVE  \/ seen[c][f] = told[f] \/ f \in missed \/ Unsaid(f)'
                        \/ f = "perm" /\ "perm told" \in excused'
      BY <1>2 DEF HelloInv
    <2>1. Free(f) /\ ("perm told" \in excused => "perm told" \in excused')
      BY <1>1, <1>3
    <2> QED
      BY <1>13, <2>1 DEF SettingsInv, HelloInv
  <1> QED
    BY <1>5, <1>6, <1>7, <1>8, <1>9, <1>10, <1>11, <1>12, <1>14, <1>15

LEMMA MovesExclusive ==
  ASSUME SettingsInv, NEW n, Moved(n)
  PROVE  ExclusiveInv'
  <1>1. /\ \A d \in Calls : Touches(d)' = Touches(d) /\ (Deep(d)' <=> Deep(d)) /\ (Pending(d)' <=> Pending(d))
        /\ \A i \in DOMAIN tx : i \in DOMAIN tx' /\ tx'[i] = tx[i]
        /\ \A i \in DOMAIN tx' \ DOMAIN tx : i = Len(tx') /\ tx'[i].kind = "news" /\ tx'[i].new = n
        /\ excused \subseteq excused' /\ note' = note
    BY MovesPipes DEF Moved, copies
  <1> SUFFICES ASSUME NEW g \in {"mode", "model", "perm"}, g \notin excused' PROVE Exclusive(g)'
    BY DEF ExclusiveInv
  <1>2. g \in Fields /\ Group(g) = g /\ Exclusive(g)
    BY <1>1 DEF SettingsInv, ExclusiveInv, Fields, Group
  <1>3. \A i \in DOMAIN tx' : ByHost(i, g)' => (i \in DOMAIN tx /\ ByHost(i, g)) \/ (n[g] # None /\ i = Len(tx'))
    BY <1>1 DEF ByHost
  <1>4. CASE n[g] = None
    <2>1. \A i \in DOMAIN tx' : ByHost(i, g)' => i \in DOMAIN tx /\ ByHost(i, g)
      BY <1>3, <1>4
    <2> QED
      BY <1>1, <1>2, <2>1 DEF Exclusive
  <1>5. CASE n[g] # None
    <2>1. /\ note[Reader][g] = None
          /\ \A d \in Calls : ~(Pending(d) /\ g \in Touches(d))
          /\ \A i \in DOMAIN tx : ~ByHost(i, g)
      BY <1>2, <1>5, MovesAlone
    <2>2. \A i \in DOMAIN tx' : ByHost(i, g)' => i = Len(tx')
      BY <1>3, <2>1
    <2>3. \A i, j \in DOMAIN tx' : ByHost(i, g)' /\ ByHost(j, g)' => i = j
      BY <2>2
    <2> QED
      BY <1>1, <2>1, <2>3 DEF Exclusive
  <1> QED
    BY <1>4, <1>5

LEMMA MovesCopies ==
  ASSUME SettingsInv, NEW n, Moved(n)
  PROVE  NewsInv' /\ ModeInv' /\ ModelInv' /\ EffortInv' /\ PermInv'
  <1>1. /\ req' = req /\ row' = row /\ permMode' = permMode /\ pc' = pc /\ call' = call
        /\ \A f \in Fields : ag'[f] = IF n[f] = None THEN ag[f] ELSE n[f]
        /\ \A i \in DOMAIN tx : i \in DOMAIN tx' /\ tx'[i] = tx[i]
        /\ \A i \in DOMAIN tx' \ DOMAIN tx : tx'[i].kind = "news" /\ tx'[i].new = n
        /\ Len(tx') \in DOMAIN tx' \ DOMAIN tx
    BY DEF Moved, copies, threads
  <1>2. /\ \A d \in Calls : Touches(d)' = Touches(d) /\ (Pending(d)' <=> Pending(d))
        /\ \A d \in Calls : (Half(d)' <=> Half(d)) /\ (TookModel(d)' <=> TookModel(d)) /\ (TookEffort(d)' <=> TookEffort(d))
        /\ \A f \in Fields : Free(f)' => Free(f)
        /\ CatalogAhead' <=> CatalogAhead
    BY MovesPipes
  <1>3. \A d \in Calls : /\ Half(d) => Pending(d) /\ "mode" \in Touches(d)
                         /\ TookModel(d) \/ TookEffort(d) => Pending(d) /\ "model" \in Touches(d)
    BY OpenFacts
  <1>4. ASSUME NEW f \in Fields, Free(f)', n[f] # None
        PROVE  /\ \A d \in Calls : ~(Pending(d) /\ Group(f) \in Touches(d))
               /\ \A i \in DOMAIN tx : tx[i].new[f] = None
               /\ \A i \in DOMAIN tx : tx[i].kind = "catalog" => f \notin {"model", "effort"}
    <2>1. f \notin excused' /\ Group(f) \notin excused'
      BY <1>4 DEF Free, Group
    <2> QED
      BY <1>4, <2>1, MovesAlone
  <1>5. ASSUME NEW f \in Fields, n[f] # None PROVE \E i \in DOMAIN tx' : tx'[i].new[f] # None
    BY <1>1, <1>5
  <1>6. ASSUME NEW f \in Fields
        PROVE  (\E i \in DOMAIN tx : tx[i].new[f] # None) => \E i \in DOMAIN tx' : tx'[i].new[f] # None
    BY <1>1
  <1>7. NewsInv'
    <2> SUFFICES ASSUME NEW f \in Fields, Free(f)', NEW i \in DOMAIN tx' PROVE tx'[i].new[f] \in {None, ag'[f]}
      BY DEF NewsInv
    <2>1. CASE i \in DOMAIN tx
      <3>1. tx'[i] = tx[i] /\ tx[i].new[f] \in {None, ag[f]}
        BY <1>1, <1>2, <2>1 DEF SettingsInv, NewsInv
      <3> QED
        BY <1>1, <1>4, <2>1, <3>1
    <2>2. CASE i \notin DOMAIN tx
      BY <1>1, <2>2
    <2> QED
      BY <2>1, <2>2
  <1>8. "mode" \in Fields /\ "model" \in Fields /\ "effort" \in Fields /\ "perm" \in Fields
        /\ Group("mode") = "mode" /\ Group("model") = "model" /\ Group("effort") = "model" /\ Group("perm") = "perm"
    BY FieldSplit
  <1>9. ModeInv'
    <2> SUFFICES ASSUME Free("mode")'
                 PROVE  /\ \A d \in Calls : call[d].op = "mode" /\ Pending(d)' => call[d].mode = ag'.mode
                        /\ \/ row.mode = ag'.mode
                           \/ \E i \in DOMAIN tx' : tx'[i].new.mode # None
                           \/ \E d \in Calls : Half(d)'
                        /\ \A d \in Calls : Half(d)' => row.mode = Flip(ag'.mode)
      BY <1>1 DEF ModeInv
    <2>1. /\ \A d \in Calls : call[d].op = "mode" /\ Pending(d) => call[d].mode = ag.mode
          /\ \/ row.mode = ag.mode
             \/ \E i \in DOMAIN tx : tx[i].new.mode # None
             \/ \E d \in Calls : Half(d)
          /\ \A d \in Calls : Half(d) => row.mode = Flip(ag.mode)
      BY <1>2, <1>8 DEF SettingsInv, ModeInv
    <2>2. CASE n["mode"] = None
      <3>1. ag'.mode = ag.mode
        BY <1>1, <1>8, <2>2
      <3>2. (\E i \in DOMAIN tx : tx[i].new.mode # None) => \E i \in DOMAIN tx' : tx'[i].new.mode # None
        BY <1>6, <1>8
      <3> QED
        BY <1>2, <2>1, <3>1, <3>2
    <2>3. CASE n["mode"] # None
      <3>1. \A d \in Calls : ~(Pending(d) /\ "mode" \in Touches(d))
        BY <1>4, <1>8, <2>3
      <3>2. \A d \in Calls : ~Half(d)' /\ ~(call[d].op = "mode" /\ Pending(d)')
        BY <1>2, <1>3, <3>1, TouchesFacts
      <3>3. \E i \in DOMAIN tx' : tx'[i].new.mode # None
        BY <1>5, <1>8, <2>3
      <3> QED
        BY <3>2, <3>3
    <2> QED
      BY <2>2, <2>3
  <1>10. \A i \in DOMAIN tx' : tx'[i].kind = "catalog" => i \in DOMAIN tx /\ tx'[i] = tx[i]
    BY <1>1
  <1>11. ModelInv'
    <2> SUFFICES ASSUME Free("model")'
                 PROVE  /\ \A i \in DOMAIN tx' : tx'[i].kind = "catalog" => WithCatalog(row, tx'[i].k).model = ag'.model
                        /\ \A d \in Calls : TookModel(d)' => call[d].model = ag'.model
                        /\ \/ row.model = ag'.model \/ CatalogAhead'
                           \/ \E i \in DOMAIN tx' : tx'[i].new.model # None
                           \/ \E d \in Calls : TookModel(d)'
      BY <1>1 DEF ModelInv, WithCatalog
    <2>1. /\ \A i \in DOMAIN tx : tx[i].kind = "catalog" => WithCatalog(row, tx[i].k).model = ag.model
          /\ \A d \in Calls : TookModel(d) => call[d].model = ag.model
          /\ \/ row.model = ag.model \/ CatalogAhead
             \/ \E i \in DOMAIN tx : tx[i].new.model # None
             \/ \E d \in Calls : TookModel(d)
      BY <1>2, <1>8 DEF SettingsInv, ModelInv
    <2>2. CASE n["model"] = None
      <3>1. ag'.model = ag.model
        BY <1>1, <1>8, <2>2
      <3>2. (\E i \in DOMAIN tx : tx[i].new.model # None) => \E i \in DOMAIN tx' : tx'[i].new.model # None
        BY <1>6, <1>8
      <3> QED
        BY <1>2, <1>10, <2>1, <3>1, <3>2
    <2>3. CASE n["model"] # None
      <3>1. /\ \A d \in Calls : ~(Pending(d) /\ "model" \in Touches(d))
            /\ \A i \in DOMAIN tx : tx[i].kind # "catalog"
        BY <1>4, <1>8, <2>3
      <3>2. \A d \in Calls : ~TookModel(d)'
        BY <1>2, <1>3, <3>1
      <3>3. \E i \in DOMAIN tx' : tx'[i].new.model # None
        BY <1>5, <1>8, <2>3
      <3> QED
        BY <1>10, <3>1, <3>2, <3>3
    <2> QED
      BY <2>2, <2>3
  <1>12. EffortInv'
    <2> SUFFICES ASSUME Free("effort")'
                 PROVE  /\ \A i \in DOMAIN tx' : tx'[i].kind = "catalog" => WithCatalog(row, tx'[i].k).effort \in {ag'.effort, Unset}
                        /\ \A d \in Calls : TookEffort(d)' => call[d].effort = ag'.effort
                        /\ \/ row.effort \in {ag'.effort, Unset} \/ CatalogAhead'
                           \/ \E i \in DOMAIN tx' : tx'[i].new.effort # None
                           \/ \E d \in Calls : TookEffort(d)'
      BY <1>1 DEF EffortInv, WithCatalog
    <2>1. /\ \A i \in DOMAIN tx : tx[i].kind = "catalog" => WithCatalog(row, tx[i].k).effort \in {ag.effort, Unset}
          /\ \A d \in Calls : TookEffort(d) => call[d].effort = ag.effort
          /\ \/ row.effort \in {ag.effort, Unset} \/ CatalogAhead
             \/ \E i \in DOMAIN tx : tx[i].new.effort # None
             \/ \E d \in Calls : TookEffort(d)
      BY <1>2, <1>8 DEF SettingsInv, EffortInv
    <2>2. CASE n["effort"] = None
      <3>1. ag'.effort = ag.effort
        BY <1>1, <1>8, <2>2
      <3>2. (\E i \in DOMAIN tx : tx[i].new.effort # None) => \E i \in DOMAIN tx' : tx'[i].new.effort # None
        BY <1>6, <1>8
      <3> QED
        BY <1>2, <1>10, <2>1, <3>1, <3>2
    <2>3. CASE n["effort"] # None
      <3>1. /\ \A d \in Calls : ~(Pending(d) /\ "model" \in Touches(d))
            /\ \A i \in DOMAIN tx : tx[i].kind # "catalog"
        BY <1>4, <1>8, <2>3
      <3>2. \A d \in Calls : ~TookEffort(d)'
        BY <1>2, <1>3, <3>1
      <3>3. \E i \in DOMAIN tx' : tx'[i].new.effort # None
        BY <1>5, <1>8, <2>3
      <3> QED
        BY <1>10, <3>1, <3>2, <3>3
    <2> QED
      BY <2>2, <2>3
  <1>13. PermInv'
    <2> SUFFICES ASSUME Free("perm")'
                 PROVE  /\ \A d \in Calls : call[d].op = "perm" /\ Pending(d)' => call[d].perm = permMode
                        /\ \/ permMode = ag'.perm
                           \/ \E i \in DOMAIN tx' : tx'[i].new.perm # None
                           \/ \E d \in Calls : pc[d] = "write"
                           \/ \E i \in DOMAIN req : req[i].ask = "perm"
      BY <1>1 DEF PermInv
    <2>1. /\ \A d \in Calls : call[d].op = "perm" /\ Pending(d) => call[d].perm = permMode
          /\ \/ permMode = ag.perm
             \/ \E i \in DOMAIN tx : tx[i].new.perm # None
             \/ \E d \in Calls : pc[d] = "write"
             \/ \E i \in DOMAIN req : req[i].ask = "perm"
      BY <1>2, <1>8 DEF SettingsInv, PermInv
    <2>2. \A d \in Calls : call[d].op = "perm" /\ Pending(d)' => call[d].perm = permMode
      BY <1>2, <2>1
    <2>3. CASE n["perm"] = None
      <3>1. ag'.perm = ag.perm
        BY <1>1, <1>8, <2>3
      <3>2. (\E i \in DOMAIN tx : tx[i].new.perm # None) => \E i \in DOMAIN tx' : tx'[i].new.perm # None
        BY <1>6, <1>8
      <3> QED
        BY <2>1, <2>2, <3>1, <3>2
    <2>4. CASE n["perm"] # None
      BY <1>5, <1>8, <2>2, <2>4
    <2> QED
      BY <2>3, <2>4
  <1> QED
    BY <1>7, <1>9, <1>11, <1>12, <1>13

LEMMA AgentMovesInv == ASSUME SettingsInv, AgentMoves PROVE SettingsInv'
  <1>1. PICK n : Moved(n)
    BY MovesOne
  <1>2. /\ SettingsShape' /\ RequestsFit' /\ AnswersFit' /\ NewsFit' /\ NotesFit' /\ ToggledOnce' /\ Waited'
        /\ AdoptedInv' /\ CatalogInv' /\ ToldInv' /\ HelloInv'
    BY <1>1, MovesFits
  <1>3. ExclusiveInv'
    BY <1>1, MovesExclusive
  <1>4. NewsInv' /\ ModeInv' /\ ModelInv' /\ EffortInv' /\ PermInv'
    BY <1>1, MovesCopies
  <1> QED
    BY <1>2, <1>3, <1>4 DEF SettingsInv

(***************************************************************************)
(* Settings: the theorems.                                                 *)
(***************************************************************************)
LEMMA SameInv == ASSUME SettingsInv, UNCHANGED vars PROVE SettingsInv'
  <1>1. UNCHANGED <<ag, cat, modern, adopted, req, tx, row, permMode, note, told, seen, missed, pc, call, warned, table,
                    cfg, promoted, excused, moves>>
    BY DEF vars, external, pipes, copies, screens, threads, files
  <1>2. /\ \A d \in Calls : (Deep(d)' <=> Deep(d)) /\ (Pending(d)' <=> Pending(d)) /\ (Half(d)' <=> Half(d))
        /\ \A d \in Calls : (TookModel(d)' <=> TookModel(d)) /\ (TookEffort(d)' <=> TookEffort(d))
        /\ \A d \in Calls : Touches(d)' = Touches(d) /\ (GivenUp(d)' <=> GivenUp(d)) /\ (Waits(d)' <=> Waits(d))
    <2>1. \A d \in Calls : (Toggling(d)' <=> Toggling(d)) /\ (Deep(d)' <=> Deep(d)) /\ Touches(d)' = Touches(d)
      BY <1>1 DEF Toggling, Deep, Touches
    <2>2. \A d \in Calls : (Half(d)' <=> Half(d)) /\ (GivenUp(d)' <=> GivenUp(d))
      BY <1>1, <2>1 DEF Half, GivenUp
    <2>3. \A d \in Calls, i \in DOMAIN tx : Accepted(i, d)' <=> Accepted(i, d)
      BY <1>1 DEF Accepted
    <2>4. \A d \in Calls : Pending(d)' <=> Pending(d)
      BY <1>1, <2>1, <2>3 DEF Pending
    <2>5. \A d \in Calls : TookModel(d)' <=> TookModel(d)
      BY <1>1, <2>3 DEF TookModel
    <2>6. \A d \in Calls : TookEffort(d)' <=> TookEffort(d)
      BY <1>1, <2>3 DEF TookEffort
    <2>7. \A d \in Calls, i \in DOMAIN tx : Answering(i, d)' <=> Answering(i, d)
      BY <1>1 DEF Answering
    <2>8. \A d \in Calls, i \in DOMAIN req : Asking(i, d)' <=> Asking(i, d)
      BY <1>1 DEF Asking
    <2>9. \A d \in Calls : Waits(d)' <=> Waits(d)
      BY <1>1, <2>7, <2>8 DEF Waits
    <2> QED
      BY <2>1, <2>2, <2>4, <2>5, <2>6, <2>9
  <1>3. \A f \in Fields : (Free(f)' <=> Free(f)) /\ (Unsaid(f)' <=> Unsaid(f)) /\ Snapshot'[f] = Snapshot[f]
    BY <1>1 DEF Free, Loaded, Unsaid, Snapshot
  <1>4. "mode" \in Fields /\ "model" \in Fields /\ "effort" \in Fields /\ "perm" \in Fields
    BY FieldSplit
  <1>5. SettingsShape'
    BY <1>1 DEF SettingsInv, SettingsShape, AgentShape, FilesShape, CopiesShape, PipesShape, CallsShape, BoundsShape, Warnable
  <1>6. RequestsFit' /\ AnswersFit' /\ NewsFit' /\ ToggledOnce' /\ AdoptedInv'
    BY <1>1 DEF SettingsInv, RequestsFit, AnswersFit, NewsFit, ToggledOnce, AdoptedInv
  <1>7. NotesFit'
    <2>1. NotesFit
      BY DEF SettingsInv
    <2>2. \A d \in Calls, f \in Fields : note'[d][f] # None => f \in Touches(d)'
      <3> SUFFICES ASSUME NEW d \in Calls, NEW f \in Fields, note[d][f] # None PROVE f \in Touches(d)
        BY <1>1, <1>2
      <3> QED
        BY <2>1 DEF NotesFit
    <2> QED
      BY <1>1, <2>1, <2>2 DEF NotesFit
  <1>8. Waited'
    BY <1>2 DEF SettingsInv, Waited
  <1>9. CatalogInv'
    BY <1>1 DEF SettingsInv, CatalogInv, Reloading
  <1>10. ExclusiveInv'
    <2> SUFFICES ASSUME NEW g \in {"mode", "model", "perm"}, g \notin excused PROVE Exclusive(g)'
      BY <1>1 DEF ExclusiveInv
    <2>1. Exclusive(g)
      BY DEF SettingsInv, ExclusiveInv
    <2>2. \A i \in DOMAIN tx : ByHost(i, g)' <=> ByHost(i, g)
      BY <1>1 DEF ByHost
    <2> QED
      BY <1>1, <1>2, <2>1, <2>2, StillExclusive
  <1>11. ToldInv'
    BY <1>1, <1>3 DEF SettingsInv, ToldInv
  <1>12. NewsInv'
    BY <1>1, <1>3 DEF SettingsInv, NewsInv
  <1>13. ModeInv'
    BY <1>1, <1>2, <1>3, <1>4 DEF SettingsInv, ModeInv
  <1>14. ModelInv' /\ EffortInv'
    <2>1. CatalogAhead' <=> CatalogAhead
      BY <1>1 DEF CatalogAhead
    <2>2. ModelInv'
      BY <1>1, <1>2, <1>3, <1>4, <2>1 DEF SettingsInv, ModelInv, WithCatalog
    <2>3. EffortInv'
      BY <1>1, <1>2, <1>3, <1>4, <2>1 DEF SettingsInv, EffortInv, WithCatalog
    <2> QED
      BY <2>2, <2>3
  <1>15. PermInv'
    BY <1>1, <1>2, <1>3, <1>4 DEF SettingsInv, PermInv
  <1>16. HelloInv'
    BY <1>1, <1>3 DEF SettingsInv, HelloInv
  <1> QED
    BY <1>5, <1>6, <1>7, <1>8, <1>9, <1>10, <1>11, <1>12, <1>13, <1>14, <1>15, <1>16 DEF SettingsInv

LEMMA SettingsStep == ASSUME SettingsInv, Next PROVE SettingsInv'
  <1>1. ASSUME NEW c \in Calls,
               \/ Calling(c) \/ Dismisses(c) \/ WritesPerm(c) \/ Flips(c) \/ Stores(c) \/ Tells(c) \/ FallsBack(c)
               \/ Subscribes(c) \/ ReadsConfig(c) \/ SavesConfig(c) \/ GivesUp(c)
        PROVE  SettingsInv'
    BY <1>1, CallingInv, DismissesInv, WritesPermInv, FlipsInv, StoresInv, TellsInv, FallsBackInv, SubscribesInv,
       ReadsConfigInv, SavesConfigInv, GivesUpInv
  <1>2. CASE Steps
    BY <1>1, <1>2, AgentServesInv, AgentMovesInv, HearsAnswerInv, HearsCatalogInv, HearsNewsInv, ReaderTellsInv, LoadInv DEF Steps
  <1>3. CASE Restart
    BY <1>3, RestartInv
  <1> QED
    BY <1>2, <1>3 DEF Next

\* What the invariant says once nothing is under way.
LEMMA QuietFacts ==
  ASSUME SettingsInv, Quiet
  PROVE  /\ \A x \in Calls \cup {Reader}, f \in Fields : note[x][f] = None
         /\ \A f \in Fields : ~Unsaid(f)
         /\ \A d \in Calls : ~Half(d) /\ ~TookModel(d) /\ ~TookEffort(d) /\ ~Pending(d)
         /\ DOMAIN tx = {} /\ DOMAIN req = {}
  <1>1. DOMAIN tx = {} /\ DOMAIN req = {}
    BY EmptyFacts DEF Quiet
  <1>2. \A d \in Calls : pc[d] \in {"idle", "hello", "on", "ok", "warning", "error"}
    BY DEF Quiet, Decided
  <1>3. \A x \in Calls \cup {Reader} : note[x] = Nothing
    <2>1. \A d \in Calls : note[d] = Nothing
      BY <1>2 DEF SettingsInv, NotesFit
    <2> QED
      BY <2>1 DEF Quiet
  <1>4. \A x \in Calls \cup {Reader}, f \in Fields : note[x][f] = None
    BY <1>3, NothingSaid
  <1>5. \A f \in Fields : ~Unsaid(f)
    BY <1>2, <1>4 DEF Unsaid
  <1>6. \A d \in Calls : ~Pending(d)
    BY <1>1, <1>2 DEF Pending, Deep, Busy
  <1>7. \A d \in Calls : ~Half(d) /\ ~TookModel(d) /\ ~TookEffort(d)
    BY <1>6, OpenFacts
  <1> QED
    BY <1>1, <1>4, <1>5, <1>6, <1>7

LEMMA InvAgrees == ASSUME SettingsInv PROVE SettingsAgree
  <1> SUFFICES ASSUME Quiet, Loaded
               PROVE  /\ "mode" \notin excused => row.mode = ag.mode /\ told.mode = ag.mode
                      /\ "model" \notin excused => row.model = ag.model /\ told.model = ag.model
                      /\ {"model", "effort"} \cap excused = {} => row.effort \in {ag.effort, Unset} /\ told.effort = row.effort
                      /\ "perm" \notin excused => permMode = ag.perm
                      /\ {"perm", "perm told"} \cap excused = {} => told.perm = ag.perm
    BY DEF SettingsAgree
  <1>1. /\ \A f \in Fields : ~Unsaid(f)
        /\ \A d \in Calls : ~Half(d) /\ ~TookModel(d) /\ ~TookEffort(d) /\ ~Pending(d)
        /\ DOMAIN tx = {} /\ DOMAIN req = {}
    BY QuietFacts
  <1>2. \A f \in Fields : Free(f) => told[f] = Snapshot[f] \/ (f = "perm" /\ "perm told" \in excused)
    BY <1>1 DEF SettingsInv, ToldInv
  <1>3. (\A f \in {"mode", "model", "effort"} : Snapshot[f] = row[f]) /\ Snapshot["perm"] = permMode
    BY LoadedFacts
  <1>4. \A d \in Calls : pc[d] # "write"
    BY DEF Quiet, Decided
  <1>5. "mode" \notin excused => row.mode = ag.mode /\ told.mode = ag.mode
    <2>1. "mode" \notin excused => Free("mode") /\ "mode" \in Fields
      BY DEF Free, Group, Fields
    <2>2. Free("mode") => row.mode = ag.mode
      BY <1>1 DEF SettingsInv, ModeInv
    <2> QED
      BY <1>2, <1>3, <2>1, <2>2
  <1>6. "model" \notin excused => row.model = ag.model /\ told.model = ag.model
    <2>1. "model" \notin excused => Free("model") /\ "model" \in Fields
      BY DEF Free, Group, Fields
    <2>2. Free("model") => row.model = ag.model
      BY <1>1 DEF SettingsInv, ModelInv, CatalogAhead
    <2> QED
      BY <1>2, <1>3, <2>1, <2>2
  <1>7. {"model", "effort"} \cap excused = {} => row.effort \in {ag.effort, Unset} /\ told.effort = row.effort
    <2>1. {"model", "effort"} \cap excused = {} => Free("effort") /\ "effort" \in Fields
      BY DEF Free, Group, Fields
    <2>2. Free("effort") => row.effort \in {ag.effort, Unset}
      BY <1>1 DEF SettingsInv, EffortInv, CatalogAhead
    <2> QED
      BY <1>2, <1>3, <2>1, <2>2
  <1>8. "perm" \notin excused => permMode = ag.perm
    <2>1. "perm" \notin excused => Free("perm")
      BY DEF Free, Group
    <2>2. Free("perm") => permMode = ag.perm
      BY <1>1, <1>4 DEF SettingsInv, PermInv
    <2> QED
      BY <2>1, <2>2
  <1>9. {"perm", "perm told"} \cap excused = {} => told.perm = ag.perm
    <2>1. "perm" \notin excused => Free("perm") /\ "perm" \in Fields
      BY DEF Free, Group, Fields
    <2> QED
      BY <1>2, <1>3, <1>8, <2>1
  <1> QED
    BY <1>5, <1>6, <1>7, <1>8, <1>9

LEMMA InvFresh == ASSUME SettingsInv PROVE CatalogFresh
  <1> SUFFICES ASSUME Quiet
               PROVE  /\ cat.models = Catalog(cfg, promoted).models
                      /\ \/ cat.current = Catalog(cfg, promoted).current
                         \/ \E c \in Calls : call[c].op = "default" /\ pc[c] = "error"
    BY DEF CatalogFresh
  <1>1. ~Reloading
    BY QuietFacts DEF Reloading
  <1>2. \A c \in Calls : pc[c] \in Switching \cup {"file", "save"} => pc[c] = "error"
    BY DEF Quiet, Decided, Switching
  <1> QED
    BY <1>1, <1>2 DEF SettingsInv, CatalogInv

LEMMA InvCatchesUp == ASSUME SettingsInv PROVE HelloCatchesUp
  <1> SUFFICES ASSUME Quiet, Loaded, NEW c \in Calls, NEW f \in Fields, pc[c] = "on"
               PROVE  \/ seen[c][f] = told[f]
                      \/ f \in missed \cup excused
                      \/ f = "effort" /\ "model" \in excused
                      \/ f = "perm" /\ "perm told" \in excused
    BY DEF HelloCatchesUp
  <1>1. ~Unsaid(f)
    BY QuietFacts
  <1>2. ~Free(f) => f \in excused \/ (f = "effort" /\ "model" \in excused)
    BY DEF Free, Group
  <1> QED
    BY <1>1, <1>2 DEF SettingsInv, HelloInv

LEMMA InvHonest == ASSUME SettingsInv PROVE NoFalseSuccess
  BY DEF SettingsInv, AdoptedInv, NoFalseSuccess

LEMMA SettingsTrue ==
  ASSUME SettingsInv
  PROVE  SettingsTypeOK /\ NoFalseSuccess /\ CopiesAgree
  BY ShapeIsType, InvAgrees, InvFresh, InvCatchesUp, InvHonest DEF SettingsInv, CopiesAgree

\* The invariant of the settings, for any number of calls, models and efforts, and however
\* often the agent changes something by itself, answers too late or is restarted.
THEOREM SettingsInvariant == Spec => []SettingsInv
  <1>1. ASSUME SettingsInv, [Next]_vars PROVE SettingsInv'
    BY <1>1, SettingsStep, SameInv
  <1> QED BY SettingsInitInv, <1>1, PTL DEF Spec

\* What SetMode, SetModel, SetModelEffort, ToggleMode and SetPermissionMode leave behind, with
\* the handlers of the models page and the notifications of the agent between their steps:
\* once nothing is under way the host's copy, the browsers and config.toml agree with the
\* agent, and no call said it had succeeded with less than all it was asked for.
THEOREM SettingsToldRight == Spec => [](NoFalseSuccess /\ CopiesAgree)
  <1>1. SettingsInv => NoFalseSuccess /\ CopiesAgree
    BY SettingsTrue
  <1> QED BY <1>1, SettingsInvariant, PTL

(***************************************************************************)
(* SessionViews: the three of one session.                                 *)
(***************************************************************************)
\* Each of the three runs as it would by itself: one that ends with the agent process takes
\* both the settings and the tasks to the state their own specification has after it, and
\* what keeps them apart in ViewsNext only takes behaviours away.
THEOREM ViewsImplements == ViewsSpec => Spec /\ TasksSpec /\ RateSpec
  <1>1. ViewsInit => Init /\ TasksInit /\ RateInit
    BY DEF ViewsInit
  <1>2. ASSUME [ViewsNext]_<<vars, taskVars, rateVars>>
        PROVE  [Next]_vars /\ [TasksNext \/ AgentEnds]_taskVars /\ [RateNext]_rateVars
    <2>1. CASE Steps /\ UNCHANGED <<taskVars, rateVars>>
      BY <2>1 DEF Next
    <2>2. CASE Load /\ UNCHANGED <<taskVars, rateVars>>
      BY <2>2 DEF Next, Steps
    <2>3. CASE TasksNext /\ UNCHANGED <<vars, rateVars>>
      BY <2>3
    <2>4. CASE Restart /\ AgentEnds /\ UNCHANGED rateVars
      BY <2>4 DEF Next
    <2>5. CASE RateNext /\ UNCHANGED <<vars, taskVars>>
      BY <2>5
    <2>6. CASE UNCHANGED <<vars, taskVars, rateVars>>
      BY <2>6
    <2> QED BY <1>2, <2>1, <2>2, <2>3, <2>4, <2>5, <2>6 DEF ViewsNext
  <1> QED BY <1>1, <1>2, PTL DEF ViewsSpec, Spec, TasksSpec, RateSpec

\* The variables of the settings and of the tasks hold what they are meant to.
THEOREM ViewsTypeOK == ViewsSpec => []TypeOK
  <1>1. SettingsInv /\ TasksInv => TypeOK
    BY SettingsTrue DEF TypeOK, TasksInv, TasksShape
  <1> QED BY <1>1, ViewsImplements, SettingsInvariant, TasksInvariant, PTL

\* A call to change the model or effort reports a clean success only if the agent adopted
\* every part of it (SetModel, SetModelEffort), in a session with everything else going on.
THEOREM ViewsHonest == ViewsSpec => []NoFalseSuccess
  <1>1. SettingsInv => NoFalseSuccess
    BY SettingsTrue
  <1> QED BY <1>1, ViewsImplements, SettingsInvariant, PTL

\* The copies of each setting at the host and in the browsers, and the catalog of the agent,
\* agree with what they are copies of once nothing is under way (bridge.go, http_models.go).
THEOREM ViewsAgree == ViewsSpec => []CopiesAgree
  <1>1. SettingsInv => CopiesAgree
    BY SettingsTrue
  <1> QED BY <1>1, ViewsImplements, SettingsInvariant, PTL

\* What the host says of tasks (session_tasks.go) and of the rate of output (genrate.go)
\* is right of a session in which settings change and the agent process ends as well.
THEOREM ViewsEstimatesRight == ViewsSpec => []EstimatesRight
  BY ViewsImplements, TasksToldRight, RateToldRight, PTL DEF EstimatesRight
=============================================================================
