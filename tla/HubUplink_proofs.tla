-------------------------- MODULE HubUplink_proofs --------------------------
(***************************************************************************)
(* Proofs about HubUplink, for every number of events, sessions, hub runs  *)
(* and browser changes, every queue and ring, and whatever the hub held    *)
(* before.                                                                 *)
(***************************************************************************)
EXTENDS HubUplink, TLAPS, FiniteSetTheorems, WellFoundedInduction

-----------------------------------------------------------------------------
(* The inductive invariant: types *)

NumType ==
  /\ busSeq \in 0..MaxSeq /\ nextSeq \in 0..MaxSeq /\ lastSent \in 0..MaxSeq
  /\ hubAck \in 0..MaxSeq /\ hubLast \in 0..MaxSeq
  /\ subsGen \in 0..MaxGen /\ seen \in 0..MaxGen /\ gen \in 0..MaxGen
  /\ notif \subseteq 1..MaxGen
  /\ lock \in -1..MaxSess /\ sess \in 0..MaxSess /\ hubRun \in 1..MaxHubRun

SetType ==
  /\ pend \subseteq Seqs /\ ring \subseteq Seqs /\ hubMine \subseteq Seqs
  /\ fate \in [Seqs -> {"none", "dropped", "sunk", "live", "lost"}]

RingBounded == Cardinality(ring) <= HighWater

FlagType == /\ needCatchUp \in BOOLEAN /\ fwdOn \in BOOLEAN /\ up \in BOOLEAN
            /\ mixed \in BOOLEAN /\ alienAck \in BOOLEAN

QueueType == sendCh \in Seq(Frame)
DownType  == down \in Seq(Down) /\ cur \in [Readers -> Down] /\ hubEpoch \in Epochs
JobType   == pc \in [Actors -> PCs] /\ job \in [Actors -> Job]

TypeInv == NumType /\ SetType /\ FlagType /\ QueueType /\ DownType /\ JobType

-----------------------------------------------------------------------------
(* The inductive invariant: who holds what, and how far the numbers reach *)

\* enqueueMu is held through a reset and its replay, or through one replay.
Held == \A a \in Actors : pc[a] \in {"reset", "send"} <=> lock = a

\* Each number is bounded by the one before it on the way to the hub: what was
\* assigned, observed, enqueued.
SeqInv  == /\ nextSeq <= busSeq /\ pend \subseteq nextSeq + 1 .. busSeq
           /\ ring \subseteq 1..nextSeq /\ lastSent <= nextSeq
TodoInv == \A a \in Actors : job[a].todo \subseteq 1..nextSeq
SentInv == \A i \in EventFrames : \A s \in sendCh[i].evs : s <= lastSent
MineInv == hubMine \subseteq 1..lastSent
LiveInv == \A s \in Seqs : fate[s] = "live" => s <= lastSent
NumInv  == SeqInv /\ TodoInv /\ SentInv /\ MineInv /\ LiveInv

\* A frame from the hub tells a watermark of this process, or of another one.
Honest(f) == (f.from = "ours" => f.seq <= lastSent) /\ (f.from = "none" => f.seq = 0)

HubMark  == /\ hubEpoch = "ours" => hubLast <= lastSent
            /\ hubEpoch = "none" => hubLast = 0
            /\ mixed => hubEpoch = "ours"
DownMark == \A i \in 1..Len(down) : Honest(down[i])
CurMark  == \A k \in Readers : Honest(cur[k])
MarkInv  == HubMark /\ DownMark /\ CurMark

\* A watermark that is resumed from was reached by this process, one that is answered
\* with a reset belongs to another.
Resuming(k) == pc[k] = "ack" \/ (pc[k] \in {"lock", "send"} /\ job[k].then = "ack")

ResumeInv ==
  \A k \in Readers :
    /\ Resuming(k) => cur[k].seq <= nextSeq /\ (cur[k].from = "old" => alienAck)
    /\ pc[k] \in {"lockReset", "reset"} => job[k].then = "clear" /\ cur[k].from = "old"

\* Where a replay starts, nothing above was enqueued before, unless another process's
\* watermark was believed.
StartInv ==
  ~alienAck => /\ hubAck <= lastSent
               /\ \A a \in Actors : pc[a] = "lock" => job[a].after <= lastSent

AnchorInv == ResumeInv /\ StartInv

\* The reader between the generation gate and the flag is the session's own; that
\* forwarding was on when it passed the gate is still true.
GateInv ==
  \A k \in Readers : up /\ pc[k] = "set" =>
    k = sess /\ (job[k].then # "seq" /\ cur[k].count > 0 => fwdOn)

-----------------------------------------------------------------------------
(* The inductive invariant: what becomes of the events *)

\* What the actor a is about to do will carry s up: the batch, a replay, a reset, or the
\* answer to a hello.
Brings(a, s) ==
  \/ a = 0 /\ pc[0] \in {"gate", "push"} /\ s \in job[0].todo
  \/ pc[a] \in {"repair", "catchup", "lockReset", "reset"}
  \/ pc[a] = "lock" /\ job[a].after < s
  \/ pc[a] = "send" /\ s \in job[a].todo
  \/ a # 0 /\ pc[a] = "set" /\ job[a].then = "seq"
  \/ a # 0 /\ pc[a] \in {"set", "seq"} /\ cur[a].kind = "hello"

\* Nobody has to bring s just now.
Excused(s) ==
  \/ needCatchUp \/ s \in Oversized \/ fate[s] = "sunk"
  \/ ~fwdOn \/ ~up \/ HelloPending

Awaited(s) == Excused(s) \/ \E a \in Actors : Brings(a, s)

TailInv == ~alienAck => \A s \in ring : s > lastSent => Awaited(s)

\* Nothing happened yet to an event that was not observed; an event of the batch that a
\* replay dropped meanwhile is left to the heartbeat.
FreshInv == \A s \in Seqs : s > nextSeq => fate[s] = "none"
BatchInv == pc[0] \in {"gate", "push"} =>
              \A s \in job[0].todo : fate[s] = "dropped" => needCatchUp

\* The counts of a session come with generations the hub has reached; none without one
\* comes after one that has one, nor once such a one was taken.  What was taken last is
\* set, or about to be.
CountInv ==
  /\ notif \subseteq 1..gen
  /\ up =>
       /\ subsGen <= gen /\ seen = subsGen
       /\ \A i \in 1..Len(down) :
            /\ down[i].gen <= gen /\ (down[i].gen > 0 => down[i].count = down[i].gen % 2)
            /\ down[i].gen = 0 => subsGen = 0 /\ \A j \in 1..i : down[j].gen = 0
       /\ \A k \in Readers :
            pc[k] = "set" => cur[k].gen = subsGen /\ (subsGen > 0 => cur[k].count = subsGen % 2)
       /\ FlagOfNewest

RestInv == GateInv /\ CountInv /\ FreshInv /\ BatchInv /\ TailInv

\* A replay that has begun is at the end of the queue, below all that is left of it.
ContigInv ==
  \A a \in Actors : pc[a] = "send" /\ ~job[a].head /\ sendCh # <<>> =>
    /\ sendCh[Len(sendCh)].kind = "replay"
    /\ \A s \in Events(Len(sendCh)), t \in job[a].todo : s < t

InReplay(s) == \E a \in Actors : pc[a] = "send" /\ s \in job[a].todo

\* What a reset promised to bring follows it in the queue, or is about to.
ResetInv ==
  \A i \in 1..Len(sendCh) : sendCh[i].kind = "reset" =>
    \A s \in Events(i) \ Oversized : fate[s] # "dropped" =>
      (\E x \in EventFrames : x > i /\ s \in Events(x)) \/ InReplay(s)

\* When the hub has taken the first j frames of the queue, s is among what it got
\* since its last reset; or its watermark is not this process's alone.
NoReset(i, j)  == \A r \in i..j : sendCh[r].kind # "reset"
Arrives(s, j)  == \E x \in EventFrames : x <= j /\ s \in Events(x) /\ NoReset(x + 1, j)
Confused       == hubEpoch = "old" \/ mixed
Given(s, j)    == Arrives(s, j) \/ (NoReset(1, j) /\ (s \in hubMine \/ Confused))

\* s was queued live, or is in the batch that is about to be.
Chance(s) ==
  /\ s \in ring \ Oversized
  /\ fate[s] = "live" \/ (fate[s] = "none" /\ pc[0] \in {"gate", "push"} /\ s \in job[0].todo)

\* Nothing above s gets to the hub before s does.
AheadInv(s)  == \A j \in EventFrames : (\E t \in Events(j) : s < t) => Given(s, j)
PlacedInv(s) == s <= lastSent => Given(s, Len(sendCh)) \/ InReplay(s)
TakenInv(s)  == hubEpoch = "ours" /\ ~mixed /\ s <= hubLast => s \in hubMine
CopiedInv(s) == s > lastSent => \A a \in Actors : pc[a] = "send" =>
                                  \A t \in job[a].todo : s <= t => s \in job[a].todo

Ordered(s)   == AheadInv(s) /\ PlacedInv(s) /\ TakenInv(s) /\ CopiedInv(s)

OrderInv == ~alienAck => \A s \in Seqs : Chance(s) => Ordered(s)

IInv ==
  /\ TypeInv /\ RingBounded /\ Held /\ NumInv /\ MarkInv /\ AnchorInv
  /\ ContigInv /\ ReplayContiguous /\ ResetHeadsReplay /\ ResetInv /\ OrderInv

-----------------------------------------------------------------------------
(* Sets of sequence numbers *)

LEMMA LeastOf ==
  ASSUME NEW T, T \subseteq Nat, T # {}
  PROVE  \E x \in T : \A y \in T : x <= y
  <1>1. PICK x \in T : \A y \in T : ~ (<<y, x>> \in OpToRel(<, Nat))
    BY NatLessThanWellFounded, WFMin, Zenon
  <1>2. \A y \in T : ~(y < x)
    BY <1>1 DEF OpToRel
  <1> QED BY <1>2

LEMMA SeqsFacts ==
  ASSUME NEW S \in SUBSET Seqs
  PROVE  IsFiniteSet(S) /\ Cardinality(S) \in Nat /\ S \subseteq Nat
  <1>1. MaxSeq \in Nat
    BY BoundsAssumption
  <1>2. IsFiniteSet(Seqs) /\ Seqs \subseteq Nat
    BY <1>1, FS_Interval DEF Seqs
  <1>3. IsFiniteSet(S)
    BY <1>2, FS_Subset
  <1> QED BY <1>2, <1>3, FS_CardinalityType

\* The k newest events are at most k.
LEMMA NewestFacts ==
  ASSUME NEW S \in SUBSET Seqs, NEW k \in Nat
  PROVE  /\ Newest(S, k) \in SUBSET Seqs /\ Newest(S, k) \subseteq S
         /\ Cardinality(Newest(S, k)) <= k
  <1>1. Newest(S, k) \in SUBSET Seqs /\ Newest(S, k) \subseteq S
    BY DEF Newest
  <1>2. CASE Newest(S, k) = {}
    BY <1>1, <1>2, FS_EmptySet
  <1>3. CASE Newest(S, k) # {}
    <2>1. PICK m \in Newest(S, k) : \A y \in Newest(S, k) : m <= y
      BY <1>1, <1>3, SeqsFacts, LeastOf
    <2> DEFINE A == {t \in S : t >= m}
    <2>2. Cardinality(A) <= k
      BY <2>1 DEF Newest
    <2>3. A \in SUBSET Seqs /\ Newest(S, k) \in SUBSET A
      BY <1>1, <2>1, SeqsFacts
    <2> HIDE DEF A
    <2>4. Cardinality(Newest(S, k)) <= Cardinality(A)
      BY <2>3, SeqsFacts, FS_Subset
    <2>5. Cardinality(Newest(S, k)) \in Nat /\ Cardinality(A) \in Nat
      BY <1>1, <2>3, SeqsFacts
    <2>6. Cardinality(Newest(S, k)) <= k
      BY <2>2, <2>4, <2>5
    <2> QED BY <1>1, <2>6
  <1> QED BY <1>2, <1>3

\* Compaction forgets the oldest events of a ring that passed the high-water mark.
LEMMA CompactFacts ==
  ASSUME NEW S \in SUBSET Seqs
  PROVE  Compact(S) \subseteq S /\ Cardinality(Compact(S)) <= HighWater
  <1> DEFINE n == Cardinality(S)
             d == HighWater + 1 - ReplayCap
             k == ReplayCap + ((n - HighWater - 1) % d)
  <1>1. n \in Nat /\ d \in Nat \ {0} /\ HighWater \in Nat /\ ReplayCap \in Nat
    BY SeqsFacts, BoundsAssumption
  <1>2. CASE n > HighWater
    <2>1. (n - HighWater - 1) % d \in 0..d - 1
      BY <1>1, <1>2
    <2>2. k \in Nat /\ k <= HighWater
      BY <1>1, <2>1
    <2>3. Compact(S) = Newest(S, k)
      BY <1>2 DEF Compact
    <2> HIDE DEF k
    <2>4. Cardinality(Newest(S, k)) \in Nat /\ Newest(S, k) \subseteq S /\ Cardinality(Newest(S, k)) <= k
      BY <2>2, NewestFacts, SeqsFacts
    <2> QED BY <1>1, <2>2, <2>3, <2>4
  <1>3. CASE ~(n > HighWater)
    BY <1>1, <1>3 DEF Compact
  <1> QED BY <1>2, <1>3

\* noteLastSentSeq raises the mark to the highest event, and never lowers it.
LEMMA RaiseFacts ==
  ASSUME NEW old \in 0..MaxSeq, NEW evs \in SUBSET Seqs, NEW v \in Raise(old, evs)
  PROVE  /\ v \in 0..MaxSeq /\ old <= v /\ (v = old \/ v \in evs)
         /\ \A s \in evs : s <= v
  BY BoundsAssumption DEF Raise, IsMax, Seqs


-----------------------------------------------------------------------------
(* What the actions do to the program counters, the jobs and the queue *)

LEMMA ActorFacts ==
  /\ MaxSess \in Nat \ {0} /\ MaxSeq \in Nat \ {0} /\ MaxGen \in Nat /\ QCap \in Nat \ {0}
  /\ 0 \in Actors /\ Readers \subseteq Actors /\ Actors = {0} \cup Readers
  /\ 0 \notin Readers /\ -1 \notin Actors /\ Actors \subseteq Int
  BY BoundsAssumption DEF Actors, Readers

LEMMA NextCases ==
  ASSUME Next
  PROVE  \/ Publish \/ Flush \/ FlushGate \/ EnqueueLive \/ Heartbeat \/ RepairDroppedEvents
         \/ (\E a \in Actors : ReplayLock(a) \/ ReplayFrame(a) \/ ReplayUnlock(a))
         \/ (\E k \in Readers : \/ Receive(k) \/ SetSubscribers(k) \/ CatchUp(k) \/ PingAck(k)
                                \/ HelloSeq(k) \/ ResetLock(k) \/ EnqueueReset(k)
                                \/ ResetDone(k) \/ ResumeDone(k))
         \/ SessionStart \/ SessionEnd \/ HubReceive \/ HubSubscribers \/ HubNotify \/ HubPing
         \/ HubRestart
  BY ActorFacts DEF Next, Forward, Handle, Hub, Replay

\* The actor a goes on; the others stay where they are, with the job they had.
Others(a)   == \A b \in Actors \ {a} : pc'[b] = pc[b] /\ job'[b] = job[b]
Moves(a, l) == pc'[a] = l /\ \A b \in Actors \ {a} : pc'[b] = pc[b]
Keeps       == \A b \in Actors : job'[b] = job[b]

LEMMA FlushFacts ==
  ASSUME JobType, Flush
  PROVE  /\ pc[0] = "idle" /\ Moves(0, "gate") /\ Others(0)
         /\ job'[0].todo = pend /\ job'[0].then = "idle" /\ job'[0].after = 0 /\ job'[0].head
  BY ActorFacts DEF JobType, Flush, Goto, Moves, Others, NoJob, Job

LEMMA FlushGateFacts ==
  ASSUME JobType, FlushGate
  PROVE  /\ pc[0] = "gate" /\ Others(0)
         /\ \/ fwdOn /\ Moves(0, "push") /\ Keeps
            \/ ~fwdOn /\ Moves(0, "idle") /\ job'[0] = NoJob
  BY ActorFacts DEF JobType, FlushGate, Goto, Moves, Others, Keeps

LEMMA EnqueueLiveFacts ==
  ASSUME JobType, EnqueueLive
  PROVE  pc[0] = "push" /\ Moves(0, "idle") /\ Others(0) /\ job'[0] = NoJob
  BY ActorFacts DEF JobType, EnqueueLive, Goto, Moves, Others

LEMMA HeartbeatFacts ==
  ASSUME JobType, Heartbeat
  PROVE  pc[0] = "idle" /\ Moves(0, "repair") /\ Others(0) /\ Keeps
  BY ActorFacts DEF JobType, Heartbeat, Goto, Moves, Others, Keeps

LEMMA RepairFacts ==
  ASSUME JobType, RepairDroppedEvents
  PROVE  /\ pc[0] = "repair" /\ Others(0)
         /\ \/ fwdOn /\ Moves(0, "lock") /\ job'[0].todo = {} /\ job'[0].then = "idle"
               /\ job'[0].after = IF hubAck > 0 THEN hubAck ELSE lastSent
            \/ ~fwdOn /\ Moves(0, "idle") /\ Keeps
  BY ActorFacts DEF JobType, RepairDroppedEvents, Goto, Moves, Others, Keeps, NoJob, Job

LEMMA ReplayLockFacts ==
  ASSUME JobType, NEW a \in Actors, ReplayLock(a)
  PROVE  /\ pc[a] = "lock" /\ lock = -1 /\ lock' = a /\ Moves(a, "send") /\ Others(a)
         /\ job'[a].todo = {s \in ring : s > job[a].after} /\ job'[a].head
         /\ job'[a].then = job[a].then /\ job'[a].after = job[a].after
  <1> DEFINE E == {s \in ring : s > job[a].after}
  <1>1. /\ pc[a] = "lock" /\ lock = -1 /\ lock' = a
        /\ job' = [job EXCEPT ![a].todo = E, ![a].head = TRUE] /\ pc' = [pc EXCEPT ![a] = "send"]
    BY Zenon DEF ReplayLock, Goto
  <1> HIDE DEF E
  <1>2. Moves(a, "send")
    BY <1>1 DEF JobType, Moves
  <1>3. \A b \in Actors \ {a} : job'[b] = job[b]
    BY <1>1 DEF JobType
  <1>4. /\ job'[a].todo = E /\ job'[a].head
        /\ job'[a].then = job[a].then /\ job'[a].after = job[a].after
    BY <1>1 DEF JobType, Job
  <1> QED BY <1>1, <1>2, <1>3, <1>4 DEF Others, Moves, E

LEMMA ReplayUnlockFacts ==
  ASSUME JobType, NEW a \in Actors, ReplayUnlock(a)
  PROVE  /\ pc[a] = "send" /\ job[a].todo = {} /\ lock' = -1
         /\ Moves(a, job[a].then) /\ Others(a) /\ job'[a] = NoJob
  BY DEF JobType, ReplayUnlock, Goto, Moves, Others

LEMMA ReceiveFacts ==
  ASSUME JobType, DownType, NEW k \in Readers, Receive(k)
  PROVE  /\ pc[k] = "idle" /\ up /\ sess = k /\ Others(k) /\ down # <<>>
         /\ cur'[k] = Head(down) /\ down' = Tail(down)
         /\ \A r \in Readers \ {k} : cur'[r] = cur[r]
         /\ \/ Moves(k, "seq") /\ Keeps /\ UNCHANGED subsGen
            \/ /\ Moves(k, "set") /\ job'[k].todo = {} /\ job'[k].after = 0
               /\ job'[k].then = (IF fwdOn \/ Head(down).count = 0 THEN "idle" ELSE "seq")
  <1> DEFINE th == IF fwdOn \/ Head(down).count = 0 THEN "idle" ELSE "seq"
  <1>1. /\ pc[k] = "idle" /\ up /\ sess = k /\ down # <<>>
        /\ cur' = [cur EXCEPT ![k] = Head(down)] /\ down' = Tail(down)
        /\ \/ pc' = [pc EXCEPT ![k] = "seq"] /\ UNCHANGED <<subsGen, job>>
           \/ /\ pc' = [pc EXCEPT ![k] = "set"]
              /\ job' = [job EXCEPT ![k] = [NoJob EXCEPT !.then = th]]
    BY Zenon DEF Receive, Goto
  <1> HIDE DEF th
  <1>2. k \in Actors /\ \A r \in Readers \ {k} : cur'[r] = cur[r]
    BY <1>1, ActorFacts DEF DownType
  <1>3. cur'[k] = Head(down)
    BY <1>1 DEF DownType
  <1>4. CASE pc' = [pc EXCEPT ![k] = "seq"] /\ UNCHANGED <<subsGen, job>>
    BY <1>1, <1>2, <1>3, <1>4 DEF JobType, Moves, Others, Keeps
  <1>5. CASE /\ pc' = [pc EXCEPT ![k] = "set"]
             /\ job' = [job EXCEPT ![k] = [NoJob EXCEPT !.then = th]]
    <2>1. job'[k].todo = {} /\ job'[k].after = 0 /\ job'[k].then = th
      BY <1>2, <1>5 DEF JobType, NoJob
    <2>2. Moves(k, "set") /\ Others(k)
      BY <1>2, <1>5 DEF JobType, Moves, Others
    <2> QED BY <1>1, <1>2, <1>3, <2>1, <2>2 DEF th
  <1> QED BY <1>1, <1>4, <1>5

LEMMA SetSubscribersFacts ==
  ASSUME JobType, NEW k \in Readers, SetSubscribers(k)
  PROVE  /\ pc[k] = "set" /\ Others(k) /\ Keeps /\ fwdOn' = (cur[k].count > 0)
         /\ Moves(k, IF job[k].then = "seq" THEN "catchup" ELSE "seq")
  BY ActorFacts DEF JobType, SetSubscribers, Goto, Moves, Others, Keeps

LEMMA CatchUpFacts ==
  ASSUME JobType, NEW k \in Readers, CatchUp(k)
  PROVE  /\ pc[k] = "catchup" /\ Moves(k, "lock") /\ Others(k)
         /\ job'[k].todo = {} /\ job'[k].after = lastSent /\ job'[k].then = "seq"
  BY ActorFacts DEF JobType, CatchUp, CatchUpAnchor, Goto, Moves, Others, NoJob, Job

LEMMA HandledFacts ==
  ASSUME JobType, DownType, NEW k \in Readers, Handled(k)
  PROVE  /\ Moves(k, "idle") /\ Others(k) /\ job'[k] = NoJob /\ cur'[k] = NoFrame
         /\ \A r \in Readers \ {k} : cur'[r] = cur[r]
  BY ActorFacts DEF JobType, DownType, Handled, Goto, Moves, Others

LEMMA HelloSeqFacts ==
  ASSUME JobType, NEW k \in Readers, HelloSeq(k)
  PROVE  /\ pc[k] = "seq" /\ cur[k].kind = "hello" /\ Others(k) /\ job'[k].todo = {}
         /\ \/ cur[k].seq > nextSeq /\ Moves(k, "lockReset") /\ job'[k].then = "clear"
               /\ job'[k].after = 0 /\ UNCHANGED alienAck
            \/ ~(cur[k].seq > nextSeq) /\ Moves(k, "lock") /\ job'[k].then = "ack"
               /\ job'[k].after = cur[k].seq /\ alienAck' = (alienAck \/ cur[k].from = "old")
  <1>1. /\ pc[k] = "seq" /\ cur[k].kind = "hello" /\ k \in Actors
        /\ \/ /\ cur[k].seq > nextSeq /\ UNCHANGED alienAck
              /\ pc' = [pc EXCEPT ![k] = "lockReset"]
              /\ job' = [job EXCEPT ![k] = [NoJob EXCEPT !.then = "clear"]]
           \/ /\ ~(cur[k].seq > nextSeq) /\ alienAck' = (alienAck \/ cur[k].from = "old")
              /\ pc' = [pc EXCEPT ![k] = "lock"]
              /\ job' = [job EXCEPT ![k] = [NoJob EXCEPT !.after = cur[k].seq, !.then = "ack"]]
    BY ActorFacts, Zenon DEF HelloSeq, EpochMismatch, Goto
  <1>2. Others(k)
    BY <1>1 DEF JobType, Others
  <1>3. CASE /\ cur[k].seq > nextSeq /\ UNCHANGED alienAck
             /\ pc' = [pc EXCEPT ![k] = "lockReset"]
             /\ job' = [job EXCEPT ![k] = [NoJob EXCEPT !.then = "clear"]]
    <2>1. Moves(k, "lockReset")
      BY <1>1, <1>3 DEF JobType, Moves
    <2>2. job'[k].todo = {} /\ job'[k].then = "clear" /\ job'[k].after = 0
      BY <1>1, <1>3 DEF JobType, NoJob
    <2> QED BY <1>1, <1>2, <1>3, <2>1, <2>2, Zenon
  <1>4. CASE /\ ~(cur[k].seq > nextSeq) /\ alienAck' = (alienAck \/ cur[k].from = "old")
             /\ pc' = [pc EXCEPT ![k] = "lock"]
             /\ job' = [job EXCEPT ![k] = [NoJob EXCEPT !.after = cur[k].seq, !.then = "ack"]]
    <2>1. Moves(k, "lock")
      BY <1>1, <1>4 DEF JobType, Moves
    <2>2. job'[k].todo = {} /\ job'[k].then = "ack" /\ job'[k].after = cur[k].seq
      BY <1>1, <1>4 DEF JobType, NoJob
    <2> QED BY <1>1, <1>2, <1>4, <2>1, <2>2, Zenon
  <1> QED BY <1>1, <1>3, <1>4, Zenon

LEMMA ResetLockFacts ==
  ASSUME JobType, NEW k \in Readers, ResetLock(k)
  PROVE  /\ pc[k] = "lockReset" /\ lock = -1 /\ lock' = k /\ Moves(k, "reset")
         /\ Others(k) /\ Keeps
  BY ActorFacts DEF JobType, ResetLock, ResetHolder, Goto, Moves, Others, Keeps

LEMMA EnqueueResetFacts ==
  ASSUME JobType, NEW k \in Readers, EnqueueReset(k)
  PROVE  /\ pc[k] = "reset" /\ Moves(k, "send") /\ Others(k)
         /\ job'[k].todo = ring /\ job'[k].head
         /\ job'[k].then = job[k].then /\ job'[k].after = job[k].after
  BY ActorFacts DEF JobType, EnqueueReset, ResetReplay, Goto, Moves, Others, Job

LEMMA ReplayFrameFacts ==
  ASSUME JobType, NEW a \in Actors, ReplayFrame(a)
  PROVE  /\ pc[a] = "send" /\ UNCHANGED <<pc, lock>> /\ Others(a)
         /\ \E evs \in (SUBSET job[a].todo) \ {{}} :
              /\ \A s \in evs, t \in job[a].todo \ evs : s < t
              /\ evs \cap Oversized # {} => Cardinality(evs) = 1
              /\ job'[a].todo = job[a].todo \ evs
              /\ job'[a].then = job[a].then /\ job'[a].after = job[a].after
              /\ \/ /\ evs \cap Oversized # {} /\ job'[a].head = job[a].head
                    /\ UNCHANGED <<sendCh, lastSent, needCatchUp, fate>>
                 \/ /\ evs \cap Oversized = {} /\ ~job'[a].head
                    /\ sendCh' = Append(sendCh, [kind |-> "replay", evs |-> evs,
                                                 head |-> job[a].head])
                    /\ lastSent' \in Raise(lastSent, evs)
                    /\ UNCHANGED <<needCatchUp, fate>>
                 \/ /\ evs \cap Oversized = {} /\ job'[a].head = job[a].head
                    /\ DropBatch(evs) /\ UNCHANGED <<sendCh, lastSent>>
  <1>1. PICK evs \in (SUBSET job[a].todo) \ {{}} :
       /\ \A s \in evs, t \in job[a].todo \ evs : s < t
       /\ evs \cap Oversized # {} => Cardinality(evs) = 1
       /\ \/ /\ evs \cap Oversized # {}
             /\ job' = [job EXCEPT ![a].todo = @ \ evs]
             /\ UNCHANGED <<sendCh, lastSent, needCatchUp, fate>>
          \/ /\ evs \cap Oversized = {} /\ Len(sendCh) < QCap
             /\ sendCh' = Append(sendCh, [kind |-> "replay", evs |-> evs,
                                          head |-> job[a].head])
             /\ lastSent' \in Raise(lastSent, evs)
             /\ job' = [job EXCEPT ![a].todo = @ \ evs, ![a].head = FALSE]
             /\ UNCHANGED <<needCatchUp, fate>>
          \/ /\ evs \cap Oversized = {} /\ Len(sendCh) >= QCap
             /\ job' = [job EXCEPT ![a].todo = @ \ evs]
             /\ DropBatch(evs)
             /\ UNCHANGED <<sendCh, lastSent>>
    BY Zenon DEF ReplayFrame
  <1>2. pc[a] = "send" /\ UNCHANGED <<pc, lock>>
    BY DEF ReplayFrame
  <1>3. ASSUME job' = [job EXCEPT ![a].todo = @ \ evs]
        PROVE  /\ \A b \in Actors \ {a} : job'[b] = job[b]
               /\ job'[a].todo = job[a].todo \ evs /\ job'[a].head = job[a].head
               /\ job'[a].then = job[a].then /\ job'[a].after = job[a].after
    BY <1>3 DEF JobType, Job
  <1>4. ASSUME job' = [job EXCEPT ![a].todo = @ \ evs, ![a].head = FALSE]
        PROVE  /\ \A b \in Actors \ {a} : job'[b] = job[b]
               /\ job'[a].todo = job[a].todo \ evs /\ ~job'[a].head
               /\ job'[a].then = job[a].then /\ job'[a].after = job[a].after
    BY <1>4 DEF JobType, Job
  <1>5. Others(a)
    BY <1>1, <1>2, <1>3, <1>4 DEF Others
  <1> QED BY <1>1, <1>2, <1>3, <1>4, <1>5, Zenon

LEMMA AppendFacts ==
  ASSUME QueueType, NEW f \in Frame, sendCh' = Append(sendCh, f)
  PROVE  /\ Len(sendCh) \in Nat /\ Len(sendCh') = Len(sendCh) + 1 /\ sendCh' \in Seq(Frame)
         /\ \A i \in 1..Len(sendCh) : sendCh'[i] = sendCh[i]
         /\ sendCh'[Len(sendCh) + 1] = f
         /\ EventFrames' = EventFrames \cup {i \in {Len(sendCh) + 1} : f.kind # "reset"}
  <1>1. /\ Len(sendCh) \in Nat /\ Len(sendCh') = Len(sendCh) + 1 /\ sendCh' \in Seq(Frame)
        /\ \A i \in 1..Len(sendCh) : sendCh'[i] = sendCh[i]
        /\ sendCh'[Len(sendCh) + 1] = f
    BY DEF QueueType
  <1> QED BY <1>1 DEF EventFrames

LEMMA TailFacts ==
  ASSUME QueueType, sendCh # <<>>, sendCh' = Tail(sendCh)
  PROVE  /\ Len(sendCh) \in Nat \ {0} /\ Len(sendCh') = Len(sendCh) - 1 /\ sendCh' \in Seq(Frame)
         /\ \A i \in 1..Len(sendCh') : sendCh'[i] = sendCh[i + 1]
         /\ sendCh[1] = Head(sendCh) /\ Head(sendCh) \in Frame
         /\ \A i \in Int : i \in EventFrames' <=> i >= 1 /\ i + 1 \in EventFrames
  <1>1. /\ Len(sendCh) \in Nat \ {0} /\ Len(sendCh') = Len(sendCh) - 1 /\ sendCh' \in Seq(Frame)
        /\ \A i \in 1..Len(sendCh') : sendCh'[i] = sendCh[i + 1]
        /\ sendCh[1] = Head(sendCh) /\ Head(sendCh) \in Frame
    BY DEF QueueType
  <1>2. ASSUME NEW i \in Int PROVE i \in EventFrames' <=> i >= 1 /\ i + 1 \in EventFrames
    BY <1>1 DEF EventFrames
  <1> QED BY <1>1, <1>2

LEMMA QueueFacts ==
  ASSUME QueueType
  PROVE  /\ Len(sendCh) \in Nat /\ EventFrames \subseteq 1..Len(sendCh)
         /\ \A i \in 1..Len(sendCh) :
              /\ sendCh[i] \in Frame /\ sendCh[i].evs \subseteq Seqs
              /\ sendCh[i].kind \in {"live", "replay", "reset"}
              /\ (i \in EventFrames <=> sendCh[i].kind # "reset")
  <1>1. Len(sendCh) \in Nat /\ \A i \in 1..Len(sendCh) : sendCh[i] \in Frame
    BY DEF QueueType
  <1>2. \A f \in Frame : f.evs \subseteq Seqs /\ f.kind \in {"live", "replay", "reset"}
    BY DEF Frame
  <1> QED BY <1>1, <1>2 DEF EventFrames

\* A job of the right type.
LEMMA JobFacts ==
  ASSUME JobType, NEW a \in Actors
  PROVE  /\ pc[a] \in PCs /\ job[a] \in Job /\ job[a].after \in 0..MaxSeq
         /\ job[a].todo \subseteq Seqs /\ job[a].head \in BOOLEAN
         /\ job[a].then \in {"idle", "seq", "ack", "clear"}
  BY DEF JobType, Job

LEMMA AfterIsNat ==
  ASSUME JobType, NEW a \in Actors
  PROVE  job[a].after \in Nat
  BY JobFacts, ActorFacts

LEMMA NoJobFacts ==
  /\ NoJob \in Job /\ NoJob.todo = {} /\ NoJob.after = 0 /\ NoJob.head /\ NoJob.then = "idle"
  /\ NoFrame \in Down /\ NoFrame.seq = 0 /\ NoFrame.from = "none" /\ NoFrame.kind = "ping"
  BY ActorFacts DEF NoJob, NoFrame, Job, Down, Epochs


LEMMA DownFacts ==
  ASSUME DownType
  PROVE  /\ Len(down) \in Nat
         /\ \A i \in 1..Len(down) : down[i] \in Down
         /\ \A k \in Readers : cur[k] \in Down
         /\ down # <<>> => /\ Len(down) >= 1 /\ Head(down) = down[1] /\ Head(down) \in Down
                           /\ Tail(down) \in Seq(Down) /\ Len(Tail(down)) = Len(down) - 1
                           /\ \A i \in 1..Len(down) - 1 : Tail(down)[i] = down[i + 1]
         /\ \A f \in Down : /\ f.seq \in 0..MaxSeq /\ f.gen \in 0..MaxGen /\ f.count \in 0..1
                            /\ f.from \in Epochs /\ f.kind \in {"hello", "subs", "ping"}
  <1>1. /\ Len(down) \in Nat
        /\ \A i \in 1..Len(down) : down[i] \in Down
        /\ \A k \in Readers : cur[k] \in Down
    BY DEF DownType
  <1>2. down # <<>> => /\ Len(down) >= 1 /\ Head(down) = down[1] /\ Head(down) \in Down
                       /\ Tail(down) \in Seq(Down) /\ Len(Tail(down)) = Len(down) - 1
                       /\ \A i \in 1..Len(down) - 1 : Tail(down)[i] = down[i + 1]
    BY DEF DownType
  <1>3. \A f \in Down : /\ f.seq \in 0..MaxSeq /\ f.gen \in 0..MaxGen /\ f.count \in 0..1
                        /\ f.from \in Epochs /\ f.kind \in {"hello", "subs", "ping"}
    BY DEF Down
  <1> QED BY <1>1, <1>2, <1>3

-----------------------------------------------------------------------------
(* Types *)

\* The numbers stay in their ranges.
LEMMA NumTypeStep ==
  ASSUME TypeInv, Next
  PROVE  NumType'
  <1> USE DEF TypeInv
  <1>1. CASE Publish
    BY <1>1, ActorFacts DEF NumType, Publish, linkVars, hubVars
  <1>2. CASE Flush
    <2>1. nextSeq' \in Seqs
      BY <1>2 DEF Flush, SeqAndReplay
    <2> QED BY <1>2, <2>1 DEF NumType, Flush, Seqs, linkVars, hubVars
  <1>3. CASE EnqueueLive
    <2>1. lastSent' = lastSent \/ lastSent' \in Raise(lastSent, job[0].todo)
      BY <1>3 DEF EnqueueLive
    <2>2. job[0].todo \in SUBSET Seqs
      BY JobFacts, ActorFacts
    <2>3. lastSent' \in 0..MaxSeq
      BY <2>1, <2>2, RaiseFacts DEF NumType
    <2> QED BY <1>3, <2>3 DEF NumType, EnqueueLive, linkVars, hubVars
  <1>4. ASSUME NEW a \in Actors, ReplayLock(a) PROVE NumType'
    BY <1>4, ActorFacts DEF NumType, ReplayLock, Goto, linkVars, hubVars, Actors
  <1>5. ASSUME NEW a \in Actors, ReplayFrame(a) PROVE NumType'
    <2>1. \E evs \in SUBSET job[a].todo : lastSent' = lastSent \/ lastSent' \in Raise(lastSent, evs)
      BY <1>5, ReplayFrameFacts
    <2>2. job[a].todo \in SUBSET Seqs
      BY JobFacts
    <2>3. lastSent' \in 0..MaxSeq
      BY <2>1, <2>2, RaiseFacts DEF NumType
    <2> QED BY <1>5, <2>3 DEF NumType, ReplayFrame, linkVars, hubVars
  <1>6. ASSUME NEW a \in Actors, ReplayUnlock(a) PROVE NumType'
    BY <1>6, ActorFacts DEF NumType, ReplayUnlock, Goto, linkVars, hubVars, Actors
  <1>7. ASSUME NEW k \in Readers, Receive(k) PROVE NumType'
    <2>1. Head(down) \in Down /\ Head(down).gen \in 0..MaxGen
      BY <1>7, DownFacts, ReceiveFacts
    <2> QED BY <1>7, <2>1 DEF NumType, Receive, hubVars
  <1>8. ASSUME NEW k \in Readers, PingAck(k) PROVE NumType'
    <2>1. cur[k].seq \in 0..MaxSeq
      BY <1>8, DownFacts
    <2> QED BY <1>8, <2>1 DEF NumType, PingAck, NoteHubAck, Accepted, linkVars, hubVars
  <1>9. ASSUME NEW k \in Readers, ResetLock(k) PROVE NumType'
    BY <1>9, ActorFacts DEF NumType, ResetLock, ResetHolder, Goto, linkVars, hubVars, Readers
  <1>10. ASSUME NEW k \in Readers, ResetDone(k) PROVE NumType'
    BY <1>10, ActorFacts DEF NumType, ResetDone, Handled, Goto, linkVars, hubVars
  <1>11. ASSUME NEW k \in Readers, ResumeDone(k) PROVE NumType'
    <2>1. cur[k].seq \in 0..MaxSeq
      BY <1>11, DownFacts
    <2> QED BY <1>11, <2>1 DEF NumType, ResumeDone, NoteHubAck, Accepted, linkVars, hubVars
  <1>12. CASE SessionStart
    BY <1>12, ActorFacts DEF NumType, SessionStart, SessionGen, hubVars
  <1>13. CASE HubReceive
    <2>1. Head(sendCh) \in Frame /\ Head(sendCh).evs \in SUBSET Seqs
      BY <1>13, TailFacts DEF HubReceive, Frame
    <2>2. hubLast' = 0 \/ hubLast' \in Raise(hubLast, Head(sendCh).evs)
      BY <1>13 DEF HubReceive
    <2>3. hubLast' \in 0..MaxSeq
      BY <2>1, <2>2, RaiseFacts, ActorFacts DEF NumType
    <2> QED BY <1>13, <2>3 DEF NumType, HubReceive, linkVars
  <1>14. CASE HubSubscribers
    BY <1>14, ActorFacts DEF NumType, HubSubscribers, hostVars, linkVars
  <1>15. CASE HubNotify
    BY <1>15 DEF NumType, HubNotify, hostVars
  <1>16. CASE HubRestart
    BY <1>16, ActorFacts, BoundsAssumption DEF NumType, HubRestart, Disconnect
  <1>17. CASE UNCHANGED <<busSeq, nextSeq, lastSent, hubAck, hubLast, subsGen, gen, notif, lock, sess, hubRun, seen>>
    BY <1>17 DEF NumType
  <1>18. FlushGate \/ Heartbeat \/ RepairDroppedEvents \/ SessionEnd \/ HubPing
          => UNCHANGED <<busSeq, nextSeq, lastSent, hubAck, hubLast, subsGen, gen, notif, lock, sess, hubRun, seen>>
    BY DEF FlushGate, Heartbeat, RepairDroppedEvents, SessionEnd, HubPing, Disconnect,
            hostVars, linkVars, hubVars, history
  <1>19. \A k \in Readers : SetSubscribers(k) \/ CatchUp(k) \/ HelloSeq(k) \/ EnqueueReset(k)
          => UNCHANGED <<busSeq, nextSeq, lastSent, hubAck, hubLast, subsGen, gen, notif, lock, sess, hubRun, seen>>
    BY DEF SetSubscribers, CatchUp, HelloSeq, EnqueueReset, hostVars, linkVars, hubVars,
            history
  <1> QED BY NextCases, <1>1, <1>2, <1>3, <1>4, <1>5, <1>6, <1>7, <1>8, <1>9, <1>10, <1>11,
           <1>12, <1>13, <1>14, <1>15, <1>16, <1>17, <1>18, <1>19


\* The sets hold events.
LEMMA SetTypeStep ==
  ASSUME TypeInv, Next
  PROVE  SetType'
  <1> USE DEF TypeInv
  <1>1. CASE Publish
    <2>1. busSeq + 1 \in Seqs
      BY <1>1, ActorFacts DEF Publish, NumType, Seqs
    <2> QED BY <1>1, <2>1 DEF SetType, Publish, hubVars, history
  <1>2. CASE Flush
    <2>1. ring \cup pend \in SUBSET Seqs
      BY DEF SetType
    <2>2. ring' \subseteq Seqs
      BY <1>2, <2>1, CompactFacts DEF Flush, SeqAndReplay
    <2> QED BY <1>2, <2>2 DEF SetType, Flush, hubVars, history
  <1>3. CASE EnqueueLive
    <2>1. fate' \in [Seqs -> {"none", "dropped", "sunk", "live", "lost"}]
      BY <1>3 DEF EnqueueLive, DropBatch, Mark, SetType
    <2> QED BY <1>3, <2>1 DEF SetType, EnqueueLive, hubVars
  <1>4. ASSUME NEW a \in Actors, ReplayFrame(a) PROVE SetType'
    <2>1. PICK evs : UNCHANGED fate \/ Mark(evs, "dropped")
      BY <1>4, ReplayFrameFacts, Zenon DEF DropBatch
    <2>2. fate' \in [Seqs -> {"none", "dropped", "sunk", "live", "lost"}]
      BY <2>1 DEF Mark, SetType
    <2> QED BY <1>4, <2>2 DEF SetType, ReplayFrame, hubVars
  <1>5. CASE SessionStart
    BY <1>5 DEF SetType, SessionStart, hubVars
  <1>6. CASE HubReceive
    <2>1. Head(sendCh) \in Frame
      BY <1>6, TailFacts DEF HubReceive
    <2>2. Head(sendCh).evs \subseteq Seqs
      BY <2>1 DEF Frame
    <2> QED BY <1>6, <2>2 DEF SetType, HubReceive
  <1>7. CASE HubRestart
    BY <1>7 DEF SetType, HubRestart, Mark
  <1>8. CASE UNCHANGED <<pend, ring, hubMine, fate>>
    BY <1>8 DEF SetType
  <1>9. FlushGate \/ Heartbeat \/ RepairDroppedEvents \/ SessionEnd \/ HubSubscribers \/
        HubNotify \/ HubPing
          => UNCHANGED <<pend, ring, hubMine, fate>>
    BY DEF FlushGate, Heartbeat, RepairDroppedEvents, SessionEnd, HubSubscribers, HubNotify,
            HubPing, hostVars, linkVars, hubVars, history
  <1>10. \A a \in Actors : ReplayLock(a) \/ ReplayUnlock(a)
          => UNCHANGED <<pend, ring, hubMine, fate>>
    BY DEF ReplayLock, ReplayUnlock, hostVars, linkVars, hubVars, history
  <1>11. \A k \in Readers : Receive(k) \/ SetSubscribers(k) \/ CatchUp(k) \/ PingAck(k) \/
                            HelloSeq(k) \/ ResetLock(k) \/ EnqueueReset(k) \/ ResetDone(k) \/
                            ResumeDone(k)
          => UNCHANGED <<pend, ring, hubMine, fate>>
    BY DEF Receive, SetSubscribers, CatchUp, PingAck, HelloSeq, ResetLock, EnqueueReset,
            ResetDone, ResumeDone, hostVars, linkVars, hubVars, history
  <1> QED BY NextCases, <1>1, <1>2, <1>3, <1>4, <1>5, <1>6, <1>7, <1>8, <1>9, <1>10, <1>11

\* The ring is cut back in time.
LEMMA RingBoundedStep ==
  ASSUME TypeInv, RingBounded, Next
  PROVE  RingBounded'
  <1>1. CASE Flush
    <2>1. ring \cup pend \in SUBSET Seqs
      BY DEF TypeInv, SetType
    <2> QED BY <1>1, <2>1, CompactFacts DEF RingBounded, Flush, SeqAndReplay
  <1>2. CASE UNCHANGED ring
    BY <1>2 DEF RingBounded
  <1>3. Publish \/ FlushGate \/ EnqueueLive \/ Heartbeat \/ RepairDroppedEvents \/
        SessionStart \/ SessionEnd \/ HubReceive \/ HubSubscribers \/ HubNotify \/ HubPing \/
        HubRestart
          => UNCHANGED ring
    BY DEF Publish, FlushGate, EnqueueLive, Heartbeat, RepairDroppedEvents, SessionStart,
            SessionEnd, HubReceive, HubSubscribers, HubNotify, HubPing, HubRestart, hostVars,
            linkVars, hubVars, history
  <1>4. \A a \in Actors : ReplayLock(a) \/ ReplayFrame(a) \/ ReplayUnlock(a)
          => UNCHANGED ring
    BY DEF ReplayLock, ReplayFrame, ReplayUnlock, hostVars, linkVars, hubVars, history
  <1>5. \A k \in Readers : Receive(k) \/ SetSubscribers(k) \/ CatchUp(k) \/ PingAck(k) \/
                           HelloSeq(k) \/ ResetLock(k) \/ EnqueueReset(k) \/ ResetDone(k) \/
                           ResumeDone(k)
          => UNCHANGED ring
    BY DEF Receive, SetSubscribers, CatchUp, PingAck, HelloSeq, ResetLock, EnqueueReset,
            ResetDone, ResumeDone, hostVars, linkVars, hubVars, history
  <1> QED BY NextCases, <1>1, <1>2, <1>3, <1>4, <1>5

\* The flags are flags.
LEMMA FlagTypeStep ==
  ASSUME FlagType, Next
  PROVE  FlagType'
  <1>1. CASE EnqueueLive
    BY <1>1 DEF FlagType, EnqueueLive, DropBatch, linkVars, hubVars, history
  <1>2. CASE Heartbeat
    BY <1>2 DEF FlagType, Heartbeat, linkVars, hubVars, history
  <1>3. ASSUME NEW a \in Actors, ReplayFrame(a) PROVE FlagType'
    BY <1>3 DEF FlagType, ReplayFrame, DropBatch, linkVars, hubVars, history
  <1>4. ASSUME NEW k \in Readers, Receive(k) PROVE FlagType'
    BY <1>4 DEF FlagType, Receive, history
  <1>5. ASSUME NEW k \in Readers, SetSubscribers(k) PROVE FlagType'
    BY <1>5 DEF FlagType, SetSubscribers, linkVars, hubVars, history
  <1>6. ASSUME NEW k \in Readers, PingAck(k) PROVE FlagType'
    BY <1>6 DEF FlagType, PingAck, NoteHubAck, linkVars, hubVars, history
  <1>7. ASSUME NEW k \in Readers, HelloSeq(k) PROVE FlagType'
    BY <1>7 DEF FlagType, HelloSeq, linkVars
  <1>8. ASSUME NEW k \in Readers, ResumeDone(k) PROVE FlagType'
    BY <1>8 DEF FlagType, ResumeDone, NoteHubAck, linkVars, hubVars, history
  <1>9. CASE SessionStart
    BY <1>9 DEF FlagType, SessionStart, linkVars, hubVars, history
  <1>10. CASE SessionEnd
    BY <1>10 DEF FlagType, SessionEnd, Disconnect, linkVars, hubVars, history
  <1>11. CASE HubReceive
    BY <1>11 DEF FlagType, HubReceive, linkVars, hubVars, history
  <1>12. CASE HubRestart
    BY <1>12 DEF FlagType, HubRestart, Disconnect, linkVars, hubVars, history
  <1>13. CASE UNCHANGED <<needCatchUp, fwdOn, up, mixed, alienAck>>
    BY <1>13 DEF FlagType
  <1>14. Publish \/ Flush \/ FlushGate \/ RepairDroppedEvents \/ HubSubscribers \/
         HubNotify \/ HubPing
          => UNCHANGED <<needCatchUp, fwdOn, up, mixed, alienAck>>
    BY DEF Publish, Flush, FlushGate, RepairDroppedEvents, HubSubscribers, HubNotify, HubPing,
            hostVars, linkVars, hubVars, history
  <1>15. \A a \in Actors : ReplayLock(a) \/ ReplayUnlock(a)
          => UNCHANGED <<needCatchUp, fwdOn, up, mixed, alienAck>>
    BY DEF ReplayLock, ReplayUnlock, hostVars, linkVars, hubVars, history
  <1>16. \A k \in Readers : CatchUp(k) \/ ResetLock(k) \/ EnqueueReset(k) \/ ResetDone(k)
          => UNCHANGED <<needCatchUp, fwdOn, up, mixed, alienAck>>
    BY DEF CatchUp, ResetLock, EnqueueReset, ResetDone, hostVars, linkVars, hubVars, history
  <1> QED BY NextCases, <1>1, <1>2, <1>3, <1>4, <1>5, <1>6, <1>7, <1>8, <1>9, <1>10, <1>11,
           <1>12, <1>13, <1>14, <1>15, <1>16

\* The queue holds frames.
LEMMA QueueTypeStep ==
  ASSUME TypeInv, Next
  PROVE  QueueType'
  <1> USE DEF TypeInv
  <1>1. CASE EnqueueLive
    <2>1. [kind |-> "live", evs |-> job[0].todo, head |-> FALSE] \in Frame
      BY JobFacts, ActorFacts DEF Frame
    <2> QED BY <1>1, <2>1, AppendFacts DEF EnqueueLive, QueueType
  <1>2. ASSUME NEW a \in Actors, ReplayFrame(a) PROVE QueueType'
    <2>1. PICK evs \in SUBSET job[a].todo :
            \/ UNCHANGED sendCh
            \/ sendCh' = Append(sendCh, [kind |-> "replay", evs |-> evs, head |-> job[a].head])
      BY <1>2, ReplayFrameFacts
    <2>2. [kind |-> "replay", evs |-> evs, head |-> job[a].head] \in Frame
      BY JobFacts DEF Frame
    <2> QED BY <2>1, <2>2, AppendFacts DEF QueueType
  <1>3. ASSUME NEW k \in Readers, EnqueueReset(k) PROVE QueueType'
    <2>1. [kind |-> "reset", evs |-> ring, head |-> TRUE] \in Frame
      BY DEF SetType, Frame
    <2> QED BY <1>3, <2>1, AppendFacts DEF EnqueueReset, QueueType
  <1>4. CASE SessionStart
    BY <1>4 DEF SessionStart, QueueType
  <1>5. CASE HubReceive
    BY <1>5, TailFacts DEF HubReceive, QueueType
  <1>6. CASE UNCHANGED sendCh
    BY <1>6 DEF QueueType
  <1>7. Publish \/ Flush \/ FlushGate \/ Heartbeat \/ RepairDroppedEvents \/ SessionEnd \/
        HubSubscribers \/ HubNotify \/ HubPing \/ HubRestart
          => UNCHANGED sendCh
    BY DEF Publish, Flush, FlushGate, Heartbeat, RepairDroppedEvents, SessionEnd,
            HubSubscribers, HubNotify, HubPing, HubRestart, hostVars, linkVars, hubVars,
            history
  <1>8. \A a \in Actors : ReplayLock(a) \/ ReplayUnlock(a)
          => UNCHANGED sendCh
    BY DEF ReplayLock, ReplayUnlock, hostVars, linkVars, hubVars, history
  <1>9. \A k \in Readers : Receive(k) \/ SetSubscribers(k) \/ CatchUp(k) \/ PingAck(k) \/
                           HelloSeq(k) \/ ResetLock(k) \/ ResetDone(k) \/ ResumeDone(k)
          => UNCHANGED sendCh
    BY DEF Receive, SetSubscribers, CatchUp, PingAck, HelloSeq, ResetLock, ResetDone,
            ResumeDone, hostVars, linkVars, hubVars, history
  <1> QED BY NextCases, <1>1, <1>2, <1>3, <1>4, <1>5, <1>6, <1>7, <1>8, <1>9

\* The hub's frames are well formed.
LEMMA DownTypeStep ==
  ASSUME TypeInv, Next
  PROVE  DownType'
  <1> USE DEF TypeInv
  <1>1. ASSUME NEW k \in Readers, Receive(k) PROVE DownType'
    <2>1. Head(down) \in Down /\ Tail(down) \in Seq(Down)
      BY <1>1, DownFacts, ReceiveFacts
    <2> QED BY <1>1, <2>1 DEF DownType, Receive, hubVars
  <1>2. ASSUME NEW k \in Readers, PingAck(k) PROVE DownType'
    BY <1>2, NoJobFacts DEF DownType, PingAck, Handled, linkVars, hubVars
  <1>3. ASSUME NEW k \in Readers, ResetDone(k) PROVE DownType'
    BY <1>3, NoJobFacts DEF DownType, ResetDone, Handled, linkVars, hubVars
  <1>4. ASSUME NEW k \in Readers, ResumeDone(k) PROVE DownType'
    BY <1>4, NoJobFacts DEF DownType, ResumeDone, Handled, linkVars, hubVars
  <1>5. CASE SessionStart
    <2> DEFINE f == [kind |-> "hello", count |-> gen % 2, gen |-> 0, seq |-> hubLast, from |-> hubEpoch]
    <2>1. gen % 2 \in 0..1 /\ 0 \in 0..MaxGen
      BY ActorFacts DEF NumType
    <2>2. f \in Down
      BY <2>1 DEF DownType, NumType, Down
    <2>3. down' = <<f>> /\ UNCHANGED <<cur, hubEpoch>>
      BY <1>5 DEF SessionStart, hubVars
    <2> HIDE DEF f
    <2> QED BY <2>2, <2>3 DEF DownType
  <1>6. CASE SessionEnd
    BY <1>6 DEF DownType, SessionEnd, Disconnect, hubVars
  <1>7. CASE HubReceive
    BY <1>7 DEF DownType, HubReceive, linkVars, Epochs
  <1>8. CASE HubNotify
    <2>1. PICK g \in notif :
            \/ down' = Append(down, [kind |-> "subs", count |-> g % 2, gen |-> g,
                                     seq |-> 0, from |-> "none"])
            \/ UNCHANGED down
      BY <1>8 DEF HubNotify
    <2> DEFINE f == [kind |-> "subs", count |-> g % 2, gen |-> g, seq |-> 0, from |-> "none"]
    <2>2. g % 2 \in 0..1 /\ g \in 0..MaxGen
      BY ActorFacts DEF NumType
    <2>3. f \in Down
      BY <2>2, ActorFacts DEF Down, Epochs
    <2>4. UNCHANGED <<cur, hubEpoch>>
      BY <1>8 DEF HubNotify, hostVars
    <2>5. down' = Append(down, f) \/ UNCHANGED down
      BY <2>1
    <2> HIDE DEF f
    <2> QED BY <2>3, <2>4, <2>5 DEF DownType
  <1>9. CASE HubPing
    <2> DEFINE f == [kind |-> "ping", count |-> gen % 2, gen |-> gen, seq |-> hubLast, from |-> hubEpoch]
    <2>1. gen % 2 \in 0..1
      BY ActorFacts DEF NumType
    <2>2. f \in Down
      BY <2>1 DEF DownType, NumType, Down
    <2>3. down' = Append(down, f) /\ UNCHANGED <<cur, hubEpoch>>
      BY <1>9 DEF HubPing, hostVars, hubVars
    <2> HIDE DEF f
    <2> QED BY <2>2, <2>3 DEF DownType
  <1>10. CASE HubRestart
    BY <1>10 DEF DownType, HubRestart, Disconnect, Epochs
  <1>11. CASE UNCHANGED <<down, cur, hubEpoch>>
    BY <1>11 DEF DownType
  <1>12. Publish \/ Flush \/ FlushGate \/ EnqueueLive \/ Heartbeat \/ RepairDroppedEvents \/
         HubSubscribers
          => UNCHANGED <<down, cur, hubEpoch>>
    BY DEF Publish, Flush, FlushGate, EnqueueLive, Heartbeat, RepairDroppedEvents,
            HubSubscribers, hostVars, linkVars, hubVars, history
  <1>13. \A a \in Actors : ReplayLock(a) \/ ReplayFrame(a) \/ ReplayUnlock(a)
          => UNCHANGED <<down, cur, hubEpoch>>
    BY DEF ReplayLock, ReplayFrame, ReplayUnlock, hostVars, linkVars, hubVars, history
  <1>14. \A k \in Readers : SetSubscribers(k) \/ CatchUp(k) \/ HelloSeq(k) \/ ResetLock(k) \/
                            EnqueueReset(k)
          => UNCHANGED <<down, cur, hubEpoch>>
    BY DEF SetSubscribers, CatchUp, HelloSeq, ResetLock, EnqueueReset, hostVars, linkVars,
            hubVars, history
  <1> QED BY NextCases, <1>1, <1>2, <1>3, <1>4, <1>5, <1>6, <1>7, <1>8, <1>9, <1>10, <1>11,
           <1>12, <1>13, <1>14

\* The actors stay at their places, with jobs of theirs.
LEMMA JobTypeStep ==
  ASSUME TypeInv, Next
  PROVE  JobType'
  <1> USE DEF TypeInv
  <1>a. ASSUME NEW x \in PCs, NEW b \in Actors, pc' = [pc EXCEPT ![b] = x]
        PROVE  pc' \in [Actors -> PCs]
    BY <1>a DEF JobType
  <1>b. ASSUME NEW x \in Job, NEW b \in Actors, job' = [job EXCEPT ![b] = x]
        PROVE  job' \in [Actors -> Job]
    BY <1>b DEF JobType
  <1>c. "idle" \in PCs /\ "gate" \in PCs /\ "push" \in PCs /\ "repair" \in PCs /\ "set" \in PCs
        /\ "catchup" \in PCs /\ "seq" \in PCs /\ "lock" \in PCs /\ "send" \in PCs
        /\ "lockReset" \in PCs /\ "reset" \in PCs /\ "ack" \in PCs /\ "clear" \in PCs
    BY DEF PCs
  <1>d. \A af \in 0..MaxSeq, th \in {"idle", "seq", "ack", "clear"} :
          [NoJob EXCEPT !.after = af, !.then = th] \in Job
    BY ActorFacts DEF NoJob, Job
  <1>f. \A af \in 0..MaxSeq : [NoJob EXCEPT !.after = af] \in Job
    BY ActorFacts DEF NoJob, Job
  <1>z. 0 \in 0..MaxSeq
    BY ActorFacts
  <1>g. \A td \in SUBSET Seqs : [NoJob EXCEPT !.todo = td] \in Job
    BY <1>z DEF NoJob, Job
  <1>h. \A th \in {"idle", "seq", "ack", "clear"} : [NoJob EXCEPT !.then = th] \in Job
    BY <1>z DEF NoJob, Job
  <1>e. ring \in SUBSET Seqs /\ pend \in SUBSET Seqs
    BY DEF SetType
  <1>1. CASE Flush
    <2>1. pc' = [pc EXCEPT ![0] = "gate"] /\ job' = [job EXCEPT ![0] = [NoJob EXCEPT !.todo = pend]]
      BY <1>1, Zenon DEF Flush, Goto
    <2>2. [NoJob EXCEPT !.todo = pend] \in Job
      BY <1>e, <1>g, Zenon
    <2>3. job' \in [Actors -> Job]
      BY <2>1, <2>2, <1>b, ActorFacts, Zenon
    <2> QED BY <2>1, <2>3, <1>a, <1>c, ActorFacts DEF JobType
  <1>2. CASE FlushGate
    BY <1>2, <1>a, <1>b, <1>c, NoJobFacts, ActorFacts DEF JobType, FlushGate, Goto
  <1>3. CASE EnqueueLive
    BY <1>3, <1>a, <1>b, <1>c, NoJobFacts, ActorFacts DEF JobType, EnqueueLive, Goto
  <1>4. CASE Heartbeat
    BY <1>4, <1>a, <1>c, ActorFacts DEF JobType, Heartbeat, Goto
  <1>5. CASE RepairDroppedEvents
    <2>1. (IF hubAck > 0 THEN hubAck ELSE lastSent) \in 0..MaxSeq
      BY DEF NumType
    <2> QED BY <1>5, <2>1, <1>a, <1>b, <1>c, <1>d, <1>f, ActorFacts DEF JobType,
               RepairDroppedEvents, Goto
  <1>6. ASSUME NEW a \in Actors, ReplayLock(a) PROVE JobType'
    <2>1. job' \in [Actors -> Job]
      BY <1>6, <1>e DEF JobType, ReplayLock, Job
    <2> QED BY <1>6, <2>1, <1>a, <1>c DEF JobType, ReplayLock, Goto
  <1>7. ASSUME NEW a \in Actors, ReplayFrame(a) PROVE JobType'
    <2> SUFFICES job' \in [Actors -> Job]
      BY <1>7 DEF JobType, ReplayFrame
    <2>1. PICK evs : \/ job' = [job EXCEPT ![a].todo = @ \ evs]
                    \/ job' = [job EXCEPT ![a].todo = @ \ evs, ![a].head = FALSE]
      BY <1>7, Zenon DEF ReplayFrame
    <2>2. CASE job' = [job EXCEPT ![a].todo = @ \ evs]
      BY <2>2 DEF JobType, Job
    <2>3. CASE job' = [job EXCEPT ![a].todo = @ \ evs, ![a].head = FALSE]
      BY <2>3 DEF JobType, Job
    <2> QED BY <2>1, <2>2, <2>3
  <1>8. ASSUME NEW a \in Actors, ReplayUnlock(a) PROVE JobType'
    <2>1. job[a].then \in PCs
      BY JobFacts DEF PCs
    <2> QED BY <1>8, <2>1, <1>a, <1>b, NoJobFacts DEF JobType, ReplayUnlock, Goto
  <1>9. ASSUME NEW k \in Readers, Receive(k) PROVE JobType'
    <2> k \in Actors
      BY ActorFacts
    <2> DEFINE th == IF fwdOn \/ Head(down).count = 0 THEN "idle" ELSE "seq"
    <2>1. /\ \/ pc' = [pc EXCEPT ![k] = "seq"]
              \/ pc' = [pc EXCEPT ![k] = "set"]
          /\ UNCHANGED job \/ job' = [job EXCEPT ![k] = [NoJob EXCEPT !.then = th]]
      BY <1>9, Zenon DEF Receive, Goto
    <2>2. th \in {"idle", "seq"}
      OBVIOUS
    <2> HIDE DEF th
    <2>3. [NoJob EXCEPT !.then = th] \in Job
      BY <2>2, <1>h
    <2>4. pc' \in [Actors -> PCs]
      BY <2>1, <1>a, <1>c
    <2>5. job' \in [Actors -> Job]
      BY <2>1, <2>3, <1>b DEF JobType
    <2> QED BY <2>4, <2>5 DEF JobType
  <1>10. ASSUME NEW k \in Readers, SetSubscribers(k) PROVE JobType'
    BY <1>10, <1>a, <1>c, ActorFacts DEF JobType, SetSubscribers, Goto
  <1>11. ASSUME NEW k \in Readers, CatchUp(k) PROVE JobType'
    BY <1>11, <1>a, <1>b, <1>c, <1>d, <1>f, ActorFacts DEF JobType, CatchUp, CatchUpAnchor,
       Goto, NumType
  <1>12. ASSUME NEW k \in Readers, PingAck(k) PROVE JobType'
    BY <1>12, <1>a, <1>b, <1>c, NoJobFacts, ActorFacts DEF JobType, PingAck, Handled, Goto
  <1>13. ASSUME NEW k \in Readers, HelloSeq(k) PROVE JobType'
    <2>1. cur[k].seq \in 0..MaxSeq /\ k \in Actors
      BY DownFacts, ActorFacts
    <2>2. [NoJob EXCEPT !.then = "clear"] \in Job /\ [NoJob EXCEPT !.after = cur[k].seq, !.then = "ack"] \in Job
      BY <2>1, <1>d, <1>h
    <2>3. \/ /\ pc' = [pc EXCEPT ![k] = "lockReset"]
             /\ job' = [job EXCEPT ![k] = [NoJob EXCEPT !.then = "clear"]]
          \/ /\ pc' = [pc EXCEPT ![k] = "lock"]
             /\ job' = [job EXCEPT ![k] = [NoJob EXCEPT !.after = cur[k].seq, !.then = "ack"]]
      BY <1>13, Zenon DEF HelloSeq, Goto
    <2>4. pc' \in [Actors -> PCs]
      BY <2>1, <2>3, <1>a, <1>c
    <2>5. job' \in [Actors -> Job]
      BY <2>1, <2>2, <2>3, <1>b
    <2> QED BY <2>4, <2>5 DEF JobType
  <1>14. ASSUME NEW k \in Readers, ResetLock(k) PROVE JobType'
    BY <1>14, <1>a, <1>c, ActorFacts DEF JobType, ResetLock, Goto
  <1>15. ASSUME NEW k \in Readers, EnqueueReset(k) PROVE JobType'
    <2>1. job' \in [Actors -> Job]
      BY <1>15, <1>e DEF JobType, EnqueueReset, ResetReplay, Job
    <2> QED BY <1>15, <2>1, <1>a, <1>c, ActorFacts DEF JobType, EnqueueReset, Goto
  <1>16. ASSUME NEW k \in Readers, ResetDone(k) PROVE JobType'
    BY <1>16, <1>a, <1>b, <1>c, NoJobFacts, ActorFacts DEF JobType, ResetDone, Handled, Goto
  <1>17. ASSUME NEW k \in Readers, ResumeDone(k) PROVE JobType'
    BY <1>17, <1>a, <1>b, <1>c, NoJobFacts, ActorFacts DEF JobType, ResumeDone, Handled, Goto
  <1>18. CASE UNCHANGED <<pc, job>>
    BY <1>18 DEF JobType
  <1>19. Publish \/ SessionStart \/ SessionEnd \/ HubReceive \/ HubSubscribers \/ HubNotify \/
         HubPing \/ HubRestart
          => UNCHANGED <<pc, job>>
    BY DEF Publish, SessionStart, SessionEnd, HubReceive, HubSubscribers, HubNotify, HubPing,
            HubRestart, hostVars, linkVars, hubVars, history
  <1> QED BY NextCases, <1>1, <1>2, <1>3, <1>4, <1>5, <1>6, <1>7, <1>8, <1>9, <1>10, <1>11,
           <1>12, <1>13, <1>14, <1>15, <1>16, <1>17, <1>18, <1>19

LEMMA TypeStep ==
  ASSUME TypeInv, Next
  PROVE  TypeInv'
  BY NumTypeStep, SetTypeStep, FlagTypeStep, QueueTypeStep, DownTypeStep, JobTypeStep DEF TypeInv

LEMMA TypeInit ==
  ASSUME Init
  PROVE  TypeInv /\ RingBounded
  <1>1. NumType
    BY SetsAssumption, BoundsAssumption, ActorFacts DEF Init, NumType
  <1>2. SetType /\ FlagType
    BY DEF Init, SetType, FlagType
  <1>5. QueueType
    BY DEF Init, QueueType
  <1>6. JobType
    BY NoJobFacts DEF Init, JobType, PCs
  <1>3. DownType
    BY NoJobFacts DEF Init, DownType, Epochs
  <1>4. RingBounded
    BY FS_EmptySet, BoundsAssumption DEF Init, RingBounded
  <1> QED BY <1>1, <1>2, <1>3, <1>4, <1>5, <1>6 DEF TypeInv


-----------------------------------------------------------------------------
(* Who holds what, and how far the numbers reach *)

\* The lock is held for as long as a replay, or a reset with its replay, takes.
LEMMA HeldStep ==
  ASSUME JobType, DownType, Held, Next
  PROVE  Held'
  <1>1. CASE Flush
    BY <1>1, FlushFacts, ActorFacts DEF Held, Moves, Flush
  <1>2. CASE FlushGate
    BY <1>2, FlushGateFacts, ActorFacts DEF Held, Moves, FlushGate
  <1>3. CASE EnqueueLive
    BY <1>3, EnqueueLiveFacts, ActorFacts DEF Held, Moves, EnqueueLive
  <1>4. CASE Heartbeat
    BY <1>4, HeartbeatFacts, ActorFacts DEF Held, Moves, Heartbeat
  <1>5. CASE RepairDroppedEvents
    BY <1>5, RepairFacts, ActorFacts DEF Held, Moves, RepairDroppedEvents
  <1>6. ASSUME NEW a \in Actors, ReplayLock(a) PROVE Held'
    <2>1. pc[a] = "lock" /\ lock = -1 /\ lock' = a /\ Moves(a, "send")
      BY <1>6, ReplayLockFacts
    <2>2. \A b \in Actors : ~(pc[b] \in {"reset", "send"})
      BY <2>1, ActorFacts DEF Held
    <2> QED BY <2>1, <2>2 DEF Held, Moves
  <1>7. ASSUME NEW a \in Actors, ReplayUnlock(a) PROVE Held'
    BY <1>7, ReplayUnlockFacts, JobFacts, ActorFacts DEF Held, Moves
  <1>8. ASSUME NEW k \in Readers, Receive(k) PROVE Held'
    BY <1>8, ReceiveFacts, ActorFacts DEF Held, Moves, Receive
  <1>9. ASSUME NEW k \in Readers, SetSubscribers(k) PROVE Held'
    BY <1>9, SetSubscribersFacts, ActorFacts DEF Held, Moves, SetSubscribers
  <1>10. ASSUME NEW k \in Readers, CatchUp(k) PROVE Held'
    BY <1>10, CatchUpFacts, ActorFacts DEF Held, Moves, CatchUp
  <1>11. ASSUME NEW k \in Readers, PingAck(k) PROVE Held'
    BY <1>11, HandledFacts, ActorFacts DEF Held, Moves, PingAck
  <1>12. ASSUME NEW k \in Readers, HelloSeq(k) PROVE Held'
    BY <1>12, HelloSeqFacts, ActorFacts DEF Held, Moves, HelloSeq
  <1>13. ASSUME NEW k \in Readers, ResetLock(k) PROVE Held'
    BY <1>13, ResetLockFacts, ActorFacts DEF Held, Moves
  <1>14. ASSUME NEW k \in Readers, EnqueueReset(k) PROVE Held'
    BY <1>14, EnqueueResetFacts, ActorFacts DEF Held, Moves, EnqueueReset
  <1>15. ASSUME NEW k \in Readers, ResetDone(k) PROVE Held'
    BY <1>15, HandledFacts, ActorFacts DEF Held, Moves, ResetDone
  <1>16. ASSUME NEW k \in Readers, ResumeDone(k) PROVE Held'
    BY <1>16, HandledFacts, ActorFacts DEF Held, Moves, ResumeDone
  <1>17. CASE UNCHANGED <<pc, lock>>
    BY <1>17 DEF Held
  <1>18. Publish \/ SessionStart \/ SessionEnd \/ HubReceive \/ HubSubscribers \/ HubNotify \/
         HubPing \/ HubRestart
          => UNCHANGED <<pc, lock>>
    BY DEF Publish, SessionStart, SessionEnd, HubReceive, HubSubscribers, HubNotify, HubPing,
            HubRestart, hostVars, linkVars, hubVars, history
  <1>19. \A a \in Actors : ReplayFrame(a)
          => UNCHANGED <<pc, lock>>
    BY DEF ReplayFrame, hostVars, linkVars, hubVars, history
  <1> QED BY NextCases, <1>1, <1>2, <1>3, <1>4, <1>5, <1>6, <1>7, <1>8, <1>9, <1>10, <1>11,
           <1>12, <1>13, <1>14, <1>15, <1>16, <1>17, <1>18, <1>19

\* Assigned, observed, enqueued; and no mark goes back.
LEMMA SeqStep ==
  ASSUME IInv, Next
  PROVE  SeqInv' /\ lastSent <= lastSent' /\ nextSeq <= nextSeq'
  <1> USE DEF IInv, TypeInv, NumInv
  <1>1. CASE Publish
    BY <1>1 DEF Publish, SeqInv, NumType
  <1>2. CASE Flush
    <2>1. nextSeq' \in Seqs /\ IsMax(nextSeq', {nextSeq} \cup pend)
      BY <1>2 DEF Flush, SeqAndReplay
    <2>2. ring' \subseteq ring \cup pend
      BY <1>2, CompactFacts DEF Flush, SeqAndReplay, SetType
    <2>3. nextSeq <= nextSeq' /\ nextSeq' <= busSeq /\ \A s \in pend : s <= nextSeq'
      BY <2>1 DEF IsMax, SeqInv, NumType
    <2>4. pend' = {} /\ UNCHANGED <<busSeq, lastSent>>
      BY <1>2 DEF Flush
    <2>5. pend' \subseteq nextSeq' + 1 .. busSeq'
      BY <2>4
    <2>6. ring \subseteq Nat \ {0} /\ pend \subseteq Nat \ {0}
      BY ActorFacts DEF SetType, Seqs
    <2>7. ring' \subseteq 1..nextSeq'
      BY <2>1, <2>2, <2>3, <2>6 DEF SeqInv, NumType, Seqs
    <2> QED BY <2>1, <2>3, <2>4, <2>5, <2>7 DEF SeqInv, NumType, Seqs
  <1>3. CASE EnqueueLive
    <2>1. lastSent' = lastSent \/ lastSent' \in Raise(lastSent, job[0].todo)
      BY <1>3 DEF EnqueueLive
    <2>2. job[0].todo \in SUBSET Seqs /\ job[0].todo \subseteq 1..nextSeq
      BY JobFacts, ActorFacts DEF TodoInv
    <2>3. lastSent <= lastSent' /\ lastSent' <= nextSeq
      BY <2>1, <2>2, RaiseFacts DEF NumType, SeqInv
    <2> QED BY <1>3, <2>3 DEF SeqInv, NumType, EnqueueLive
  <1>4. ASSUME NEW a \in Actors, ReplayFrame(a) PROVE SeqInv' /\ lastSent <= lastSent' /\ nextSeq <= nextSeq'
    <2>1. PICK evs \in SUBSET job[a].todo : lastSent' = lastSent \/ lastSent' \in Raise(lastSent, evs)
      BY <1>4, ReplayFrameFacts
    <2>2. evs \in SUBSET Seqs /\ evs \subseteq 1..nextSeq
      BY JobFacts DEF TodoInv
    <2>3. lastSent <= lastSent' /\ lastSent' <= nextSeq
      BY <2>1, <2>2, RaiseFacts DEF NumType, SeqInv
    <2> QED BY <1>4, <2>3 DEF SeqInv, NumType, ReplayFrame
  <1>5. ASSUME NEW k \in Readers, ResumeDone(k) PROVE SeqInv' /\ lastSent <= lastSent' /\ nextSeq <= nextSeq'
    <2>1. cur[k].seq <= nextSeq /\ cur[k].seq \in 0..MaxSeq
      BY <1>5, DownFacts DEF AnchorInv, ResumeInv, Resuming, ResumeDone
    <2> QED BY <1>5, <2>1 DEF SeqInv, ResumeDone, NumType
  <1>6. CASE UNCHANGED <<busSeq, pend, nextSeq, ring, lastSent>>
    BY <1>6 DEF SeqInv, NumType
  <1>7. FlushGate \/ Heartbeat \/ RepairDroppedEvents \/ SessionStart \/ SessionEnd \/
        HubReceive \/ HubSubscribers \/ HubNotify \/ HubPing \/ HubRestart
          => UNCHANGED <<busSeq, pend, nextSeq, ring, lastSent>>
    BY DEF FlushGate, Heartbeat, RepairDroppedEvents, SessionStart, SessionEnd, HubReceive,
            HubSubscribers, HubNotify, HubPing, HubRestart, hostVars, linkVars, hubVars,
            history
  <1>8. \A a \in Actors : ReplayLock(a) \/ ReplayUnlock(a)
          => UNCHANGED <<busSeq, pend, nextSeq, ring, lastSent>>
    BY DEF ReplayLock, ReplayUnlock, hostVars, linkVars, hubVars, history
  <1>9. \A k \in Readers : Receive(k) \/ SetSubscribers(k) \/ CatchUp(k) \/ PingAck(k) \/
                           HelloSeq(k) \/ ResetLock(k) \/ EnqueueReset(k) \/ ResetDone(k)
          => UNCHANGED <<busSeq, pend, nextSeq, ring, lastSent>>
    BY DEF Receive, SetSubscribers, CatchUp, PingAck, HelloSeq, ResetLock, EnqueueReset,
            ResetDone, hostVars, linkVars, hubVars, history
  <1> QED BY NextCases, <1>1, <1>2, <1>3, <1>4, <1>5, <1>6, <1>7, <1>8, <1>9

\* A replay or a batch holds observed events.
LEMMA TodoStep ==
  ASSUME IInv, Next
  PROVE  TodoInv'
  <1> USE DEF IInv, TypeInv, NumInv
  <1>a. 1..nextSeq \subseteq 1..nextSeq'
    BY SeqStep, TypeStep DEF NumType
  <1>1. CASE Flush
    <2>1. pend \subseteq 1..nextSeq'
      <3>1. nextSeq' \in Seqs /\ IsMax(nextSeq', {nextSeq} \cup pend)
        BY <1>1 DEF Flush, SeqAndReplay
      <3> QED BY <3>1, ActorFacts DEF IsMax, SetType, Seqs
    <2> QED BY <1>1, <1>a, <2>1, FlushFacts, ActorFacts DEF TodoInv, Others
  <1>2. CASE FlushGate
    BY <1>2, <1>a, FlushGateFacts, NoJobFacts, ActorFacts DEF TodoInv, Others, Keeps
  <1>3. CASE EnqueueLive
    BY <1>3, <1>a, EnqueueLiveFacts, NoJobFacts, ActorFacts DEF TodoInv, Others, Keeps
  <1>4. CASE RepairDroppedEvents
    BY <1>4, <1>a, RepairFacts, NoJobFacts, ActorFacts DEF TodoInv, Others, Keeps
  <1>5. ASSUME NEW a \in Actors, ReplayLock(a) PROVE TodoInv'
    <2>1. job'[a].todo \subseteq ring
      BY <1>5, ReplayLockFacts
    <2> QED BY <1>5, <1>a, <2>1, ReplayLockFacts DEF TodoInv, Others, SeqInv
  <1>6. ASSUME NEW a \in Actors, ReplayFrame(a) PROVE TodoInv'
    <2>1. job'[a].todo \subseteq job[a].todo /\ Others(a)
      BY <1>6, ReplayFrameFacts
    <2> QED BY <1>a, <2>1 DEF TodoInv, Others
  <1>7. ASSUME NEW a \in Actors, ReplayUnlock(a) PROVE TodoInv'
    BY <1>7, <1>a, ReplayUnlockFacts, NoJobFacts, ActorFacts DEF TodoInv, Others, Keeps
  <1>8. ASSUME NEW k \in Readers, Receive(k) PROVE TodoInv'
    BY <1>8, <1>a, ReceiveFacts, NoJobFacts, ActorFacts DEF TodoInv, Others, Keeps
  <1>9. ASSUME NEW k \in Readers, CatchUp(k) PROVE TodoInv'
    BY <1>9, <1>a, CatchUpFacts, NoJobFacts, ActorFacts DEF TodoInv, Others, Keeps
  <1>10. ASSUME NEW k \in Readers, PingAck(k) PROVE TodoInv'
    BY <1>10, <1>a, HandledFacts, NoJobFacts, ActorFacts DEF TodoInv, Others, Keeps, PingAck
  <1>11. ASSUME NEW k \in Readers, HelloSeq(k) PROVE TodoInv'
    BY <1>11, <1>a, HelloSeqFacts, NoJobFacts, ActorFacts DEF TodoInv, Others, Keeps
  <1>12. ASSUME NEW k \in Readers, EnqueueReset(k) PROVE TodoInv'
    BY <1>12, <1>a, EnqueueResetFacts, ActorFacts DEF TodoInv, Others, SeqInv
  <1>13. ASSUME NEW k \in Readers, ResetDone(k) PROVE TodoInv'
    BY <1>13, <1>a, HandledFacts, NoJobFacts, ActorFacts DEF TodoInv, Others, Keeps, ResetDone
  <1>14. ASSUME NEW k \in Readers, ResumeDone(k) PROVE TodoInv'
    BY <1>14, <1>a, HandledFacts, NoJobFacts, ActorFacts DEF TodoInv, Others, Keeps, ResumeDone
  <1>15. CASE UNCHANGED <<job, nextSeq>>
    BY <1>15 DEF TodoInv
  <1>16. Publish \/ Heartbeat \/ SessionStart \/ SessionEnd \/ HubReceive \/ HubSubscribers \/
         HubNotify \/ HubPing \/ HubRestart
          => UNCHANGED <<job, nextSeq>>
    BY DEF Publish, Heartbeat, SessionStart, SessionEnd, HubReceive, HubSubscribers, HubNotify,
            HubPing, HubRestart, hostVars, linkVars, hubVars, history
  <1>17. \A k \in Readers : SetSubscribers(k) \/ ResetLock(k)
          => UNCHANGED <<job, nextSeq>>
    BY DEF SetSubscribers, ResetLock, hostVars, linkVars, hubVars, history
  <1> QED BY NextCases, <1>1, <1>2, <1>3, <1>4, <1>5, <1>6, <1>7, <1>8, <1>9, <1>10, <1>11,
           <1>12, <1>13, <1>14, <1>15, <1>16, <1>17



-----------------------------------------------------------------------------
(* What a frame adds to the queue, and what becomes of its events *)

Last == Len(sendCh)

Added(kd, E) ==
  /\ Last \in Nat /\ Last' = Last + 1
  /\ \A i \in 1..Last : sendCh'[i] = sendCh[i]
  /\ sendCh'[Last + 1].kind = kd /\ sendCh'[Last + 1].evs = E
  /\ EventFrames' = EventFrames \cup {i \in {Last + 1} : kd # "reset"}

Marked(E, f) == \A s \in Seqs : fate'[s] = IF s \in E THEN f ELSE fate[s]

LEMMA AddedFacts ==
  ASSUME QueueType, NEW kd \in {"live", "replay", "reset"}, NEW E \in SUBSET Seqs,
         NEW h \in BOOLEAN, sendCh' = Append(sendCh, [kind |-> kd, evs |-> E, head |-> h])
  PROVE  Added(kd, E) /\ sendCh'[Last + 1].head = h
  <1> DEFINE f == [kind |-> kd, evs |-> E, head |-> h]
  <1>1. f \in Frame /\ f.kind = kd /\ f.evs = E /\ f.head = h
    BY DEF Frame
  <1> HIDE DEF f
  <1>2. sendCh' = Append(sendCh, f)
    BY DEF f
  <1> QED BY <1>1, <1>2, AppendFacts DEF Added, Last

LEMMA MarkFacts ==
  ASSUME NEW E, NEW f, Mark(E, f)
  PROVE  Marked(E, f)
  BY DEF Mark, Marked

LEMMA LiveQueue ==
  ASSUME QueueType, JobType, EnqueueLive
  PROVE  LET E == job[0].todo IN
         \/ /\ UNCHANGED <<sendCh, lastSent>> /\ needCatchUp' /\ Marked(E, "dropped")
         \/ /\ UNCHANGED <<sendCh, lastSent, needCatchUp>> /\ E \cap Oversized # {}
            /\ Marked({s \in E : fate[s] # "dropped"}, "sunk")
         \/ /\ lock = -1 /\ E \cap Oversized = {} /\ Added("live", E) /\ UNCHANGED needCatchUp
            /\ lastSent' \in Raise(lastSent, E)
            /\ Marked({s \in E : fate[s] = "none"}, "live")
  <1> DEFINE E == job[0].todo
  <1>1. \/ /\ UNCHANGED <<sendCh, lastSent>> /\ needCatchUp' /\ Mark(E, "dropped")
        \/ /\ UNCHANGED <<sendCh, lastSent, needCatchUp>> /\ E \cap Oversized # {}
           /\ Mark({s \in E : fate[s] # "dropped"}, "sunk")
        \/ /\ lock = -1 /\ E \cap Oversized = {} /\ UNCHANGED needCatchUp
           /\ sendCh' = Append(sendCh, [kind |-> "live", evs |-> E, head |-> FALSE])
           /\ lastSent' \in Raise(lastSent, E)
           /\ Mark({s \in E : fate[s] = "none"}, "live")
    BY Zenon DEF EnqueueLive, LiveAdmitted, DropBatch
  <1>2. E \in SUBSET Seqs
    BY JobFacts, ActorFacts
  <1> HIDE DEF E
  <1>3. sendCh' = Append(sendCh, [kind |-> "live", evs |-> E, head |-> FALSE]) => Added("live", E)
    BY <1>2, AddedFacts
  <1>4. \A S, f : Mark(S, f) => Marked(S, f)
    BY MarkFacts
  <1>5. \/ /\ UNCHANGED <<sendCh, lastSent>> /\ needCatchUp' /\ Marked(E, "dropped")
        \/ /\ UNCHANGED <<sendCh, lastSent, needCatchUp>> /\ E \cap Oversized # {}
           /\ Marked({s \in E : fate[s] # "dropped"}, "sunk")
        \/ /\ lock = -1 /\ E \cap Oversized = {} /\ Added("live", E) /\ UNCHANGED needCatchUp
           /\ lastSent' \in Raise(lastSent, E)
           /\ Marked({s \in E : fate[s] = "none"}, "live")
    BY <1>1, <1>3, <1>4, Zenon
  <1> QED BY <1>5 DEF E

\* One step of a replay: the leading part evs of what was left is gone from the job.
Sends(a, evs) ==
  /\ evs # {} /\ evs \subseteq job[a].todo /\ evs \subseteq Seqs
  /\ \A s \in evs, t \in job[a].todo \ evs : s < t
  /\ job'[a].todo = job[a].todo \ evs
  /\ job'[a].then = job[a].then /\ job'[a].after = job[a].after

LEMMA ReplayQueue ==
  ASSUME QueueType, JobType, NEW a \in Actors, ReplayFrame(a)
  PROVE  \E evs \in SUBSET Seqs :
           /\ Sends(a, evs)
           /\ \/ /\ evs \cap Oversized # {} /\ Cardinality(evs) = 1 /\ job'[a].head = job[a].head
                 /\ UNCHANGED <<sendCh, lastSent, needCatchUp, fate>>
              \/ /\ evs \cap Oversized = {} /\ ~job'[a].head /\ Added("replay", evs)
                 /\ sendCh'[Last + 1].head = job[a].head
                 /\ lastSent' \in Raise(lastSent, evs) /\ UNCHANGED <<needCatchUp, fate>>
              \/ /\ evs \cap Oversized = {} /\ job'[a].head = job[a].head
                 /\ needCatchUp' /\ Marked(evs, "dropped") /\ UNCHANGED <<sendCh, lastSent>>
  <1>1. PICK evs \in (SUBSET job[a].todo) \ {{}} :
              /\ \A s \in evs, t \in job[a].todo \ evs : s < t
              /\ evs \cap Oversized # {} => Cardinality(evs) = 1
              /\ job'[a].todo = job[a].todo \ evs
              /\ job'[a].then = job[a].then /\ job'[a].after = job[a].after
              /\ \/ /\ evs \cap Oversized # {} /\ job'[a].head = job[a].head
                    /\ UNCHANGED <<sendCh, lastSent, needCatchUp, fate>>
                 \/ /\ evs \cap Oversized = {} /\ ~job'[a].head
                    /\ sendCh' = Append(sendCh, [kind |-> "replay", evs |-> evs,
                                                 head |-> job[a].head])
                    /\ lastSent' \in Raise(lastSent, evs)
                    /\ UNCHANGED <<needCatchUp, fate>>
                 \/ /\ evs \cap Oversized = {} /\ job'[a].head = job[a].head
                    /\ DropBatch(evs) /\ UNCHANGED <<sendCh, lastSent>>
    BY ReplayFrameFacts, Zenon
  <1>6. job[a].todo \subseteq Seqs /\ job[a].head \in BOOLEAN
    BY JobFacts, Zenon
  <1>2. evs \in SUBSET Seqs /\ evs # {} /\ evs \subseteq job[a].todo /\ job[a].head \in BOOLEAN
    <2>1. evs \subseteq job[a].todo
      BY <1>1, Zenon
    <2>2. evs # {}
      BY <1>1, Zenon
    <2> QED BY <1>6, <2>1, <2>2
  <1>3. Sends(a, evs)
    BY <1>1, <1>2 DEF Sends
  <1>4. ASSUME sendCh' = Append(sendCh, [kind |-> "replay", evs |-> evs, head |-> job[a].head])
        PROVE  Added("replay", evs) /\ sendCh'[Last + 1].head = job[a].head
    BY <1>2, <1>4, AddedFacts
  <1>5. DropBatch(evs) => needCatchUp' /\ Marked(evs, "dropped")
    BY MarkFacts DEF DropBatch
  <1> QED BY <1>1, <1>2, <1>3, <1>4, <1>5, Zenon

LEMMA ResetQueue ==
  ASSUME QueueType, SetType, NEW k \in Readers, EnqueueReset(k)
  PROVE  UNCHANGED sendCh \/ Added("reset", ring)
  <1>1. ring \in SUBSET Seqs
    BY DEF SetType
  <1>2. \/ UNCHANGED sendCh
        \/ sendCh' = Append(sendCh, [kind |-> "reset", evs |-> ring, head |-> TRUE])
    BY DEF EnqueueReset
  <1> QED BY <1>1, <1>2, AddedFacts

\* The first frame leaves the queue.
Shifted ==
  /\ Last \in Nat \ {0} /\ Last' = Last - 1
  /\ \A i \in 1..Last' : sendCh'[i] = sendCh[i + 1]
  /\ \A i \in Int : i \in EventFrames' <=> i >= 1 /\ i + 1 \in EventFrames

LEMMA TakeQueue ==
  ASSUME QueueType, HubReceive
  PROVE  Shifted /\ Head(sendCh) = sendCh[1] /\ Head(sendCh) \in Frame
  BY TailFacts DEF HubReceive, Shifted, Last

LEMMA SameQueue ==
  ASSUME UNCHANGED sendCh
  PROVE  EventFrames' = EventFrames /\ Last' = Last
         /\ \A i \in 1..Last : sendCh'[i] = sendCh[i]
  BY DEF EventFrames, Last

-----------------------------------------------------------------------------

\* What is queued was counted as enqueued.
LEMMA SentStep ==
  ASSUME IInv, Next
  PROVE  SentInv'
  <1> USE DEF IInv, TypeInv, NumInv
  <1>a. lastSent \in Nat /\ lastSent' \in Nat /\ lastSent <= lastSent'
    BY SeqStep, TypeStep, ActorFacts DEF NumType
  <1>1. CASE EnqueueLive
    <2>1. CASE UNCHANGED <<sendCh, lastSent>>
      BY <2>1, SameQueue DEF SentInv
    <2>2. CASE Added("live", job[0].todo) /\ lastSent' \in Raise(lastSent, job[0].todo)
      <3>1. job[0].todo \in SUBSET Seqs
        BY JobFacts, ActorFacts
      <3>2. \A s \in job[0].todo : s <= lastSent'
        BY <2>2, <3>1, RaiseFacts DEF NumType
      <3> QED BY <2>2, <3>1, <3>2, <1>a, QueueFacts DEF Added, SentInv, Last, Seqs
    <2> QED BY <1>1, <2>1, <2>2, LiveQueue
  <1>2. ASSUME NEW a \in Actors, ReplayFrame(a) PROVE SentInv'
    <2>1. PICK evs \in SUBSET Seqs :
            \/ UNCHANGED <<sendCh, lastSent>>
            \/ Added("replay", evs) /\ lastSent' \in Raise(lastSent, evs)
      BY <1>2, ReplayQueue
    <2>2. CASE UNCHANGED <<sendCh, lastSent>>
      BY <2>2, SameQueue DEF SentInv
    <2>3. CASE Added("replay", evs) /\ lastSent' \in Raise(lastSent, evs)
      <3>1. \A s \in evs : s <= lastSent'
        BY <2>3, RaiseFacts DEF NumType
      <3>2. ASSUME NEW i \in EventFrames', NEW s \in sendCh'[i].evs PROVE s <= lastSent'
        <4>1. CASE i = Last + 1
          BY <2>3, <3>1, <3>2, <4>1 DEF Added
        <4>2. CASE i \in EventFrames
          <5>1. i \in 1..Last /\ sendCh'[i] = sendCh[i] /\ s \in Seqs
            BY <2>3, <3>2, <4>2, QueueFacts DEF Added, Last
          <5> QED BY <3>2, <4>2, <5>1, <1>a DEF SentInv, Seqs
        <4> QED BY <2>3, <3>2, <4>1, <4>2 DEF Added
      <3> QED BY <3>2 DEF SentInv
    <2> QED BY <2>1, <2>2, <2>3
  <1>3. ASSUME NEW k \in Readers, EnqueueReset(k) PROVE SentInv'
    <2>1. UNCHANGED lastSent
      BY <1>3 DEF EnqueueReset
    <2> QED BY <1>3, <2>1, ResetQueue, SameQueue, QueueFacts DEF Added, SentInv, Last
  <1>4. ASSUME NEW k \in Readers, ResumeDone(k) PROVE SentInv'
    <2>1. UNCHANGED sendCh
      BY <1>4 DEF ResumeDone
    <2> QED BY <2>1, SameQueue, <1>a, QueueFacts DEF SentInv, Seqs
  <1>5. CASE SessionStart
    <2>1. sendCh' = <<>>
      BY <1>5 DEF SessionStart
    <2> QED BY <2>1 DEF SentInv, EventFrames
  <1>6. CASE HubReceive
    <2>1. UNCHANGED lastSent
      BY <1>6 DEF HubReceive
    <2> QED BY <1>6, <2>1, TakeQueue DEF Shifted, SentInv, EventFrames, Last
  <1>7. CASE UNCHANGED <<sendCh, lastSent>>
    BY <1>7 DEF SentInv, EventFrames
  <1>8. Publish \/ Flush \/ FlushGate \/ Heartbeat \/ RepairDroppedEvents \/ SessionEnd \/
        HubSubscribers \/ HubNotify \/ HubPing \/ HubRestart
          => UNCHANGED <<sendCh, lastSent>>
    BY DEF Publish, Flush, FlushGate, Heartbeat, RepairDroppedEvents, SessionEnd,
            HubSubscribers, HubNotify, HubPing, HubRestart, hostVars, linkVars, hubVars,
            history
  <1>9. \A a \in Actors : ReplayLock(a) \/ ReplayUnlock(a)
          => UNCHANGED <<sendCh, lastSent>>
    BY DEF ReplayLock, ReplayUnlock, hostVars, linkVars, hubVars, history
  <1>10. \A k \in Readers : Receive(k) \/ SetSubscribers(k) \/ CatchUp(k) \/ PingAck(k) \/
                            HelloSeq(k) \/ ResetLock(k) \/ ResetDone(k)
          => UNCHANGED <<sendCh, lastSent>>
    BY DEF Receive, SetSubscribers, CatchUp, PingAck, HelloSeq, ResetLock, ResetDone, hostVars,
            linkVars, hubVars, history
  <1> QED BY NextCases, <1>1, <1>2, <1>3, <1>4, <1>5, <1>6, <1>7, <1>8, <1>9, <1>10

\* What the hub got was enqueued.
LEMMA MineStep ==
  ASSUME IInv, Next
  PROVE  MineInv'
  <1> USE DEF IInv, TypeInv, NumInv
  <1>a. lastSent \in Nat /\ lastSent' \in Nat /\ lastSent <= lastSent'
    BY SeqStep, TypeStep, ActorFacts DEF NumType
  <1>1. CASE EnqueueLive
    BY <1>1, <1>a DEF MineInv, EnqueueLive, hubVars, linkVars
  <1>2. ASSUME NEW a \in Actors, ReplayFrame(a) PROVE MineInv'
    BY <1>2, <1>a DEF MineInv, ReplayFrame, hubVars, linkVars
  <1>3. ASSUME NEW k \in Readers, ResumeDone(k) PROVE MineInv'
    BY <1>3, <1>a DEF MineInv, ResumeDone, hubVars, linkVars
  <1>4. CASE HubReceive
    <2>1. UNCHANGED lastSent /\ Head(sendCh) \in Frame /\ Head(sendCh) = sendCh[1] /\ Len(sendCh) \in Nat \ {0}
      BY <1>4, TakeQueue DEF HubReceive, Shifted, Last
    <2>2. CASE Head(sendCh).kind = "reset"
      BY <1>4, <2>1, <2>2 DEF HubReceive, MineInv
    <2>3. CASE Head(sendCh).kind # "reset"
      <3>1. \A s \in Head(sendCh).evs : s <= lastSent /\ s \in Seqs
        BY <2>1, <2>3, QueueFacts DEF SentInv, EventFrames
      <3>2. hubMine' \subseteq hubMine \cup Head(sendCh).evs
        BY <1>4, <2>3 DEF HubReceive
      <3> QED BY <2>1, <3>1, <3>2, <1>a DEF MineInv, Seqs
    <2> QED BY <2>2, <2>3
  <1>5. CASE HubRestart
    BY <1>5 DEF MineInv, HubRestart
  <1>6. CASE UNCHANGED <<hubMine, lastSent>>
    BY <1>6 DEF MineInv
  <1>7. Publish \/ Flush \/ FlushGate \/ Heartbeat \/ RepairDroppedEvents \/ SessionStart \/
        SessionEnd \/ HubSubscribers \/ HubNotify \/ HubPing
          => UNCHANGED <<hubMine, lastSent>>
    BY DEF Publish, Flush, FlushGate, Heartbeat, RepairDroppedEvents, SessionStart, SessionEnd,
            HubSubscribers, HubNotify, HubPing, hostVars, linkVars, hubVars, history
  <1>8. \A a \in Actors : ReplayLock(a) \/ ReplayUnlock(a)
          => UNCHANGED <<hubMine, lastSent>>
    BY DEF ReplayLock, ReplayUnlock, hostVars, linkVars, hubVars, history
  <1>9. \A k \in Readers : Receive(k) \/ SetSubscribers(k) \/ CatchUp(k) \/ PingAck(k) \/
                           HelloSeq(k) \/ ResetLock(k) \/ EnqueueReset(k) \/ ResetDone(k)
          => UNCHANGED <<hubMine, lastSent>>
    BY DEF Receive, SetSubscribers, CatchUp, PingAck, HelloSeq, ResetLock, EnqueueReset,
            ResetDone, hostVars, linkVars, hubVars, history
  <1> QED BY NextCases, <1>1, <1>2, <1>3, <1>4, <1>5, <1>6, <1>7, <1>8, <1>9

\* An event that was queued live is counted as enqueued.
LEMMA LiveStep ==
  ASSUME IInv, Next
  PROVE  LiveInv'
  <1> USE DEF IInv, TypeInv, NumInv
  <1>a. lastSent \in Nat /\ lastSent' \in Nat /\ lastSent <= lastSent'
    BY SeqStep, TypeStep, ActorFacts DEF NumType
  <1>1. CASE EnqueueLive
    <2>1. job[0].todo \in SUBSET Seqs
      BY JobFacts, ActorFacts
    <2>2. \/ Marked(job[0].todo, "dropped") \/ Marked({s \in job[0].todo : fate[s] # "dropped"}, "sunk")
          \/ Marked({s \in job[0].todo : fate[s] = "none"}, "live") /\ lastSent' \in Raise(lastSent, job[0].todo)
      BY <1>1, LiveQueue
    <2>3. CASE \/ Marked(job[0].todo, "dropped") \/ Marked({s \in job[0].todo : fate[s] # "dropped"}, "sunk")
      BY <2>3, <1>a, ActorFacts DEF Marked, LiveInv, Seqs
    <2>4. CASE Marked({s \in job[0].todo : fate[s] = "none"}, "live") /\ lastSent' \in Raise(lastSent, job[0].todo)
      <3>1. \A s \in job[0].todo : s <= lastSent'
        BY <2>1, <2>4, RaiseFacts DEF NumType
      <3> QED BY <2>4, <3>1, <1>a DEF Marked, LiveInv, Seqs
    <2> QED BY <2>2, <2>3, <2>4
  <1>2. ASSUME NEW a \in Actors, ReplayFrame(a) PROVE LiveInv'
    <2>1. PICK evs : UNCHANGED fate \/ Marked(evs, "dropped")
      BY <1>2, ReplayQueue
    <2> QED BY <2>1, <1>a DEF Marked, LiveInv, Seqs
  <1>3. ASSUME NEW k \in Readers, ResumeDone(k) PROVE LiveInv'
    BY <1>3, <1>a DEF LiveInv, ResumeDone, Seqs
  <1>4. CASE SessionStart
    BY <1>4, <1>a DEF LiveInv, SessionStart, Seqs
  <1>5. CASE HubRestart
    BY <1>5, <1>a DEF LiveInv, HubRestart, Mark, Seqs
  <1>6. CASE UNCHANGED <<fate, lastSent>>
    BY <1>6 DEF LiveInv
  <1>7. Publish \/ Flush \/ FlushGate \/ Heartbeat \/ RepairDroppedEvents \/ SessionEnd \/
        HubReceive \/ HubSubscribers \/ HubNotify \/ HubPing
          => UNCHANGED <<fate, lastSent>>
    BY DEF Publish, Flush, FlushGate, Heartbeat, RepairDroppedEvents, SessionEnd, HubReceive,
            HubSubscribers, HubNotify, HubPing, hostVars, linkVars, hubVars, history
  <1>8. \A a \in Actors : ReplayLock(a) \/ ReplayUnlock(a)
          => UNCHANGED <<fate, lastSent>>
    BY DEF ReplayLock, ReplayUnlock, hostVars, linkVars, hubVars, history
  <1>9. \A k \in Readers : Receive(k) \/ SetSubscribers(k) \/ CatchUp(k) \/ PingAck(k) \/
                           HelloSeq(k) \/ ResetLock(k) \/ EnqueueReset(k) \/ ResetDone(k)
          => UNCHANGED <<fate, lastSent>>
    BY DEF Receive, SetSubscribers, CatchUp, PingAck, HelloSeq, ResetLock, EnqueueReset,
            ResetDone, hostVars, linkVars, hubVars, history
  <1> QED BY NextCases, <1>1, <1>2, <1>3, <1>4, <1>5, <1>6, <1>7, <1>8, <1>9

LEMMA NumStep ==
  ASSUME IInv, Next
  PROVE  NumInv'
  BY SeqStep, TodoStep, SentStep, MineStep, LiveStep DEF NumInv


LEMMA RaiseCases ==
  ASSUME NEW old \in 0..MaxSeq, NEW evs \in SUBSET Seqs, NEW v \in Raise(old, evs)
  PROVE  \/ v = old /\ ~(\E s \in evs : s > old)
         \/ v \in evs /\ \E s \in evs : s > old
  BY DEF Raise, IsMax

\* The hub's watermark is of the process it is said to be of.
LEMMA HubMarkStep ==
  ASSUME IInv, Next
  PROVE  HubMark'
  <1> USE DEF IInv, TypeInv, NumInv
  <1>a. lastSent \in Nat /\ lastSent' \in Nat /\ lastSent <= lastSent'
    BY SeqStep, TypeStep, ActorFacts DEF NumType
  <1> USE DEF MarkInv
  <1>1. CASE EnqueueLive
    BY <1>1, <1>a DEF HubMark, NumType, EnqueueLive, hubVars, linkVars
  <1>2. ASSUME NEW a \in Actors, ReplayFrame(a) PROVE HubMark'
    BY <1>2, <1>a DEF HubMark, NumType, ReplayFrame, hubVars, linkVars
  <1>3. ASSUME NEW k \in Readers, ResumeDone(k) PROVE HubMark'
    BY <1>3, <1>a DEF HubMark, NumType, ResumeDone, hubVars, linkVars
  <1>4. CASE HubReceive
    <2>1. UNCHANGED lastSent /\ Head(sendCh) \in Frame /\ Head(sendCh) = sendCh[1] /\ Len(sendCh) \in Nat \ {0}
      BY <1>4, TakeQueue DEF HubReceive, Shifted, Last
    <2>2. CASE Head(sendCh).kind = "reset"
      BY <1>4, <2>1, <2>2 DEF HubReceive, HubMark
    <2>3. CASE Head(sendCh).kind # "reset"
      <3> DEFINE evs == Head(sendCh).evs
                 fresh == {s \in evs : s > hubLast}
      <3>1. evs \in SUBSET Seqs /\ \A s \in evs : s <= lastSent
        BY <2>1, <2>3, QueueFacts DEF SentInv, EventFrames
      <3>2. /\ hubLast' \in Raise(hubLast, evs)
            /\ hubEpoch' = IF fresh = {} THEN hubEpoch ELSE "ours"
            /\ mixed' = (mixed \/ (fresh # {} /\ hubEpoch = "old"))
        BY <1>4, <2>3 DEF HubReceive
      <3> HIDE DEF evs
      <3>3. \/ hubLast' = hubLast /\ fresh = {}
            \/ hubLast' \in evs /\ fresh # {}
        BY <3>1, <3>2, RaiseCases DEF NumType
      <3> HIDE DEF fresh
      <3>4. (hubEpoch' = "ours" => hubLast' <= lastSent') /\ (hubEpoch' = "none" => hubLast' = 0)
        BY <2>1, <3>1, <3>2, <3>3 DEF HubMark
      <3>5. mixed' => hubEpoch' = "ours"
        BY <3>2 DEF HubMark
      <3> QED BY <3>4, <3>5 DEF HubMark
    <2> QED BY <2>2, <2>3
  <1>5. CASE HubRestart
    BY <1>5 DEF HubMark, HubRestart
  <1>6. CASE UNCHANGED <<hubEpoch, hubLast, mixed, lastSent>>
    BY <1>6 DEF HubMark
  <1>7. Publish \/ Flush \/ FlushGate \/ Heartbeat \/ RepairDroppedEvents \/ SessionStart \/
        SessionEnd \/ HubSubscribers \/ HubNotify \/ HubPing
          => UNCHANGED <<hubEpoch, hubLast, mixed, lastSent>>
    BY DEF Publish, Flush, FlushGate, Heartbeat, RepairDroppedEvents, SessionStart, SessionEnd,
            HubSubscribers, HubNotify, HubPing, hostVars, linkVars, hubVars, history
  <1>8. \A a \in Actors : ReplayLock(a) \/ ReplayUnlock(a)
          => UNCHANGED <<hubEpoch, hubLast, mixed, lastSent>>
    BY DEF ReplayLock, ReplayUnlock, hostVars, linkVars, hubVars, history
  <1>9. \A k \in Readers : Receive(k) \/ SetSubscribers(k) \/ CatchUp(k) \/ PingAck(k) \/
                           HelloSeq(k) \/ ResetLock(k) \/ EnqueueReset(k) \/ ResetDone(k)
          => UNCHANGED <<hubEpoch, hubLast, mixed, lastSent>>
    BY DEF Receive, SetSubscribers, CatchUp, PingAck, HelloSeq, ResetLock, EnqueueReset,
            ResetDone, hostVars, linkVars, hubVars, history
  <1> QED BY NextCases, <1>1, <1>2, <1>3, <1>4, <1>5, <1>6, <1>7, <1>8, <1>9

\* What is on its way to the host is honest.
LEMMA DownMarkStep ==
  ASSUME IInv, Next
  PROVE  DownMark'
  <1> USE DEF IInv, TypeInv, NumInv
  <1>a. lastSent \in Nat /\ lastSent' \in Nat /\ lastSent <= lastSent'
    BY SeqStep, TypeStep, ActorFacts DEF NumType
  <1> USE DEF MarkInv
  <1>b. \A f : down' = Append(down, f) =>
          /\ Len(down') = Len(down) + 1 /\ Len(down) \in Nat /\ down'[Len(down) + 1] = f
          /\ \A i \in 1..Len(down) : down'[i] = down[i]
    BY DEF DownType
  <1>1. CASE EnqueueLive
    <2>1. UNCHANGED <<down>> /\ lastSent <= lastSent'
      BY <1>1, <1>a DEF EnqueueLive, linkVars
    <2> QED BY <2>1, <1>a, DownFacts, ActorFacts DEF DownMark, Honest
  <1>2. ASSUME NEW a \in Actors, ReplayFrame(a) PROVE DownMark'
    <2>1. UNCHANGED <<down>> /\ lastSent <= lastSent'
      BY <1>2, <1>a DEF ReplayFrame, linkVars
    <2> QED BY <2>1, <1>a, DownFacts, ActorFacts DEF DownMark, Honest
  <1>3. ASSUME NEW k \in Readers, Receive(k) PROVE DownMark'
    <2>1. down' = Tail(down) /\ down # <<>> /\ UNCHANGED lastSent
      BY <1>3, ReceiveFacts DEF Receive
    <2> QED BY <2>1, DownFacts DEF DownMark, Honest
  <1>4. ASSUME NEW k \in Readers, ResumeDone(k) PROVE DownMark'
    <2>1. UNCHANGED <<down>> /\ lastSent <= lastSent'
      BY <1>4, <1>a DEF ResumeDone, linkVars
    <2> QED BY <2>1, <1>a, DownFacts, ActorFacts DEF DownMark, Honest
  <1>5. CASE SessionStart
    <2> DEFINE f == [kind |-> "hello", count |-> gen % 2, gen |-> 0, seq |-> hubLast, from |-> hubEpoch]
    <2>1. down' = <<f>> /\ UNCHANGED lastSent
      BY <1>5 DEF SessionStart
    <2>2. f.seq = hubLast /\ f.from = hubEpoch
      OBVIOUS
    <2> HIDE DEF f
    <2> QED BY <2>1, <2>2 DEF DownMark, Honest, HubMark
  <1>6. CASE SessionEnd
    BY <1>6 DEF DownMark, SessionEnd, Disconnect
  <1>7. CASE HubNotify
    <2>1. PICK g \in notif :
            \/ down' = Append(down, [kind |-> "subs", count |-> g % 2, gen |-> g,
                                     seq |-> 0, from |-> "none"])
            \/ UNCHANGED down
      BY <1>7 DEF HubNotify
    <2> DEFINE f == [kind |-> "subs", count |-> g % 2, gen |-> g, seq |-> 0, from |-> "none"]
    <2>2. f.seq = 0 /\ f.from = "none"
      OBVIOUS
    <2>3. (down' = Append(down, f) \/ UNCHANGED down) /\ UNCHANGED lastSent
      BY <1>7, <2>1 DEF HubNotify, hostVars
    <2> HIDE DEF f
    <2> QED BY <2>2, <2>3, <1>b DEF DownMark, Honest
  <1>8. CASE HubPing
    <2> DEFINE f == [kind |-> "ping", count |-> gen % 2, gen |-> gen, seq |-> hubLast, from |-> hubEpoch]
    <2>2. f.seq = hubLast /\ f.from = hubEpoch
      OBVIOUS
    <2>3. down' = Append(down, f) /\ UNCHANGED lastSent
      BY <1>8 DEF HubPing, hostVars
    <2> HIDE DEF f
    <2> QED BY <2>2, <2>3, <1>b DEF DownMark, Honest, HubMark
  <1>9. CASE HubRestart
    BY <1>9 DEF DownMark, HubRestart, Disconnect
  <1>10. CASE UNCHANGED <<down, lastSent>>
    BY <1>10 DEF DownMark, Honest
  <1>11. Publish \/ Flush \/ FlushGate \/ Heartbeat \/ RepairDroppedEvents \/ HubReceive \/
         HubSubscribers
          => UNCHANGED <<down, lastSent>>
    BY DEF Publish, Flush, FlushGate, Heartbeat, RepairDroppedEvents, HubReceive,
            HubSubscribers, hostVars, linkVars, hubVars, history
  <1>12. \A a \in Actors : ReplayLock(a) \/ ReplayUnlock(a)
          => UNCHANGED <<down, lastSent>>
    BY DEF ReplayLock, ReplayUnlock, hostVars, linkVars, hubVars, history
  <1>13. \A k \in Readers : SetSubscribers(k) \/ CatchUp(k) \/ PingAck(k) \/ HelloSeq(k) \/
                            ResetLock(k) \/ EnqueueReset(k) \/ ResetDone(k)
          => UNCHANGED <<down, lastSent>>
    BY DEF SetSubscribers, CatchUp, PingAck, HelloSeq, ResetLock, EnqueueReset, ResetDone,
            hostVars, linkVars, hubVars, history
  <1> QED BY NextCases, <1>1, <1>2, <1>3, <1>4, <1>5, <1>6, <1>7, <1>8, <1>9, <1>10, <1>11,
           <1>12, <1>13

\* What a reader works on is honest.
LEMMA CurMarkStep ==
  ASSUME IInv, Next
  PROVE  CurMark'
  <1> USE DEF IInv, TypeInv, NumInv
  <1>a. lastSent \in Nat /\ lastSent' \in Nat /\ lastSent <= lastSent'
    BY SeqStep, TypeStep, ActorFacts DEF NumType
  <1> USE DEF MarkInv
  <1>1. CASE EnqueueLive
    <2>1. UNCHANGED <<cur>> /\ lastSent <= lastSent'
      BY <1>1, <1>a DEF EnqueueLive, linkVars
    <2> QED BY <2>1, <1>a, DownFacts, ActorFacts DEF CurMark, Honest
  <1>2. ASSUME NEW a \in Actors, ReplayFrame(a) PROVE CurMark'
    <2>1. UNCHANGED <<cur>> /\ lastSent <= lastSent'
      BY <1>2, <1>a DEF ReplayFrame, linkVars
    <2> QED BY <2>1, <1>a, DownFacts, ActorFacts DEF CurMark, Honest
  <1>3. ASSUME NEW k \in Readers, Receive(k) PROVE CurMark'
    <2>1. cur'[k] = down[1] /\ 1 \in 1..Len(down) /\ UNCHANGED lastSent
          /\ \A r \in Readers \ {k} : cur'[r] = cur[r]
      <3>1. cur'[k] = Head(down) /\ down # <<>> /\ \A r \in Readers \ {k} : cur'[r] = cur[r]
        BY <1>3, ReceiveFacts
      <3>2. Head(down) = down[1] /\ Len(down) >= 1 /\ Len(down) \in Nat
        BY <3>1, DownFacts
      <3> QED BY <1>3, <3>1, <3>2 DEF Receive
    <2> QED BY <2>1 DEF CurMark, DownMark, Honest
  <1>4. ASSUME NEW k \in Readers, PingAck(k) PROVE CurMark'
    <2>1. cur'[k] = NoFrame /\ \A r \in Readers \ {k} : cur'[r] = cur[r]
      BY <1>4, HandledFacts DEF PingAck
    <2>2. \A r \in Readers : cur[r].seq \in 0..MaxSeq
      BY DownFacts
    <2> QED BY <2>1, <2>2, <1>a, NoJobFacts, ActorFacts DEF CurMark, Honest
  <1>5. ASSUME NEW k \in Readers, ResetDone(k) PROVE CurMark'
    <2>1. cur'[k] = NoFrame /\ \A r \in Readers \ {k} : cur'[r] = cur[r]
      BY <1>5, HandledFacts DEF ResetDone
    <2>2. \A r \in Readers : cur[r].seq \in 0..MaxSeq
      BY DownFacts
    <2> QED BY <2>1, <2>2, <1>a, NoJobFacts, ActorFacts DEF CurMark, Honest
  <1>6. ASSUME NEW k \in Readers, ResumeDone(k) PROVE CurMark'
    <2>1. cur'[k] = NoFrame /\ \A r \in Readers \ {k} : cur'[r] = cur[r]
      BY <1>6, HandledFacts DEF ResumeDone
    <2>2. \A r \in Readers : cur[r].seq \in 0..MaxSeq
      BY DownFacts
    <2> QED BY <2>1, <2>2, <1>a, NoJobFacts, ActorFacts DEF CurMark, Honest
  <1>7. CASE UNCHANGED <<cur, lastSent>>
    BY <1>7 DEF CurMark, Honest
  <1>8. Publish \/ Flush \/ FlushGate \/ Heartbeat \/ RepairDroppedEvents \/ SessionStart \/
        SessionEnd \/ HubReceive \/ HubSubscribers \/ HubNotify \/ HubPing \/ HubRestart
          => UNCHANGED <<cur, lastSent>>
    BY DEF Publish, Flush, FlushGate, Heartbeat, RepairDroppedEvents, SessionStart, SessionEnd,
            HubReceive, HubSubscribers, HubNotify, HubPing, HubRestart, hostVars, linkVars,
            hubVars, history
  <1>9. \A a \in Actors : ReplayLock(a) \/ ReplayUnlock(a)
          => UNCHANGED <<cur, lastSent>>
    BY DEF ReplayLock, ReplayUnlock, hostVars, linkVars, hubVars, history
  <1>10. \A k \in Readers : SetSubscribers(k) \/ CatchUp(k) \/ HelloSeq(k) \/ ResetLock(k) \/
                            EnqueueReset(k)
          => UNCHANGED <<cur, lastSent>>
    BY DEF SetSubscribers, CatchUp, HelloSeq, ResetLock, EnqueueReset, hostVars, linkVars,
            hubVars, history
  <1> QED BY NextCases, <1>1, <1>2, <1>3, <1>4, <1>5, <1>6, <1>7, <1>8, <1>9, <1>10

\* Another process's watermark, once believed, has been believed.
LEMMA AlienStays ==
  ASSUME Next
  PROVE  alienAck => alienAck'
  <1>1. ASSUME NEW k \in Readers, PingAck(k) PROVE alienAck => alienAck'
    BY <1>1 DEF PingAck, NoteHubAck
  <1>2. ASSUME NEW k \in Readers, HelloSeq(k) PROVE alienAck => alienAck'
    BY <1>2 DEF HelloSeq
  <1>3. ASSUME NEW k \in Readers, ResumeDone(k) PROVE alienAck => alienAck'
    BY <1>3 DEF ResumeDone, NoteHubAck
  <1>4. CASE UNCHANGED alienAck
    BY <1>4
  <1>5. Publish \/ Flush \/ FlushGate \/ EnqueueLive \/ Heartbeat \/ RepairDroppedEvents \/
        SessionStart \/ SessionEnd \/ HubReceive \/ HubSubscribers \/ HubNotify \/ HubPing \/
        HubRestart
          => UNCHANGED alienAck
    BY DEF Publish, Flush, FlushGate, EnqueueLive, Heartbeat, RepairDroppedEvents,
            SessionStart, SessionEnd, HubReceive, HubSubscribers, HubNotify, HubPing,
            HubRestart, hostVars, linkVars, hubVars, history
  <1>6. \A a \in Actors : ReplayLock(a) \/ ReplayFrame(a) \/ ReplayUnlock(a)
          => UNCHANGED alienAck
    BY DEF ReplayLock, ReplayFrame, ReplayUnlock, hostVars, linkVars, hubVars, history
  <1>7. \A k \in Readers : Receive(k) \/ SetSubscribers(k) \/ CatchUp(k) \/ ResetLock(k) \/
                           EnqueueReset(k) \/ ResetDone(k)
          => UNCHANGED alienAck
    BY DEF Receive, SetSubscribers, CatchUp, ResetLock, EnqueueReset, ResetDone, hostVars,
            linkVars, hubVars, history
  <1> QED BY NextCases, <1>1, <1>2, <1>3, <1>4, <1>5, <1>6, <1>7

\* A reader resumes from what this process reached, and resets what it did not.
LEMMA ResumeStep ==
  ASSUME IInv, Next
  PROVE  ResumeInv'
  <1> USE DEF IInv, TypeInv, NumInv
  <1> USE DEF MarkInv, AnchorInv
  <1>a. nextSeq \in Nat /\ nextSeq' \in Nat /\ nextSeq <= nextSeq'
    BY SeqStep, TypeStep, ActorFacts DEF NumType
  <1>b. alienAck => alienAck'
    BY AlienStays
  <1>c. \A r \in Readers : cur[r].seq \in 0..MaxSeq /\ r # 0 /\ r \in Actors
    BY DownFacts, ActorFacts
  <1>1. CASE Flush
    BY <1>1, <1>a, <1>b, <1>c, FlushFacts, NoJobFacts DEF ResumeInv, Resuming, Others, Moves,
       Keeps, Flush
  <1>2. CASE FlushGate
    BY <1>2, <1>a, <1>b, <1>c, FlushGateFacts, NoJobFacts DEF ResumeInv, Resuming, Others,
       Moves, Keeps, FlushGate
  <1>3. CASE EnqueueLive
    BY <1>3, <1>a, <1>b, <1>c, EnqueueLiveFacts, NoJobFacts DEF ResumeInv, Resuming, Others,
       Moves, Keeps, EnqueueLive
  <1>4. CASE Heartbeat
    BY <1>4, <1>a, <1>b, <1>c, HeartbeatFacts, NoJobFacts DEF ResumeInv, Resuming, Others,
       Moves, Keeps, Heartbeat
  <1>5. CASE RepairDroppedEvents
    BY <1>5, <1>a, <1>b, <1>c, RepairFacts, NoJobFacts DEF ResumeInv, Resuming, Others, Moves,
       Keeps, RepairDroppedEvents
  <1>6. ASSUME NEW a \in Actors, ReplayLock(a) PROVE ResumeInv'
    <2>1. UNCHANGED <<cur, nextSeq, alienAck>>
      BY <1>6 DEF ReplayLock, history
    <2>2. Others(a) /\ pc[a] = "lock" /\ pc'[a] = "send" /\ job'[a].then = job[a].then
      BY <1>6, ReplayLockFacts DEF Moves
    <2> QED BY <1>a, <1>b, <1>c, <2>1, <2>2 DEF ResumeInv, Resuming, Others
  <1>7. ASSUME NEW a \in Actors, ReplayFrame(a) PROVE ResumeInv'
    <2>1. UNCHANGED <<cur, pc>> /\ job'[a].then = job[a].then /\ Others(a)
      BY <1>7, ReplayFrameFacts DEF ReplayFrame
    <2>2. \A b \in Actors : job'[b].then = job[b].then
      BY <2>1 DEF Others
    <2> QED BY <1>a, <1>b, <1>c, <2>1, <2>2 DEF ResumeInv, Resuming
  <1>8. ASSUME NEW a \in Actors, ReplayUnlock(a) PROVE ResumeInv'
    <2>1. UNCHANGED cur /\ Others(a) /\ pc[a] = "send" /\ pc'[a] = job[a].then
      BY <1>8, ReplayUnlockFacts DEF ReplayUnlock, Moves
    <2>2. job[a].then \in {"idle", "seq", "ack", "clear"}
      BY JobFacts
    <2> QED BY <1>a, <1>b, <1>c, <2>1, <2>2 DEF ResumeInv, Resuming, Others
  <1>9. ASSUME NEW k \in Readers, Receive(k) PROVE ResumeInv'
    <2>1. Others(k) /\ (pc'[k] = "seq" \/ pc'[k] = "set") /\ \A r \in Readers \ {k} : cur'[r] = cur[r]
      BY <1>9, ReceiveFacts DEF Moves
    <2> QED BY <1>a, <1>b, <1>c, <2>1 DEF ResumeInv, Resuming, Others
  <1>10. ASSUME NEW k \in Readers, SetSubscribers(k) PROVE ResumeInv'
    BY <1>10, <1>a, <1>b, <1>c, SetSubscribersFacts, NoJobFacts DEF ResumeInv, Resuming, Others,
       Moves, Keeps, SetSubscribers
  <1>11. ASSUME NEW k \in Readers, CatchUp(k) PROVE ResumeInv'
    <2>1. UNCHANGED <<cur, nextSeq, alienAck>>
      BY <1>11 DEF CatchUp, history
    <2>2. Others(k) /\ pc'[k] = "lock" /\ job'[k].then = "seq"
      BY <1>11, CatchUpFacts DEF Moves
    <2> QED BY <1>a, <1>b, <1>c, <2>1, <2>2 DEF ResumeInv, Resuming, Others
  <1>12. ASSUME NEW k \in Readers, PingAck(k) PROVE ResumeInv'
    <2>1. Others(k) /\ pc'[k] = "idle" /\ \A r \in Readers \ {k} : cur'[r] = cur[r]
      BY <1>12, HandledFacts DEF Moves, PingAck
    <2> QED BY <1>a, <1>b, <1>c, <2>1 DEF ResumeInv, Resuming, Others
  <1>13. ASSUME NEW k \in Readers, HelloSeq(k) PROVE ResumeInv'
    <2>1. Others(k) /\ UNCHANGED cur
      BY <1>13, HelloSeqFacts DEF HelloSeq
    <2>2. CASE cur[k].seq > nextSeq /\ Moves(k, "lockReset") /\ job'[k].then = "clear"
      <3>1. cur[k].from = "old"
        <4>1. Honest(cur[k]) /\ cur[k].from \in Epochs
          BY DownFacts DEF CurMark
        <4>2. lastSent <= nextSeq /\ lastSent \in Nat /\ cur[k].seq \in Nat
          BY ActorFacts, <1>c DEF SeqInv, NumType
        <4> QED BY <4>1, <4>2, <1>a, <2>2 DEF Honest, Epochs
      <3> QED BY <1>a, <1>b, <1>c, <2>1, <2>2, <3>1 DEF ResumeInv, Resuming, Others, Moves
    <2>3. CASE ~(cur[k].seq > nextSeq) /\ Moves(k, "lock") /\ alienAck' = (alienAck \/ cur[k].from = "old")
      <3>1. cur[k].from = "old" => alienAck'
        BY <2>3
      <3>2. cur[k].seq <= nextSeq'
        BY <1>a, <1>c, <2>3
      <3> QED BY <1>a, <1>b, <1>c, <2>1, <2>3, <3>1, <3>2 DEF ResumeInv, Resuming, Others, Moves
    <2> QED BY <1>13, <2>2, <2>3, HelloSeqFacts
  <1>14. ASSUME NEW k \in Readers, ResetLock(k) PROVE ResumeInv'
    BY <1>14, <1>a, <1>b, <1>c, ResetLockFacts, NoJobFacts DEF ResumeInv, Resuming, Others,
       Moves, Keeps, ResetLock
  <1>15. ASSUME NEW k \in Readers, EnqueueReset(k) PROVE ResumeInv'
    <2>1. UNCHANGED <<cur, nextSeq, alienAck>>
      BY <1>15 DEF EnqueueReset, history
    <2>2. Others(k) /\ pc[k] = "reset" /\ pc'[k] = "send" /\ job'[k].then = job[k].then
      BY <1>15, EnqueueResetFacts DEF Moves
    <2> QED BY <1>a, <1>b, <1>c, <2>1, <2>2 DEF ResumeInv, Resuming, Others
  <1>16. ASSUME NEW k \in Readers, ResetDone(k) PROVE ResumeInv'
    <2>1. Others(k) /\ pc'[k] = "idle" /\ \A r \in Readers \ {k} : cur'[r] = cur[r]
      BY <1>16, HandledFacts DEF Moves, ResetDone
    <2> QED BY <1>a, <1>b, <1>c, <2>1 DEF ResumeInv, Resuming, Others
  <1>17. ASSUME NEW k \in Readers, ResumeDone(k) PROVE ResumeInv'
    <2>1. Others(k) /\ pc'[k] = "idle" /\ \A r \in Readers \ {k} : cur'[r] = cur[r]
      BY <1>17, HandledFacts DEF Moves, ResumeDone
    <2> QED BY <1>a, <1>b, <1>c, <2>1 DEF ResumeInv, Resuming, Others
  <1>18. CASE UNCHANGED <<pc, job, cur, nextSeq, alienAck>>
    BY <1>18 DEF ResumeInv, Resuming
  <1>19. Publish \/ SessionStart \/ SessionEnd \/ HubReceive \/ HubSubscribers \/ HubNotify \/
         HubPing \/ HubRestart
          => UNCHANGED <<pc, job, cur, nextSeq, alienAck>>
    BY DEF Publish, SessionStart, SessionEnd, HubReceive, HubSubscribers, HubNotify, HubPing,
            HubRestart, hostVars, linkVars, hubVars, history
  <1> QED BY NextCases, <1>1, <1>2, <1>3, <1>4, <1>5, <1>6, <1>7, <1>8, <1>9, <1>10, <1>11,
           <1>12, <1>13, <1>14, <1>15, <1>16, <1>17, <1>18, <1>19

\* A replay starts at or below the last event enqueued.
LEMMA StartStep ==
  ASSUME IInv, Next
  PROVE  StartInv'
  <1> USE DEF IInv, TypeInv, NumInv
  <1>a. lastSent \in Nat /\ lastSent' \in Nat /\ lastSent <= lastSent'
    BY SeqStep, TypeStep, ActorFacts DEF NumType
  <1> USE DEF MarkInv, AnchorInv
  <1>b. alienAck => alienAck'
    BY AlienStays
  <1>c. hubAck \in Nat /\ \A a \in Actors : job[a].after \in Nat
    BY JobFacts, ActorFacts DEF NumType
  <1>d. \A k \in Readers : /\ Honest(cur[k]) /\ cur[k].from \in Epochs /\ cur[k].seq \in Nat
                          /\ k \in Actors
    BY DownFacts, ActorFacts DEF CurMark
  <1>1. CASE Flush
    BY <1>1, <1>a, <1>b, <1>c, FlushFacts, NoJobFacts, ActorFacts DEF StartInv, Others, Moves,
       Keeps, Flush, history
  <1>2. CASE FlushGate
    BY <1>2, <1>a, <1>b, <1>c, FlushGateFacts, NoJobFacts, ActorFacts DEF StartInv, Others,
       Moves, Keeps, FlushGate, history
  <1>3. CASE EnqueueLive
    <2>1. UNCHANGED <<hubAck, alienAck>> /\ \A b \in Actors : pc'[b] = "lock" => pc[b] = "lock" /\ job'[b] = job[b]
      BY <1>3, EnqueueLiveFacts DEF EnqueueLive, Moves, Others
    <2> QED BY <1>a, <1>c, <2>1 DEF StartInv
  <1>4. CASE Heartbeat
    BY <1>4, <1>a, <1>b, <1>c, HeartbeatFacts, NoJobFacts, ActorFacts DEF StartInv, Others,
       Moves, Keeps, Heartbeat, history
  <1>5. CASE RepairDroppedEvents
    BY <1>5, <1>a, <1>b, <1>c, RepairFacts, NoJobFacts, ActorFacts DEF StartInv, Others, Moves,
       Keeps, RepairDroppedEvents, history
  <1>6. ASSUME NEW a \in Actors, ReplayLock(a) PROVE StartInv'
    <2>1. UNCHANGED <<hubAck, lastSent, alienAck>>
      BY <1>6 DEF ReplayLock, history
    <2>2. Others(a) /\ pc'[a] = "send"
      BY <1>6, ReplayLockFacts DEF Moves
    <2> QED BY <1>a, <1>c, <2>1, <2>2 DEF StartInv, Others
  <1>7. ASSUME NEW a \in Actors, ReplayFrame(a) PROVE StartInv'
    <2>1. UNCHANGED <<hubAck, alienAck, pc>> /\ pc[a] = "send" /\ Others(a)
      BY <1>7, ReplayFrameFacts DEF ReplayFrame
    <2> QED BY <1>a, <1>c, <2>1 DEF StartInv, Others
  <1>8. ASSUME NEW a \in Actors, ReplayUnlock(a) PROVE StartInv'
    <2>1. UNCHANGED <<hubAck, alienAck, lastSent>> /\ Others(a) /\ pc'[a] = job[a].then
      BY <1>8, ReplayUnlockFacts DEF ReplayUnlock, Moves, history
    <2>2. job[a].then \in {"idle", "seq", "ack", "clear"}
      BY JobFacts
    <2> QED BY <1>a, <1>c, <2>1, <2>2 DEF StartInv, Others
  <1>9. ASSUME NEW k \in Readers, Receive(k) PROVE StartInv'
    <2>1. UNCHANGED <<hubAck, alienAck, lastSent>> /\ Others(k) /\ pc'[k] \in {"seq", "set"}
      BY <1>9, ReceiveFacts DEF Receive, Moves, history
    <2> QED BY <1>a, <1>c, <2>1 DEF StartInv, Others
  <1>10. ASSUME NEW k \in Readers, SetSubscribers(k) PROVE StartInv'
    BY <1>10, <1>a, <1>b, <1>c, SetSubscribersFacts, NoJobFacts, ActorFacts DEF StartInv,
       Others, Moves, Keeps, SetSubscribers, history
  <1>11. ASSUME NEW k \in Readers, CatchUp(k) PROVE StartInv'
    <2>1. UNCHANGED <<hubAck, lastSent, alienAck>>
      BY <1>11 DEF CatchUp, history
    <2>2. Others(k) /\ job'[k].after = lastSent
      BY <1>11, CatchUpFacts
    <2> QED BY <1>a, <1>c, <2>1, <2>2 DEF StartInv, Others
  <1>12. ASSUME NEW k \in Readers, PingAck(k) PROVE StartInv'
    <2>1. Others(k) /\ pc'[k] = "idle"
      BY <1>12, HandledFacts DEF Moves, PingAck
    <2>2. \/ hubAck' = hubAck \/ hubAck' = 0
          \/ hubAck' = cur[k].seq /\ hubAck < cur[k].seq /\ (cur[k].from = "old" => alienAck')
      BY <1>12 DEF PingAck, NoteHubAck, Accepted
    <2> QED BY <1>a, <1>b, <1>c, <1>d, <2>1, <2>2 DEF StartInv, Others, Honest, Epochs
  <1>13. ASSUME NEW k \in Readers, HelloSeq(k) PROVE StartInv'
    <2>1. Others(k) /\ UNCHANGED <<hubAck, lastSent>>
      BY <1>13, HelloSeqFacts DEF HelloSeq
    <2>2. \/ Moves(k, "lockReset")
          \/ /\ Moves(k, "lock") /\ job'[k].after = cur[k].seq
             /\ alienAck' = (alienAck \/ cur[k].from = "old")
      BY <1>13, HelloSeqFacts
    <2>3. pc'[k] = "lock" => job'[k].after = cur[k].seq /\ (cur[k].from = "old" => alienAck')
      BY <2>2, <1>d DEF Moves
    <2> QED BY <1>a, <1>b, <1>c, <1>d, <2>1, <2>3 DEF StartInv, Others, Honest, Epochs
  <1>14. ASSUME NEW k \in Readers, ResetLock(k) PROVE StartInv'
    BY <1>14, <1>a, <1>b, <1>c, ResetLockFacts, NoJobFacts, ActorFacts DEF StartInv, Others,
       Moves, Keeps, ResetLock, history
  <1>15. ASSUME NEW k \in Readers, EnqueueReset(k) PROVE StartInv'
    <2>1. UNCHANGED <<hubAck, lastSent, alienAck>>
      BY <1>15 DEF EnqueueReset, history
    <2>2. Others(k) /\ pc'[k] = "send"
      BY <1>15, EnqueueResetFacts DEF Moves
    <2> QED BY <1>a, <1>c, <2>1, <2>2 DEF StartInv, Others
  <1>16. ASSUME NEW k \in Readers, ResetDone(k) PROVE StartInv'
    <2>1. Others(k) /\ pc'[k] = "idle"
      BY <1>16, HandledFacts DEF Moves, ResetDone
    <2>2. \/ hubAck' = hubAck \/ hubAck' = 0
          \/ hubAck' = cur[k].seq /\ hubAck < cur[k].seq /\ (cur[k].from = "old" => alienAck')
      BY <1>16 DEF ResetDone, NoteHubAck, Accepted
    <2> QED BY <1>a, <1>b, <1>c, <1>d, <2>1, <2>2 DEF StartInv, Others, Honest, Epochs
  <1>17. ASSUME NEW k \in Readers, ResumeDone(k) PROVE StartInv'
    <2>1. Others(k) /\ pc'[k] = "idle"
      BY <1>17, HandledFacts DEF Moves, ResumeDone
    <2>2. \/ hubAck' = hubAck \/ hubAck' = 0
          \/ hubAck' = cur[k].seq /\ hubAck < cur[k].seq /\ (cur[k].from = "old" => alienAck')
      BY <1>17 DEF ResumeDone, NoteHubAck, Accepted
    <2> QED BY <1>a, <1>b, <1>c, <1>d, <2>1, <2>2 DEF StartInv, Others, Honest, Epochs
  <1>18. CASE SessionStart
    BY <1>18, <1>a, <1>b DEF StartInv, SessionStart
  <1>19. CASE UNCHANGED <<alienAck, hubAck, lastSent, pc, job>>
    BY <1>19 DEF StartInv
  <1>20. Publish \/ SessionEnd \/ HubReceive \/ HubSubscribers \/ HubNotify \/ HubPing \/
         HubRestart
          => UNCHANGED <<alienAck, hubAck, lastSent, pc, job>>
    BY DEF Publish, SessionEnd, HubReceive, HubSubscribers, HubNotify, HubPing, HubRestart,
            hostVars, linkVars, hubVars, history
  <1> QED BY NextCases, <1>1, <1>2, <1>3, <1>4, <1>5, <1>6, <1>7, <1>8, <1>9, <1>10, <1>11,
           <1>12, <1>13, <1>14, <1>15, <1>16, <1>17, <1>18, <1>19, <1>20



-----------------------------------------------------------------------------
(* What a step does not touch: the replays under way, the queue, a drop *)

\* Whoever replays goes on with the same replay, and nobody begins one.
ReplayersKept ==
  \A b \in Actors : /\ pc'[b] = "send" <=> pc[b] = "send"
                    /\ pc[b] = "send" => job'[b] = job[b]

ReplayMoves == \/ \E a \in Actors : ReplayLock(a) \/ ReplayFrame(a) \/ ReplayUnlock(a)
               \/ \E k \in Readers : EnqueueReset(k)

LEMMA ReplayersStep ==
  ASSUME JobType, DownType, Next
  PROVE  ReplayersKept \/ ReplayMoves
  <1>1. CASE Flush
    BY <1>1, FlushFacts, ActorFacts DEF ReplayersKept, Others, Moves
  <1>2. CASE FlushGate
    BY <1>2, FlushGateFacts, ActorFacts DEF ReplayersKept, Others, Moves
  <1>3. CASE EnqueueLive
    BY <1>3, EnqueueLiveFacts, ActorFacts DEF ReplayersKept, Others, Moves
  <1>4. CASE Heartbeat
    BY <1>4, HeartbeatFacts, ActorFacts DEF ReplayersKept, Others, Moves
  <1>5. CASE RepairDroppedEvents
    BY <1>5, RepairFacts, ActorFacts DEF ReplayersKept, Others, Moves
  <1>6. ASSUME NEW k \in Readers, Receive(k) PROVE ReplayersKept
    <2>1. pc[k] = "idle" /\ Others(k) /\ pc'[k] \in {"seq", "set"}
      BY <1>6, ReceiveFacts DEF Moves
    <2> QED BY <2>1, ActorFacts DEF ReplayersKept, Others
  <1>7. ASSUME NEW k \in Readers, SetSubscribers(k) PROVE ReplayersKept
    BY <1>7, SetSubscribersFacts, ActorFacts DEF ReplayersKept, Others, Moves
  <1>8. ASSUME NEW k \in Readers, CatchUp(k) PROVE ReplayersKept
    BY <1>8, CatchUpFacts, ActorFacts DEF ReplayersKept, Others, Moves
  <1>9. ASSUME NEW k \in Readers, PingAck(k) PROVE ReplayersKept
    <2>1. pc[k] # "send" /\ Others(k) /\ pc'[k] = "idle"
      BY <1>9, HandledFacts DEF Moves, PingAck
    <2> QED BY <2>1, ActorFacts DEF ReplayersKept, Others
  <1>10. ASSUME NEW k \in Readers, HelloSeq(k) PROVE ReplayersKept
    BY <1>10, HelloSeqFacts, ActorFacts DEF ReplayersKept, Others, Moves
  <1>11. ASSUME NEW k \in Readers, ResetLock(k) PROVE ReplayersKept
    BY <1>11, ResetLockFacts, ActorFacts DEF ReplayersKept, Others, Moves
  <1>12. ASSUME NEW k \in Readers, ResetDone(k) PROVE ReplayersKept
    <2>1. pc[k] # "send" /\ Others(k) /\ pc'[k] = "idle"
      BY <1>12, HandledFacts DEF Moves, ResetDone
    <2> QED BY <2>1, ActorFacts DEF ReplayersKept, Others
  <1>13. ASSUME NEW k \in Readers, ResumeDone(k) PROVE ReplayersKept
    <2>1. pc[k] # "send" /\ Others(k) /\ pc'[k] = "idle"
      BY <1>13, HandledFacts DEF Moves, ResumeDone
    <2> QED BY <2>1, ActorFacts DEF ReplayersKept, Others
  <1>14. CASE UNCHANGED <<pc, job>>
    BY <1>14 DEF ReplayersKept
  <1>15. Publish \/ SessionStart \/ SessionEnd \/ HubReceive \/ HubSubscribers \/ HubNotify \/ HubPing \/ HubRestart
          => UNCHANGED <<pc, job>>
    BY DEF Publish, SessionStart, SessionEnd, HubReceive, HubSubscribers, HubNotify, HubPing,
       HubRestart, hostVars, linkVars, hubVars, history
  <1> QED BY NextCases, <1>1, <1>2, <1>3, <1>4, <1>5, <1>6, <1>7, <1>8, <1>9, <1>10, <1>11,
             <1>12, <1>13, <1>14, <1>15 DEF ReplayMoves

LEMMA QueueStep ==
  ASSUME Next
  PROVE  \/ UNCHANGED sendCh \/ EnqueueLive \/ (\E a \in Actors : ReplayFrame(a))
         \/ (\E k \in Readers : EnqueueReset(k)) \/ SessionStart \/ HubReceive
  <1>1. Publish \/ Flush \/ FlushGate \/ Heartbeat \/ RepairDroppedEvents \/ SessionEnd
        \/ HubSubscribers \/ HubNotify \/ HubPing \/ HubRestart
          => UNCHANGED sendCh
    BY DEF Publish, Flush, FlushGate, Heartbeat, RepairDroppedEvents, SessionEnd,
       HubSubscribers, HubNotify, HubPing, HubRestart, hostVars
  <1>2. \A a \in Actors : ReplayLock(a) \/ ReplayUnlock(a) => UNCHANGED sendCh
    BY DEF ReplayLock, ReplayUnlock
  <1>3. \A k \in Readers : Receive(k) \/ SetSubscribers(k) \/ CatchUp(k) \/ PingAck(k) \/ HelloSeq(k) \/ ResetLock(k) \/ ResetDone(k) \/ ResumeDone(k)
          => UNCHANGED sendCh
    BY DEF Receive, SetSubscribers, CatchUp, PingAck, HelloSeq, ResetLock, ResetDone, ResumeDone
  <1> QED BY NextCases, <1>1, <1>2, <1>3

LEMMA DropStays ==
  ASSUME TypeInv, Next, NEW s \in Seqs, fate[s] = "dropped"
  PROVE  fate'[s] = "dropped" \/ SessionStart
  <1> USE DEF TypeInv
  <1>1. CASE EnqueueLive
    BY <1>1, LiveQueue DEF Marked
  <1>2. ASSUME NEW a \in Actors, ReplayFrame(a) PROVE fate'[s] = "dropped"
    <2>1. PICK evs : UNCHANGED fate \/ Marked(evs, "dropped")
      BY <1>2, ReplayQueue
    <2> QED BY <2>1 DEF Marked
  <1>3. CASE HubRestart
    BY <1>3 DEF HubRestart, Mark
  <1>4. CASE UNCHANGED fate
    BY <1>4
  <1>5. Publish \/ Flush \/ FlushGate \/ Heartbeat \/ RepairDroppedEvents \/ SessionEnd
        \/ HubReceive \/ HubSubscribers \/ HubNotify \/ HubPing
          => UNCHANGED fate
    BY DEF Publish, Flush, FlushGate, Heartbeat, RepairDroppedEvents, SessionEnd, HubReceive,
       HubSubscribers, HubNotify, HubPing, history
  <1>6. \A a \in Actors : ReplayLock(a) \/ ReplayUnlock(a) => UNCHANGED fate
    BY DEF ReplayLock, ReplayUnlock, history
  <1>7. \A k \in Readers : Receive(k) \/ SetSubscribers(k) \/ CatchUp(k) \/ PingAck(k) \/ HelloSeq(k) \/ ResetLock(k) \/ EnqueueReset(k) \/ ResetDone(k) \/ ResumeDone(k)
          => UNCHANGED fate
    BY DEF Receive, SetSubscribers, CatchUp, PingAck, HelloSeq, ResetLock, EnqueueReset,
       ResetDone, ResumeDone, history
  <1> QED BY NextCases, <1>1, <1>2, <1>3, <1>4, <1>5, <1>6, <1>7

\* There is one replay at a time.
LEMMA OneReplay ==
  ASSUME Held, NEW a \in Actors, pc[a] \in {"reset", "send"}
  PROVE  lock # -1 /\ \A b \in Actors : pc[b] \in {"reset", "send"} => b = a
  BY ActorFacts DEF Held

LEMMA NoReplayWhenFree ==
  ASSUME Held, lock = -1
  PROVE  \A b \in Actors : pc[b] # "send"
  BY ActorFacts DEF Held

-----------------------------------------------------------------------------
(* A replay and a reset keep their frames together *)

LEMMA ContigStep ==
  ASSUME IInv, Next
  PROVE  ContigInv' /\ ReplayContiguous'
  <1> USE DEF IInv, TypeInv
  <1> DEFINE Tip(a) == sendCh[Last].kind = "replay" /\ \A s \in sendCh[Last].evs, t \in job[a].todo : s < t
  <1>1. ContigInv <=> \A a \in Actors : pc[a] = "send" /\ ~job[a].head /\ sendCh # <<>> => Tip(a)
    BY DEF ContigInv, Events, Last
  <1>2. Last \in Nat /\ (sendCh # <<>> => Last >= 1) /\ (sendCh = <<>> => Last = 0)
    BY QueueFacts DEF QueueType, Last
  <1>3. Last' \in Nat /\ (sendCh' # <<>> => Last' >= 1)
    BY TypeStep DEF QueueType, Last
  <1>4. CASE UNCHANGED sendCh
    <2>1. ReplayContiguous'
      BY <1>4 DEF ReplayContiguous, Events
    <2>2. ASSUME NEW a \in Actors, pc'[a] = "send", ~job'[a].head, sendCh' # <<>>
          PROVE  Tip(a)'
      <3>1. CASE ReplayersKept
        BY <1>1, <1>4, <2>2, <3>1 DEF ReplayersKept, Last
      <3>2. ASSUME NEW b \in Actors, ReplayLock(b) PROVE FALSE
        BY <3>2, <2>2, ReplayLockFacts, NoReplayWhenFree DEF Moves
      <3>3. ASSUME NEW b \in Actors, ReplayFrame(b) PROVE Tip(a)'
        <4>1. b = a
          BY <3>3, <2>2, OneReplay, ReplayFrameFacts
        <4>2. job'[a].todo \subseteq job[a].todo /\ (Last' = Last + 1 \/ job'[a].head = job[a].head)
          BY <3>3, <4>1, ReplayQueue DEF Sends, Added
        <4>3. Last' = Last /\ pc[a] = "send"
          BY <1>4, <3>3, <4>1, ReplayFrameFacts DEF Last
        <4> QED BY <1>1, <1>2, <1>4, <2>2, <4>2, <4>3
      <3>4. ASSUME NEW b \in Actors, ReplayUnlock(b) PROVE FALSE
        <4>1. /\ pc[b] = "send" /\ pc'[b] = job[b].then
              /\ \A c \in Actors \ {b} : pc'[c] = pc[c]
          BY <3>4, ReplayUnlockFacts DEF Moves
        <4>2. pc'[b] # "send"
          BY <4>1, JobFacts
        <4> QED BY <2>2, <4>1, <4>2, OneReplay
      <3>5. ASSUME NEW k \in Readers, EnqueueReset(k) PROVE FALSE
        <4>1. pc[k] = "reset" /\ job'[k].head /\ \A c \in Actors \ {k} : pc'[c] = pc[c]
          BY <3>5, EnqueueResetFacts DEF Moves
        <4> QED BY <2>2, <4>1, OneReplay, ActorFacts
      <3> QED BY <3>1, <3>2, <3>3, <3>4, <3>5, ReplayersStep DEF ReplayMoves
    <2> HIDE DEF Tip
    <2>3. \A a \in Actors : pc'[a] = "send" /\ ~job'[a].head /\ sendCh' # <<>> => Tip(a)'
      BY <2>2
    <2>4. ContigInv'
      BY <2>3 DEF Tip, ContigInv, Events, Last
    <2> QED BY <2>1, <2>4
  <1>5. CASE EnqueueLive /\ ~UNCHANGED sendCh
    <2>1. lock = -1 /\ Added("live", job[0].todo)
      BY <1>5, LiveQueue
    <2>2. \A a \in Actors : pc'[a] # "send"
      BY <1>5, <2>1, NoReplayWhenFree, EnqueueLiveFacts, ActorFacts DEF Moves
    <2>3. ReplayContiguous'
      BY <2>1, <1>2 DEF Added, ReplayContiguous, Events, Last
    <2> QED BY <2>2, <2>3 DEF ContigInv
  <1>6. ASSUME NEW a \in Actors, ReplayFrame(a), ~UNCHANGED sendCh
        PROVE  ContigInv' /\ ReplayContiguous'
    <2>1. PICK evs \in SUBSET Seqs : /\ Sends(a, evs) /\ Added("replay", evs)
                                     /\ sendCh'[Last + 1].head = job[a].head
      BY <1>6, ReplayQueue
    <2>2. pc[a] = "send" /\ pc' = pc
      BY <1>6, ReplayFrameFacts
    <2>3. Tip(a)'
      BY <2>1 DEF Added, Sends
    <2>4. \A b \in Actors : pc'[b] = "send" => b = a
      BY <2>2, OneReplay
    <2>5. ~job[a].head /\ sendCh # <<>> =>
            sendCh[Last].kind = "replay" /\ \A s \in sendCh[Last].evs, t \in evs : s < t
      BY <1>1, <2>1, <2>2 DEF Sends
    <2>6. ReplayContiguous'
      <3> SUFFICES ASSUME NEW i \in 2..Last', sendCh'[i].kind = "replay", ~sendCh'[i].head
                   PROVE  /\ sendCh'[i-1].kind = "replay"
                          /\ \A s \in sendCh'[i-1].evs, t \in sendCh'[i].evs : s < t
        BY DEF ReplayContiguous, Events, Last
      <3>1. CASE i = Last + 1
        <4>1. sendCh # <<>> /\ sendCh'[i-1] = sendCh[Last] /\ ~job[a].head /\ sendCh'[i].evs = evs
          BY <1>2, <2>1, <3>1 DEF Added
        <4> QED BY <2>5, <4>1
      <3>2. CASE i # Last + 1
        <4>1. i \in 2..Last /\ sendCh'[i] = sendCh[i] /\ sendCh'[i-1] = sendCh[i-1]
          BY <1>2, <2>1, <3>2 DEF Added
        <4> QED BY <4>1 DEF ReplayContiguous, Events, Last
      <3> QED BY <3>1, <3>2
    <2> HIDE DEF Tip
    <2>7. \A b \in Actors : pc'[b] = "send" => Tip(b)'
      BY <2>3, <2>4
    <2> QED BY <2>6, <2>7 DEF Tip, ContigInv, Events, Last
  <1>7. ASSUME NEW k \in Readers, EnqueueReset(k), ~UNCHANGED sendCh
        PROVE  ContigInv' /\ ReplayContiguous'
    <2>1. Added("reset", ring)
      BY <1>7, ResetQueue
    <2>2. pc[k] = "reset" /\ job'[k].head /\ \A c \in Actors \ {k} : pc'[c] = pc[c]
      BY <1>7, EnqueueResetFacts DEF Moves
    <2>3. \A b \in Actors : pc'[b] = "send" => b = k
      BY <2>2, OneReplay, ActorFacts
    <2>4. ReplayContiguous'
      BY <2>1, <1>2 DEF Added, ReplayContiguous, Events, Last
    <2> QED BY <2>2, <2>3, <2>4 DEF ContigInv
  <1>8. CASE SessionStart
    <2>1. sendCh' = <<>>
      BY <1>8 DEF SessionStart
    <2> QED BY <2>1 DEF ContigInv, ReplayContiguous
  <1>9. CASE HubReceive
    <2>1. Shifted
      BY <1>9, TakeQueue
    <2>2. pc' = pc /\ job' = job
      BY <1>9 DEF HubReceive
    <2>3. ReplayContiguous'
      <3> SUFFICES ASSUME NEW i \in 2..Last', sendCh'[i].kind = "replay", ~sendCh'[i].head
                   PROVE  /\ sendCh'[i-1].kind = "replay"
                          /\ \A s \in sendCh'[i-1].evs, t \in sendCh'[i].evs : s < t
        BY DEF ReplayContiguous, Events, Last
      <3>1. i + 1 \in 2..Last /\ sendCh'[i] = sendCh[i+1] /\ sendCh'[i-1] = sendCh[i] /\ i + 1 - 1 = i
        BY <2>1 DEF Shifted
      <3> QED BY <3>1 DEF ReplayContiguous, Events, Last
    <2>4. ASSUME NEW a \in Actors, pc'[a] = "send", ~job'[a].head, sendCh' # <<>> PROVE Tip(a)'
      <3>1. Last' >= 1 /\ Last' + 1 = Last /\ sendCh'[Last'] = sendCh[Last] /\ sendCh # <<>>
        BY <2>1, <2>4, <1>2, <1>3 DEF Shifted
      <3> QED BY <1>1, <2>2, <2>4, <3>1
    <2> HIDE DEF Tip
    <2>5. \A a \in Actors : pc'[a] = "send" /\ ~job'[a].head /\ sendCh' # <<>> => Tip(a)'
      BY <2>4
    <2>6. ContigInv'
      BY <2>5 DEF Tip, ContigInv, Events, Last
    <2> QED BY <2>3, <2>6
  <1> QED BY QueueStep, <1>4, <1>5, <1>6, <1>7, <1>8, <1>9


\* The events of a frame that is alone because it is too large are too large.
LEMMA OversizedAlone ==
  ASSUME NEW evs \in SUBSET Seqs, evs \cap Oversized # {}, Cardinality(evs) = 1
  PROVE  evs \subseteq Oversized
  <1>1. PICK x : evs = {x}
    BY FS_Singleton, SeqsFacts
  <1> QED BY <1>1

LEMMA ResetStep ==
  ASSUME IInv, Next
  PROVE  ResetInv' /\ ResetHeadsReplay'
  <1> USE DEF IInv, TypeInv
  <1> DEFINE Owed(i, s)    == sendCh[i].kind = "reset" /\ s \in sendCh[i].evs \ Oversized /\ fate[s] # "dropped"
             Brought(i, s) == \E x \in EventFrames : x > i /\ s \in sendCh[x].evs
             Before(i, j, s) == \E x \in i+1..j : s \in sendCh[x].evs
  <1>1. \A i \in 1..Last : \A s : Owed(i, s) => Brought(i, s) \/ InReplay(s)
    BY DEF ResetInv, Events, Last
  <1>2. \A i \in 1..Last, j \in EventFrames : \A s : Owed(i, s) /\ j > i /\ (\E t \in sendCh[j].evs : s < t) => Before(i, j, s)
    BY DEF ResetHeadsReplay, Events, Last
  <1>3. SUFFICES /\ \A i \in 1..Last' : \A s : Owed(i, s)' => Brought(i, s)' \/ InReplay(s)'
                 /\ \A i \in 1..Last', j \in EventFrames' : \A s :
                      Owed(i, s)' /\ j > i /\ (\E t \in sendCh'[j].evs : s < t) => Before(i, j, s)'
    <2>1. ResetInv'
      BY <1>3 DEF ResetInv, Events, Last
    <2>2. ResetHeadsReplay'
      BY <1>3 DEF ResetHeadsReplay, Events, Last
    <2> QED BY <2>1, <2>2
  <1>4. Last \in Nat /\ Last' \in Nat /\ EventFrames \subseteq 1..Last /\ EventFrames' \subseteq 1..Last'
    BY QueueFacts, QueueTypeStep DEF Last, QueueType, EventFrames
  <1>5. \A i \in 1..Last : \A s \in sendCh[i].evs : s \in Seqs
    BY QueueFacts DEF Last
  <1>6. \A s \in Seqs : ~SessionStart /\ fate'[s] # "dropped" => fate[s] # "dropped"
    BY DropStays
  <1>7. CASE SessionStart
    <2>1. sendCh' = <<>>
      BY <1>7 DEF SessionStart
    <2>2. Last' = 0
      BY <2>1 DEF Last
    <2> QED BY <2>2, <1>4
  <1>8. ASSUME ~SessionStart, NEW i \in 1..Last, NEW s, Owed(i, s)', sendCh'[i] = sendCh[i]
        PROVE  Owed(i, s) /\ s \in Seqs
    BY <1>8, <1>5, <1>6
  <1>9. ASSUME UNCHANGED sendCh, ~SessionStart
        PROVE  /\ \A i \in 1..Last' : \A s : Owed(i, s)' => Brought(i, s)' \/ InReplay(s)'
               /\ \A i \in 1..Last', j \in EventFrames' : \A s :
                    Owed(i, s)' /\ j > i /\ (\E t \in sendCh'[j].evs : s < t) => Before(i, j, s)'
    <2>1. Last' = Last /\ EventFrames' = EventFrames
      BY <1>9, SameQueue
    <2>2. ASSUME NEW i \in 1..Last', NEW s, Owed(i, s)' PROVE Brought(i, s)' \/ InReplay(s)'
      <3>1. Owed(i, s) /\ s \in Seqs /\ s \notin Oversized
        BY <1>8, <1>9, <2>1, <2>2
      <3>2. Brought(i, s) \/ InReplay(s)
        BY <1>1, <2>1, <3>1
      <3>3. CASE Brought(i, s)
        BY <1>9, <2>1, <3>3
      <3>4. ASSUME NEW b \in Actors, pc[b] = "send", s \in job[b].todo PROVE InReplay(s)'
        <4>1. CASE ReplayersKept
          BY <3>4, <4>1 DEF ReplayersKept, InReplay
        <4>2. ASSUME NEW a \in Actors, ReplayLock(a) PROVE FALSE
          BY <4>2, <3>4, ReplayLockFacts, NoReplayWhenFree
        <4>3. ASSUME NEW a \in Actors, ReplayFrame(a) PROVE InReplay(s)'
          <5>1. a = b /\ pc' = pc
            BY <4>3, <3>4, OneReplay, ReplayFrameFacts
          <5>2. PICK evs \in SUBSET Seqs :
                  /\ job'[a].todo = job[a].todo \ evs
                  /\ \/ evs \cap Oversized # {} /\ Cardinality(evs) = 1
                     \/ Last' = Last + 1
                     \/ Marked(evs, "dropped")
            BY <4>3, ReplayQueue DEF Sends, Added
          <5>3. s \notin evs
            BY <2>1, <2>2, <3>1, <5>2, <1>4, OversizedAlone DEF Marked
          <5> QED BY <3>4, <5>1, <5>2, <5>3 DEF InReplay
        <4>4. ASSUME NEW a \in Actors, ReplayUnlock(a) PROVE FALSE
          BY <4>4, <3>4, OneReplay, ReplayUnlockFacts
        <4>5. ASSUME NEW k \in Readers, EnqueueReset(k) PROVE FALSE
          BY <4>5, <3>4, OneReplay, EnqueueResetFacts, ActorFacts
        <4> QED BY <4>1, <4>2, <4>3, <4>4, <4>5, ReplayersStep DEF ReplayMoves
      <3> QED BY <3>2, <3>3, <3>4 DEF InReplay
    <2>3. ASSUME NEW i \in 1..Last', NEW s, NEW j \in EventFrames', Owed(i, s)', j > i,
                 \E t \in sendCh'[j].evs : s < t
          PROVE  Before(i, j, s)'
      <3>1. Owed(i, s)
        BY <1>8, <1>9, <2>1, <2>3
      <3>2. Before(i, j, s)
        BY <1>2, <1>9, <2>1, <2>3, <3>1
      <3> QED BY <1>9, <3>2
    <2> QED BY <2>2, <2>3
  \* One frame more, with the events of what was left of a replay that precede the rest.
  <1>10. ASSUME ~SessionStart, NEW kd, NEW E, Added(kd, E), kd # "reset",
                \A s : InReplay(s) => s \in E \/ (InReplay(s)' /\ \A t \in E : ~(s < t))
         PROVE  /\ \A i \in 1..Last' : \A s : Owed(i, s)' => Brought(i, s)' \/ InReplay(s)'
                /\ \A i \in 1..Last', j \in EventFrames' : \A s :
                     Owed(i, s)' /\ j > i /\ (\E t \in sendCh'[j].evs : s < t) => Before(i, j, s)'
    <2>1. /\ Last' = Last + 1 /\ \A i \in 1..Last : sendCh'[i] = sendCh[i]
          /\ sendCh'[Last + 1].kind = kd /\ sendCh'[Last + 1].evs = E
          /\ EventFrames' = EventFrames \cup {Last + 1}
      BY <1>10 DEF Added
    <2>2. ASSUME NEW i \in 1..Last', NEW s, Owed(i, s)'
          PROVE  i \in 1..Last /\ Owed(i, s) /\ s \in Seqs /\ (Brought(i, s) \/ InReplay(s))
      <3>1. i \in 1..Last
        BY <1>4, <1>10, <2>1, <2>2
      <3>2. Owed(i, s) /\ s \in Seqs
        BY <1>8, <1>10, <2>1, <2>2, <3>1
      <3> QED BY <1>1, <3>1, <3>2
    <2>0. PICK n \in Nat : n = Last + 1
      BY <1>4
    <2>3. \A i \in 1..Last : \A s : Brought(i, s) => Brought(i, s)' /\ Before(i, n, s)'
      <3> SUFFICES ASSUME NEW i \in 1..Last, NEW s, NEW x \in EventFrames, x > i, s \in sendCh[x].evs
                   PROVE  Brought(i, s)' /\ Before(i, n, s)'
        OBVIOUS
      <3>1. x \in EventFrames' /\ s \in sendCh'[x].evs /\ x \in i+1..n
        BY <1>4, <2>0, <2>1
      <3> QED BY <3>1
    <2>4. \A i \in 1..Last : \A s : s \in E => Brought(i, s)' /\ Before(i, n, s)'
      BY <1>4, <2>0, <2>1
    <2>5. ASSUME NEW i \in 1..Last', NEW s, Owed(i, s)' PROVE Brought(i, s)' \/ InReplay(s)'
      BY <1>10, <2>2, <2>3, <2>4, <2>5
    <2>6. ASSUME NEW i \in 1..Last', NEW s, NEW j \in EventFrames', Owed(i, s)', j > i,
                 \E t \in sendCh'[j].evs : s < t
          PROVE  Before(i, j, s)'
      <3>1. CASE j = Last + 1
        <4>1. \E t \in E : s < t
          BY <2>1, <2>6, <3>1
        <4>2. i \in 1..Last /\ (Brought(i, s) \/ InReplay(s))
          BY <2>2, <2>6
        <4>3. InReplay(s) => s \in E
          BY <1>10, <4>1
        <4> HIDE DEF Brought, Before
        <4>4. Before(i, n, s)'
          BY <2>3, <2>4, <4>2, <4>3
        <4>5. Before(i, j, s)'
          BY <2>0, <3>1, <4>4 DEF Before
        <4> QED BY <4>5
      <3>2. CASE j \in EventFrames
        <4>1. sendCh'[j] = sendCh[j] /\ j \in 1..Last
          BY <1>4, <2>1, <3>2
        <4>2. Before(i, j, s)
          BY <1>2, <2>2, <2>6, <3>2, <4>1
        <4> QED BY <1>4, <2>1, <4>1, <4>2
      <3> QED BY <2>1, <2>6, <3>1, <3>2
    <2> QED BY <2>5, <2>6
  <1>11. CASE EnqueueLive /\ ~UNCHANGED sendCh
    <2>1. lock = -1 /\ Added("live", job[0].todo)
      BY <1>11, LiveQueue
    <2>2. \A s : ~InReplay(s)
      BY <2>1, NoReplayWhenFree DEF InReplay
    <2>3. ~SessionStart
      <3>1. SessionStart => sendCh' = <<>>
        BY DEF SessionStart
      <3>2. sendCh' = <<>> => Last' = 0
        BY DEF Last
      <3> QED BY <3>1, <3>2, <2>1, <1>4 DEF Added
    <2> QED BY <1>10, <2>1, <2>2, <2>3
  <1>12. ASSUME NEW a \in Actors, ReplayFrame(a), ~UNCHANGED sendCh, ~SessionStart
         PROVE  /\ \A i \in 1..Last' : \A s : Owed(i, s)' => Brought(i, s)' \/ InReplay(s)'
                /\ \A i \in 1..Last', j \in EventFrames' : \A s :
                     Owed(i, s)' /\ j > i /\ (\E t \in sendCh'[j].evs : s < t) => Before(i, j, s)'
    <2>1. PICK evs \in SUBSET Seqs : Sends(a, evs) /\ Added("replay", evs)
      BY <1>12, ReplayQueue
    <2>2. pc[a] = "send" /\ pc' = pc /\ \A b \in Actors : pc[b] = "send" => b = a
      BY <1>12, ReplayFrameFacts, OneReplay
    <2>3. ASSUME NEW s, InReplay(s) PROVE s \in evs \/ (InReplay(s)' /\ \A t \in evs : ~(s < t))
      <3>1. s \in job[a].todo /\ job[a].todo \subseteq Seqs
        BY <2>2, <2>3, JobFacts DEF InReplay
      <3>2. CASE s \notin evs
        <4>1. s \in job'[a].todo /\ \A t \in evs : t < s
          BY <2>1, <3>1, <3>2 DEF Sends
        <4>2. InReplay(s)'
          BY <2>2, <4>1 DEF InReplay
        <4>3. s \in Int /\ evs \subseteq Int
          BY <3>1 DEF Seqs
        <4> QED BY <4>1, <4>2, <4>3
      <3> QED BY <3>2
    <2> QED BY <1>10, <1>12, <2>1, <2>3
  <1>13. ASSUME NEW k \in Readers, EnqueueReset(k), ~UNCHANGED sendCh, ~SessionStart
         PROVE  /\ \A i \in 1..Last' : \A s : Owed(i, s)' => Brought(i, s)' \/ InReplay(s)'
                /\ \A i \in 1..Last', j \in EventFrames' : \A s :
                     Owed(i, s)' /\ j > i /\ (\E t \in sendCh'[j].evs : s < t) => Before(i, j, s)'
    <2>1. /\ Last' = Last + 1 /\ \A i \in 1..Last : sendCh'[i] = sendCh[i]
          /\ sendCh'[Last + 1].evs = ring /\ EventFrames' = EventFrames
      BY <1>13, ResetQueue DEF Added
    <2>2. pc[k] = "reset" /\ pc'[k] = "send" /\ job'[k].todo = ring /\ k \in Actors
      BY <1>13, EnqueueResetFacts, ActorFacts DEF Moves
    <2>3. \A s : ~InReplay(s)
      BY <2>2, OneReplay DEF InReplay
    <2>4. ASSUME NEW i \in 1..Last', NEW s, Owed(i, s)' PROVE Brought(i, s)' \/ InReplay(s)'
      <3>1. CASE i = Last + 1
        BY <2>1, <2>2, <2>4, <3>1 DEF InReplay
      <3>2. CASE i # Last + 1
        <4>1. i \in 1..Last
          BY <1>4, <2>1, <3>2
        <4>2. Owed(i, s)
          BY <1>8, <1>13, <2>1, <2>4, <4>1
        <4>3. Brought(i, s)
          BY <1>1, <2>3, <4>1, <4>2
        <4> QED BY <1>4, <2>1, <4>3
      <3> QED BY <3>1, <3>2
    <2>5. ASSUME NEW i \in 1..Last', NEW s, NEW j \in EventFrames', Owed(i, s)', j > i,
                 \E t \in sendCh'[j].evs : s < t
          PROVE  Before(i, j, s)'
      <3>1. i \in 1..Last /\ j \in 1..Last /\ j \in EventFrames
        BY <1>4, <2>1, <2>5
      <3>2. Owed(i, s)
        BY <1>8, <1>13, <2>1, <2>5, <3>1
      <3>3. Before(i, j, s)
        BY <1>2, <2>1, <2>5, <3>1, <3>2
      <3> QED BY <1>4, <2>1, <3>1, <3>3
    <2> QED BY <2>4, <2>5
  <1>14. CASE HubReceive /\ ~SessionStart
    <2>1. /\ Last' = Last - 1 /\ \A i \in 1..Last' : sendCh'[i] = sendCh[i + 1]
          /\ \A i \in Int : i \in EventFrames' <=> i >= 1 /\ i + 1 \in EventFrames
      BY <1>14, TakeQueue DEF Shifted
    <2>2. pc' = pc /\ job' = job /\ fate' = fate
      BY <1>14 DEF HubReceive
    <2>3. ASSUME NEW i \in 1..Last', NEW s, Owed(i, s)' PROVE i + 1 \in 1..Last /\ Owed(i + 1, s)
      BY <1>4, <2>1, <2>2, <2>3
    <2>4. ASSUME NEW i \in 1..Last', NEW s, Owed(i, s)' PROVE Brought(i, s)' \/ InReplay(s)'
      <3>1. Brought(i + 1, s) \/ InReplay(s)
        BY <1>1, <2>3, <2>4
      <3>2. CASE InReplay(s)
        BY <2>2, <3>2 DEF InReplay
      <3>3. ASSUME NEW x \in EventFrames, x > i + 1, s \in sendCh[x].evs PROVE Brought(i, s)'
        <4>1. x - 1 \in 1..Last' /\ x - 1 \in Int /\ (x - 1) + 1 = x /\ x - 1 > i
          BY <1>4, <2>1, <3>3
        <4>2. x - 1 \in EventFrames' /\ sendCh'[x - 1] = sendCh[x]
          BY <2>1, <4>1
        <4> QED BY <3>3, <4>1, <4>2
      <3> QED BY <3>1, <3>2, <3>3
    <2>5. ASSUME NEW i \in 1..Last', NEW s, NEW j \in EventFrames', Owed(i, s)', j > i,
                 \E t \in sendCh'[j].evs : s < t
          PROVE  Before(i, j, s)'
      <3>1. j \in 1..Last' /\ j + 1 \in EventFrames /\ j + 1 > i + 1 /\ sendCh'[j] = sendCh[j + 1]
        BY <1>4, <2>1, <2>5
      <3>2. Before(i + 1, j + 1, s)
        BY <1>2, <2>3, <2>5, <3>1
      <3>3. PICK x \in (i + 1) + 1..j + 1 : s \in sendCh[x].evs
        BY <3>2
      <3>4. x - 1 \in i + 1..j /\ x - 1 \in 1..Last' /\ (x - 1) + 1 = x
        BY <3>1, <3>3, <1>4
      <3>5. sendCh'[x - 1] = sendCh[x]
        BY <2>1, <3>4
      <3> QED BY <3>3, <3>4, <3>5
    <2> QED BY <2>4, <2>5
  <1> HIDE DEF Owed, Brought, Before
  <1> QED BY QueueStep, <1>7, <1>9, <1>11, <1>12, <1>13, <1>14, Zenon


-----------------------------------------------------------------------------
(* Nothing overtakes an event that was queued live *)

LEMMA HubKept ==
  ASSUME Next
  PROVE  \/ UNCHANGED <<hubMine, hubEpoch, hubLast, mixed>>
         \/ HubReceive
         \/ HubRestart
  <1>1. Publish \/ Flush \/ FlushGate \/ EnqueueLive \/ Heartbeat \/ RepairDroppedEvents \/
        SessionStart \/ SessionEnd \/ HubSubscribers \/ HubNotify \/ HubPing
          => UNCHANGED <<hubMine, hubEpoch, hubLast, mixed>>
    BY DEF Publish, Flush, FlushGate, EnqueueLive, Heartbeat, RepairDroppedEvents,
            SessionStart, SessionEnd, HubSubscribers, HubNotify, HubPing, hostVars, linkVars,
            hubVars, history
  <1>2. \A a \in Actors : ReplayLock(a) \/ ReplayFrame(a) \/ ReplayUnlock(a)
          => UNCHANGED <<hubMine, hubEpoch, hubLast, mixed>>
    BY DEF ReplayLock, ReplayFrame, ReplayUnlock, hostVars, linkVars, hubVars, history
  <1>3. \A k \in Readers : Receive(k) \/ SetSubscribers(k) \/ CatchUp(k) \/ PingAck(k) \/
                           HelloSeq(k) \/ ResetLock(k) \/ EnqueueReset(k) \/ ResetDone(k) \/
                           ResumeDone(k)
          => UNCHANGED <<hubMine, hubEpoch, hubLast, mixed>>
    BY DEF Receive, SetSubscribers, CatchUp, PingAck, HelloSeq, ResetLock, EnqueueReset,
            ResetDone, ResumeDone, hostVars, linkVars, hubVars, history
  <1> QED BY NextCases, <1>1, <1>2, <1>3

LEMMA SentKept ==
  ASSUME Next
  PROVE  \/ UNCHANGED lastSent
         \/ EnqueueLive
         \/ (\E a \in Actors : ReplayFrame(a))
         \/ (\E k \in Readers : ResumeDone(k))
  <1>1. Publish \/ Flush \/ FlushGate \/ Heartbeat \/ RepairDroppedEvents \/ SessionStart \/
        SessionEnd \/ HubReceive \/ HubSubscribers \/ HubNotify \/ HubPing \/ HubRestart
          => UNCHANGED lastSent
    BY DEF Publish, Flush, FlushGate, Heartbeat, RepairDroppedEvents, SessionStart, SessionEnd,
            HubReceive, HubSubscribers, HubNotify, HubPing, HubRestart, hostVars, linkVars,
            hubVars, history
  <1>2. \A a \in Actors : ReplayLock(a) \/ ReplayUnlock(a)
          => UNCHANGED lastSent
    BY DEF ReplayLock, ReplayUnlock, hostVars, linkVars, hubVars, history
  <1>3. \A k \in Readers : Receive(k) \/ SetSubscribers(k) \/ CatchUp(k) \/ PingAck(k) \/
                           HelloSeq(k) \/ ResetLock(k) \/ EnqueueReset(k) \/ ResetDone(k)
          => UNCHANGED lastSent
    BY DEF Receive, SetSubscribers, CatchUp, PingAck, HelloSeq, ResetLock, EnqueueReset,
            ResetDone, hostVars, linkVars, hubVars, history
  <1> QED BY NextCases, <1>1, <1>2, <1>3

LEMMA RingKept ==
  ASSUME Next
  PROVE  \/ UNCHANGED ring
         \/ Flush
  <1>1. Publish \/ FlushGate \/ EnqueueLive \/ Heartbeat \/ RepairDroppedEvents \/
        SessionStart \/ SessionEnd \/ HubReceive \/ HubSubscribers \/ HubNotify \/ HubPing \/
        HubRestart
          => UNCHANGED ring
    BY DEF Publish, FlushGate, EnqueueLive, Heartbeat, RepairDroppedEvents, SessionStart,
            SessionEnd, HubReceive, HubSubscribers, HubNotify, HubPing, HubRestart, hostVars,
            linkVars, hubVars, history
  <1>2. \A a \in Actors : ReplayLock(a) \/ ReplayFrame(a) \/ ReplayUnlock(a)
          => UNCHANGED ring
    BY DEF ReplayLock, ReplayFrame, ReplayUnlock, hostVars, linkVars, hubVars, history
  <1>3. \A k \in Readers : Receive(k) \/ SetSubscribers(k) \/ CatchUp(k) \/ PingAck(k) \/
                           HelloSeq(k) \/ ResetLock(k) \/ EnqueueReset(k) \/ ResetDone(k) \/
                           ResumeDone(k)
          => UNCHANGED ring
    BY DEF Receive, SetSubscribers, CatchUp, PingAck, HelloSeq, ResetLock, EnqueueReset,
            ResetDone, ResumeDone, hostVars, linkVars, hubVars, history
  <1> QED BY NextCases, <1>1, <1>2, <1>3

LEMMA FateKept ==
  ASSUME Next
  PROVE  \/ UNCHANGED fate
         \/ EnqueueLive
         \/ (\E a \in Actors : ReplayFrame(a))
         \/ SessionStart
         \/ HubRestart
  <1>1. Publish \/ Flush \/ FlushGate \/ Heartbeat \/ RepairDroppedEvents \/ SessionEnd \/
        HubReceive \/ HubSubscribers \/ HubNotify \/ HubPing
          => UNCHANGED fate
    BY DEF Publish, Flush, FlushGate, Heartbeat, RepairDroppedEvents, SessionEnd, HubReceive,
            HubSubscribers, HubNotify, HubPing, hostVars, linkVars, hubVars, history
  <1>2. \A a \in Actors : ReplayLock(a) \/ ReplayUnlock(a)
          => UNCHANGED fate
    BY DEF ReplayLock, ReplayUnlock, hostVars, linkVars, hubVars, history
  <1>3. \A k \in Readers : Receive(k) \/ SetSubscribers(k) \/ CatchUp(k) \/ PingAck(k) \/
                           HelloSeq(k) \/ ResetLock(k) \/ EnqueueReset(k) \/ ResetDone(k) \/
                           ResumeDone(k)
          => UNCHANGED fate
    BY DEF Receive, SetSubscribers, CatchUp, PingAck, HelloSeq, ResetLock, EnqueueReset,
            ResetDone, ResumeDone, hostVars, linkVars, hubVars, history
  <1> QED BY NextCases, <1>1, <1>2, <1>3

\* Actor 0 alone takes a batch up, and keeps it until it is queued or dropped.
LEMMA BatchKept ==
  ASSUME JobType, DownType, Held, Next, pc'[0] \in {"gate", "push"}
  PROVE  Flush \/ (pc[0] \in {"gate", "push"} /\ job'[0] = job[0])
  <1>1. ASSUME NEW k \in Readers, Others(k) PROVE pc'[0] = pc[0] /\ job'[0] = job[0]
    BY <1>1, ActorFacts DEF Others
  <1>2. FlushGate => pc[0] = "gate" /\ (job'[0] = job[0] \/ pc'[0] = "idle")
    BY FlushGateFacts, ActorFacts DEF Moves, Keeps
  <1>3. EnqueueLive => pc'[0] = "idle"
    BY EnqueueLiveFacts DEF Moves
  <1>4. Heartbeat => pc'[0] = "repair"
    BY HeartbeatFacts DEF Moves
  <1>5. RepairDroppedEvents => pc'[0] \in {"lock", "idle"}
    BY RepairFacts DEF Moves
  <1>6. ASSUME NEW a \in Actors, ReplayLock(a) \/ ReplayFrame(a) \/ ReplayUnlock(a)
        PROVE  pc[0] \in {"gate", "push"} /\ job'[0] = job[0]
    <2>1. Others(a) /\ pc[a] \in {"lock", "send"}
      BY <1>6, ReplayLockFacts, ReplayFrameFacts, ReplayUnlockFacts
    <2>2. pc'[a] \in {"send", "idle", "seq", "ack", "clear"}
      <3>1. ReplayLock(a) => pc'[a] = "send"
        BY ReplayLockFacts DEF Moves
      <3>2. ReplayFrame(a) => pc'[a] = "send"
        BY ReplayFrameFacts
      <3>3. ReplayUnlock(a) => pc'[a] = job[a].then
        BY ReplayUnlockFacts DEF Moves
      <3> QED BY <1>6, <3>1, <3>2, <3>3, JobFacts
    <2> QED BY <2>1, <2>2, ActorFacts DEF Others
  <1>7. ASSUME NEW k \in Readers, Receive(k) \/ SetSubscribers(k) \/ CatchUp(k) \/ PingAck(k)
                     \/ HelloSeq(k) \/ ResetLock(k) \/ EnqueueReset(k)
                     \/ ResetDone(k) \/ ResumeDone(k)
        PROVE  Others(k)
    BY <1>7, CatchUpFacts, EnqueueResetFacts, HandledFacts, HelloSeqFacts, ReceiveFacts,
       ResetLockFacts, SetSubscribersFacts DEF PingAck, ResetDone, ResumeDone
  <1>8. UNCHANGED <<pc, job>> => pc[0] \in {"gate", "push"} /\ job'[0] = job[0]
    OBVIOUS
  <1>9. Publish \/ SessionStart \/ SessionEnd \/ HubReceive \/ HubSubscribers \/ HubNotify \/ HubPing \/ HubRestart
          => UNCHANGED <<pc, job>>
    BY DEF Publish, SessionStart, SessionEnd, HubReceive, HubSubscribers, HubNotify, HubPing,
       HubRestart, hostVars, linkVars, hubVars, history
  <1> QED BY NextCases, <1>1, <1>2, <1>3, <1>4, <1>5, <1>6, <1>7, <1>8, <1>9

\* A chance is had by an event of a new batch, or was had before.
LEMMA ChanceBefore ==
  ASSUME IInv, Next, NEW s \in Seqs, Chance(s)'
  PROVE  Chance(s) \/ (Flush /\ s \in pend)
  <1> USE DEF IInv, TypeInv
  <1>1. s \in ring \/ (Flush /\ s \in pend)
    <2>1. CASE Flush
      <3>1. ring \cup pend \in SUBSET Seqs
        BY DEF SetType
      <3>2. ring' \subseteq ring \cup pend
        BY <2>1, <3>1, CompactFacts DEF Flush, SeqAndReplay
      <3> QED BY <2>1, <3>2 DEF Chance
    <2> QED BY <2>1, RingKept DEF Chance
  <1>2. /\ fate'[s] = "none" => fate[s] = "none"
        /\ fate'[s] = "live" => \/ fate[s] = "live"
                                \/ fate[s] = "none" /\ pc[0] = "push" /\ s \in job[0].todo
    <2>1. CASE EnqueueLive
      BY <2>1, LiveQueue, EnqueueLiveFacts DEF Marked
    <2>2. ASSUME NEW a \in Actors, ReplayFrame(a)
          PROVE  fate'[s] = fate[s] \/ fate'[s] = "dropped"
      <3>1. PICK evs : UNCHANGED fate \/ Marked(evs, "dropped")
        BY <2>2, ReplayQueue
      <3> QED BY <3>1 DEF Marked
    <2>3. SessionStart => fate'[s] \in {fate[s], "lost"}
      BY DEF SessionStart
    <2>4. HubRestart => fate'[s] \in {fate[s], "lost"}
      BY DEF HubRestart, Mark
    <2> QED BY <2>1, <2>2, <2>3, <2>4, FateKept
  <1>3. pc'[0] \in {"gate", "push"} /\ s \in job'[0].todo =>
          (Flush /\ s \in pend) \/ (pc[0] \in {"gate", "push"} /\ s \in job[0].todo)
    BY BatchKept, FlushFacts
  <1> QED BY <1>1, <1>2, <1>3 DEF Chance



\* One frame more takes nothing from what the frames before it bring.
LEMMA GivenStays ==
  ASSUME QueueType, UNCHANGED <<hubMine, hubEpoch, mixed>>, NEW kd, NEW E, Added(kd, E),
         NEW s, NEW j \in Nat, j <= Last, Given(s, j)
  PROVE  Given(s, j)' /\ (kd # "reset" /\ j = Last => Given(s, j + 1)')
  <1> DEFINE m == j + 1
  <1>1. /\ Last \in Nat /\ Last' = Last + 1 /\ \A i \in 1..Last : sendCh'[i] = sendCh[i]
        /\ sendCh'[Last + 1].kind = kd
        /\ EventFrames \subseteq EventFrames' /\ EventFrames \subseteq 1..Last
    BY QueueFacts DEF Added, Last
  <1>2. \A i \in Nat \ {0} : NoReset(i, j) => NoReset(i, j)' /\ (kd # "reset" /\ j = Last => NoReset(i, m)')
    BY <1>1 DEF NoReset
  <1>3. Confused' <=> Confused
    BY DEF Confused
  <1>4. Arrives(s, j) => Arrives(s, j)' /\ (kd # "reset" /\ j = Last => Arrives(s, m)')
    <2> SUFFICES ASSUME NEW x \in EventFrames, x <= j, s \in Events(x), NoReset(x + 1, j)
                 PROVE  Arrives(s, j)' /\ (kd # "reset" /\ j = Last => Arrives(s, m)')
      BY DEF Arrives
    <2>1. x \in EventFrames' /\ s \in Events(x)' /\ x \in Nat \ {0} /\ x + 1 \in Nat \ {0}
      BY <1>1 DEF Events
    <2>2. NoReset(x + 1, j)' /\ (kd # "reset" /\ j = Last => NoReset(x + 1, m)')
      BY <1>2, <2>1
    <2> HIDE DEF m
    <2>3. m = j + 1
      BY DEF m
    <2> QED BY <2>1, <2>2, <2>3 DEF Arrives
  <1>5. NoReset(1, j) => NoReset(1, j)' /\ (kd # "reset" /\ j = Last => NoReset(1, m)')
    BY <1>2
  <1> HIDE DEF m
  <1>6. Given(s, j)' /\ (kd # "reset" /\ j = Last => Given(s, m)')
    BY <1>3, <1>4, <1>5 DEF Given
  <1> QED BY <1>6 DEF m

\* The frame that was added brings its own events.
LEMMA GivenNew ==
  ASSUME NEW kd, kd # "reset", NEW E, Added(kd, E), NEW s \in E, NEW n, n = Last'
  PROVE  Given(s, n)'
  <1>1. n \in Nat /\ n = Last + 1 /\ n \in EventFrames' /\ sendCh'[n].evs = E
    BY DEF Added
  <1>2. Arrives(s, n)'
    BY <1>1 DEF Arrives, Events, NoReset
  <1> QED BY <1>2 DEF Given

\* The queue, the hub and the replays are left alone.
LEMMA OrderQuiet ==
  ASSUME NEW s, Ordered(s), ReplayersKept,
         UNCHANGED <<sendCh, lastSent, hubMine, hubEpoch, hubLast, mixed>>
  PROVE  Ordered(s)'
  <1>1. EventFrames' = EventFrames /\ Len(sendCh') = Len(sendCh)
    BY SameQueue DEF Last
  <1>2. \A j : Given(s, j)' <=> Given(s, j)
    BY <1>1 DEF Given, Arrives, NoReset, Confused, Events
  <1>3. InReplay(s)' <=> InReplay(s)
    BY DEF InReplay, ReplayersKept
  <1>4. AheadInv(s)'
    BY <1>1, <1>2 DEF Ordered, AheadInv, Events
  <1>5. PlacedInv(s)'
    <2>1. PICK n : n = Len(sendCh)
      OBVIOUS
    <2>2. s <= lastSent => Given(s, n) \/ InReplay(s)
      BY <2>1 DEF Ordered, PlacedInv
    <2>3. s <= lastSent' => Given(s, n)' \/ InReplay(s)'
      BY <2>2, <1>2, <1>3
    <2> QED BY <1>1, <2>1, <2>3 DEF PlacedInv
  <1>6. TakenInv(s)' /\ CopiedInv(s)'
    BY DEF Ordered, TakenInv, CopiedInv, ReplayersKept
  <1> QED BY <1>4, <1>5, <1>6 DEF Ordered

\* Above all that was enqueued, with no replay that passes it by.
LEMMA OrderFresh ==
  ASSUME NumType', SentInv', HubMark', NEW s \in Nat, s > lastSent',
         \A a \in Actors : pc'[a] = "send" => \A t \in job'[a].todo : s <= t => s \in job'[a].todo,
         \A j \in EventFrames' : Events(j)' \subseteq Nat
  PROVE  Ordered(s)'
  <1>1. lastSent' \in Nat /\ hubLast' \in Nat
    BY ActorFacts DEF NumType
  <1>2. AheadInv(s)'
    BY <1>1 DEF AheadInv, SentInv, Events
  <1>3. PlacedInv(s)' /\ TakenInv(s)' /\ CopiedInv(s)'
    BY <1>1 DEF PlacedInv, TakenInv, CopiedInv, HubMark
  <1> QED BY <1>2, <1>3 DEF Ordered

\* A live frame: what is below it in the batch comes with it, and what was queued
\* before it is ahead of it.
LEMMA OrderLive ==
  ASSUME IInv, EnqueueLive, ~UNCHANGED sendCh, NEW s \in Seqs, Chance(s), Ordered(s)
  PROVE  Ordered(s)'
  <1> USE DEF IInv, TypeInv, NumInv
  <1> DEFINE E == job[0].todo
  <1>1. lock = -1 /\ Added("live", E) /\ lastSent' \in Raise(lastSent, E)
    BY LiveQueue
  <1>2. UNCHANGED <<hubMine, hubEpoch, hubLast, mixed>>
    BY DEF EnqueueLive, hubVars
  <1>3. \A a \in Actors : pc[a] # "send" /\ pc'[a] # "send"
    BY <1>1, NoReplayWhenFree, EnqueueLiveFacts DEF Moves
  <1>4. s \in E \/ Given(s, Last)
    <2>1. ~InReplay(s)
      BY <1>3 DEF InReplay
    <2>2. s \notin E => s <= lastSent
      BY DEF Chance, LiveInv
    <2> QED BY <2>1, <2>2 DEF Ordered, PlacedInv, Last
  <1> HIDE DEF E
  <1>5. PICK n \in Nat : n = Last
    BY QueueFacts DEF Last
  <1>6. PICK m \in Nat : m = n + 1 /\ m = Last'
    BY <1>1, <1>5 DEF Added
  <1>7. Given(s, m)'
    <2>1. CASE s \in E
      BY <1>1, <1>6, <2>1, GivenNew
    <2>2. CASE s \notin E
      <3>1. Given(s, n) /\ n <= Last
        BY <1>4, <1>5, <2>2
      <3>2. Given(s, n + 1)'
        BY <1>1, <1>2, <1>5, <3>1, GivenStays
      <3> QED BY <1>6, <3>2
    <2> QED BY <2>1, <2>2
  <1>8. AheadInv(s)'
    <2> SUFFICES ASSUME NEW j \in EventFrames', NEW t \in Events(j)', s < t
                 PROVE  Given(s, j)'
      BY DEF AheadInv
    <2>1. j \in EventFrames \/ j = m
      BY <1>1, <1>5, <1>6 DEF Added
    <2>2. CASE j \in EventFrames
      <3>1. j \in 1..Last /\ j \in Nat /\ j <= Last /\ sendCh'[j] = sendCh[j]
        BY <1>1, <1>5, <2>2, QueueFacts DEF Added, Last
      <3>2. Given(s, j)
        BY <2>2, <3>1 DEF Ordered, AheadInv, Events
      <3> QED BY <1>1, <1>2, <3>1, <3>2, GivenStays
    <2> QED BY <1>7, <2>1, <2>2
  <1>9. PlacedInv(s)'
    BY <1>6, <1>7 DEF PlacedInv, Last
  <1>10. TakenInv(s)' /\ CopiedInv(s)'
    BY <1>2, <1>3 DEF Ordered, TakenInv, CopiedInv
  <1> QED BY <1>8, <1>9, <1>10 DEF Ordered



\* A frame of a replay: its events come before what is left.
LEMMA OrderReplay ==
  ASSUME IInv, NEW a \in Actors, ReplayFrame(a), NEW s \in Seqs, Chance(s), Chance(s)', Ordered(s),
         lastSent \in Nat, lastSent' \in Nat
  PROVE  Ordered(s)'
  <1> USE DEF IInv, TypeInv, NumInv
  <1>1. PICK evs \in SUBSET Seqs :
           /\ Sends(a, evs)
           /\ \/ /\ evs \cap Oversized # {} /\ Cardinality(evs) = 1
                 /\ UNCHANGED <<sendCh, lastSent, fate>>
              \/ /\ evs \cap Oversized = {} /\ Added("replay", evs)
                 /\ lastSent' \in Raise(lastSent, evs)
              \/ Marked(evs, "dropped") /\ UNCHANGED <<sendCh, lastSent>>
    BY ReplayQueue
  <1>2. pc[a] = "send" /\ pc' = pc /\ \A b \in Actors : pc[b] = "send" => b = a
    BY ReplayFrameFacts, OneReplay
  <1>3. UNCHANGED <<hubMine, hubEpoch, hubLast, mixed>>
    BY DEF ReplayFrame, hubVars
  <1>4. /\ InReplay(s) <=> s \in job[a].todo
        /\ InReplay(s)' <=> s \in job[a].todo /\ s \notin evs
    BY <1>1, <1>2 DEF InReplay, Sends
  <1>5. \A t \in job[a].todo : t \in Nat
    BY JobFacts DEF Seqs
  <1>6. s \in Nat
    BY DEF Seqs
  <1>7. s > lastSent => \A t \in job[a].todo : s <= t => s \in job[a].todo
    BY <1>2 DEF Ordered, CopiedInv
  <1>8. CASE UNCHANGED <<sendCh, lastSent>> /\ s \notin evs
    <2>1. EventFrames' = EventFrames /\ Len(sendCh') = Len(sendCh)
      BY <1>8, SameQueue DEF Last
    <2>2. \A j : Given(s, j)' <=> Given(s, j)
      BY <1>3, <1>8, <2>1 DEF Given, Arrives, NoReset, Confused, Events
    <2>3. AheadInv(s)'
      BY <1>8, <2>1, <2>2 DEF Ordered, AheadInv, Events
    <2>4. PlacedInv(s)'
      <3>1. PICK n : n = Len(sendCh)
        OBVIOUS
      <3>2. s <= lastSent => Given(s, n) \/ InReplay(s)
        BY <3>1 DEF Ordered, PlacedInv
      <3>3. s <= lastSent' => Given(s, n)' \/ InReplay(s)'
        BY <1>4, <1>8, <2>2, <3>2
      <3> QED BY <2>1, <3>1, <3>3 DEF PlacedInv
    <2>5. TakenInv(s)'
      BY <1>3 DEF Ordered, TakenInv
    <2>6. CopiedInv(s)'
      BY <1>1, <1>2, <1>7, <1>8 DEF CopiedInv, Sends
    <2> QED BY <2>3, <2>4, <2>5, <2>6 DEF Ordered
  <1>9. CASE Added("replay", evs) /\ lastSent' \in Raise(lastSent, evs)
    <2>1. lastSent <= lastSent' /\ (lastSent' = lastSent \/ lastSent' \in evs) /\ \A t \in evs : t <= lastSent'
      BY <1>9, RaiseFacts DEF NumType
    <2>2. \A t \in evs : s < t => s \in evs \/ ~(s \in job[a].todo)
      BY <1>1, <1>5, <1>6 DEF Sends
    <2>3. \A t \in evs : s <= t => s \in evs \/ s <= lastSent
      BY <1>1, <1>5, <1>6, <1>7, <2>2 DEF Sends
    <2>4. PICK n \in Nat : n = Last
      BY QueueFacts DEF Last
    <2>5. PICK m \in Nat : m = n + 1 /\ m = Last'
      BY <1>9, <2>4 DEF Added
    <2>6. s \in evs => Given(s, m)'
      BY <1>9, <2>5, GivenNew
    <2>7. Given(s, n) => Given(s, m)'
      <3>1. n <= Last /\ n = Last /\ "replay" # "reset"
        BY <2>4
      <3>2. Given(s, n) => Given(s, n + 1)'
        BY <1>3, <1>9, <3>1, GivenStays
      <3> QED BY <2>5, <3>2
    <2>8. s <= lastSent => Given(s, n) \/ s \in job[a].todo
      BY <1>4, <2>4 DEF Ordered, PlacedInv, Last
    <2>9. AheadInv(s)'
      <3> SUFFICES ASSUME NEW j \in EventFrames', NEW t \in Events(j)', s < t
                   PROVE  Given(s, j)'
        BY DEF AheadInv
      <3>1. j \in EventFrames \/ j = m
        BY <1>9, <2>4, <2>5 DEF Added
      <3>2. CASE j \in EventFrames
        <4>1. j \in 1..Last /\ j \in Nat /\ j <= Last /\ sendCh'[j] = sendCh[j]
          BY <1>9, <2>4, <3>2, QueueFacts DEF Added, Last
        <4>2. Given(s, j)
          BY <3>2, <4>1 DEF Ordered, AheadInv, Events
        <4> QED BY <1>3, <1>9, <4>1, <4>2, GivenStays
      <3>3. CASE j = m
        <4>0. t \in evs
          BY <1>9, <2>4, <2>5, <3>3 DEF Added, Events
        <4>1. t \in evs /\ s <= t
          BY <1>6, <4>0 DEF Seqs
        <4>2. s \in evs \/ Given(s, n)
          BY <2>2, <2>3, <2>8, <4>1
        <4> QED BY <2>6, <2>7, <3>3, <4>2
      <3> QED BY <3>1, <3>2, <3>3
    <2>10. PlacedInv(s)'
      <3>1. ASSUME s <= lastSent' PROVE Given(s, m)' \/ InReplay(s)'
        <4>1. CASE s <= lastSent
          BY <1>4, <2>6, <2>7, <2>8, <4>1
        <4>2. CASE ~(s <= lastSent)
          <5>1. lastSent' \in evs
            BY <2>1, <3>1, <4>2
          <5>2. s \in evs
            BY <2>3, <3>1, <4>2, <5>1
          <5> QED BY <2>6, <5>2
        <4> QED BY <4>1, <4>2
      <3> QED BY <2>5, <3>1 DEF PlacedInv, Last
    <2>11. TakenInv(s)'
      BY <1>3 DEF Ordered, TakenInv
    <2>12. CopiedInv(s)'
      <3>1. s > lastSent' => s > lastSent /\ s \notin evs
        BY <1>6, <2>1
      <3> QED BY <1>1, <1>2, <1>7, <3>1 DEF CopiedInv, Sends
    <2> QED BY <2>9, <2>10, <2>11, <2>12 DEF Ordered
  <1>10. Marked(evs, "dropped") => s \notin evs
    BY DEF Marked, Chance
  <1>11. evs \cap Oversized # {} /\ Cardinality(evs) = 1 => s \notin evs
    BY OversizedAlone DEF Chance
  <1> QED BY <1>1, <1>8, <1>9, <1>10, <1>11

\* A reset's replay brings the whole ring.
LEMMA OrderReset ==
  ASSUME IInv, NEW k \in Readers, EnqueueReset(k), NEW s \in Seqs, Chance(s), Ordered(s)
  PROVE  Ordered(s)'
  <1> USE DEF IInv, TypeInv, NumInv
  <1>1. pc[k] = "reset" /\ pc'[k] = "send" /\ job'[k].todo = ring /\ k \in Actors /\ Others(k)
    BY EnqueueResetFacts, ActorFacts DEF Moves
  <1>2. \A b \in Actors \ {k} : pc'[b] # "send"
    BY <1>1, OneReplay DEF Others
  <1>3. UNCHANGED <<hubMine, hubEpoch, hubLast, mixed, lastSent>>
    BY DEF EnqueueReset, hubVars, history
  <1>4. InReplay(s)'
    BY <1>1 DEF InReplay, Chance
  <1>5. CopiedInv(s)'
    BY <1>1, <1>2 DEF CopiedInv, Chance
  <1>6. TakenInv(s)' /\ PlacedInv(s)'
    BY <1>3, <1>4 DEF Ordered, TakenInv, PlacedInv
  <1>7. AheadInv(s)'
    <2>1. CASE UNCHANGED sendCh
      <3>1. EventFrames' = EventFrames
        BY <2>1, SameQueue
      <3>2. \A j : Given(s, j)' <=> Given(s, j)
        BY <1>3, <2>1, <3>1 DEF Given, Arrives, NoReset, Confused, Events
      <3> QED BY <2>1, <3>1, <3>2 DEF Ordered, AheadInv, Events
    <2>2. CASE Added("reset", ring)
      <3> SUFFICES ASSUME NEW j \in EventFrames', NEW t \in Events(j)', s < t
                   PROVE  Given(s, j)'
        BY DEF AheadInv
      <3>1. j \in EventFrames
        BY <2>2 DEF Added
      <3>2. j \in 1..Last /\ j \in Nat /\ j <= Last /\ sendCh'[j] = sendCh[j]
        BY <2>2, <3>1, QueueFacts DEF Added, Last
      <3>3. Given(s, j)
        BY <3>1, <3>2 DEF Ordered, AheadInv, Events
      <3> QED BY <1>3, <2>2, <3>2, <3>3, GivenStays
    <2> QED BY <2>1, <2>2, ResetQueue
  <1> QED BY <1>5, <1>6, <1>7 DEF Ordered



\* The hub takes the first frame: the events it brings below the watermark the hub
\* already has, the others it counts.
LEMMA OrderTake ==
  ASSUME IInv, HubReceive, NEW s \in Seqs, Ordered(s)
  PROVE  Ordered(s)'
  <1> USE DEF IInv, TypeInv, NumInv, MarkInv
  <1> DEFINE f     == sendCh[1]
             fresh == {t \in f.evs : t > hubLast}
  <1>1. Shifted /\ Head(sendCh) = f /\ f \in Frame /\ f.evs \in SUBSET Seqs
    <2>1. Shifted /\ Head(sendCh) = f /\ f \in Frame
      BY TakeQueue
    <2> QED BY <2>1 DEF Frame
  <1>2. pc' = pc /\ job' = job /\ UNCHANGED lastSent
    BY DEF HubReceive
  <1>3. /\ Last \in Nat \ {0} /\ Last' = Last - 1 /\ \A i \in 1..Last' : sendCh'[i] = sendCh[i + 1]
        /\ \A i \in Int : i \in EventFrames' <=> i >= 1 /\ i + 1 \in EventFrames
        /\ EventFrames \subseteq 1..Last
    BY <1>1, QueueFacts DEF Shifted, Last
  <1>4. InReplay(s)' <=> InReplay(s)
    BY <1>2 DEF InReplay
  <1>5. CopiedInv(s)'
    BY <1>2 DEF Ordered, CopiedInv
  <1>6. s \in Nat /\ hubLast \in Nat /\ s > 0
    BY ActorFacts DEF NumType, Seqs
  <1>7. \/ f.kind = "reset" /\ hubEpoch' = "none"
        \/ /\ f.kind # "reset" /\ hubLast' \in Raise(hubLast, f.evs)
           /\ hubEpoch' = (IF fresh = {} THEN hubEpoch ELSE "ours")
           /\ hubMine' = hubMine \cup fresh
           /\ mixed' = (mixed \/ (fresh # {} /\ hubEpoch = "old"))
    BY <1>1 DEF HubReceive
  <1> HIDE DEF f, fresh
  <1>8. hubEpoch \in Epochs /\ (hubEpoch = "none" => hubLast = 0)
    BY DEF DownType, HubMark
  <1>9. ASSUME f.kind # "reset"
        PROVE  /\ hubMine' = hubMine \cup fresh /\ (Confused => Confused')
               /\ (mixed => mixed') /\ (fresh # {} /\ hubEpoch = "old" => mixed')
               /\ (hubEpoch' = "ours" => hubEpoch = "ours" \/ fresh # {})
    BY <1>7, <1>9 DEF Confused
  \* What the first j + 1 frames brought, the first j and the hub have now.
  <1>10. ASSUME NEW j \in Nat, j <= Last', NEW n \in Nat, n = j + 1, Given(s, n)
         PROVE  Given(s, j)'
    <2>1. \A r \in 1..j : sendCh'[r] = sendCh[r + 1]
      BY <1>3, <1>10
    <2>2. ASSUME NEW x \in Nat \ {0}, NEW z, z = x + 1, NoReset(z, n)
          PROVE  NoReset(x, j)'
      <3>1. \A r \in x..j : r + 1 \in z..n /\ r \in 1..j
        BY <1>10, <2>2
      <3> QED BY <2>1, <2>2, <3>1 DEF NoReset
    <2>3. NoReset(1, n) => NoReset(2, n) /\ f.kind # "reset"
      BY <1>10 DEF NoReset, f
    <2>4. ASSUME NEW x \in EventFrames, x <= n, s \in Events(x), NEW z, z = x + 1, NoReset(z, n)
          PROVE  Given(s, j)'
      <3>1. CASE x = 1
        <4>1. f.kind # "reset" /\ s \in f.evs
          BY <2>4, <3>1 DEF EventFrames, Events, f
        <4>2. NoReset(1, j)'
          BY <2>2, <2>4, <3>1
        <4>3. s \in hubMine' \/ Confused'
          <5>1. CASE s > hubLast
            BY <1>9, <4>1, <5>1 DEF fresh
          <5>2. CASE ~(s > hubLast)
            <6>1. hubEpoch = "ours" /\ ~mixed => s \in hubMine
              BY <1>6, <5>2 DEF Ordered, TakenInv
            <6>2. hubEpoch # "none"
              BY <1>6, <1>8, <5>2
            <6>3. (hubEpoch = "ours" /\ ~mixed) \/ Confused
              BY <1>8, <6>2 DEF Confused, Epochs
            <6> QED BY <1>9, <4>1, <6>1, <6>3
          <5> QED BY <5>1, <5>2
        <4> QED BY <4>2, <4>3 DEF Given
      <3>2. CASE x # 1
        <4>1. PICK y \in Nat \ {0} : x = y + 1 /\ y <= j
          <5>1. x \in Nat /\ x >= 2 /\ x - 1 \in Nat \ {0} /\ x = (x - 1) + 1 /\ x - 1 <= j
            BY <1>3, <1>10, <2>4, <3>2
          <5> QED BY <5>1
        <4>2. y \in EventFrames' /\ sendCh'[y] = sendCh[x]
          BY <1>3, <1>10, <2>1, <4>1
        <4>3. PICK w \in Nat \ {0} : w = y + 1
          BY <4>1
        <4>4. NoReset(w, j)'
          BY <2>2, <2>4, <4>1, <4>3
        <4>5. Arrives(s, j)'
          BY <2>4, <4>1, <4>2, <4>3, <4>4 DEF Arrives, Events
        <4> QED BY <4>5 DEF Given
      <3> QED BY <3>1, <3>2
    <2>5. ASSUME NoReset(1, n), s \in hubMine \/ Confused
          PROVE  Given(s, j)'
      <3>1. NoReset(1, j)' /\ f.kind # "reset"
        BY <2>2, <2>3, <2>5
      <3> QED BY <1>9, <2>5, <3>1 DEF Given
    <2> QED BY <1>10, <2>4, <2>5 DEF Given, Arrives
  <1>11. AheadInv(s)'
    <2> SUFFICES ASSUME NEW j \in EventFrames', NEW t \in Events(j)', s < t
                 PROVE  Given(s, j)'
      BY DEF AheadInv
    <2>1. EventFrames' \subseteq 1..Last'
      BY QueueFacts, QueueTypeStep DEF EventFrames, Last
    <2>2. j \in Nat /\ j <= Last' /\ j + 1 \in EventFrames /\ j + 1 \in Nat /\ sendCh'[j] = sendCh[j + 1]
      BY <1>3, <2>1
    <2>3. Given(s, j + 1)
      BY <2>2 DEF Ordered, AheadInv, Events
    <2> QED BY <1>10, <2>2, <2>3
  <1>12. PlacedInv(s)'
    <2>1. PICK j \in Nat : j = Last'
      BY <1>3
    <2>2. PICK n \in Nat : n = Last /\ n = j + 1
      BY <1>3, <2>1
    <2>3. s <= lastSent => Given(s, n) \/ InReplay(s)
      BY <2>2 DEF Ordered, PlacedInv, Last
    <2>4. Given(s, n) => Given(s, j)'
      BY <1>10, <2>1, <2>2
    <2>5. s <= lastSent' => Given(s, j)' \/ InReplay(s)'
      BY <1>2, <1>4, <2>3, <2>4
    <2> QED BY <2>1, <2>5 DEF PlacedInv, Last
  <1>13. TakenInv(s)'
    <2> SUFFICES ASSUME hubEpoch' = "ours", ~mixed', s <= hubLast' PROVE s \in hubMine'
      BY DEF TakenInv
    <2>1. f.kind # "reset"
      BY <1>7
    <2>2. ~mixed /\ hubMine' = hubMine \cup fresh /\ hubLast' \in Raise(hubLast, f.evs)
      BY <1>7, <1>9, <2>1
    <2>3. \/ hubLast' = hubLast /\ fresh = {}
          \/ hubLast' \in f.evs /\ fresh # {}
      BY <1>1, <2>2, RaiseCases DEF NumType, fresh
    <2>4. CASE hubLast' = hubLast /\ fresh = {}
      BY <1>9, <2>1, <2>2, <2>4 DEF Ordered, TakenInv
    <2>5. CASE hubLast' \in f.evs /\ fresh # {}
      <3>1. hubEpoch # "old"
        BY <1>9, <2>1, <2>5
      <3>2. CASE s > hubLast /\ s \in f.evs
        BY <2>2, <3>2 DEF fresh
      <3>3. CASE ~(s > hubLast)
        <4>1. hubEpoch = "ours"
          BY <1>6, <1>8, <3>1, <3>3 DEF Epochs
        <4> QED BY <1>6, <2>2, <3>3, <4>1 DEF Ordered, TakenInv
      <3>4. CASE s \notin f.evs
        <4>1. 1 \in EventFrames /\ Events(1) = f.evs
          BY <1>3, <2>1 DEF EventFrames, Events, f, Last
        <4>2. s < hubLast'
          BY <1>1, <1>6, <2>5, <3>4 DEF Seqs
        <4>3. Given(s, 1)
          BY <2>5, <4>1, <4>2 DEF Ordered, AheadInv
        <4>4. ~Arrives(s, 1)
          BY <1>3, <3>4, <4>1 DEF Arrives
        <4> QED BY <2>2, <3>1, <4>3, <4>4 DEF Given, Confused
      <3> QED BY <3>2, <3>3, <3>4
    <2> QED BY <2>3, <2>4, <2>5
  <1> QED BY <1>5, <1>11, <1>12, <1>13 DEF Ordered

\* A new session: what was queued and is lost with the last one has had its chance.
LEMMA OrderSession ==
  ASSUME IInv, SessionStart, NEW s \in Seqs, Chance(s), Chance(s)', Ordered(s)
  PROVE  Ordered(s)'
  <1> USE DEF IInv, TypeInv, NumInv, MarkInv
  <1>1. /\ sendCh' = <<>> /\ UNCHANGED <<pc, job, lastSent, hubMine, hubEpoch, hubLast, mixed>>
        /\ fate'[s] = IF s \in Queued /\ (s > hubLast \/ fate[s] = "live") THEN "lost" ELSE fate[s]
    BY DEF SessionStart, hubVars
  <1>2. Len(sendCh') = 0 /\ EventFrames' = {}
    BY <1>1 DEF EventFrames
  <1>3. AheadInv(s)' /\ TakenInv(s)' /\ CopiedInv(s)' /\ (InReplay(s)' <=> InReplay(s))
    BY <1>1, <1>2 DEF Ordered, AheadInv, TakenInv, CopiedInv, InReplay
  <1>4. s \in Nat \ {0} /\ hubLast \in Nat
    BY ActorFacts DEF Seqs, NumType
  <1>5. ASSUME s \in Queued PROVE s \in hubMine \/ Confused
    <2>1. ~(s > hubLast)
      BY <1>1, <1>5 DEF Chance
    <2>2. hubEpoch \in Epochs /\ hubEpoch # "none"
      BY <1>4, <2>1 DEF DownType, HubMark
    <2> QED BY <1>4, <2>1, <2>2 DEF Ordered, TakenInv, Confused, Epochs
  <1>6. PICK n : n = Last
    OBVIOUS
  <1>7. Given(s, n) => s \in hubMine \/ Confused
    BY <1>5 DEF Given, Arrives, Queued, Events
  <1>8. PICK z \in Nat : z = 0
    OBVIOUS
  <1>9. s \in hubMine \/ Confused => Given(s, z)'
    BY <1>1, <1>8 DEF Given, NoReset, Confused
  <1>10. s <= lastSent' => Given(s, z)' \/ InReplay(s)'
    BY <1>1, <1>3, <1>6, <1>7, <1>9 DEF Ordered, PlacedInv, Last
  <1>11. PlacedInv(s)'
    BY <1>2, <1>8, <1>10 DEF PlacedInv
  <1> QED BY <1>3, <1>11 DEF Ordered

LEMMA OrderStep ==
  ASSUME IInv, Next
  PROVE  OrderInv'
  <1> USE DEF IInv, TypeInv, NumInv
  <1>1. TypeInv' /\ NumInv' /\ HubMark' /\ SeqInv'
    BY TypeStep, NumStep, HubMarkStep, SeqStep
  <1> SUFFICES ASSUME ~alienAck', NEW s \in Seqs, Chance(s)' PROVE Ordered(s)'
    BY DEF OrderInv
  <1>2. ~alienAck
    BY AlienStays
  <1>3. s \in Nat /\ lastSent \in Nat /\ lastSent' \in Nat /\ lastSent <= lastSent'
    BY <1>1, ActorFacts, SeqStep DEF Seqs, NumType
  <1>4. \A j \in EventFrames' : Events(j)' \subseteq Nat
    <2>1. sendCh' \in Seq(Frame)
      BY <1>1 DEF QueueType
    <2>2. \A f \in Frame : f.evs \subseteq Nat
      BY DEF Frame, Seqs
    <2>3. \A j \in 1..Len(sendCh') : sendCh'[j] \in Frame
      BY <2>1
    <2> QED BY <2>2, <2>3 DEF Events, EventFrames
  <1>5. CASE Flush /\ s \in pend
    <2>1. UNCHANGED lastSent /\ s > nextSeq
      BY <1>5 DEF Flush, SeqInv, NumType
    <2>2. s > lastSent'
      BY <1>3, <2>1 DEF SeqInv, NumType
    <2>3. \A a \in Actors : pc'[a] = "send" => \A t \in job'[a].todo : t <= nextSeq
      BY <1>5, FlushFacts, ActorFacts DEF Moves, Others, TodoInv
    <2>4. \A a \in Actors : pc'[a] = "send" => \A t \in job'[a].todo : s <= t => s \in job'[a].todo
      <3> SUFFICES ASSUME NEW a \in Actors, pc'[a] = "send", NEW t \in job'[a].todo, s <= t
                   PROVE  FALSE
        OBVIOUS
      <3>1. t \in Nat /\ t <= nextSeq /\ nextSeq \in Nat
        BY <1>1, <2>3, JobFacts, ActorFacts DEF JobType, Job, Seqs, NumType
      <3> QED BY <1>3, <2>1, <3>1
    <2> QED BY <1>1, <1>3, <1>4, <2>2, <2>4, OrderFresh
  <1>6. CASE Chance(s)
    <2>1. Ordered(s)
      BY <1>2, <1>6 DEF OrderInv
    <2>2. CASE EnqueueLive /\ ~UNCHANGED sendCh
      BY <1>6, <2>1, <2>2, OrderLive
    <2>3. ASSUME NEW a \in Actors, ReplayFrame(a) PROVE Ordered(s)'
      BY <1>3, <1>6, <2>1, <2>3, OrderReplay
    <2>4. ASSUME NEW k \in Readers, EnqueueReset(k) PROVE Ordered(s)'
      BY <1>6, <2>1, <2>4, OrderReset
    <2>5. CASE HubReceive
      BY <2>1, <2>5, OrderTake
    <2>6. CASE SessionStart
      BY <1>6, <2>1, <2>6, OrderSession
    <2>7. CASE HubRestart
      <3>1. fate'[s] = (IF s \in {t \in 1..lastSent : fate[t] # "dropped"} THEN "lost" ELSE fate[s])
        BY <2>7 DEF HubRestart, Mark
      <3>2. ~(s <= lastSent)
        BY <1>3, <3>1 DEF Chance, Seqs
      <3>3. UNCHANGED <<pc, job, lastSent>>
        BY <2>7 DEF HubRestart
      <3>4. \A a \in Actors : pc'[a] = "send" => \A t \in job'[a].todo : s <= t => s \in job'[a].todo
        BY <1>3, <2>1, <3>2, <3>3 DEF Ordered, CopiedInv
      <3> QED BY <1>1, <1>3, <1>4, <3>2, <3>3, <3>4, OrderFresh
    <2>8. ASSUME NEW a \in Actors, ReplayLock(a) PROVE Ordered(s)'
      <3>1. UNCHANGED <<sendCh, lastSent, hubMine, hubEpoch, hubLast, mixed>>
        BY <2>8 DEF ReplayLock, hubVars, history
      <3>2. lock = -1 /\ pc[a] = "lock" /\ pc'[a] = "send" /\ Others(a)
            /\ job'[a].todo = {t \in ring : t > job[a].after}
        BY <2>8, ReplayLockFacts DEF Moves
      <3>3. \A b \in Actors \ {a} : pc'[b] # "send"
        BY <3>2, NoReplayWhenFree DEF Others
      <3>4. ~InReplay(s)
        BY <3>2, NoReplayWhenFree DEF InReplay
      <3>5. CopiedInv(s)'
        <4>1. job[a].after <= lastSent /\ job[a].after \in Nat /\ s \in ring
          BY <1>2, <1>6, <3>2, JobFacts, ActorFacts DEF AnchorInv, StartInv, Chance
        <4> QED BY <1>3, <3>1, <3>2, <3>3, <4>1 DEF CopiedInv
      <3>6. EventFrames' = EventFrames /\ Len(sendCh') = Len(sendCh)
        BY <3>1, SameQueue DEF Last
      <3>7. \A j : Given(s, j)' <=> Given(s, j)
        BY <3>1, <3>6 DEF Given, Arrives, NoReset, Confused, Events
      <3>8. AheadInv(s)' /\ TakenInv(s)'
        BY <2>1, <3>1, <3>6, <3>7 DEF Ordered, AheadInv, TakenInv, Events
      <3>9. PlacedInv(s)'
        <4>1. PICK n : n = Len(sendCh)
          OBVIOUS
        <4>2. s <= lastSent' => Given(s, n)'
          BY <2>1, <3>1, <3>4, <3>7, <4>1 DEF Ordered, PlacedInv
        <4> QED BY <3>6, <4>1, <4>2 DEF PlacedInv
      <3> QED BY <3>5, <3>8, <3>9 DEF Ordered
    <2>9. ASSUME NEW a \in Actors, ReplayUnlock(a) PROVE Ordered(s)'
      <3>1. UNCHANGED <<sendCh, lastSent, hubMine, hubEpoch, hubLast, mixed>>
        BY <2>9 DEF ReplayUnlock, hubVars, history
      <3>2. pc[a] = "send" /\ job[a].todo = {} /\ pc'[a] # "send" /\ Others(a)
        BY <2>9, ReplayUnlockFacts, JobFacts DEF Moves
      <3>3. \A b \in Actors : pc'[b] # "send" /\ (pc[b] = "send" => job[b].todo = {})
        BY <3>2, OneReplay DEF Others
      <3>4. ~InReplay(s) /\ CopiedInv(s)'
        BY <3>3 DEF InReplay, CopiedInv
      <3>6. EventFrames' = EventFrames /\ Len(sendCh') = Len(sendCh)
        BY <3>1, SameQueue DEF Last
      <3>7. \A j : Given(s, j)' <=> Given(s, j)
        BY <3>1, <3>6 DEF Given, Arrives, NoReset, Confused, Events
      <3>8. AheadInv(s)' /\ TakenInv(s)'
        BY <2>1, <3>1, <3>6, <3>7 DEF Ordered, AheadInv, TakenInv, Events
      <3>9. PlacedInv(s)'
        <4>1. PICK n : n = Len(sendCh)
          OBVIOUS
        <4>2. s <= lastSent' => Given(s, n)'
          BY <2>1, <3>1, <3>4, <3>7, <4>1 DEF Ordered, PlacedInv
        <4> QED BY <3>6, <4>1, <4>2 DEF PlacedInv
      <3> QED BY <3>4, <3>8, <3>9 DEF Ordered
    <2>10. CASE /\ ReplayersKept
                /\ UNCHANGED <<sendCh, lastSent, hubMine, hubEpoch, hubLast, mixed>>
      BY <2>1, <2>10, OrderQuiet
    <2>11. ASSUME NEW k \in Readers, ResumeDone(k) PROVE UNCHANGED lastSent
      <3>1. /\ pc[k] = "ack"
            /\ lastSent' = IF cur[k].seq > lastSent THEN cur[k].seq ELSE lastSent
        BY <2>11 DEF ResumeDone
      <3>2. Honest(cur[k]) /\ cur[k].from \in {"none", "ours"} /\ cur[k].seq \in Nat
        BY <1>2, <3>1, DownFacts, ActorFacts DEF MarkInv, CurMark, AnchorInv, ResumeInv,
           Resuming, Epochs
      <3> QED BY <1>3, <3>1, <3>2 DEF Honest
    <2>12. CASE EnqueueLive /\ UNCHANGED sendCh
      <3>1. UNCHANGED <<hubMine, hubEpoch, hubLast, mixed>>
        BY <2>12 DEF EnqueueLive, hubVars
      <3>2. UNCHANGED lastSent
        BY <2>12, LiveQueue, QueueFacts DEF Added, Last
      <3>3. ReplayersKept
        BY <2>12, EnqueueLiveFacts, ActorFacts DEF ReplayersKept, Others, Moves
      <3> QED BY <2>10, <2>12, <3>1, <3>2, <3>3
    <2> QED BY <2>2, <2>3, <2>4, <2>5, <2>6, <2>7, <2>8, <2>9, <2>10, <2>11, <2>12,
               ReplayersStep, QueueStep, HubKept, SentKept DEF ReplayMoves
  <1> QED BY <1>5, <1>6, ChanceBefore


-----------------------------------------------------------------------------
(* The invariant *)

LEMMA IInvInit ==
  ASSUME Init
  PROVE  IInv
  <1>1. TypeInv /\ RingBounded
    BY TypeInit
  <1>2. /\ busSeq = 0 /\ pend = {} /\ nextSeq = 0 /\ ring = {} /\ lastSent = 0 /\ hubAck = 0
        /\ lock = -1 /\ sendCh = <<>> /\ down = <<>> /\ hubMine = {} /\ ~mixed /\ ~alienAck
        /\ \A a \in Actors : pc[a] = "idle" /\ job[a] = NoJob
        /\ \A k \in Readers : cur[k] = NoFrame
        /\ hubEpoch = (IF hubLast = 0 THEN "none" ELSE "old")
        /\ \A s \in Seqs : fate[s] = "none"
    BY DEF Init
  <1>3. Len(sendCh) = 0 /\ EventFrames = {} /\ Len(down) = 0
    BY <1>2 DEF EventFrames
  <1>4. Held
    BY <1>2, ActorFacts DEF Held
  <1>5. NumInv
    BY <1>2, <1>3, NoJobFacts DEF NumInv, SeqInv, TodoInv, SentInv, MineInv, LiveInv
  <1>6. MarkInv
    BY <1>2, <1>3, NoJobFacts DEF MarkInv, HubMark, DownMark, CurMark, Honest
  <1>7. AnchorInv
    BY <1>2, ActorFacts DEF AnchorInv, ResumeInv, Resuming, StartInv
  <1>8. ContigInv /\ ReplayContiguous /\ ResetHeadsReplay /\ ResetInv
    BY <1>2, <1>3 DEF ContigInv, ReplayContiguous, ResetHeadsReplay, ResetInv
  <1>9. OrderInv
    BY <1>2, ActorFacts DEF OrderInv, Chance
  <1> QED BY <1>1, <1>4, <1>5, <1>6, <1>7, <1>8, <1>9 DEF IInv

LEMMA IInvStep ==
  ASSUME IInv, Next
  PROVE  IInv'
  <1>1. TypeInv /\ RingBounded /\ Held /\ JobType /\ DownType
    BY DEF IInv, TypeInv
  <1>2. TypeInv' /\ RingBounded' /\ Held'
    BY <1>1, TypeStep, RingBoundedStep, HeldStep
  <1>3. MarkInv'
    BY HubMarkStep, DownMarkStep, CurMarkStep DEF MarkInv
  <1>4. AnchorInv'
    BY ResumeStep, StartStep DEF AnchorInv
  <1> QED BY <1>2, <1>3, <1>4, NumStep, ContigStep, ResetStep, OrderStep DEF IInv

LEMMA IInvStutter ==
  ASSUME IInv, UNCHANGED vars
  PROVE  IInv'
  <1> USE DEF vars, hostVars, linkVars, hubVars, history, IInv
  <1>1. TypeInv' /\ RingBounded' /\ Held'
    BY DEF TypeInv, NumType, SetType, FlagType, QueueType, DownType, JobType, RingBounded, Held
  <1>2. EventFrames' = EventFrames /\ Last' = Last
    BY SameQueue
  <1>3. NumInv' /\ MarkInv' /\ AnchorInv'
    BY <1>2 DEF NumInv, SeqInv, TodoInv, SentInv, MineInv, LiveInv, MarkInv, HubMark, DownMark,
         CurMark, Honest, AnchorInv, ResumeInv, Resuming, StartInv
  <1>4. ContigInv' /\ ReplayContiguous' /\ ResetHeadsReplay' /\ ResetInv'
    BY <1>2 DEF ContigInv, ReplayContiguous, ResetHeadsReplay, ResetInv, Events, InReplay
  <1>5. ReplayersKept
    BY DEF ReplayersKept
  <1>6. \A s : Chance(s)' <=> Chance(s)
    BY DEF Chance
  <1>7. OrderInv'
    BY <1>5, <1>6, OrderQuiet DEF OrderInv
  <1> QED BY <1>1, <1>3, <1>4, <1>7

\* The inductive invariant holds in every reachable state.
THEOREM InvariantHolds == Spec => []IInv
  <1>1. Init => IInv
    BY IInvInit
  <1>2. IInv /\ [Next]_vars => IInv'
    BY IInvStep, IInvStutter
  <1> QED BY <1>1, <1>2, PTL DEF Spec

\* Type correctness, the bound on the replay ring (client.go, seqAndReplay) included.
THEOREM TypeCorrect == Spec => []TypeOK
  <1>1. IInv => TypeOK
    BY DEF IInv, TypeInv, NumType, SetType, FlagType, QueueType, DownType, JobType, RingBounded,
           TypeOK
  <1> QED BY <1>1, InvariantHolds, PTL

\* A replay's frames stay together and in order, a reset is followed by what the ring held,
\* and only another process's watermark is reset, for any number of sessions, readers
\* that outlive theirs, and hub restarts (sendReplayAfter, handleHelloSeq).
THEOREM ReplaysKept == Spec => []ReplaysHold
  <1>1. IInv => NoResetOfOwnEpoch
    BY DEF IInv, AnchorInv, ResumeInv, NoResetOfOwnEpoch
  <1>2. IInv => ReplaysHold
    BY <1>1 DEF IInv, ReplaysHold
  <1> QED BY <1>2, InvariantHolds, PTL

LEMMA MarksOrdered ==
  ASSUME IInv
  PROVE  WatermarksOrdered
  BY DEF IInv, NumInv, SeqInv, SentInv, MarkInv, HubMark, WatermarksOrdered, Queued

LEMMA NotOvertaken ==
  ASSUME IInv
  PROVE  QueuedStays
  <1> SUFFICES ASSUME ~mixed, ~alienAck, NEW s \in Seqs, fate[s] = "live", Hole(s)
               PROVE  FALSE
    BY DEF QueuedStays
  <1>1. Chance(s)
    BY DEF Chance, Hole
  <1>2. TakenInv(s)
    BY <1>1 DEF IInv, OrderInv, Ordered
  <1> QED BY <1>2 DEF TakenInv, Hole



-----------------------------------------------------------------------------
(* Nothing is stranded at the end of the stream *)

LEMMA NeedKept ==
  ASSUME Next
  PROVE  \/ UNCHANGED needCatchUp
         \/ EnqueueLive
         \/ Heartbeat
         \/ (\E a \in Actors : ReplayFrame(a))
  <1>1. Publish \/ Flush \/ FlushGate \/ RepairDroppedEvents \/ SessionStart \/ SessionEnd \/
        HubReceive \/ HubSubscribers \/ HubNotify \/ HubPing \/ HubRestart
          => UNCHANGED needCatchUp
    BY DEF Publish, Flush, FlushGate, RepairDroppedEvents, SessionStart, SessionEnd,
            HubReceive, HubSubscribers, HubNotify, HubPing, HubRestart, hostVars, linkVars,
            hubVars, history
  <1>2. \A a \in Actors : ReplayLock(a) \/ ReplayUnlock(a)
          => UNCHANGED needCatchUp
    BY DEF ReplayLock, ReplayUnlock, hostVars, linkVars, hubVars, history
  <1>3. \A k \in Readers : Receive(k) \/ SetSubscribers(k) \/ CatchUp(k) \/ PingAck(k) \/
                           HelloSeq(k) \/ ResetLock(k) \/ EnqueueReset(k) \/ ResetDone(k) \/
                           ResumeDone(k)
          => UNCHANGED needCatchUp
    BY DEF Receive, SetSubscribers, CatchUp, PingAck, HelloSeq, ResetLock, EnqueueReset,
            ResetDone, ResumeDone, hostVars, linkVars, hubVars, history
  <1> QED BY NextCases, <1>1, <1>2, <1>3

LEMMA FreshStep ==
  ASSUME IInv, FreshInv, Next
  PROVE  FreshInv'
  <1> USE DEF IInv, TypeInv, NumInv
  <1>1. nextSeq \in Nat /\ nextSeq' \in Nat /\ nextSeq <= nextSeq' /\ lastSent \in Nat /\ lastSent <= nextSeq
    BY SeqStep, TypeStep, ActorFacts DEF NumType, SeqInv
  <1> SUFFICES ASSUME NEW s \in Seqs, s > nextSeq' PROVE fate'[s] = "none"
    BY DEF FreshInv
  <1>2. s \in Nat /\ s > nextSeq /\ s > lastSent /\ fate[s] = "none"
    BY <1>1 DEF FreshInv, Seqs
  <1>3. \A a \in Actors : s \notin job[a].todo
    BY <1>1, <1>2 DEF TodoInv
  <1>4. CASE EnqueueLive
    BY <1>2, <1>3, <1>4, LiveQueue, ActorFacts DEF Marked
  <1>5. ASSUME NEW a \in Actors, ReplayFrame(a) PROVE fate'[s] = "none"
    <2>1. PICK evs : (UNCHANGED fate \/ Marked(evs, "dropped")) /\ evs \subseteq job[a].todo
      BY <1>5, ReplayQueue DEF Sends
    <2> QED BY <1>2, <1>3, <2>1 DEF Marked
  <1>6. CASE SessionStart
    <2>1. s \notin Queued
      BY <1>1, <1>2 DEF SentInv, Queued
    <2> QED BY <1>2, <1>6, <2>1 DEF SessionStart
  <1>7. CASE HubRestart
    <2>1. s \notin 1..lastSent
      BY <1>1, <1>2
    <2> QED BY <1>2, <1>7, <2>1 DEF HubRestart, Mark
  <1> QED BY <1>2, <1>4, <1>5, <1>6, <1>7, FateKept

LEMMA BatchStep ==
  ASSUME IInv, FreshInv, BatchInv, Next
  PROVE  BatchInv'
  <1> USE DEF IInv, TypeInv, NumInv
  <1> SUFFICES ASSUME pc'[0] \in {"gate", "push"}, NEW s \in job'[0].todo, fate'[s] = "dropped"
               PROVE  needCatchUp'
    BY DEF BatchInv
  <1>1. CASE Flush
    <2>1. s \in pend /\ s \in Seqs /\ fate'[s] = fate[s]
      BY <1>1, FlushFacts DEF Flush, SetType, history
    <2>2. s > nextSeq
      BY <2>1 DEF SeqInv, NumType
    <2> QED BY <2>1, <2>2 DEF FreshInv
  <1>2. CASE pc[0] \in {"gate", "push"} /\ job'[0] = job[0]
    <2>1. s \in job[0].todo /\ s \in Seqs
      BY <1>2, JobFacts, ActorFacts
    <2>2. fate[s] = "dropped" => needCatchUp
      BY <1>2, <2>1 DEF BatchInv
    <2>3. ~EnqueueLive /\ ~Heartbeat
      BY <1>2, EnqueueLiveFacts, HeartbeatFacts DEF Moves
    <2>4. ASSUME NEW a \in Actors, ReplayFrame(a) PROVE needCatchUp'
      <3>1. PICK evs : \/ UNCHANGED <<fate, needCatchUp>>
                       \/ needCatchUp'
        BY <2>4, ReplayQueue
      <3> QED BY <2>2, <3>1
    <2>5. SessionStart => fate'[s] \in {fate[s], "lost"}
      BY <2>1 DEF SessionStart
    <2>6. HubRestart => fate'[s] \in {fate[s], "lost"}
      BY <2>1 DEF HubRestart, Mark
    <2> QED BY <2>2, <2>3, <2>4, <2>5, <2>6, NeedKept, FateKept
  <1> QED BY <1>1, <1>2, BatchKept

\* Between the generation gate and the flag there is only the session's own reader.
LEMMA GateStep ==
  ASSUME IInv, GateInv, "set" \notin StalePcs, Next
  PROVE  GateInv'
  <1> USE DEF IInv, TypeInv
  <1>1. CASE Flush
    <2>1. UNCHANGED <<up, sess, cur, fwdOn>> /\ Others(0)
      BY <1>1, FlushFacts DEF Flush, linkVars
    <2> QED BY <2>1, ActorFacts DEF GateInv, Others
  <1>2. CASE FlushGate
    <2>1. UNCHANGED <<up, sess, cur, fwdOn>> /\ Others(0)
      BY <1>2, FlushGateFacts DEF FlushGate, linkVars
    <2> QED BY <2>1, ActorFacts DEF GateInv, Others
  <1>3. CASE EnqueueLive
    <2>1. UNCHANGED <<up, sess, cur, fwdOn>> /\ Others(0)
      BY <1>3, EnqueueLiveFacts DEF EnqueueLive, linkVars
    <2> QED BY <2>1, ActorFacts DEF GateInv, Others
  <1>4. CASE Heartbeat
    <2>1. UNCHANGED <<up, sess, cur, fwdOn>> /\ Others(0)
      BY <1>4, HeartbeatFacts DEF Heartbeat, linkVars
    <2> QED BY <2>1, ActorFacts DEF GateInv, Others
  <1>5. CASE RepairDroppedEvents
    <2>1. UNCHANGED <<up, sess, cur, fwdOn>> /\ Others(0)
      BY <1>5, RepairFacts DEF RepairDroppedEvents, linkVars
    <2> QED BY <2>1, ActorFacts DEF GateInv, Others
  <1>6. ASSUME NEW a \in Actors, ReplayLock(a) PROVE GateInv'
    <2>1. UNCHANGED <<up, sess, cur, fwdOn>> /\ Others(a) /\ pc'[a] # "set"
      BY <1>6, ReplayLockFacts, JobFacts DEF ReplayLock, Moves, linkVars
    <2> QED BY <2>1, ActorFacts DEF GateInv, Others
  <1>7. ASSUME NEW a \in Actors, ReplayFrame(a) PROVE GateInv'
    <2>1. UNCHANGED <<up, sess, cur, fwdOn>> /\ Others(a) /\ pc'[a] # "set"
      BY <1>7, ReplayFrameFacts, JobFacts DEF ReplayFrame, Moves, linkVars
    <2> QED BY <2>1, ActorFacts DEF GateInv, Others
  <1>8. ASSUME NEW a \in Actors, ReplayUnlock(a) PROVE GateInv'
    <2>1. UNCHANGED <<up, sess, cur, fwdOn>> /\ Others(a) /\ pc'[a] # "set"
      BY <1>8, ReplayUnlockFacts, JobFacts DEF ReplayUnlock, Moves, linkVars
    <2> QED BY <2>1, ActorFacts DEF GateInv, Others
  <1>9. ASSUME NEW k \in Readers, Receive(k) PROVE GateInv'
    <2>1. /\ UNCHANGED <<up, sess, fwdOn>> /\ Others(k) /\ sess = k
          /\ \A r \in Readers \ {k} : cur'[r] = cur[r]
          /\ pc'[k] = "set" => job'[k].then = "seq" \/ fwdOn \/ Head(down).count = 0
          /\ cur'[k] = Head(down)
      BY <1>9, ReceiveFacts DEF Receive, Moves
    <2> QED BY <2>1, ActorFacts DEF GateInv, Others
  <1>10. ASSUME NEW k \in Readers, SetSubscribers(k) PROVE GateInv'
    <2>1. UNCHANGED <<up, sess, cur>> /\ Others(k) /\ pc[k] = "set" /\ pc'[k] # "set"
      BY <1>10, SetSubscribersFacts DEF SetSubscribers, Moves, linkVars
    <2> QED BY <2>1, ActorFacts DEF GateInv, Others
  <1>11. ASSUME NEW k \in Readers, CatchUp(k) PROVE GateInv'
    <2>1. UNCHANGED <<up, sess, fwdOn>> /\ Others(k) /\ pc'[k] # "set"
          /\ \A r \in Readers \ {k} : cur'[r] = cur[r]
      BY <1>11, CatchUpFacts DEF CatchUp, Moves, linkVars
    <2> QED BY <2>1, ActorFacts DEF GateInv, Others
  <1>12. ASSUME NEW k \in Readers, PingAck(k) PROVE GateInv'
    <2>1. UNCHANGED <<up, sess, fwdOn>> /\ Others(k) /\ pc'[k] # "set"
          /\ \A r \in Readers \ {k} : cur'[r] = cur[r]
      BY <1>12, HandledFacts DEF PingAck, Moves, linkVars
    <2> QED BY <2>1, ActorFacts DEF GateInv, Others
  <1>13. ASSUME NEW k \in Readers, HelloSeq(k) PROVE GateInv'
    <2>1. UNCHANGED <<up, sess, fwdOn>> /\ Others(k) /\ pc'[k] # "set"
          /\ \A r \in Readers \ {k} : cur'[r] = cur[r]
      BY <1>13, HelloSeqFacts DEF HelloSeq, Moves, linkVars
    <2> QED BY <2>1, ActorFacts DEF GateInv, Others
  <1>14. ASSUME NEW k \in Readers, ResetLock(k) PROVE GateInv'
    <2>1. UNCHANGED <<up, sess, fwdOn>> /\ Others(k) /\ pc'[k] # "set"
          /\ \A r \in Readers \ {k} : cur'[r] = cur[r]
      BY <1>14, ResetLockFacts DEF ResetLock, Moves, linkVars
    <2> QED BY <2>1, ActorFacts DEF GateInv, Others
  <1>15. ASSUME NEW k \in Readers, EnqueueReset(k) PROVE GateInv'
    <2>1. UNCHANGED <<up, sess, fwdOn>> /\ Others(k) /\ pc'[k] # "set"
          /\ \A r \in Readers \ {k} : cur'[r] = cur[r]
      BY <1>15, EnqueueResetFacts DEF EnqueueReset, Moves, linkVars
    <2> QED BY <2>1, ActorFacts DEF GateInv, Others
  <1>16. ASSUME NEW k \in Readers, ResetDone(k) PROVE GateInv'
    <2>1. UNCHANGED <<up, sess, fwdOn>> /\ Others(k) /\ pc'[k] # "set"
          /\ \A r \in Readers \ {k} : cur'[r] = cur[r]
      BY <1>16, HandledFacts DEF ResetDone, Moves, linkVars
    <2> QED BY <2>1, ActorFacts DEF GateInv, Others
  <1>17. ASSUME NEW k \in Readers, ResumeDone(k) PROVE GateInv'
    <2>1. UNCHANGED <<up, sess, fwdOn>> /\ Others(k) /\ pc'[k] # "set"
          /\ \A r \in Readers \ {k} : cur'[r] = cur[r]
      BY <1>17, HandledFacts DEF ResumeDone, Moves, linkVars
    <2> QED BY <2>1, ActorFacts DEF GateInv, Others
  <1>18. CASE SessionStart
    BY <1>18, ActorFacts DEF GateInv, SessionStart
  <1>19. CASE SessionEnd
    BY <1>19 DEF GateInv, SessionEnd, Disconnect
  <1>20. CASE HubRestart
    BY <1>20 DEF GateInv, HubRestart, Disconnect
  <1>21. CASE UNCHANGED <<up, sess, pc, job, cur, fwdOn>>
    BY <1>21 DEF GateInv
  <1>22. Publish \/ HubReceive \/ HubSubscribers \/ HubNotify \/ HubPing
          => UNCHANGED <<up, sess, pc, job, cur, fwdOn>>
    BY DEF Publish, HubReceive, HubSubscribers, HubNotify, HubPing, hostVars, linkVars,
            hubVars, history
  <1> QED BY NextCases, <1>1, <1>2, <1>3, <1>4, <1>5, <1>6, <1>7, <1>8, <1>9, <1>10, <1>11,
           <1>12, <1>13, <1>14, <1>15, <1>16, <1>17, <1>18, <1>19, <1>20, <1>21, <1>22


\* The generations are numbers.
LEMMA GenFacts ==
  ASSUME TypeInv
  PROVE  /\ gen \in Nat /\ subsGen \in Nat /\ seen \in Nat
         /\ down \in Seq(Down) /\ Len(down) \in Nat
         /\ \A i \in 1..Len(down) : down[i] \in Down /\ down[i].gen \in Nat
  <1>1. gen \in Nat /\ subsGen \in Nat /\ seen \in Nat
    BY ActorFacts DEF TypeInv, NumType
  <1>2. \A f \in Down : f.gen \in Nat
    BY ActorFacts DEF Down
  <1> QED BY <1>1, <1>2, DownFacts DEF TypeInv, DownType

\* A step that leaves the counts alone, and of the readers moves none to the flag or on
\* from it.
LEMMA CountKept ==
  ASSUME CountInv, UNCHANGED <<up, seen, fwdOn, subsGen, gen, notif, down>>,
         \A r \in Readers : pc'[r] = "set" <=> pc[r] = "set",
         \A r \in Readers : pc[r] = "set" => cur'[r] = cur[r]
  PROVE  CountInv'
  BY DEF CountInv, FlagOfNewest

\* A count that comes after a newer one is passed over.
LEMMA CountReceived ==
  ASSUME IInv, GateInv, CountInv, NEW k \in Readers, Receive(k)
  PROVE  CountInv'
  <1> USE DEF IInv, TypeInv
  <1> DEFINE f == Head(down)
  <1>1. /\ pc[k] = "idle" /\ pc'[k] \in {"seq", "set"} /\ up /\ up' /\ Others(k) /\ sess = k
        /\ \A r \in Readers \ {k} : cur'[r] = cur[r]
        /\ cur'[k] = f /\ UNCHANGED <<fwdOn, gen, notif>>
    BY ReceiveFacts DEF Receive, Moves, hubVars
  <1>2. /\ down \in Seq(Down) /\ down # <<>> /\ down' = Tail(down) /\ f = down[1]
        /\ Len(down) \in Nat \ {0} /\ Len(down') = Len(down) - 1
        /\ \A i \in 1..Len(down') : i + 1 \in 1..Len(down) /\ down'[i] = down[i+1]
    BY ReceiveFacts DEF DownType
  <1>3. /\ f \in Down /\ f.gen \in Nat /\ subsGen \in Nat /\ gen \in Nat
        /\ \A i \in 1..Len(down) : down[i].gen \in Nat
    BY <1>2, GenFacts
  <1>4. /\ f.gen <= gen /\ (f.gen > 0 => f.count = f.gen % 2) /\ (f.gen = 0 => subsGen = 0)
    <2>1. 1 \in 1..Len(down)
      BY <1>2
    <2> QED BY <1>1, <1>2, <2>1 DEF CountInv
  <1>5. \A i \in 1..Len(down') :
          /\ down'[i].gen <= gen /\ (down'[i].gen > 0 => down'[i].count = down'[i].gen % 2)
          /\ down'[i].gen = 0 => f.gen = 0 /\ subsGen = 0 /\ \A j \in 1..i : down'[j].gen = 0
    <2> SUFFICES ASSUME NEW i \in 1..Len(down')
                 PROVE  /\ down'[i].gen <= gen /\ (down'[i].gen > 0 => down'[i].count = down'[i].gen % 2)
                        /\ down'[i].gen = 0 => f.gen = 0 /\ subsGen = 0 /\ \A j \in 1..i : down'[j].gen = 0
      OBVIOUS
    <2>1. /\ i + 1 \in 1..Len(down) /\ down'[i] = down[i+1] /\ 1 \in 1..(i+1)
          /\ \A j \in 1..i : j + 1 \in 1..(i+1) /\ down'[j] = down[j+1]
      BY <1>2
    <2>2. /\ down[i+1].gen <= gen /\ (down[i+1].gen > 0 => down[i+1].count = down[i+1].gen % 2)
          /\ down[i+1].gen = 0 => subsGen = 0 /\ \A j \in 1..(i+1) : down[j].gen = 0
      BY <1>1, <2>1 DEF CountInv
    <2> QED BY <1>2, <2>1, <2>2
  <1>6. \A r \in Readers : pc[r] # "set"
    BY <1>1 DEF GateInv
  <1>7. seen = subsGen /\ seen' = IF f.gen > seen THEN f.gen ELSE seen
    BY <1>1 DEF Receive, CountInv
  <1>8. CASE pc'[k] = "seq"
    <2>0. Superseded(f)
      BY <1>8, ActorFacts DEF Receive, Goto, JobType
    <2>1. subsGen' = subsGen /\ seen' = seen
      BY <1>3, <1>8, <1>7, <2>0, ReceiveFacts, ActorFacts DEF Moves, Superseded
    <2>2. \A r \in Readers : pc'[r] # "set"
      BY <1>1, <1>6, <1>8, ActorFacts DEF Others
    <2> QED BY <1>1, <1>5, <1>6, <1>7, <2>1, <2>2 DEF CountInv, FlagOfNewest
  <1>9. CASE pc'[k] = "set"
    <2>1. subsGen' = IF f.gen > 0 THEN f.gen ELSE subsGen
      BY <1>9, ActorFacts DEF Receive, Goto, JobType
    <2>0. ~Superseded(f)
      BY <1>9, ActorFacts DEF Receive, Goto, JobType
    <2>2. subsGen' = f.gen /\ seen' = f.gen
      BY <1>3, <1>4, <1>7, <2>0, <2>1 DEF Superseded
    <2>3. \A r \in Readers : pc'[r] = "set" => r = k
      BY <1>1, <1>6, ActorFacts DEF Others
    <2>4. FlagOfNewest'
      BY <1>9 DEF FlagOfNewest
    <2>5. \A i \in 1..Len(down') :
            /\ down'[i].gen <= gen' /\ (down'[i].gen > 0 => down'[i].count = down'[i].gen % 2)
            /\ down'[i].gen = 0 => subsGen' = 0 /\ \A j \in 1..i : down'[j].gen = 0
      BY <1>1, <1>5, <2>2
    <2>6. notif' \subseteq 1..gen' /\ subsGen' <= gen'
      BY <1>1, <1>4, <2>2 DEF CountInv
    <2>7. \A r \in Readers :
            pc'[r] = "set" => cur'[r].gen = subsGen' /\ (subsGen' > 0 => cur'[r].count = subsGen' % 2)
      BY <1>1, <1>4, <2>2, <2>3
    <2> QED BY <1>1, <2>2, <2>4, <2>5, <2>6, <2>7 DEF CountInv
  <1> QED BY <1>1, <1>8, <1>9

\* What the hub sends carries the generation it has reached, or one of a goroutine it
\* started earlier.
LEMMA CountSent ==
  ASSUME IInv, CountInv, HubNotify \/ HubPing
  PROVE  CountInv'
  <1> USE DEF IInv, TypeInv
  <1>1. UNCHANGED <<up, seen, fwdOn, subsGen, gen, pc, cur>> /\ notif' \subseteq notif
    BY DEF HubNotify, HubPing, hostVars, hubVars
  <1>2. /\ down \in Seq(Down) /\ gen \in Nat /\ subsGen \in Nat /\ Len(down) \in Nat
        /\ \A i \in 1..Len(down) : down[i].gen \in Nat
    BY GenFacts
  <1>3. CASE down' = down
    BY <1>1, <1>3 DEF CountInv, FlagOfNewest
  <1>4. ASSUME NEW f, f.gen \in Nat, f.gen <= gen, f.gen = 0 => gen = 0, f.count = f.gen % 2, up,
               down' = Append(down, f)
        PROVE  CountInv'
    <2>1. /\ Len(down') = Len(down) + 1 /\ down'[Len(down')] = f
          /\ \A i \in 1..Len(down) : down'[i] = down[i]
      BY <1>2, <1>4
    <2>2. \A i \in 1..Len(down') : i \in 1..Len(down) \/ i = Len(down')
      BY <1>2, <2>1
    <2>3. gen = 0 => subsGen = 0 /\ \A i \in 1..Len(down) : down[i].gen = 0
      BY <1>2, <1>4 DEF CountInv
    <2>4. ASSUME NEW i \in 1..Len(down')
          PROVE  /\ down'[i].gen <= gen /\ (down'[i].gen > 0 => down'[i].count = down'[i].gen % 2)
                 /\ down'[i].gen = 0 => subsGen = 0 /\ \A j \in 1..i : down'[j].gen = 0
      <3>1. CASE i \in 1..Len(down)
        <4>1. \A j \in 1..i : j \in 1..Len(down) /\ down'[j] = down[j]
          BY <1>2, <2>1, <3>1
        <4> QED BY <1>4, <2>1, <3>1, <4>1 DEF CountInv
      <3>2. CASE i = Len(down')
        <4>1. f.gen = 0 => \A j \in 1..Len(down') : down'[j].gen = 0
          BY <1>4, <2>1, <2>2, <2>3
        <4> QED BY <1>4, <2>1, <2>3, <3>2, <4>1
      <3> QED BY <2>2, <3>1, <3>2
    <2> QED BY <1>1, <2>4 DEF CountInv, FlagOfNewest
  <1>5. CASE HubPing
    <2> DEFINE f == [kind |-> "ping", count |-> gen % 2, gen |-> gen, seq |-> hubLast, from |-> hubEpoch]
    <2>1. up /\ down' = Append(down, f) /\ f.gen = gen /\ f.count = gen % 2
      BY <1>5 DEF HubPing
    <2> HIDE DEF f
    <2> QED BY <1>2, <1>4, <2>1
  <1>6. CASE HubNotify
    <2>1. PICK g \in notif :
            \/ up /\ down' = Append(down, [kind |-> "subs", count |-> g % 2, gen |-> g, seq |-> 0, from |-> "none"])
            \/ down' = down
      BY <1>6 DEF HubNotify
    <2> DEFINE f == [kind |-> "subs", count |-> g % 2, gen |-> g, seq |-> 0, from |-> "none"]
    <2>2. g \in 1..gen /\ f.gen = g /\ f.count = g % 2
      BY DEF CountInv
    <2>3. g \in Nat /\ g <= gen /\ g # 0
      BY <1>2, <2>2
    <2>4. down' = down \/ (up /\ down' = Append(down, f))
      BY <2>1
    <2> HIDE DEF f
    <2> QED BY <1>3, <1>4, <2>2, <2>3, <2>4
  <1> QED BY <1>5, <1>6

\* The flag follows the newest count.
LEMMA CountStep ==
  ASSUME IInv, GateInv, CountInv, "set" \notin StalePcs, Next
  PROVE  CountInv'
  <1> USE DEF IInv, TypeInv
  <1>1. CASE Flush \/ FlushGate \/ EnqueueLive \/ Heartbeat \/ RepairDroppedEvents
    <2>1. UNCHANGED <<up, seen, fwdOn, subsGen, gen, notif, down, cur>>
      BY <1>1 DEF Flush, FlushGate, EnqueueLive, Heartbeat, RepairDroppedEvents, linkVars, hubVars
    <2>2. Others(0)
      BY <1>1, FlushFacts, FlushGateFacts, EnqueueLiveFacts, HeartbeatFacts, RepairFacts
    <2>3. \A r \in Readers : pc'[r] = pc[r]
      BY <2>2, ActorFacts DEF Others
    <2> QED BY <2>1, <2>3, CountKept
  <1>2. ASSUME NEW a \in Actors, ReplayLock(a) \/ ReplayFrame(a) \/ ReplayUnlock(a) PROVE CountInv'
    <2>1. UNCHANGED <<up, seen, fwdOn, subsGen, gen, notif, down, cur>>
      BY <1>2 DEF ReplayLock, ReplayFrame, ReplayUnlock, linkVars, hubVars
    <2>2. Others(a) /\ pc[a] # "set" /\ pc'[a] # "set"
      BY <1>2, ReplayLockFacts, ReplayFrameFacts, ReplayUnlockFacts, JobFacts DEF Moves
    <2>3. \A r \in Readers : pc'[r] = "set" <=> pc[r] = "set"
      BY <2>2, ActorFacts DEF Others
    <2> QED BY <2>1, <2>3, CountKept
  <1>3. ASSUME NEW k \in Readers,
               \/ CatchUp(k) \/ PingAck(k) \/ HelloSeq(k) \/ ResetLock(k) \/ EnqueueReset(k)
               \/ ResetDone(k) \/ ResumeDone(k)
        PROVE  CountInv'
    <2>1. UNCHANGED <<up, seen, fwdOn, subsGen, gen, notif, down>>
      BY <1>3 DEF CatchUp, PingAck, HelloSeq, ResetLock, EnqueueReset, ResetDone, ResumeDone, linkVars, hubVars
    <2>2. Others(k) /\ pc[k] # "set" /\ pc'[k] # "set" /\ \A r \in Readers \ {k} : cur'[r] = cur[r]
      <3>1. CASE PingAck(k) \/ ResetDone(k) \/ ResumeDone(k)
        BY <3>1, HandledFacts DEF PingAck, ResetDone, ResumeDone, Moves
      <3>2. CASE CatchUp(k) \/ ResetLock(k)
        BY <3>2, CatchUpFacts, ResetLockFacts DEF CatchUp, ResetLock, Moves
      <3>3. CASE HelloSeq(k) \/ EnqueueReset(k)
        BY <3>3, HelloSeqFacts, EnqueueResetFacts DEF HelloSeq, EnqueueReset, Moves
      <3> QED BY <1>3, <3>1, <3>2, <3>3
    <2>3. \A r \in Readers : pc'[r] = "set" <=> pc[r] = "set"
      BY <2>2, ActorFacts DEF Others
    <2> QED BY <2>1, <2>2, <2>3, CountKept
  <1>4. ASSUME NEW k \in Readers, SetSubscribers(k) PROVE CountInv'
    <2>1. /\ UNCHANGED <<up, seen, subsGen, gen, notif, down, cur>> /\ pc[k] = "set" /\ pc'[k] # "set"
          /\ Others(k) /\ fwdOn' = (cur[k].count > 0)
      BY <1>4, SetSubscribersFacts DEF SetSubscribers, Moves, linkVars, hubVars
    <2>2. up => \A r \in Readers : pc'[r] # "set"
      BY <2>1, ActorFacts DEF GateInv, Others
    <2>3. cur[k].count \in 0..1
      BY DEF DownType, Down
    <2>4. up /\ subsGen > 0 => fwdOn' = (subsGen % 2 = 1)
      <3>1. up /\ subsGen > 0 => cur[k].count = subsGen % 2
        BY <2>1 DEF CountInv
      <3>2. (cur[k].count > 0) = (cur[k].count = 1)
        BY <2>3
      <3> QED BY <2>1, <3>1, <3>2
    <2> QED BY <2>1, <2>2, <2>4 DEF CountInv, FlagOfNewest
  <1>5. CASE SessionStart
    <2>1. /\ up' /\ subsGen' = 0 /\ seen' = 0 /\ Len(down') = 1 /\ down'[1].gen = 0
          /\ UNCHANGED <<gen, notif, pc>> /\ \A r \in Readers : pc[r] # "set"
      BY <1>5 DEF SessionStart, SessionGen, hubVars
    <2>2. gen \in Nat
      BY ActorFacts DEF NumType
    <2> QED BY <2>1, <2>2 DEF CountInv, FlagOfNewest
  <1>6. CASE SessionEnd
    BY <1>6 DEF CountInv, SessionEnd, Disconnect, hubVars
  <1>7. CASE HubRestart
    BY <1>7 DEF CountInv, HubRestart, Disconnect
  <1>8. CASE Publish \/ HubReceive
    <2>1. UNCHANGED <<up, seen, fwdOn, subsGen, gen, notif, down, pc, cur>>
      BY <1>8 DEF Publish, HubReceive, linkVars, hubVars
    <2> QED BY <2>1, CountKept
  <1>9. CASE HubSubscribers
    <2>1. UNCHANGED <<up, seen, fwdOn, subsGen, down, pc, cur>> /\ gen' = gen + 1 /\ notif' = notif \cup {gen + 1}
      BY <1>9 DEF HubSubscribers, hostVars, linkVars
    <2>2. gen \in Nat /\ subsGen \in Nat /\ \A i \in 1..Len(down) : down[i].gen \in Nat
      BY GenFacts
    <2> QED BY <2>1, <2>2 DEF CountInv, FlagOfNewest
  <1> QED BY NextCases, CountReceived, CountSent, <1>1, <1>2, <1>3, <1>4, <1>5, <1>6, <1>7, <1>8, <1>9

LEMMA ExcuseKept ==
  ASSUME Next
  PROVE  \/ UNCHANGED <<needCatchUp, fate, fwdOn, up, down>>
         \/ EnqueueLive
         \/ Heartbeat
         \/ (\E a \in Actors : ReplayFrame(a))
         \/ (\E k \in Readers : Receive(k))
         \/ (\E k \in Readers : SetSubscribers(k))
         \/ SessionStart
         \/ SessionEnd
         \/ HubNotify
         \/ HubPing
         \/ HubRestart
  <1>1. Publish \/ Flush \/ FlushGate \/ RepairDroppedEvents \/ HubReceive \/ HubSubscribers
          => UNCHANGED <<needCatchUp, fate, fwdOn, up, down>>
    BY DEF Publish, Flush, FlushGate, RepairDroppedEvents, HubReceive, HubSubscribers,
            hostVars, linkVars, hubVars, history
  <1>2. \A a \in Actors : ReplayLock(a) \/ ReplayUnlock(a)
          => UNCHANGED <<needCatchUp, fate, fwdOn, up, down>>
    BY DEF ReplayLock, ReplayUnlock, hostVars, linkVars, hubVars, history
  <1>3. \A k \in Readers : CatchUp(k) \/ PingAck(k) \/ HelloSeq(k) \/ ResetLock(k) \/
                           EnqueueReset(k) \/ ResetDone(k) \/ ResumeDone(k)
          => UNCHANGED <<needCatchUp, fate, fwdOn, up, down>>
    BY DEF CatchUp, PingAck, HelloSeq, ResetLock, EnqueueReset, ResetDone, ResumeDone,
            hostVars, linkVars, hubVars, history
  <1> QED BY NextCases, <1>1, <1>2, <1>3

\* An excuse lasts, but for the steps that take it up.
LEMMA ExcusedStays ==
  ASSUME IInv, Next, NEW s \in Seqs, Excused(s)
  PROVE  \/ Excused(s)' \/ Heartbeat \/ (\E k \in Readers : Receive(k) \/ SetSubscribers(k))
         \/ SessionStart
  <1> USE DEF IInv, TypeInv
  <1>1. CASE UNCHANGED <<needCatchUp, fate, fwdOn, up, down>>
    BY <1>1 DEF Excused, HelloPending
  <1>2. CASE EnqueueLive
    <2>1. UNCHANGED <<fwdOn, up, down>>
      BY <1>2 DEF EnqueueLive, linkVars
    <2>2. (needCatchUp => needCatchUp') /\ (fate[s] = "sunk" => fate'[s] = "sunk" \/ needCatchUp')
      BY <1>2, LiveQueue DEF Marked
    <2> QED BY <2>1, <2>2 DEF Excused, HelloPending
  <1>3. ASSUME NEW a \in Actors, ReplayFrame(a) PROVE Excused(s)'
    <2>1. UNCHANGED <<fwdOn, up, down>>
      BY <1>3 DEF ReplayFrame, linkVars
    <2>2. PICK evs : \/ UNCHANGED <<fate, needCatchUp>>
                     \/ UNCHANGED needCatchUp /\ UNCHANGED fate
                     \/ needCatchUp'
      BY <1>3, ReplayQueue
    <2> QED BY <2>1, <2>2 DEF Excused, HelloPending
  <1>4. CASE SessionEnd \/ HubRestart
    BY <1>4 DEF Excused, SessionEnd, HubRestart, Disconnect
  <1>5. CASE HubNotify \/ HubPing
    <2>1. UNCHANGED <<needCatchUp, fate, fwdOn, up>>
      BY <1>5 DEF HubNotify, HubPing, hostVars, history
    <2>2. PICK f : UNCHANGED down \/ down' = Append(down, f)
      BY <1>5 DEF HubNotify, HubPing
    <2>3. HelloPending => HelloPending'
      BY <2>2 DEF HelloPending, DownType
    <2> QED BY <2>1, <2>3 DEF Excused
  <1> QED BY <1>1, <1>2, <1>3, <1>4, <1>5, ExcuseKept

\* What another actor is about to do is not disturbed.
LEMMA BringsStays ==
  ASSUME NEW a \in Actors, Others(a), \A r \in Readers \ {a} : cur'[r] = cur[r],
         NEW s, NEW b \in Actors, b # a, Brings(b, s)
  PROVE  Awaited(s)'
  <1>1. pc'[b] = pc[b] /\ job'[b] = job[b] /\ (b # 0 => cur'[b] = cur[b])
    BY ActorFacts DEF Others
  <1>2. Brings(b, s)'
    BY <1>1 DEF Brings
  <1> QED BY <1>2 DEF Awaited

LEMMA TailStep ==
  ASSUME IInv, RestInv, Next
  PROVE  TailInv'
  <1> USE DEF IInv, TypeInv, NumInv, RestInv
  <1> SUFFICES ASSUME ~alienAck', NEW s \in ring', s > lastSent' PROVE Awaited(s)'
    BY DEF TailInv
  <1>1. ~alienAck
    BY AlienStays
  <1>2. /\ s \in Seqs /\ s \in Nat /\ lastSent \in Nat /\ lastSent' \in Nat /\ s > lastSent
        /\ s # 0
    BY SMTT(30), TypeStep, SeqStep, ActorFacts DEF NumType, SetType, Seqs
  <1>3. CASE Flush /\ s \in pend
    <2>1. Brings(0, s)'
      BY <1>3, FlushFacts DEF Brings, Moves
    <2> QED BY <2>1, ActorFacts DEF Awaited
  <1>4. CASE s \in ring
    <2>1. Excused(s) \/ \E a \in Actors : Brings(a, s)
      BY <1>1, <1>2, <1>4 DEF TailInv, Awaited
    <2>2. ASSUME NEW a \in Actors, Brings(a, s), UNCHANGED <<pc, job, cur>>
          PROVE  Awaited(s)'
      <3>1. Brings(a, s)'
        BY <2>2 DEF Brings
      <3> QED BY <3>1 DEF Awaited
    <2>3. CASE SessionStart
      <3>1. /\ UNCHANGED <<pc, job, cur>>
            /\ down' = <<[kind |-> "hello", count |-> gen % 2, gen |-> 0, seq |-> hubLast, from |-> hubEpoch]>>
        BY <2>3 DEF SessionStart
      <3>2. HelloPending'
        BY <3>1 DEF HelloPending
      <3> QED BY <3>2 DEF Awaited, Excused
    <2>4. CASE Heartbeat
      <3>1. Brings(0, s)'
        BY <2>4, HeartbeatFacts DEF Brings, Moves
      <3> QED BY <3>1, ActorFacts DEF Awaited
    <2>5. ASSUME NEW k \in Readers, Receive(k) PROVE Awaited(s)'
      <3>1. /\ pc[k] = "idle" /\ Others(k) /\ down # <<>>
            /\ cur'[k] = Head(down) /\ down' = Tail(down) /\ pc'[k] \in {"set", "seq"}
            /\ \A r \in Readers \ {k} : cur'[r] = cur[r]
        BY <2>5, ReceiveFacts DEF Moves
      <3>2. UNCHANGED <<needCatchUp, fwdOn, up, fate>>
        BY <2>5 DEF Receive, history
      <3>3. ASSUME NEW i \in 1..Len(down), down[i].kind = "hello" PROVE Awaited(s)'
        <4>1. CASE i = 1
          <5>1. cur'[k].kind = "hello" /\ k # 0 /\ k \in Actors
            BY <3>1, <3>3, <4>1, DownFacts, ActorFacts
          <5>2. Brings(k, s)'
            BY <3>1, <5>1 DEF Brings
          <5> QED BY <5>1, <5>2 DEF Awaited
        <4>2. CASE i # 1
          <5>0. /\ Len(down) \in Nat /\ Len(down') = Len(down) - 1
                /\ \A x \in 1..Len(down) - 1 : down'[x] = down[x + 1]
            BY <3>1, DownFacts
          <5>1. i - 1 \in 1..Len(down') /\ down'[i - 1] = down[i]
            BY <3>3, <4>2, <5>0
          <5>2. HelloPending'
            BY <3>3, <5>1 DEF HelloPending
          <5> QED BY <5>2 DEF Awaited, Excused
        <4> QED BY <4>1, <4>2
      <3>4. Excused(s) => Awaited(s)'
        BY <3>2, <3>3 DEF Excused, Awaited, HelloPending
      <3>5. ~Brings(k, s)
        BY <3>1, ActorFacts DEF Brings
      <3> QED BY <2>1, <3>1, <3>4, <3>5, BringsStays, ActorFacts
    <2>6. ASSUME NEW k \in Readers, SetSubscribers(k) PROVE Awaited(s)'
      <3>1. /\ pc[k] = "set" /\ Others(k) /\ job'[k] = job[k] /\ fwdOn' = (cur[k].count > 0)
            /\ pc'[k] = (IF job[k].then = "seq" THEN "catchup" ELSE "seq")
            /\ k # 0 /\ k \in Actors /\ UNCHANGED <<cur, needCatchUp, up, down, fate>>
        BY <2>6, SetSubscribersFacts, ActorFacts DEF SetSubscribers, Moves, Keeps, linkVars, history
      <3>2. Brings(k, s) => Brings(k, s)'
        BY <3>1 DEF Brings
      <3>3. job[k].then = "seq" => Brings(k, s)'
        BY <3>1 DEF Brings
      <3>4. ~up \/ job[k].then = "seq" \/ ~(cur[k].count > 0) \/ fwdOn
        BY <3>1 DEF GateInv
      <3>5. Excused(s) => Excused(s)' \/ Brings(k, s)'
        BY <3>1, <3>3, <3>4 DEF Excused, HelloPending
      <3> QED BY <2>1, <3>1, <3>2, <3>5, BringsStays DEF Awaited
    <2>7. Excused(s) => Awaited(s)'
      BY <1>2, <2>3, <2>4, <2>5, <2>6, ExcusedStays DEF Awaited
    <2>8. SUFFICES ASSUME NEW b \in Actors, Brings(b, s) PROVE Awaited(s)'
      BY <2>1, <2>7
    <2>9. CASE \/ Publish \/ SessionEnd \/ HubReceive \/ HubSubscribers \/ HubNotify \/ HubPing
               \/ HubRestart
      <3>1. UNCHANGED <<pc, job, cur>>
        BY <2>9 DEF Publish, SessionEnd, HubReceive, HubSubscribers, HubNotify, HubPing,
           HubRestart, hostVars
      <3> QED BY <2>2, <2>8, <3>1
    <2>10. CASE Flush
      <3>1. pc[0] = "idle" /\ Others(0) /\ UNCHANGED cur
        BY <2>10, FlushFacts DEF Flush
      <3>2. ~Brings(0, s)
        BY <3>1 DEF Brings
      <3> QED BY <2>8, <3>1, <3>2, BringsStays, ActorFacts
    <2>11. CASE FlushGate
      <3>1. /\ pc[0] = "gate" /\ Others(0) /\ UNCHANGED <<cur, fwdOn>>
            /\ ~fwdOn \/ (pc'[0] = "push" /\ job'[0] = job[0])
        BY <2>11, FlushGateFacts, ActorFacts DEF FlushGate, Moves, Keeps
      <3>2. Brings(0, s) => Awaited(s)'
        BY <3>1, ActorFacts DEF Brings, Awaited, Excused
      <3> QED BY <2>8, <3>1, <3>2, BringsStays, ActorFacts
    <2>12. CASE EnqueueLive
      <3>1. pc[0] = "push" /\ Others(0) /\ UNCHANGED cur
        BY <2>12, EnqueueLiveFacts DEF EnqueueLive
      <3>2. ASSUME s \in job[0].todo PROVE Awaited(s)'
        <4>1. job[0].todo \in SUBSET Seqs
          BY JobFacts, ActorFacts
        <4>2. lastSent' \in Raise(lastSent, job[0].todo) => s <= lastSent'
          BY <3>2, <4>1, RaiseFacts DEF NumType
        <4>3. ~(lastSent' \in Raise(lastSent, job[0].todo))
          BY <1>2, <4>2
        <4>4. fate[s] = "dropped" => needCatchUp
          BY <3>1, <3>2 DEF BatchInv
        <4>5. needCatchUp' \/ fate'[s] = "sunk"
          BY <1>2, <2>12, <3>2, <4>3, <4>4, LiveQueue DEF Marked
        <4> QED BY <4>5 DEF Awaited, Excused
      <3>3. Brings(0, s) => s \in job[0].todo
        BY <3>1 DEF Brings
      <3> QED BY <2>8, <3>1, <3>2, <3>3, BringsStays, ActorFacts
    <2>13. CASE RepairDroppedEvents
      <3>1. /\ pc[0] = "repair" /\ Others(0) /\ UNCHANGED <<cur, fwdOn>>
            /\ ~fwdOn \/ (pc'[0] = "lock" /\ job'[0].after = IF hubAck > 0 THEN hubAck ELSE lastSent)
        BY <2>13, RepairFacts DEF RepairDroppedEvents, Moves
      <3>2. hubAck <= lastSent /\ hubAck \in Nat
        BY <1>1, ActorFacts DEF AnchorInv, StartInv, NumType
      <3>3. fwdOn => Brings(0, s)'
        BY <1>2, <3>1, <3>2 DEF Brings
      <3>4. Awaited(s)'
        BY <3>1, <3>3, ActorFacts DEF Awaited, Excused
      <3> QED BY <3>4
    <2>14. ASSUME NEW a \in Actors, ReplayLock(a) PROVE Awaited(s)'
      <3>1. /\ pc[a] = "lock" /\ Others(a) /\ UNCHANGED cur /\ pc'[a] = "send"
            /\ job'[a].todo = {t \in ring : t > job[a].after}
        BY <2>14, ReplayLockFacts DEF ReplayLock, Moves
      <3>2. job[a].after \in Nat
        <4>1. JobType
          OBVIOUS
        <4> QED BY <4>1, AfterIsNat, Zenon
      <3>3. Brings(a, s) => Brings(a, s)'
        BY <1>2, <1>4, <3>1, <3>2 DEF Brings
      <3> QED BY <2>8, <3>1, <3>3, BringsStays DEF Awaited
    <2>15. ASSUME NEW a \in Actors, ReplayFrame(a) PROVE Awaited(s)'
      <3>1. pc[a] = "send" /\ pc' = pc /\ Others(a) /\ UNCHANGED cur
        BY <2>15, ReplayFrameFacts DEF ReplayFrame
      <3>2. PICK evs \in SUBSET Seqs :
               /\ job'[a].todo = job[a].todo \ evs
               /\ \/ evs \cap Oversized # {} /\ Cardinality(evs) = 1
                  \/ lastSent' \in Raise(lastSent, evs)
                  \/ needCatchUp'
        BY <2>15, ReplayQueue DEF Sends
      <3>3. lastSent' \in Raise(lastSent, evs) => s \notin evs
        <4>1. lastSent' \in Raise(lastSent, evs) => \A t \in evs : t <= lastSent'
          BY RaiseFacts DEF NumType
        <4> QED BY <1>2, <4>1
      <3>4. s \in evs => s \in Oversized \/ needCatchUp'
        BY <3>2, <3>3, OversizedAlone
      <3>5. ASSUME Brings(a, s) PROVE Awaited(s)'
        <4>1. s \in job[a].todo
          BY <3>1, <3>5 DEF Brings
        <4>2. CASE s \in evs
          BY <3>4, <4>2 DEF Awaited, Excused
        <4>3. CASE s \notin evs
          <5>1. Brings(a, s)'
            BY <3>1, <3>2, <4>1, <4>3 DEF Brings
          <5> QED BY <5>1 DEF Awaited
        <4> QED BY <4>2, <4>3
      <3> QED BY <2>8, <3>1, <3>5, BringsStays
    <2>16. ASSUME NEW a \in Actors, ReplayUnlock(a) PROVE Awaited(s)'
      <3>1. pc[a] = "send" /\ job[a].todo = {} /\ Others(a) /\ UNCHANGED cur
        BY <2>16, ReplayUnlockFacts DEF ReplayUnlock
      <3>2. ~Brings(a, s)
        BY <3>1 DEF Brings
      <3> QED BY <2>8, <3>1, <3>2, BringsStays
    <2>17. ASSUME NEW k \in Readers, CatchUp(k) PROVE Awaited(s)'
      <3>1. pc'[k] = "lock" /\ job'[k].after = lastSent /\ k \in Actors
        BY <2>17, CatchUpFacts, ActorFacts DEF Moves
      <3>2. Brings(k, s)'
        BY <1>2, <3>1 DEF Brings
      <3> QED BY <3>1, <3>2 DEF Awaited
    <2>18. ASSUME NEW k \in Readers, PingAck(k) \/ ResetDone(k) \/ ResumeDone(k) PROVE Awaited(s)'
      <3>1. /\ Others(k) /\ k \in Actors /\ k # 0
            /\ \A r \in Readers \ {k} : cur'[r] = cur[r]
            /\ pc[k] \in {"seq", "clear", "ack"} /\ (pc[k] = "seq" => cur[k].kind # "hello")
        BY <2>18, HandledFacts, ActorFacts DEF PingAck, ResetDone, ResumeDone
      <3>2. ~Brings(k, s)
        BY <3>1 DEF Brings
      <3> QED BY <2>8, <3>1, <3>2, BringsStays
    <2>19. ASSUME NEW k \in Readers, HelloSeq(k) PROVE Awaited(s)'
      <3>1. /\ k \in Actors
            /\ \/ pc'[k] = "lockReset"
               \/ /\ pc'[k] = "lock" /\ job'[k].after = cur[k].seq
                  /\ alienAck' = (alienAck \/ cur[k].from = "old")
        BY <2>19, HelloSeqFacts, ActorFacts DEF Moves
      <3>2. Honest(cur[k]) /\ cur[k].from \in Epochs /\ cur[k].seq \in Nat
        BY DownFacts, ActorFacts DEF MarkInv, CurMark
      <3>3. pc'[k] = "lock" => job'[k].after < s
        <4>1. pc'[k] = "lock" => cur[k].from # "old" /\ job'[k].after = cur[k].seq
          BY <3>1
        <4> QED BY <1>2, <3>2, <4>1 DEF Honest, Epochs, Seqs
      <3>4. Brings(k, s)'
        BY <3>1, <3>3 DEF Brings
      <3> QED BY <3>1, <3>4 DEF Awaited
    <2>20. ASSUME NEW k \in Readers, ResetLock(k) PROVE Awaited(s)'
      <3>1. pc'[k] = "reset" /\ k \in Actors
        BY <2>20, ResetLockFacts, ActorFacts DEF Moves
      <3>2. Brings(k, s)'
        BY <3>1 DEF Brings
      <3> QED BY <3>1, <3>2 DEF Awaited
    <2>21. ASSUME NEW k \in Readers, EnqueueReset(k) PROVE Awaited(s)'
      <3>1. pc'[k] = "send" /\ job'[k].todo = ring /\ k \in Actors
        BY <2>21, EnqueueResetFacts, ActorFacts DEF Moves
      <3>2. Brings(k, s)'
        BY <1>4, <3>1 DEF Brings
      <3> QED BY <3>1, <3>2 DEF Awaited
    <2> QED BY NextCases, <2>3, <2>4, <2>5, <2>6, <2>9, <2>10, <2>11, <2>12, <2>13, <2>14, <2>15,
               <2>16, <2>17, <2>18, <2>19, <2>20, <2>21
  <1>5. s \in ring \/ (Flush /\ s \in pend)
    <2>1. CASE Flush
      <3>1. ring \cup pend \in SUBSET Seqs
        BY DEF SetType
      <3>2. ring' \subseteq ring \cup pend
        BY <2>1, <3>1, CompactFacts DEF Flush, SeqAndReplay
      <3> QED BY <2>1, <3>2
    <2> QED BY <2>1, RingKept
  <1> QED BY <1>3, <1>4, <1>5

LEMMA RestInit ==
  ASSUME Init
  PROVE  RestInv
  <1>1. ring = {} /\ ~up /\ (\A s \in Seqs : fate[s] = "none") /\ pc[0] = "idle"
    BY ActorFacts DEF Init
  <1>2. notif = {}
    BY DEF Init
  <1> QED BY <1>1, <1>2 DEF RestInv, GateInv, FreshInv, BatchInv, TailInv, CountInv

LEMMA RestStutter ==
  ASSUME RestInv, UNCHANGED vars
  PROVE  RestInv'
  <1> USE DEF vars, hostVars, linkVars, hubVars, history, RestInv
  <1>1. GateInv' /\ CountInv' /\ FreshInv' /\ BatchInv'
    BY DEF GateInv, CountInv, FlagOfNewest, FreshInv, BatchInv
  <1>2. \A s : Awaited(s) => Awaited(s)'
    BY DEF Awaited, Excused, Brings, HelloPending
  <1>3. TailInv'
    BY <1>2 DEF TailInv
  <1> QED BY <1>1, <1>3

\* What was enqueued was observed, what the hub counted of this process was enqueued, and
\* an event that was queued live is not overtaken, wherever a reader of an ended session
\* still is when the next one starts (noteLastSentSeq, seqAndReplay, the hub's gate).
THEOREM NothingOvertakes == Spec => [](WatermarksOrdered /\ QueuedStays)
  <1>1. IInv => WatermarksOrdered /\ QueuedStays
    BY MarksOrdered, NotOvertaken
  <1> QED BY <1>1, InvariantHolds, PTL

\* Nor is anything stranded at the end of the stream, and the newest count of the session
\* decides whether the host uploads, when no reader of an ended session is between the
\* generation gate and the flag, which applySubscribers passes without waiting for anything.
THEOREM NothingIsLeftBehind ==
  ASSUME "set" \notin StalePcs
  PROVE  Spec => []Watermarks
  <1>1. Init => IInv /\ RestInv
    BY IInvInit, RestInit
  <1>2. IInv /\ RestInv /\ [Next]_vars => (IInv /\ RestInv)'
    <2>1. IInv /\ RestInv /\ Next => RestInv'
      BY GateStep, CountStep, FreshStep, BatchStep, TailStep DEF RestInv
    <2> QED BY <2>1, IInvStep, IInvStutter, RestStutter
  <1>3. IInv /\ RestInv => FlagOfNewest
    BY DEF RestInv, CountInv, FlagOfNewest
  <1>4. IInv /\ RestInv => NothingStranded
    <2> SUFFICES ASSUME IInv, RestInv, AtRest, ~alienAck, NEW s \in ring, s > lastSent
                 PROVE  needCatchUp \/ s \in Oversized \/ fate[s] = "sunk"
      BY DEF NothingStranded
    <2>1. Awaited(s)
      BY DEF RestInv, TailInv
    <2>2. \A a \in Actors : ~Brings(a, s)
      BY DEF AtRest, Brings
    <2> QED BY <2>1, <2>2 DEF Awaited, Excused, AtRest
  <1>5. IInv /\ RestInv => Watermarks
    BY <1>3, <1>4, MarksOrdered, NotOvertaken DEF Watermarks
  <1> QED BY <1>1, <1>2, <1>5, PTL DEF Spec

=============================================================================
