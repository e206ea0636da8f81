----------------------------- MODULE HubUplink -----------------------------
(***************************************************************************)
(* The event plane from a host to the hub: src/internal/hub/client.go.     *)
(*                                                                         *)
(* Two kinds of goroutine share the client's state.  Actor 0 is            *)
(* forwardLoop: it batches bridge events, keeps them in the replay ring    *)
(* and enqueues live frames; its heartbeat repairs what it had to drop.    *)
(* Actor k > 0 is the readLoop of session k: it handles the hub's hello,   *)
(* subscribers and ping frames, and may still be inside a handler when its *)
(* session has ended and the next one runs.                                *)
(*                                                                         *)
(* An event is its sequence number, a frame the set of the events in it.   *)
(* sendCh stands for the client's queue and the transport behind it.  The  *)
(* hub is external: it keeps a watermark and skips every event at or below *)
(* it (the "stale-seq gate" the client's comments describe).               *)
(***************************************************************************)
EXTENDS Integers, Sequences, FiniteSets

CONSTANTS
  MaxSeq,      \* events this host process produces
  OldMarks,    \* watermarks the hub may hold of the host's previous process
  MaxSess,     \* transport sessions
  MaxGen,      \* changes of the hub's browser count
  MaxHubRun,   \* runs of the hub process
  QCap,        \* capacity of sendCh (256 in the code)
  DownCap,     \* frames in flight from the hub
  ReplayCap,   \* replayCap (1000)
  HighWater,   \* replayHighWater (2 * replayCap)
  Oversized,   \* events that alone exceed maxFrameBytes
  StalePcs     \* where a reader of an ended session may still be when the
               \* next session starts

ASSUME BoundsAssumption ==
  /\ {MaxSeq, MaxSess, MaxHubRun, QCap, DownCap, ReplayCap} \subseteq Nat \ {0}
  /\ MaxGen \in Nat
  /\ HighWater \in Nat /\ ReplayCap < HighWater
Seqs    == 1..MaxSeq
Actors  == 0..MaxSess
Readers == 1..MaxSess
PCs     == {"idle", "gate", "push", "repair", "set", "catchup", "seq", "lock", "send",
            "lockReset", "reset", "ack", "clear"}

ASSUME SetsAssumption ==
  OldMarks \subseteq 0..MaxSeq /\ Oversized \subseteq 1..MaxSeq /\ StalePcs \subseteq PCs

VARIABLES
  \* the host process
  busSeq,    \* last sequence number bridge.Broadcast assigned
  pend,      \* events subscribed but not yet flushed (channel and batch)
  nextSeq, ring, lastSent, hubAck,    \* guarded by seqMu
  needCatchUp, fwdOn, subsGen,
  lock,      \* holder of enqueueMu, -1 when free
  sendCh,
  pc,        \* where each actor is
  job,       \* the replay (or live batch) each actor is working on
  cur,       \* the downlink frame each reader handles
  \* transport
  sess, up, down,
  seen,      \* newest generation this session has received (history)
  \* the hub
  hubRun, hubLast, hubEpoch, hubMine, gen, notif,
  \* history: what became of each event's first chance to go up; the hub counts
  \* this process on top of another's watermark; another's watermark was taken
  \* for an ack or for the place to resume from
  fate, mixed, alienAck

hostVars == <<busSeq, pend, nextSeq, ring, lastSent, hubAck,
              needCatchUp, fwdOn, subsGen, lock, sendCh, pc, job, cur>>
hubVars  == <<hubRun, hubLast, hubEpoch, hubMine, gen, notif>>
linkVars == <<sess, up, down, seen>>
history  == <<fate, mixed, alienAck>>
vars     == <<hostVars, linkVars, hubVars, history>>

\* The evs of a reset are those its replay will carry (history, not sent).
Frame == [kind : {"live", "replay", "reset"}, evs : SUBSET Seqs, head : BOOLEAN]

\* Whose watermark the hub holds: none (zero), a previous host process's, ours.
Epochs == {"none", "old", "ours"}

\* A downlink frame.  count is gen % 2: each change of the browser count is
\* a new generation, and only "none" and "some" matter to the client.  from
\* names the process the watermark belongs to (history, not in the frame).
Down == [kind : {"hello", "subs", "ping"}, count : 0..1, gen : 0..MaxGen,
         seq : 0..MaxSeq, from : Epochs]

\* then: where the actor goes on after the replay.
Job == [after : 0..MaxSeq, todo : SUBSET Seqs, head : BOOLEAN,
        then : {"idle", "seq", "ack", "clear"}]

NoJob   == [after |-> 0, todo |-> {}, head |-> TRUE, then |-> "idle"]
NoFrame == [kind |-> "ping", count |-> 0, gen |-> 0, seq |-> 0, from |-> "none"]

IsMax(m, S) == m \in S /\ \A s \in S : s <= m
Newest(S, k) == {s \in S : Cardinality({t \in S : t >= s}) <= k}

-----------------------------------------------------------------------------
TypeOK ==
  /\ busSeq \in 0..MaxSeq
  /\ pend \subseteq Seqs /\ ring \subseteq Seqs /\ Cardinality(ring) <= HighWater
  /\ {nextSeq, lastSent, hubAck, hubLast} \subseteq 0..MaxSeq
  /\ needCatchUp \in BOOLEAN /\ fwdOn \in BOOLEAN /\ up \in BOOLEAN
  /\ {subsGen, seen, gen} \subseteq 0..MaxGen /\ notif \subseteq 1..MaxGen
  /\ lock \in -1..MaxSess
  /\ sendCh \in Seq(Frame) /\ down \in Seq(Down)
  /\ pc \in [Actors -> PCs]
  /\ job \in [Actors -> Job] /\ cur \in [Readers -> Down]
  /\ sess \in 0..MaxSess
  /\ hubRun \in 1..MaxHubRun /\ hubEpoch \in Epochs /\ hubMine \subseteq Seqs
  /\ fate \in [Seqs -> {"none", "dropped", "sunk", "live", "lost"}]
  /\ mixed \in BOOLEAN /\ alienAck \in BOOLEAN

\* The host process has just started; the hub is whatever it was.
Init ==
  /\ busSeq = 0 /\ pend = {} /\ nextSeq = 0 /\ ring = {}
  /\ lastSent = 0 /\ hubAck = 0 /\ needCatchUp = FALSE /\ fwdOn = FALSE
  /\ subsGen = 0 /\ lock = -1 /\ sendCh = <<>>
  /\ pc = [a \in Actors |-> "idle"]
  /\ job = [a \in Actors |-> NoJob]
  /\ cur = [k \in Readers |-> NoFrame]
  /\ sess = 0 /\ up = FALSE /\ down = <<>> /\ seen = 0
  /\ hubRun = 1 /\ hubLast \in OldMarks /\ hubMine = {}
  /\ hubEpoch = IF hubLast = 0 THEN "none" ELSE "old"
  /\ gen \in 0..MaxGen /\ notif = {}
  /\ fate = [s \in Seqs |-> "none"] /\ mixed = FALSE /\ alienAck = FALSE

Goto(a, l) == pc' = [pc EXCEPT ![a] = l]

-----------------------------------------------------------------------------
(* forwardLoop *)

\* The bridge broadcasts; a slow subscriber may have lost the event.
Publish ==
  /\ busSeq < MaxSeq
  /\ busSeq' = busSeq + 1
  /\ pend' \in {pend, pend \cup {busSeq + 1}}
  /\ UNCHANGED <<nextSeq, ring, lastSent, hubAck, needCatchUp, fwdOn, subsGen,
                 lock, sendCh, pc, job, cur, linkVars, hubVars, history>>

\* The ring is cut back to ReplayCap events when it passes the high-water mark.
Compact_Never(evs) == evs
Compact(evs) ==
  LET n == Cardinality(evs)
  IN  IF n > HighWater
      THEN Newest(evs, ReplayCap + ((n - HighWater - 1) % (HighWater + 1 - ReplayCap)))
      ELSE evs

\* seqAndReplay: remember the batch.
SeqAndReplay(evs) ==
  /\ nextSeq' \in {m \in Seqs : IsMax(m, {nextSeq} \cup evs)}
  /\ ring' = Compact(ring \cup evs)

Flush ==
  /\ pc[0] = "idle" /\ pend # {}
  /\ SeqAndReplay(pend)
  /\ pend' = {}
  /\ job' = [job EXCEPT ![0] = [NoJob EXCEPT !.todo = pend]]
  /\ Goto(0, "gate")
  /\ UNCHANGED <<busSeq, lastSent, hubAck, needCatchUp, fwdOn, subsGen,
                 lock, sendCh, cur, linkVars, hubVars, history>>

FlushGate ==
  /\ pc[0] = "gate"
  /\ IF fwdOn THEN Goto(0, "push") /\ UNCHANGED job
              ELSE Goto(0, "idle") /\ job' = [job EXCEPT ![0] = NoJob]
  /\ UNCHANGED <<busSeq, pend, nextSeq, ring, lastSent, hubAck, needCatchUp,
                 fwdOn, subsGen, lock, sendCh, cur, linkVars, hubVars, history>>

\* noteLastSentSeq
Raise(old, evs) == IF \E s \in evs : s > old THEN {m \in Seqs : IsMax(m, evs)} ELSE {old}

Mark(evs, f) == fate' = [s \in Seqs |-> IF s \in evs THEN f ELSE fate[s]]

\* A drop keeps the events in the ring and asks the heartbeat for a repair.
DropBatch_NoFlag(evs) == UNCHANGED needCatchUp /\ Mark(evs, "dropped")
DropBatch(evs) == needCatchUp' = TRUE /\ Mark(evs, "dropped")

\* enqueueMu.TryLock
LiveAdmitted == lock = -1

\* enqueueEvents: drop on a held lock, an oversized frame or a full queue.
EnqueueLive ==
  /\ pc[0] = "push"
  /\ LET evs == job[0].todo IN
     \/ /\ ~LiveAdmitted \/ (evs \cap Oversized = {} /\ Len(sendCh) >= QCap)
        /\ DropBatch(evs)
        /\ UNCHANGED <<sendCh, lastSent>>
     \/ /\ LiveAdmitted /\ evs \cap Oversized # {}
        /\ Mark({s \in evs : fate[s] # "dropped"}, "sunk")
        /\ UNCHANGED <<needCatchUp, sendCh, lastSent>>
     \/ /\ LiveAdmitted /\ evs \cap Oversized = {} /\ Len(sendCh) < QCap
        /\ sendCh' = Append(sendCh, [kind |-> "live", evs |-> evs, head |-> FALSE])
        /\ lastSent' \in Raise(lastSent, evs)
        /\ Mark({s \in evs : fate[s] = "none"}, "live")
        /\ UNCHANGED needCatchUp
  /\ Goto(0, "idle") /\ job' = [job EXCEPT ![0] = NoJob]
  /\ UNCHANGED <<busSeq, pend, nextSeq, ring, hubAck, fwdOn, subsGen, lock, cur,
                 linkVars, hubVars, mixed, alienAck>>

\* The heartbeat has flushed; it swaps the flag and starts a repair if
\* forwarding is on, anchored at the hub's ack when there is one.
Heartbeat ==
  /\ pc[0] = "idle" /\ pend = {} /\ needCatchUp
  /\ needCatchUp' = FALSE
  /\ Goto(0, "repair")
  /\ UNCHANGED <<busSeq, pend, nextSeq, ring, lastSent, hubAck, fwdOn, subsGen,
                 lock, sendCh, job, cur, linkVars, hubVars, history>>

RepairDroppedEvents ==
  /\ pc[0] = "repair"
  /\ IF fwdOn
     THEN /\ job' = [job EXCEPT ![0] =
                      [NoJob EXCEPT !.after = IF hubAck > 0 THEN hubAck ELSE lastSent]]
          /\ Goto(0, "lock")
     ELSE Goto(0, "idle") /\ UNCHANGED job
  /\ UNCHANGED <<busSeq, pend, nextSeq, ring, lastSent, hubAck, needCatchUp,
                 fwdOn, subsGen, lock, sendCh, cur, linkVars, hubVars, history>>

-----------------------------------------------------------------------------
(* sendReplayAfter: one replay by any actor *)

\* Take enqueueMu and copy the ring's tail.
ReplayLock(a) ==
  /\ pc[a] = "lock" /\ lock = -1
  /\ lock' = a
  /\ job' = [job EXCEPT ![a].todo = {s \in ring : s > job[a].after}, ![a].head = TRUE]
  /\ Goto(a, "send")
  /\ UNCHANGED <<busSeq, pend, nextSeq, ring, lastSent, hubAck, needCatchUp,
                 fwdOn, subsGen, sendCh, cur, linkVars, hubVars, history>>

\* The next frame of the replay: a leading part of what is left, an oversized
\* event being alone in its frame.  It is queued, or dropped without a flag
\* when oversized, or given up with the flag after five seconds of a full queue.
ReplayFrame(a) ==
  /\ pc[a] = "send"
  /\ \E evs \in (SUBSET job[a].todo) \ {{}} :
       /\ \A s \in evs, t \in job[a].todo \ evs : s < t
       /\ evs \cap Oversized # {} => Cardinality(evs) = 1
       /\ \/ /\ evs \cap Oversized # {}
             /\ job' = [job EXCEPT ![a].todo = @ \ evs]
             /\ UNCHANGED <<sendCh, lastSent, needCatchUp, fate>>
          \/ /\ evs \cap Oversized = {} /\ Len(sendCh) < QCap
             /\ sendCh' = Append(sendCh, [kind |-> "replay", evs |-> evs,
                                          head |-> job[a].head])
             /\ lastSent' \in Raise(lastSent, evs)
             /\ job' = [job EXCEPT ![a].todo = @ \ evs, ![a].head = FALSE]
             /\ UNCHANGED <<needCatchUp, fate>>
          \/ /\ evs \cap Oversized = {} /\ Len(sendCh) >= QCap
             /\ job' = [job EXCEPT ![a].todo = @ \ evs]
             /\ DropBatch(evs)
             /\ UNCHANGED <<sendCh, lastSent>>
  /\ UNCHANGED <<busSeq, pend, nextSeq, ring, hubAck, fwdOn, subsGen, lock, pc,
                 cur, linkVars, hubVars, mixed, alienAck>>

ReplayUnlock(a) ==
  /\ pc[a] = "send" /\ job[a].todo = {}
  /\ lock' = -1
  /\ Goto(a, job[a].then)
  /\ job' = [job EXCEPT ![a] = NoJob]
  /\ UNCHANGED <<busSeq, pend, nextSeq, ring, lastSent, hubAck, needCatchUp,
                 fwdOn, subsGen, sendCh, cur, linkVars, hubVars, history>>

-----------------------------------------------------------------------------
(* readLoop of session k *)

\* The count lost a race with a newer one (generation 0: no stamp, applied).
Superseded(f) == f.gen > 0 /\ f.gen <= subsGen

\* Only the running session's reader still receives.  applySubscribers starts
\* with the generation gate (a hello carries none, which always passes) and
\* was := forwardingEnabled(), remembered in job[k].then: "seq" if the count
\* is a 0 -> 1 transition.
Receive(k) ==
  LET f == Head(down) IN
  /\ up /\ sess = k /\ pc[k] = "idle" /\ down # <<>>
  /\ cur' = [cur EXCEPT ![k] = f]
  /\ down' = Tail(down)
  /\ seen' = IF f.gen > seen THEN f.gen ELSE seen
  /\ IF Superseded(f)
     THEN Goto(k, "seq") /\ UNCHANGED <<subsGen, job>>
     ELSE /\ subsGen' = IF f.gen > 0 THEN f.gen ELSE subsGen
          /\ Goto(k, "set")
          /\ job' = [job EXCEPT ![k] = [NoJob EXCEPT !.then =
                                          IF fwdOn \/ f.count = 0 THEN "idle" ELSE "seq"]]
  /\ UNCHANGED <<busSeq, pend, nextSeq, ring, lastSent, hubAck, needCatchUp,
                 fwdOn, lock, sendCh, sess, up, hubVars, history>>

\* setBrowserSubscribers; a 0 -> 1 transition goes on to the catch-up.
SetSubscribers(k) ==
  /\ pc[k] = "set"
  /\ fwdOn' = (cur[k].count > 0)
  /\ Goto(k, IF job[k].then = "seq" THEN "catchup" ELSE "seq")
  /\ UNCHANGED <<busSeq, pend, nextSeq, ring, lastSent, hubAck, needCatchUp,
                 subsGen, lock, sendCh, job, cur, linkVars, hubVars, history>>

\* It resumes after the last enqueued event.
CatchUpAnchor == lastSent

CatchUp(k) ==
  /\ pc[k] = "catchup"
  /\ job' = [job EXCEPT ![k] = [NoJob EXCEPT !.after = CatchUpAnchor, !.then = "seq"]]
  /\ Goto(k, "lock")
  /\ UNCHANGED <<busSeq, pend, nextSeq, ring, lastSent, hubAck, needCatchUp,
                 fwdOn, subsGen, lock, sendCh, cur, linkVars, hubVars, history>>

\* The handler returns to the read.
Handled(k) ==
  /\ Goto(k, "idle")
  /\ job' = [job EXCEPT ![k] = NoJob] /\ cur' = [cur EXCEPT ![k] = NoFrame]

\* noteHubAck
Accepted(s) == hubAck < s /\ s <= nextSeq
NoteHubAck(f) ==
  /\ hubAck' = IF Accepted(f.seq) THEN f.seq ELSE hubAck
  /\ alienAck' = (alienAck \/ (Accepted(f.seq) /\ f.from = "old"))

\* What follows the subscriber count: nothing, the ping's ack, or hello.seq.
PingAck(k) ==
  /\ pc[k] = "seq" /\ cur[k].kind # "hello"
  /\ IF cur[k].kind = "ping" THEN NoteHubAck(cur[k]) ELSE UNCHANGED <<hubAck, alienAck>>
  /\ Handled(k)
  /\ UNCHANGED <<busSeq, pend, nextSeq, ring, lastSent, needCatchUp, fwdOn,
                 subsGen, lock, sendCh, linkVars, hubVars, fate, mixed>>

\* "hub remembers a higher watermark than this process has ever produced"
EpochMismatch(s) == s > nextSeq

\* handleHelloSeq: a watermark this process never reached asks for a reset.
HelloSeq(k) ==
  /\ pc[k] = "seq" /\ cur[k].kind = "hello"
  /\ IF EpochMismatch(cur[k].seq)
     THEN /\ job' = [job EXCEPT ![k] = [NoJob EXCEPT !.then = "clear"]]
          /\ Goto(k, "lockReset") /\ UNCHANGED alienAck
     ELSE /\ job' = [job EXCEPT ![k] = [NoJob EXCEPT !.after = cur[k].seq, !.then = "ack"]]
          /\ Goto(k, "lock") /\ alienAck' = (alienAck \/ cur[k].from = "old")
  /\ UNCHANGED <<busSeq, pend, nextSeq, ring, lastSent, hubAck, needCatchUp,
                 fwdOn, subsGen, lock, sendCh, cur, linkVars, hubVars, fate, mixed>>

\* The lock is taken before the reset and kept until its replay is queued.
ResetHolder_Late(k) == lock
ResetHolder(k) == k

ResetLock(k) ==
  /\ pc[k] = "lockReset" /\ lock = -1
  /\ lock' = ResetHolder(k) /\ Goto(k, "reset")
  /\ UNCHANGED <<busSeq, pend, nextSeq, ring, lastSent, hubAck, needCatchUp,
                 fwdOn, subsGen, sendCh, job, cur, linkVars, hubVars, history>>

\* sendReplayAfterLocked(0)
ResetReplay == ring

\* enqueueSeqResetLocked, then the replay of the whole ring under the same
\* lock.  On a queue that stays full the reset frame is dropped.
EnqueueReset(k) ==
  /\ pc[k] = "reset"
  /\ IF Len(sendCh) < QCap
     THEN sendCh' = Append(sendCh, [kind |-> "reset", evs |-> ring, head |-> TRUE])
     ELSE UNCHANGED sendCh
  /\ job' = [job EXCEPT ![k].todo = ResetReplay, ![k].head = TRUE]
  /\ Goto(k, "send")
  /\ UNCHANGED <<busSeq, pend, nextSeq, ring, lastSent, hubAck, needCatchUp,
                 fwdOn, subsGen, lock, cur, linkVars, hubVars, history>>

\* After the reset's replay: the hub's watermark is taken to be zero.
ResetDone(k) ==
  /\ pc[k] = "clear"
  /\ hubAck' = 0
  /\ Handled(k)
  /\ UNCHANGED <<busSeq, pend, nextSeq, ring, lastSent, needCatchUp, fwdOn,
                 subsGen, lock, sendCh, linkVars, hubVars, history>>

\* After the resume's replay: hello.seq is an ack and a floor for lastSentSeq.
ResumeDone(k) ==
  /\ pc[k] = "ack"
  /\ NoteHubAck(cur[k])
  /\ lastSent' = IF cur[k].seq > lastSent THEN cur[k].seq ELSE lastSent
  /\ Handled(k)
  /\ UNCHANGED <<busSeq, pend, nextSeq, ring, needCatchUp, fwdOn, subsGen, lock,
                 sendCh, linkVars, hubVars, fate, mixed>>

-----------------------------------------------------------------------------
(* sessions *)

EventFrames == {i \in 1..Len(sendCh) : sendCh[i].kind # "reset"}
Queued      == UNION {sendCh[i].evs : i \in EventFrames}

\* "a restarted hub ... counts from low again": forget the last session's.
SessionGen_Kept == subsGen
SessionGen == 0

\* runSession: drain what the last session left, forget its generation and
\* ack.  The hub accepts the connection and says hello.  A reader of an
\* ended session may still wait for the lock or for room in the queue.
SessionStart ==
  /\ ~up /\ sess < MaxSess
  /\ \A k \in Readers : pc[k] \in StalePcs \cup {"idle"}
  /\ up' = TRUE /\ sess' = sess + 1 /\ seen' = 0
  /\ sendCh' = <<>> /\ subsGen' = SessionGen /\ hubAck' = 0
  /\ down' = <<[kind |-> "hello", count |-> gen % 2, gen |-> 0,
                seq |-> hubLast, from |-> hubEpoch]>>
  /\ fate' = [s \in Seqs |-> IF s \in Queued /\ (s > hubLast \/ fate[s] = "live")
                             THEN "lost" ELSE fate[s]]
  /\ UNCHANGED <<busSeq, pend, nextSeq, ring, lastSent, needCatchUp, fwdOn, lock,
                 pc, job, cur, hubVars, mixed, alienAck>>

\* The transport fails.  Run pauses forwarding until the next hello, but not between a
\* session over QUIC and the one over WebSocket that it falls back to.
Disconnect ==
  /\ up' = FALSE /\ down' = <<>> /\ fwdOn' \in {FALSE, fwdOn}
  /\ UNCHANGED <<sess, seen>>

SessionEnd ==
  /\ up /\ sess < MaxSess
  /\ Disconnect
  /\ UNCHANGED <<busSeq, pend, nextSeq, ring, lastSent, hubAck, needCatchUp,
                 subsGen, lock, sendCh, pc, job, cur, hubVars, history>>

-----------------------------------------------------------------------------
(* the hub (external) *)

\* Takes the next uplink frame through its stale-seq gate.
HubReceive ==
  /\ up /\ sendCh # <<>>
  /\ LET f     == Head(sendCh)
         fresh == {s \in f.evs : s > hubLast}
     IN  IF f.kind = "reset"
         THEN hubLast' = 0 /\ hubEpoch' = "none" /\ hubMine' = {} /\ mixed' = FALSE
         ELSE /\ hubLast' \in Raise(hubLast, f.evs)
              /\ hubEpoch' = IF fresh = {} THEN hubEpoch ELSE "ours"
              /\ hubMine' = hubMine \cup fresh
              /\ mixed' = (mixed \/ (fresh # {} /\ hubEpoch = "old"))
  /\ sendCh' = Tail(sendCh)
  /\ UNCHANGED <<busSeq, pend, nextSeq, ring, lastSent, hubAck, needCatchUp,
                 fwdOn, subsGen, lock, pc, job, cur, linkVars, hubRun, gen, notif, fate, alienAck>>

\* A browser subscribes or leaves: a notification goroutine is started.
HubSubscribers ==
  /\ gen < MaxGen
  /\ gen' = gen + 1 /\ notif' = notif \cup {gen + 1}
  /\ UNCHANGED <<hostVars, linkVars, hubRun, hubLast, hubEpoch, hubMine, history>>

\* The goroutines write in any order, and a write may fail.
HubNotify ==
  \E g \in notif :
    /\ notif' = notif \ {g}
    /\ \/ /\ up /\ Len(down) < DownCap
          /\ down' = Append(down, [kind |-> "subs", count |-> g % 2, gen |-> g,
                                   seq |-> 0, from |-> "none"])
       \/ UNCHANGED down
    /\ UNCHANGED <<hostVars, sess, up, seen, hubRun, hubLast, hubEpoch, hubMine, gen, history>>

HubPing ==
  /\ up /\ Len(down) < DownCap
  /\ down' = Append(down, [kind |-> "ping", count |-> gen % 2, gen |-> gen,
                           seq |-> hubLast, from |-> hubEpoch])
  /\ UNCHANGED <<hostVars, sess, up, seen, hubVars, history>>

\* The hub process restarts: it counts sequence numbers and browsers from zero, and
\* what was sent to the last one is lost with it.
HubRestart ==
  /\ hubRun < MaxHubRun /\ sess < MaxSess
  /\ hubRun' = hubRun + 1
  /\ hubLast' = 0 /\ hubEpoch' = "none" /\ hubMine' = {} /\ gen' = 0 /\ notif' = {}
  /\ mixed' = FALSE
  /\ Mark({s \in 1..lastSent : fate[s] # "dropped"}, "lost")
  /\ Disconnect
  /\ UNCHANGED <<busSeq, pend, nextSeq, ring, lastSent, hubAck, needCatchUp,
                 subsGen, lock, sendCh, pc, job, cur, alienAck>>

-----------------------------------------------------------------------------
Replay(a) == ReplayLock(a) \/ ReplayFrame(a) \/ ReplayUnlock(a)

Forward == Flush \/ FlushGate \/ EnqueueLive \/ Heartbeat \/ RepairDroppedEvents \/ Replay(0)

Handle(k) ==
  \/ Receive(k) \/ SetSubscribers(k) \/ CatchUp(k)
  \/ PingAck(k) \/ HelloSeq(k) \/ ResetLock(k) \/ EnqueueReset(k)
  \/ ResetDone(k) \/ ResumeDone(k) \/ Replay(k)

Hub == HubReceive \/ HubSubscribers \/ HubNotify \/ HubPing

Next ==
  \/ Publish \/ Forward \/ (\E k \in Readers : Handle(k))
  \/ SessionStart \/ SessionEnd \/ Hub \/ HubRestart

Spec == Init /\ [][Next]_vars

\* The goroutines run, enqueueMu is fair (Go mutexes hand over to a starving
\* waiter), the transport of a live session delivers and the hub pings.
Fairness ==
  /\ WF_vars(Flush \/ FlushGate \/ EnqueueLive \/ RepairDroppedEvents) /\ WF_vars(Heartbeat)
  /\ \A k \in Readers :
       WF_vars(Receive(k) \/ SetSubscribers(k) \/ CatchUp(k) \/ PingAck(k)
                \/ HelloSeq(k) \/ EnqueueReset(k) \/ ResetDone(k) \/ ResumeDone(k))
       /\ SF_vars(ResetLock(k))
  /\ \A a \in Actors :
       /\ SF_vars(ReplayLock(a))
       /\ WF_vars(ReplayFrame(a)) /\ WF_vars(ReplayUnlock(a))
  /\ WF_vars(HubReceive) /\ SF_vars(HubPing) /\ WF_vars(SessionStart)

FairSpec == Spec /\ Fairness
-----------------------------------------------------------------------------
(* properties *)

Events(i) == sendCh[i].evs

\* A replay goes up in one piece and in order: nothing comes between two of
\* its frames (the lock spans the whole replay, enqueueReplayLocked).
ReplayContiguous ==
  \A i \in 2..Len(sendCh) :
    sendCh[i].kind = "replay" /\ ~sendCh[i].head =>
      /\ sendCh[i-1].kind = "replay"
      /\ \A s \in Events(i-1), t \in Events(i) : s < t

\* After seq_reset the zeroed gate skips nothing the ring held: no event goes up
\* before a lower one of the reset's replay (handleHelloSeq), except one whose
\* frame met a queue that stayed full.
ResetHeadsReplay ==
  \A i \in 1..Len(sendCh) :
    sendCh[i].kind = "reset" =>
      \A j \in {x \in EventFrames : x > i}, s \in Events(i) \ Oversized :
        (fate[s] # "dropped" /\ \E t \in Events(j) : s < t) =>
          \E x \in i+1..j : s \in Events(x)

\* Only another process's watermark is answered with a reset: a reconnect of
\* the same process never clears what the hub already holds.
NoResetOfOwnEpoch ==
  \A k \in Readers :
    pc[k] \in {"lockReset", "reset"} => cur[k].from = "old"

\* A replay and a reset keep their frames together in their order, and only the
\* other process's watermark is reset.
ReplaysHold == ReplayContiguous /\ ResetHeadsReplay /\ NoResetOfOwnEpoch

\* The watermarks are ordered: what the hub counted of this process was
\* enqueued, and what was enqueued was observed.
WatermarksOrdered ==
  /\ lastSent <= nextSeq
  /\ hubEpoch = "ours" => hubLast <= lastSent
  /\ \A s \in Queued : s <= lastSent

HelloPending == \E i \in 1..Len(down) : down[i].kind = "hello"

AtRest ==
  /\ up /\ fwdOn /\ ~HelloPending
  /\ \A a \in Actors : pc[a] = "idle"

\* With forwarding on and everyone at rest, an event of the ring that was
\* never enqueued is one the heartbeat will repair or an oversized frame's,
\* unless a watermark of the previous process was taken for an ack.
NothingStranded ==
  AtRest /\ ~alienAck => \A s \in ring : s > lastSent =>
                            needCatchUp \/ s \in Oversized \/ fate[s] = "sunk"

\* The hub has counted past s, has not got it, and the host still holds it:
\* no repair below the hub's watermark can bring it through the gate.
Hole(s) ==
  hubEpoch = "ours" /\ s \in ring \ (hubMine \cup Oversized) /\ s <= hubLast

\* An event whose live frame was queued and never lost with a session is not
\* overtaken, whatever replays, repairs and resets go on around it, unless a
\* watermark of the previous process had a part in it.
QueuedStays == ~mixed /\ ~alienAck => \A s \in Seqs : fate[s] = "live" => ~Hole(s)

\* Whether the host uploads is what the newest count of this session says that has
\* come, in whatever order the hub's goroutines sent them (subscribersGen).
FlagOfNewest ==
  up /\ seen > 0 /\ (\A k \in Readers : pc[k] # "set") => fwdOn = (seen % 2 = 1)

\* What the watermarks say has been dealt with has been, nothing above them is
\* forgotten, what was queued in order is not skipped below them, and an old browser
\* count takes no newer one back.
Watermarks == WatermarksOrdered /\ NothingStranded /\ QueuedStays /\ FlagOfNewest

\* With a browser there for good, whatever is in the ring gets past the hub's
\* watermark: nothing waits for ever at the end of the stream.
TailDelivered ==
  <>[](up /\ fwdOn) =>
    \A s \in Seqs : (s \in pend \cup ring) ~> (s <= hubLast \/ s \notin pend \cup ring)

\* The host ends up uploading exactly when the hub has a browser.
CountConverges == <>[](fwdOn = (gen % 2 = 1))

\* Both ends of the uplink come to rest where they should: the hub with the tail of the
\* stream, the host uploading or not.
UplinkSettles == TailDelivered /\ CountConverges
=============================================================================
