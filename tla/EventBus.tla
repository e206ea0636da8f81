------------------------------ MODULE EventBus ------------------------------
(***************************************************************************)
(* Publish/subscribe core of the bridge: src/internal/acp/event_bus.go.    *)
(*                                                                         *)
(* publish numbers an event and hands it to every subscription: straight   *)
(* into its channel when nothing is backlogged, else into its bounded      *)
(* ring, from which the subscription's own pump delivers in order.         *)
(* Critical events have a reserve of the ring for themselves and the pump  *)
(* waits for the consumer; the others are dropped when there is no room.   *)
(*                                                                         *)
(* Each step is one section under a lock, one channel operation, or one    *)
(* select.  An event is its global sequence number.                        *)
(***************************************************************************)
EXTENDS Integers, Sequences, FiniteSets

CONSTANTS
  Subs,       \* subscriptions, each made and cancelled at most once
  MaxSeq,     \* events published
  ChCap,      \* capacity of a subscriber's channel (512 in the code)
  QueueCap,   \* subQueueCap (4096)
  Slack,      \* subCriticalSlack (1024)
  None        \* no subscription

ASSUME CapsAssumption ==
  MaxSeq \in Nat /\ ChCap \in Nat \ {0} /\ QueueCap \in Nat \ {0} /\ Slack \in Nat \ {0}
ASSUME NoneAssumption == None \notin Subs

VARIABLES
  seq,        \* eb.seq
  critical,   \* the published events whose type is not droppable
  subs,       \* eb.subs
  pub,        \* publish in progress; it holds eb.mu unless step is "idle"
  ch, ring, wake, done,
  pump,       \* where each pump goroutine is
  got,        \* what the consumer has read (history)
  lost,       \* critical events that met a full ring (history)
  from        \* eb.seq when the subscription was made (history)

vars == <<seq, critical, subs, pub, ch, ring, wake, done, pump, got, lost, from>>

Events == 1..MaxSeq
Idle   == [step |-> "idle", todo |-> {}, at |-> None]

\* Every variable has its type, and a ring never outgrows its array.
TypeOK ==
  /\ seq \in 0..MaxSeq
  /\ critical \in SUBSET Events
  /\ subs \in SUBSET Subs
  /\ pub \in [step : {"idle", "offer", "enqueue", "wake"}, todo : SUBSET Subs,
              at : Subs \cup {None}]
  /\ ch \in [Subs -> Seq(Events)]
  /\ ring \in [Subs -> Seq(Events)]
  /\ \A s \in Subs : Len(ring[s]) <= QueueCap + Slack
  /\ wake \in [Subs -> BOOLEAN]
  /\ done \in [Subs -> BOOLEAN]
  /\ pump \in [Subs -> {"off", "top", "wait", "deliver", "advance", "exited"}]
  /\ got \in [Subs -> Seq(Events)]
  /\ lost \in [Subs -> SUBSET Events]
  /\ from \in [Subs -> 0..MaxSeq]

Init ==
  /\ seq = 0 /\ critical = {} /\ subs = {} /\ pub = Idle
  /\ ch = [s \in Subs |-> <<>>] /\ ring = [s \in Subs |-> <<>>]
  /\ wake = [s \in Subs |-> FALSE] /\ done = [s \in Subs |-> FALSE]
  /\ pump = [s \in Subs |-> "off"]
  /\ got = [s \in Subs |-> <<>>] /\ lost = [s \in Subs |-> {}]
  /\ from = [s \in Subs |-> 0]

-----------------------------------------------------------------------------
(* publish *)

Publish ==
  /\ pub.step = "idle" /\ seq < MaxSeq
  /\ seq' = seq + 1
  /\ critical' \in {critical, critical \cup {seq + 1}}
  /\ pub' = [step |-> "offer", todo |-> subs, at |-> None]
  /\ UNCHANGED <<subs, ch, ring, wake, done, pump, got, lost, from>>

\* Nothing is queued, not even the item the pump is delivering, and the
\* channel has room.
MayGoDirect(s) == ring[s] = <<>> /\ Len(ch[s]) < ChCap

Offered(s) == pub' = [step |-> "offer", todo |-> pub.todo \ {s}, at |-> None]

\* The first half of enqueueOrDirect.
Offer(s) ==
  /\ pub.step = "offer" /\ s \in pub.todo
  /\ IF MayGoDirect(s)
     THEN ch' = [ch EXCEPT ![s] = Append(@, seq)] /\ Offered(s)
     ELSE pub' = [pub EXCEPT !.step = "enqueue", !.at = s] /\ UNCHANGED ch
  /\ UNCHANGED <<seq, critical, subs, ring, wake, done, pump, got, lost, from>>

\* Only critical events may use the reserve.
Limit_All(e)  == QueueCap + Slack
Limit_None(e) == QueueCap
Limit(e) == IF e \in critical THEN QueueCap + Slack ELSE QueueCap

Full_Late(s) == Len(ring[s]) > Limit(seq)
Full(s) == Len(ring[s]) >= Limit(seq)

\* The second half, a section of its own.
Enqueue(s) ==
  /\ pub.step = "enqueue" /\ pub.at = s
  /\ IF Full(s)
     THEN /\ lost' = [lost EXCEPT ![s] = @ \cup ({seq} \cap critical)]
          /\ Offered(s)
          /\ UNCHANGED ring
     ELSE /\ ring' = [ring EXCEPT ![s] = Append(@, seq)]
          /\ pub' = [pub EXCEPT !.step = "wake"]
          /\ UNCHANGED lost
  /\ UNCHANGED <<seq, critical, subs, ch, wake, done, pump, got, from>>

\* The wake-up is a channel of capacity one.
Signal(s) == TRUE

Wake(s) ==
  /\ pub.step = "wake" /\ pub.at = s
  /\ wake' = [wake EXCEPT ![s] = @ \/ Signal(s)]
  /\ Offered(s)
  /\ UNCHANGED <<seq, critical, subs, ch, ring, done, pump, got, lost, from>>

PublishDone ==
  /\ pub.step = "offer" /\ pub.todo = {}
  /\ pub' = Idle
  /\ UNCHANGED <<seq, critical, subs, ch, ring, wake, done, pump, got, lost, from>>

-----------------------------------------------------------------------------
(* pump *)

PumpTop(s) ==
  /\ pump[s] = "top"
  /\ pump' = [pump EXCEPT ![s] = IF ring[s] = <<>> THEN "wait" ELSE "deliver"]
  /\ UNCHANGED <<seq, critical, subs, pub, ch, ring, wake, done, got, lost, from>>

PumpWoken(s) ==
  /\ pump[s] = "wait" /\ wake[s]
  /\ wake' = [wake EXCEPT ![s] = FALSE]
  /\ pump' = [pump EXCEPT ![s] = "top"]
  /\ UNCHANGED <<seq, critical, subs, pub, ch, ring, done, got, lost, from>>

\* The select on the head of the ring: into the channel if there is room; a
\* droppable event is given up if there is none.
MayDrop(e) == e \notin critical

PumpDeliver(s) ==
  /\ pump[s] = "deliver"
  /\ \/ /\ Len(ch[s]) < ChCap
        /\ ch' = [ch EXCEPT ![s] = Append(@, Head(ring[s]))]
     \/ /\ Len(ch[s]) >= ChCap /\ MayDrop(Head(ring[s])) /\ ~done[s]
        /\ UNCHANGED ch
  /\ pump' = [pump EXCEPT ![s] = "advance"]
  /\ UNCHANGED <<seq, critical, subs, pub, ring, wake, done, got, lost, from>>

PumpAdvance(s) ==
  /\ pump[s] = "advance"
  /\ ring' = [ring EXCEPT ![s] = Tail(@)]
  /\ pump' = [pump EXCEPT ![s] = "top"]
  /\ UNCHANGED <<seq, critical, subs, pub, ch, wake, done, got, lost, from>>

\* Both selects also listen to done.
ExitPoints_Wait == {"wait"}
ExitPoints == {"wait", "deliver"}

PumpExit(s) ==
  /\ done[s] /\ pump[s] \in ExitPoints
  /\ pump' = [pump EXCEPT ![s] = "exited"]
  /\ UNCHANGED <<seq, critical, subs, pub, ch, ring, wake, done, got, lost, from>>

-----------------------------------------------------------------------------
(* subscriber *)

Subscribe(s) ==
  /\ pub.step = "idle" /\ pump[s] = "off"
  /\ subs' = subs \cup {s} /\ from' = [from EXCEPT ![s] = seq]
  /\ pump' = [pump EXCEPT ![s] = "top"]
  /\ UNCHANGED <<seq, critical, pub, ch, ring, wake, done, got, lost>>

\* The consumer reads its channel.
Receive(s) ==
  /\ s \in subs /\ ch[s] # <<>>
  /\ got' = [got EXCEPT ![s] = Append(@, Head(ch[s]))]
  /\ ch' = [ch EXCEPT ![s] = Tail(@)]
  /\ UNCHANGED <<seq, critical, subs, pub, ring, wake, done, pump, lost, from>>

\* unsubscribe: first leave eb.subs, then stop the pump and drain.
Unsubscribe(s) ==
  /\ pub.step = "idle" /\ s \in subs
  /\ subs' = subs \ {s}
  /\ UNCHANGED <<seq, critical, pub, ch, ring, wake, done, pump, got, lost, from>>

CloseDone(s) ==
  /\ pump[s] # "off" /\ s \notin subs /\ ~done[s]
  /\ done' = [done EXCEPT ![s] = TRUE]
  /\ ch' = [ch EXCEPT ![s] = <<>>]
  /\ UNCHANGED <<seq, critical, subs, pub, ring, wake, pump, got, lost, from>>

-----------------------------------------------------------------------------
PublisherStep == PublishDone \/ \E s \in Subs : Offer(s) \/ Enqueue(s) \/ Wake(s)

PumpStep(s) == PumpTop(s) \/ PumpWoken(s) \/ PumpDeliver(s) \/ PumpAdvance(s)

Next ==
  \/ Publish \/ PublisherStep
  \/ \E s \in Subs : \/ PumpStep(s) \/ PumpExit(s)
                     \/ Subscribe(s) \/ Receive(s) \/ Unsubscribe(s) \/ CloseDone(s)

Spec == Init /\ [][Next]_vars

\* A call of publish and the pumps run on; the consumers read.
FairSpec ==
  /\ Spec /\ WF_vars(PublisherStep)
  /\ \A s \in Subs : WF_vars(PumpStep(s)) /\ WF_vars(PumpExit(s)) /\ WF_vars(CloseDone(s))
                     /\ WF_vars(Receive(s))

-----------------------------------------------------------------------------
(* properties *)

\* Droppable events never sit in the reserve kept for critical ones.
ReserveIsCritical ==
  \A s \in Subs : \A i \in 1..Len(ring[s]) :
    i > QueueCap => ring[s][i] \in critical

\* A pump sleeps on a non-empty ring only with its wake-up on the way.
NoLostWakeup ==
  \A s \in Subs :
    pump[s] = "wait" /\ ring[s] # <<>> => wake[s] \/ (pub.step = "wake" /\ pub.at = s)

\* The two facts about a ring that publisher and pump rely on, whatever they do
\* to it at the same time.
RingsRight == ReserveIsCritical /\ NoLostWakeup

\* A critical event reaches the consumer of a subscription that lives on.
CriticalDelivered ==
  \A s \in Subs, e \in Events :
    (e \in critical /\ s \in subs /\ from[s] < e)
      ~> (s \notin subs \/ e \in lost[s] \/ \E i \in 1..Len(got[s]) : got[s][i] = e)

\* A cancelled subscription's pump ends, even one stuck on a full channel.
PumpStops == \A s \in Subs : done[s] ~> pump[s] = "exited"

\* A subscription is served to its end, and its pump does not outlive it.
PumpsServe == CriticalDelivered /\ PumpStops

\* The bus implements the stream of EventStream: channels, rings and pumps are
\* invisible to a subscriber, who reads in order, each event once, and misses a
\* critical one only when Slack others are waiting ("the droppable backlog never
\* crowds out a terminal state").
Stream == INSTANCE EventStream
  WITH Subs <- Subs, Slack <- Slack, seq <- seq, critical <- critical, subs <- subs,
       got <- got, lost <- lost, from <- from
IsAStream == Stream!Spec
=============================================================================
