-------------------------- MODULE EventBus_proofs --------------------------
(***************************************************************************)
(* Proofs about EventBus, for every number of subscriptions, events and    *)
(* every capacity.                                                         *)
(***************************************************************************)
EXTENDS EventBus, FiniteSetTheorems, TLAPS

-----------------------------------------------------------------------------
(* Sequences of numbers *)

\* Appending to a sequence keeps its elements and adds one.
LEMMA AppendFacts ==
  ASSUME NEW S, NEW q \in Seq(S), NEW e \in S
  PROVE  /\ Append(q, e) \in Seq(S)
         /\ Len(Append(q, e)) = Len(q) + 1
         /\ Append(q, e) # <<>>
         /\ \A i \in 1..Len(q) : Append(q, e)[i] = q[i]
         /\ Append(q, e)[Len(q) + 1] = e
  OBVIOUS

\* The tail of a non-empty sequence is the sequence shifted by one.
LEMMA TailFacts ==
  ASSUME NEW S, NEW q \in Seq(S), q # <<>>
  PROVE  /\ Tail(q) \in Seq(S) /\ Head(q) \in S /\ Head(q) = q[1]
         /\ Len(q) > 0 /\ Len(Tail(q)) = Len(q) - 1
         /\ \A i \in 1..Len(Tail(q)) : Tail(q)[i] = q[i + 1]
  OBVIOUS

\* The elements of a sequence.
LEMMA ElementFacts ==
  ASSUME NEW S, NEW q \in Seq(S)
  PROVE  /\ Len(q) \in Nat /\ (\A i \in 1..Len(q) : q[i] \in S)
         /\ q # <<>> => Len(q) \in 1..Len(q)
  OBVIOUS

\* A sequence of numbers that grows.
Increasing(q) == \A i, j \in 1..Len(q) : i < j => q[i] < q[j]

\* It still grows with a greater number at its end.
LEMMA IncreasingAppend ==
  ASSUME NEW S, S \subseteq Nat, NEW q \in Seq(S), Increasing(q), NEW e \in S, \A i \in 1..Len(q) : q[i] < e
  PROVE  Increasing(Append(q, e))
  <1> DEFINE a == Append(q, e)
  <1>1. /\ Len(a) = Len(q) + 1 /\ (\A i \in 1..Len(q) : a[i] = q[i]) /\ a[Len(q) + 1] = e
        /\ Len(q) \in Nat
    BY AppendFacts, ElementFacts
  <1> HIDE DEF a
  <1>2. ASSUME NEW i \in 1..Len(a), NEW j \in 1..Len(a), i < j PROVE a[i] < a[j]
    <2>1. i \in 1..Len(q)
      BY <1>1, <1>2
    <2>2. CASE j \in 1..Len(q)
      BY <1>1, <1>2, <2>1, <2>2 DEF Increasing
    <2>3. CASE j = Len(q) + 1
      BY <1>1, <2>1, <2>3
    <2> QED BY <1>1, <2>2, <2>3
  <1> QED BY <1>2 DEF Increasing, a

\* Without its first element it grows from there.
LEMMA IncreasingTail ==
  ASSUME NEW S, NEW q \in Seq(S), Increasing(q), q # <<>>
  PROVE  Increasing(Tail(q)) /\ \A i \in 1..Len(Tail(q)) : Head(q) < Tail(q)[i]
  <1>1. /\ Len(Tail(q)) = Len(q) - 1 /\ Len(q) \in Nat \ {0} /\ Head(q) = q[1]
        /\ \A i \in 1..Len(Tail(q)) : Tail(q)[i] = q[i + 1]
    BY TailFacts, ElementFacts
  <1>2. \A i \in 1..Len(Tail(q)) : i + 1 \in 1..Len(q) /\ 1 \in 1..Len(q)
    BY <1>1
  <1> QED BY <1>1, <1>2 DEF Increasing

-----------------------------------------------------------------------------
(* Type correctness *)

\* Every variable stays in its type: in particular a pump never takes the head
\* of an empty ring.
TypeInv ==
  /\ TypeOK
  /\ \A s \in Subs : pump[s] \in {"deliver", "advance"} => ring[s] # <<>>
  /\ pub.step \in {"enqueue", "wake"} => pub.at \in pub.todo
  /\ pub.step = "idle" => pub.todo = {}
  /\ pub.step # "idle" => seq \in Events

LEMMA TypeInit == Init => TypeInv
  BY CapsAssumption DEF Init, TypeInv, TypeOK, Idle, Events

LEMMA TypeStep == TypeInv /\ [Next]_vars => TypeInv'
  <1> SUFFICES ASSUME TypeInv, [Next]_vars PROVE TypeInv'
    OBVIOUS
  <1> USE CapsAssumption, NoneAssumption DEF TypeInv, TypeOK
  <1>1. CASE Publish
    BY <1>1 DEF Publish, Events
  <1>2. CASE PublishDone
    BY <1>2 DEF PublishDone, Idle
  <1>3. ASSUME NEW s \in Subs, Offer(s) PROVE TypeInv'
    <2>1. seq \in Events /\ s \in pub.todo /\ pub.step = "offer"
      BY <1>3 DEF Offer
    <2>2. Append(ch[s], seq) \in Seq(Events)
      BY <2>1
    <2>3. CASE MayGoDirect(s)
      <3>1. /\ ch' = [ch EXCEPT ![s] = Append(ch[s], seq)]
            /\ pub' = [step |-> "offer", todo |-> pub.todo \ {s}, at |-> None]
            /\ UNCHANGED <<seq, critical, subs, ring, wake, done, pump, got, lost, from>>
        BY <1>3, <2>3 DEF Offer, Offered
      <3>2. ch' \in [Subs -> Seq(Events)]
        BY <2>2, <3>1
      <3>3. pub' \in [step : {"idle", "offer", "enqueue", "wake"}, todo : SUBSET Subs,
                      at : Subs \cup {None}]
        BY <3>1
      <3>4. TypeOK'
        BY <3>1, <3>2, <3>3
      <3> QED BY <2>1, <3>1, <3>4
    <2>4. CASE ~MayGoDirect(s)
      <3>1. /\ pub' = [pub EXCEPT !.step = "enqueue", !.at = s]
            /\ UNCHANGED <<seq, critical, subs, ch, ring, wake, done, pump, got, lost, from>>
        BY <1>3, <2>4 DEF Offer
      <3>2. /\ pub' \in [step : {"idle", "offer", "enqueue", "wake"}, todo : SUBSET Subs,
                         at : Subs \cup {None}]
            /\ pub'.step = "enqueue" /\ pub'.at = s /\ pub'.todo = pub.todo
        BY <3>1
      <3>3. TypeOK'
        BY <3>1, <3>2
      <3> QED BY <2>1, <3>1, <3>2, <3>3
    <2> QED BY <2>3, <2>4
  <1>4. ASSUME NEW s \in Subs, Enqueue(s) PROVE TypeInv'
    <2>1. seq \in Events /\ s \in pub.todo /\ pub.at = s
      BY <1>4 DEF Enqueue
    <2>2. CASE Full(s)
      <3>1. /\ lost' = [lost EXCEPT ![s] = lost[s] \cup ({seq} \cap critical)]
            /\ Offered(s)
            /\ UNCHANGED <<seq, critical, subs, ch, ring, wake, done, pump, got, from>>
        BY <1>4, <2>2 DEF Enqueue
      <3>2. lost' \in [Subs -> SUBSET Events]
        BY <2>1, <3>1
      <3> QED BY <2>1, <3>1, <3>2 DEF Offered
    <2>3. CASE ~Full(s)
      <3>0. ring[s] \in Seq(Events) /\ Len(ring[s]) \in Nat
        OBVIOUS
      <3> HIDE DEF TypeInv, TypeOK
      <3>1. /\ Append(ring[s], seq) \in Seq(Events)
            /\ Append(ring[s], seq) # <<>>
            /\ Len(Append(ring[s], seq)) = Len(ring[s]) + 1
        BY <2>1, <3>0, AppendFacts
      <3>7. Len(Append(ring[s], seq)) <= QueueCap + Slack
        BY <2>3, <3>0, <3>1 DEF Full, Limit
      <3> USE DEF TypeInv, TypeOK
      <3>2. /\ ring' = [ring EXCEPT ![s] = Append(ring[s], seq)]
            /\ pub' = [step |-> "wake", todo |-> pub.todo, at |-> pub.at]
            /\ UNCHANGED <<seq, critical, subs, ch, wake, done, pump, got, lost, from>>
        BY <1>4, <2>3 DEF Enqueue
      <3>3. ring' \in [Subs -> Seq(Events)]
        BY <3>1, <3>2
      <3>4. pub' \in [step : {"idle", "offer", "enqueue", "wake"}, todo : SUBSET Subs,
                      at : Subs \cup {None}]
        BY <3>2
      <3>5. TypeOK'
        <4>1. ASSUME NEW x \in Subs PROVE Len(ring'[x]) <= QueueCap + Slack
          <5>1. CASE x = s
            BY <3>7, <3>2, <5>1
          <5>2. CASE x # s
            BY <3>2, <5>2
          <5> QED BY <5>1, <5>2
        <4> QED BY <3>2, <3>3, <3>4, <4>1
      <3>6. \A x \in Subs : pump'[x] \in {"deliver", "advance"} => ring'[x] # <<>>
        <4> SUFFICES ASSUME NEW x \in Subs, pump'[x] \in {"deliver", "advance"}
                     PROVE ring'[x] # <<>>
          OBVIOUS
        <4>1. CASE x = s
          BY <3>1, <3>2, <4>1
        <4>2. CASE x # s
          BY <3>2, <4>2
        <4> QED BY <4>1, <4>2
      <3> QED BY <2>1, <3>2, <3>5, <3>6
    <2> QED BY <2>2, <2>3
  <1>5. ASSUME NEW s \in Subs, Wake(s) PROVE TypeInv'
    BY <1>5 DEF Wake, Offered, Signal
  <1>6. ASSUME NEW s \in Subs, PumpTop(s) PROVE TypeInv'
    BY <1>6 DEF PumpTop
  <1>7. ASSUME NEW s \in Subs, PumpWoken(s) PROVE TypeInv'
    BY <1>7 DEF PumpWoken
  <1>8. ASSUME NEW s \in Subs, PumpDeliver(s) PROVE TypeInv'
    <2>1. ring[s] # <<>> /\ ring[s] \in Seq(Events)
      BY <1>8 DEF PumpDeliver
    <2>2. Head(ring[s]) \in Events
      BY <2>1, TailFacts
    <2>3. Append(ch[s], Head(ring[s])) \in Seq(Events)
      BY <2>2
    <2>4. /\ ch' = [ch EXCEPT ![s] = Append(ch[s], Head(ring[s]))] \/ ch' = ch
          /\ pump' = [pump EXCEPT ![s] = "advance"]
          /\ UNCHANGED <<seq, critical, subs, pub, ring, wake, done, got, lost, from>>
      BY <1>8 DEF PumpDeliver
    <2>5. ch' \in [Subs -> Seq(Events)]
      BY <2>3, <2>4
    <2> QED BY <2>1, <2>4, <2>5
  <1>9. ASSUME NEW s \in Subs, PumpAdvance(s) PROVE TypeInv'
    <2>1. Tail(ring[s]) \in Seq(Events)
      BY <1>9, TailFacts DEF PumpAdvance
    <2>2. /\ ring' = [ring EXCEPT ![s] = Tail(ring[s])]
          /\ pump' = [pump EXCEPT ![s] = "top"]
          /\ UNCHANGED <<seq, critical, subs, pub, ch, wake, done, got, lost, from>>
      BY <1>9 DEF PumpAdvance
    <2>3. ASSUME NEW x \in Subs PROVE Len(ring'[x]) <= QueueCap + Slack
      <3>1. Len(Tail(ring[s])) <= Len(ring[s])
        BY <1>9, TailFacts DEF PumpAdvance
      <3>2. Len(Tail(ring[s])) \in Nat /\ Len(ring[s]) \in Nat
        BY <2>1
      <3>3. CASE x = s
        BY <2>2, <3>1, <3>2, <3>3
      <3>4. CASE x # s
        BY <2>2, <3>4
      <3> QED BY <3>3, <3>4
    <2> QED BY <2>1, <2>2, <2>3
  <1>10. ASSUME NEW s \in Subs, PumpExit(s) PROVE TypeInv'
    BY <1>10 DEF PumpExit, ExitPoints
  <1>11. ASSUME NEW s \in Subs, Subscribe(s) PROVE TypeInv'
    BY <1>11 DEF Subscribe
  <1>12. ASSUME NEW s \in Subs, Receive(s) PROVE TypeInv'
    <2>1. Tail(ch[s]) \in Seq(Events) /\ Head(ch[s]) \in Events
      BY <1>12, TailFacts DEF Receive
    <2>2. Append(got[s], Head(ch[s])) \in Seq(Events)
      BY <2>1
    <2>3. /\ got' = [got EXCEPT ![s] = Append(got[s], Head(ch[s]))]
          /\ ch' = [ch EXCEPT ![s] = Tail(ch[s])]
          /\ UNCHANGED <<seq, critical, subs, pub, ring, wake, done, pump, lost, from>>
      BY <1>12 DEF Receive
    <2>4. got' \in [Subs -> Seq(Events)]
      BY <2>2, <2>3
    <2>5. ch' \in [Subs -> Seq(Events)]
      BY <2>1, <2>3
    <2> QED BY <2>3, <2>4, <2>5
  <1>13. ASSUME NEW s \in Subs, Unsubscribe(s) PROVE TypeInv'
    BY <1>13 DEF Unsubscribe
  <1>14. ASSUME NEW s \in Subs, CloseDone(s) PROVE TypeInv'
    BY <1>14 DEF CloseDone
  <1>15. CASE UNCHANGED vars
    BY <1>15 DEF vars
  <1> QED
    BY <1>1, <1>2, <1>3, <1>4, <1>5, <1>6, <1>7, <1>8, <1>9, <1>10, <1>11, <1>12,
       <1>13, <1>14, <1>15 DEF Next, PublisherStep, PumpStep

\* The bus is type-correct whatever the capacities and the interleaving.
THEOREM TypeCorrect == Spec => []TypeOK
  <1>1. TypeInv => TypeOK
    BY DEF TypeInv
  <1> QED BY <1>1, TypeInit, TypeStep, PTL DEF Spec
-----------------------------------------------------------------------------
(* The reserve of the ring *)

\* A step leaves a ring alone, appends the event being published if there is
\* room for it, or removes the first event.
LEMMA RingStep ==
  ASSUME TypeInv, Next, NEW s \in Subs
  PROVE  \/ ring'[s] = ring[s]
         \/ /\ seq \in Events /\ Len(ring[s]) < Limit(seq) /\ critical' = critical
            /\ ring'[s] = Append(ring[s], seq)
         \/ /\ ring[s] # <<>> /\ critical' = critical
            /\ ring'[s] = Tail(ring[s])
  <1> DEFINE Appended(x) == /\ seq \in Events /\ Len(ring[x]) < Limit(seq)
                            /\ critical' = critical
                            /\ ring' = [ring EXCEPT ![x] = Append(ring[x], seq)]
             Removed(x)  == /\ ring[x] # <<>> /\ critical' = critical
                            /\ ring' = [ring EXCEPT ![x] = Tail(ring[x])]
             Moved == ring' = ring \/ \E x \in Subs : Appended(x) \/ Removed(x)
  <1> USE DEF TypeInv, TypeOK
  <1> SUFFICES Moved
    OBVIOUS
  <1>1. CASE Publish \/ PublishDone
    BY <1>1 DEF Publish, PublishDone
  <1>2. ASSUME NEW x \in Subs, Enqueue(x) PROVE Moved
    <2>1. Len(ring[x]) \in Nat /\ Limit(seq) \in Nat
      BY CapsAssumption DEF Limit
    <2>2. ring' = ring \/ Appended(x)
      BY <1>2, <2>1 DEF Enqueue, Full
    <2> QED BY <2>2
  <1>3. ASSUME NEW x \in Subs, PumpAdvance(x) PROVE Moved
    <2>1. Removed(x)
      BY <1>3 DEF PumpAdvance
    <2> QED BY <2>1
  <1>4. ASSUME NEW x \in Subs,
               \/ Offer(x) \/ Wake(x) \/ PumpTop(x) \/ PumpWoken(x) \/ PumpDeliver(x)
               \/ PumpExit(x) \/ Subscribe(x) \/ Receive(x) \/ Unsubscribe(x) \/ CloseDone(x)
        PROVE  Moved
    BY <1>4 DEF Offer, Wake, PumpTop, PumpWoken, PumpDeliver, PumpExit, Subscribe,
       Receive, Unsubscribe, CloseDone
  <1> HIDE DEF Moved
  <1>5. CASE \E x \in Subs : PumpStep(x) \/ PumpExit(x)
    BY <1>3, <1>4, <1>5 DEF PumpStep
  <1>6. CASE PublisherStep
    BY <1>1, <1>2, <1>4, <1>6 DEF PublisherStep
  <1> QED BY <1>1, <1>4, <1>5, <1>6 DEF Next

\* Published events stay critical.
LEMMA CriticalGrows == ASSUME Next PROVE critical \subseteq critical'
  <1>1. CASE Publish
    BY <1>1 DEF Publish
  <1>2. CASE PublisherStep
    BY <1>2 DEF PublisherStep, PublishDone, Offer, Enqueue, Wake
  <1>3. ASSUME NEW s \in Subs, PumpStep(s) \/ PumpExit(s) PROVE critical' = critical
    BY <1>3 DEF PumpStep, PumpTop, PumpWoken, PumpDeliver, PumpAdvance, PumpExit
  <1>4. ASSUME NEW s \in Subs, Subscribe(s) \/ Receive(s) \/ Unsubscribe(s) \/ CloseDone(s)
        PROVE  critical' = critical
    BY <1>4 DEF Subscribe, Receive, Unsubscribe, CloseDone
  <1> QED BY <1>1, <1>2, <1>3, <1>4 DEF Next

LEMMA ReserveStep == TypeInv /\ ReserveIsCritical /\ [Next]_vars => ReserveIsCritical'
  <1> SUFFICES ASSUME TypeInv, ReserveIsCritical, Next,
                      NEW s \in Subs, NEW i \in 1..Len(ring'[s]), i > QueueCap
               PROVE  ring'[s][i] \in critical'
    BY DEF ReserveIsCritical, vars
  <1>1. ring[s] \in Seq(Events) /\ QueueCap \in Nat
    BY CapsAssumption DEF TypeInv, TypeOK
  <1>2. \A j \in 1..Len(ring[s]) : j > QueueCap => ring[s][j] \in critical
    BY DEF ReserveIsCritical
  <1>3. CASE ring'[s] = ring[s]
    BY <1>2, <1>3, CriticalGrows
  <1>4. CASE /\ seq \in Events /\ Len(ring[s]) < Limit(seq) /\ critical' = critical
             /\ ring'[s] = Append(ring[s], seq)
    <2>1. /\ Len(ring'[s]) = Len(ring[s]) + 1
          /\ \A j \in 1..Len(ring[s]) : ring'[s][j] = ring[s][j]
          /\ ring'[s][Len(ring[s]) + 1] = seq
      BY <1>1, <1>4, AppendFacts
    <2>2. CASE i \in 1..Len(ring[s])
      BY <1>2, <1>4, <2>1, <2>2
    <2>3. CASE i = Len(ring[s]) + 1
      BY <1>1, <1>4, <2>1, <2>3 DEF Limit
    <2> QED BY <1>1, <2>1, <2>2, <2>3
  <1>5. CASE ring[s] # <<>> /\ critical' = critical /\ ring'[s] = Tail(ring[s])
    <2>1. /\ Len(ring'[s]) = Len(ring[s]) - 1
          /\ \A j \in 1..Len(ring'[s]) : ring'[s][j] = ring[s][j + 1]
      BY <1>1, <1>5, TailFacts
    <2>2. i + 1 \in 1..Len(ring[s]) /\ i + 1 > QueueCap
      BY <1>1, <2>1
    <2> QED BY <1>2, <1>5, <2>1, <2>2
  <1> QED BY <1>3, <1>4, <1>5, RingStep

\* The last Slack places of a ring only ever hold critical events: however far
\* the droppable backlog grows, a terminal state finds room.
THEOREM ReserveKept == Spec => []ReserveIsCritical
  <1>1. Init => ReserveIsCritical
    BY DEF Init, ReserveIsCritical
  <1> QED BY <1>1, TypeInit, TypeStep, ReserveStep, PTL DEF Spec

-----------------------------------------------------------------------------
(* Wake-ups *)

LEMMA WakeStep == TypeInv /\ NoLostWakeup /\ [Next]_vars => NoLostWakeup'
  <1> SUFFICES ASSUME TypeInv, NoLostWakeup, Next,
                      NEW s \in Subs, pump'[s] = "wait", ring'[s] # <<>>
               PROVE  wake'[s] \/ (pub'.step = "wake" /\ pub'.at = s)
    BY DEF NoLostWakeup, vars
  <1>1. pump[s] = "wait" /\ ring[s] # <<>> => wake[s] \/ (pub.step = "wake" /\ pub.at = s)
    BY DEF NoLostWakeup
  <1> USE DEF TypeInv, TypeOK
  <1>2. CASE Publish \/ PublishDone
    BY <1>1, <1>2 DEF Publish, PublishDone
  <1>3. ASSUME NEW x \in Subs, Offer(x) PROVE wake'[s] \/ (pub'.step = "wake" /\ pub'.at = s)
    BY <1>1, <1>3 DEF Offer
  <1>4. ASSUME NEW x \in Subs, Enqueue(x)
        PROVE  wake'[s] \/ (pub'.step = "wake" /\ pub'.at = s)
    <2>1. CASE ring' = ring
      BY <1>1, <1>4, <2>1 DEF Enqueue
    <2>2. CASE ring' # ring
      <3>1. /\ ring' = [ring EXCEPT ![x] = Append(ring[x], seq)]
            /\ pub' = [pub EXCEPT !.step = "wake"] /\ pub.at = x
            /\ pump' = pump /\ wake' = wake /\ pub.step = "enqueue"
        BY <1>4, <2>2 DEF Enqueue
      <3>2. pub'.step = "wake" /\ pub'.at = x
        BY <3>1
      <3>3. x # s => ring'[s] = ring[s]
        BY <3>1
      <3> QED BY <1>1, <3>1, <3>2, <3>3
    <2> QED BY <2>1, <2>2
  <1>5. ASSUME NEW x \in Subs, Wake(x) PROVE wake'[s] \/ (pub'.step = "wake" /\ pub'.at = s)
    BY <1>1, <1>5 DEF Wake, Signal
  <1>6. ASSUME NEW x \in Subs, PumpTop(x)
        PROVE  wake'[s] \/ (pub'.step = "wake" /\ pub'.at = s)
    BY <1>1, <1>6 DEF PumpTop
  <1>7. ASSUME NEW x \in Subs, PumpWoken(x) \/ PumpDeliver(x) \/ PumpAdvance(x)
        PROVE  wake'[s] \/ (pub'.step = "wake" /\ pub'.at = s)
    BY <1>1, <1>7 DEF PumpWoken, PumpDeliver, PumpAdvance
  <1>8. ASSUME NEW x \in Subs, PumpExit(x) \/ Subscribe(x)
        PROVE  wake'[s] \/ (pub'.step = "wake" /\ pub'.at = s)
    BY <1>1, <1>8 DEF PumpExit, Subscribe
  <1>9. ASSUME NEW x \in Subs, Receive(x) \/ Unsubscribe(x) \/ CloseDone(x)
        PROVE  wake'[s] \/ (pub'.step = "wake" /\ pub'.at = s)
    BY <1>1, <1>9 DEF Receive, Unsubscribe, CloseDone
  <1> QED BY <1>2, <1>3, <1>4, <1>5, <1>6, <1>7, <1>8, <1>9 DEF Next, PublisherStep, PumpStep

\* A pump that goes to sleep on a ring that has just been filled is woken.
THEOREM WakeupsKept == Spec => []NoLostWakeup
  <1>1. Init => NoLostWakeup
    BY DEF Init, NoLostWakeup
  <1> QED BY <1>1, TypeInit, TypeStep, WakeStep, PTL DEF Spec

\* What eventBus.publish relies on without holding every lock: whatever the
\* capacities, the reserve of a full ring is there for critical events only, and
\* no pump sleeps on a ring that has something for it.
THEOREM RingsKept == Spec => []RingsRight
  <1>1. ReserveIsCritical /\ NoLostWakeup => RingsRight
    BY DEF RingsRight
  <1> QED BY <1>1, ReserveKept, WakeupsKept, PTL
-----------------------------------------------------------------------------
(* The bus is a stream *)

\* The last event read, or the last one before the subscription.
Place(s) == IF got[s] = <<>> THEN from[s] ELSE got[s][Len(got[s])]

\* Places of the ring whose event the pump has not handled yet.
Pending(s) == (IF pump[s] = "advance" THEN 2 ELSE 1)..Len(ring[s])

\* The publisher has yet to hand the newest event to s.
Awaits(s) == s \in pub.todo /\ ~(pub.step = "wake" /\ pub.at = s)
Newest(s) == IF Awaits(s) THEN seq - 1 ELSE seq

\* What is on its way to s is in order: read, then in the channel, then in the ring.
InOrder(s) ==
  /\ Increasing(ch[s]) /\ Increasing(ring[s])
  /\ \A i \in 1..Len(ch[s]) : Place(s) < ch[s][i]
  /\ \A j \in Pending(s) : Place(s) < ring[s][j]
  /\ \A i \in 1..Len(ch[s]), j \in Pending(s) : ch[s][i] < ring[s][j]

\* None of it is newer than what the publisher handed over.
Handed(s) ==
  /\ Place(s) <= Newest(s)
  /\ \A i \in 1..Len(ch[s]) : ch[s][i] <= Newest(s)
  /\ \A j \in 1..Len(ring[s]) : ring[s][j] <= Newest(s)
  /\ \A x \in lost[s] : x <= Newest(s)

\* A critical event that was handed over and not refused is on its way.
Held(s) ==
  \A x \in critical : Place(s) < x /\ x <= Newest(s) /\ x \notin lost[s] =>
    (\E i \in 1..Len(ch[s]) : ch[s][i] = x) \/ (\E j \in Pending(s) : ring[s][j] = x)

\* One that was refused is not.
Refused(s) == \A j \in Pending(s) : ring[s][j] \notin lost[s]

Served(s) == InOrder(s) /\ Handed(s) /\ Held(s) /\ Refused(s)

StreamInv ==
  /\ TypeInv /\ ReserveIsCritical
  /\ critical \subseteq 1..seq /\ pub.todo \subseteq subs
  /\ \A s \in Subs : pump[s] = "off" =>
       s \notin subs /\ got[s] = <<>> /\ ch[s] = <<>> /\ ring[s] = <<>> /\ lost[s] = {}
  /\ \A s \in subs : Served(s)

LEMMA StreamInit == Init => StreamInv
  BY TypeInit DEF Init, Idle, StreamInv, ReserveIsCritical

\* A step of the bus that does not concern s.
LEMMA Elsewhere ==
  ASSUME NEW s \in Subs, Served(s),
         ch'[s] = ch[s], ring'[s] = ring[s], got'[s] = got[s], lost'[s] = lost[s], from'[s] = from[s],
         pump'[s] = "advance" <=> pump[s] = "advance",
         seq' = seq, critical' = critical, Awaits(s)' <=> Awaits(s)
  PROVE  Served(s)'
  <1>1. Place(s)' = Place(s) /\ Pending(s)' = Pending(s) /\ Newest(s)' = Newest(s)
    BY DEF Place, Pending, Newest
  <1>2. InOrder(s)'
    BY <1>1 DEF Served, InOrder, Increasing
  <1>3. Handed(s)'
    BY <1>1 DEF Served, Handed
  <1>4. Held(s)' /\ Refused(s)'
    BY <1>1 DEF Served, Held, Refused
  <1> QED BY <1>2, <1>3, <1>4 DEF Served

\* The types of what s has.
LEMMA LaneTypes ==
  ASSUME TypeInv, NEW s \in Subs
  PROVE  /\ ch[s] \in Seq(Events) /\ ring[s] \in Seq(Events) /\ got[s] \in Seq(Events)
         /\ lost[s] \subseteq Events /\ seq \in 0..MaxSeq /\ critical \subseteq Events
         /\ Place(s) \in Nat /\ Newest(s) \in Int /\ Events \subseteq Nat
         /\ \A i \in 1..Len(ch[s]) : ch[s][i] \in Nat
         /\ \A j \in 1..Len(ring[s]) : ring[s][j] \in Nat
         /\ Len(ch[s]) \in Nat /\ Len(ring[s]) \in Nat
         /\ Pending(s) \subseteq 1..Len(ring[s])
  <1>1. /\ ch[s] \in Seq(Events) /\ ring[s] \in Seq(Events) /\ got[s] \in Seq(Events)
        /\ lost[s] \subseteq Events /\ seq \in 0..MaxSeq /\ critical \subseteq Events /\ from[s] \in 0..MaxSeq
        /\ Events \subseteq Nat
    BY CapsAssumption DEF TypeInv, TypeOK, Events
  <1>2. Len(ch[s]) \in Nat /\ \A i \in 1..Len(ch[s]) : ch[s][i] \in Events
    BY <1>1, ElementFacts
  <1>3. Place(s) \in Nat
    <2>1. got[s] # <<>> => got[s][Len(got[s])] \in Events
      BY <1>1, ElementFacts
    <2>2. CASE got[s] = <<>>
      BY <1>1, <2>2, CapsAssumption DEF Place
    <2>3. CASE got[s] # <<>>
      BY <1>1, <2>1, <2>3 DEF Place
    <2> QED BY <2>2, <2>3
  <1>4. Len(ring[s]) \in Nat /\ \A j \in 1..Len(ring[s]) : ring[s][j] \in Events
    BY <1>1, ElementFacts
  <1>5. Newest(s) \in Int
    BY <1>1, CapsAssumption DEF Newest
  <1>6. Pending(s) \subseteq 1..Len(ring[s])
    BY <1>4 DEF Pending
  <1> QED BY <1>1, <1>2, <1>3, <1>4, <1>5, <1>6

\* The publisher's hand-over to the channel.
LEMMA OfferServes ==
  ASSUME TypeInv, NEW s \in Subs, Served(s), Offer(s), MayGoDirect(s)
  PROVE  Served(s)'
  <1>1. /\ ch'[s] = Append(ch[s], seq) /\ ring[s] = <<>> /\ seq \in Events
        /\ ring'[s] = ring[s] /\ got'[s] = got[s] /\ lost'[s] = lost[s] /\ from'[s] = from[s]
        /\ pump' = pump /\ seq' = seq /\ critical' = critical
    BY DEF TypeInv, TypeOK, Offer, MayGoDirect
  <1>2. Awaits(s) /\ ~Awaits(s)'
    BY DEF TypeInv, TypeOK, Offer, MayGoDirect, Offered, Awaits
  <1>3. Newest(s) = seq - 1 /\ Newest(s)' = seq /\ Place(s)' = Place(s) /\ Pending(s)' = Pending(s)
        /\ Pending(s) = {}
    <2>1. Len(ring[s]) = 0
      BY <1>1
    <2> QED BY <1>1, <1>2, <2>1 DEF Newest, Place, Pending
  <1>4. /\ Len(ch'[s]) = Len(ch[s]) + 1 /\ (\A i \in 1..Len(ch[s]) : ch'[s][i] = ch[s][i])
        /\ ch'[s][Len(ch[s]) + 1] = seq /\ Len(ch[s]) \in Nat /\ Place(s) \in Nat /\ seq \in Nat
        /\ (\A i \in 1..Len(ch[s]) : ch[s][i] \in Nat) /\ critical \subseteq Nat /\ lost[s] \subseteq Nat
    BY <1>1, LaneTypes, AppendFacts
  <1>5. InOrder(s)'
    <2>1. \A i \in 1..Len(ch[s]) : ch[s][i] < seq
      BY <1>3, <1>4 DEF Served, Handed
    <2>2. Increasing(ch'[s])
      BY <1>1, <1>4, <2>1, LaneTypes, IncreasingAppend DEF Served, InOrder
    <2>3. Place(s) < seq
      BY <1>3, <1>4 DEF Served, Handed
    <2>4. ASSUME NEW i \in 1..Len(ch'[s]) PROVE Place(s) < ch'[s][i]
      <3>1. CASE i \in 1..Len(ch[s])
        BY <1>4, <3>1 DEF Served, InOrder
      <3>2. CASE i = Len(ch[s]) + 1
        BY <1>4, <2>3, <3>2
      <3> QED BY <1>4, <3>1, <3>2
    <2> QED BY <1>1, <1>3, <2>2, <2>4 DEF Served, InOrder
  <1>6. Handed(s)'
    <2>1. Place(s) <= seq /\ \A x \in lost[s] : x <= seq
      BY <1>3, <1>4 DEF Served, Handed
    <2>2. ASSUME NEW i \in 1..Len(ch'[s]) PROVE ch'[s][i] <= seq
      <3>1. CASE i \in 1..Len(ch[s])
        <4>1. ch[s][i] <= seq - 1
          BY <1>3, <3>1 DEF Served, Handed
        <4>2. ch'[s][i] = ch[s][i] /\ ch[s][i] \in Nat /\ seq \in Nat
          BY <1>4, <3>1
        <4> QED BY <4>1, <4>2
      <3>2. CASE i = Len(ch[s]) + 1
        BY <1>4, <3>2
      <3> QED BY <1>4, <3>1, <3>2
    <2> QED BY <1>1, <1>3, <2>1, <2>2 DEF Handed
  <1>7. Held(s)'
    <2> SUFFICES ASSUME NEW x \in critical, Place(s) < x, x <= seq, x \notin lost[s]
                 PROVE  \E i \in 1..Len(ch'[s]) : ch'[s][i] = x
      BY <1>1, <1>3 DEF Held
    <2>1. CASE x = seq
      BY <1>4, <2>1
    <2>2. CASE x # seq
      <3>1. PICK i \in 1..Len(ch[s]) : ch[s][i] = x
        BY <1>3, <1>4, <2>2 DEF Served, Held
      <3> QED BY <1>4, <3>1
    <2> QED BY <2>1, <2>2
  <1>8. Refused(s)'
    BY <1>3 DEF Refused
  <1> QED BY <1>5, <1>6, <1>7, <1>8 DEF Served

\* The publisher refuses the event: nothing that s is still to get is as new.
LEMMA RefuseServes ==
  ASSUME TypeInv, NEW s \in Subs, Served(s), Enqueue(s), Full(s)
  PROVE  Served(s)'
  <1>1. /\ lost'[s] = lost[s] \cup ({seq} \cap critical) /\ seq \in Events
        /\ ch' = ch /\ ring' = ring /\ got' = got /\ from' = from
        /\ pump' = pump /\ seq' = seq /\ critical' = critical
    BY DEF TypeInv, TypeOK, Enqueue
  <1>2. Awaits(s) /\ ~Awaits(s)'
    BY DEF TypeInv, TypeOK, Enqueue, Offered, Awaits
  <1>3. Newest(s) = seq - 1 /\ Newest(s)' = seq /\ Place(s)' = Place(s) /\ Pending(s)' = Pending(s)
    BY <1>1, <1>2 DEF Newest, Place, Pending
  <1>4. /\ Place(s) \in Nat /\ seq \in Nat /\ (\A i \in 1..Len(ch[s]) : ch[s][i] \in Nat)
        /\ (\A j \in 1..Len(ring[s]) : ring[s][j] \in Nat) /\ critical \subseteq Nat /\ lost[s] \subseteq Nat
        /\ Pending(s) \subseteq 1..Len(ring[s])
    BY LaneTypes
  <1>5. InOrder(s)'
    BY <1>1, <1>3 DEF Served, InOrder, Increasing
  <1>6. Handed(s)'
    <2>1. Place(s) <= seq /\ \A x \in lost'[s] : x <= seq
      BY <1>1, <1>3, <1>4 DEF Served, Handed
    <2>2. \A i \in 1..Len(ch[s]) : ch[s][i] <= seq
      BY <1>3, <1>4 DEF Served, Handed
    <2>3. \A j \in 1..Len(ring[s]) : ring[s][j] <= seq
      BY <1>3, <1>4 DEF Served, Handed
    <2> QED BY <1>1, <1>3, <2>1, <2>2, <2>3 DEF Handed
  <1>7. Held(s)'
    <2> SUFFICES ASSUME NEW x \in critical, Place(s) < x, x <= seq, x \notin lost'[s]
                 PROVE  \/ \E i \in 1..Len(ch[s]) : ch[s][i] = x
                        \/ \E j \in Pending(s) : ring[s][j] = x
      BY <1>1, <1>3 DEF Held
    <2>1. x # seq /\ x \notin lost[s]
      BY <1>1
    <2>2. x <= Newest(s)
      BY <1>3, <1>4, <2>1
    <2> QED BY <2>1, <2>2 DEF Served, Held
  <1>8. Refused(s)'
    <2>1. ASSUME NEW j \in Pending(s) PROVE ring[s][j] # seq
      <3>1. ring[s][j] <= seq - 1 /\ ring[s][j] \in Nat
        BY <1>3, <1>4 DEF Served, Handed
      <3> QED BY <1>4, <3>1
    <2> QED BY <1>1, <1>3, <2>1 DEF Served, Refused
  <1> QED BY <1>5, <1>6, <1>7, <1>8 DEF Served

\* It queues the event.
LEMMA EnqueueServes ==
  ASSUME TypeInv, NEW s \in Subs, Served(s), Enqueue(s), ~Full(s)
  PROVE  Served(s)'
  <1> DEFINE n == Len(ring[s]) + 1
  <1>1. /\ ring'[s] = Append(ring[s], seq) /\ seq \in Events
        /\ ch' = ch /\ lost' = lost /\ got' = got /\ from' = from
        /\ pump' = pump /\ seq' = seq /\ critical' = critical
    BY DEF TypeInv, TypeOK, Enqueue
  <1>2. Awaits(s) /\ ~Awaits(s)'
    BY DEF TypeInv, TypeOK, Enqueue, Offered, Awaits
  <1>3. /\ Place(s) \in Nat /\ seq \in Nat /\ (\A i \in 1..Len(ch[s]) : ch[s][i] \in Nat)
        /\ (\A j \in 1..Len(ring[s]) : ring[s][j] \in Nat) /\ critical \subseteq Nat /\ lost[s] \subseteq Nat
        /\ Pending(s) \subseteq 1..Len(ring[s]) /\ Len(ring[s]) \in Nat
    BY LaneTypes
  <1>4. /\ Len(ring'[s]) = n /\ (\A j \in 1..Len(ring[s]) : ring'[s][j] = ring[s][j]) /\ ring'[s][n] = seq
    BY <1>1, LaneTypes, AppendFacts
  <1>5. Newest(s) = seq - 1 /\ Newest(s)' = seq /\ Place(s)' = Place(s)
    BY <1>1, <1>2 DEF Newest, Place
  <1>6. Pending(s)' = Pending(s) \cup {n}
    <2>1. pump[s] = "advance" => Len(ring[s]) # 0
      <3>1. ring[s] = <<>> \/ Len(ring[s]) # 0
        BY LaneTypes
      <3> QED BY <3>1 DEF TypeInv
    <2> QED BY <1>1, <1>3, <1>4, <2>1 DEF Pending
  <1>7. /\ Place(s) < seq /\ (\A i \in 1..Len(ch[s]) : ch[s][i] < seq)
        /\ (\A j \in 1..Len(ring[s]) : ring[s][j] < seq) /\ \A x \in lost[s] : x < seq
    BY <1>3, <1>5 DEF Served, Handed
  <1> HIDE DEF n
  <1>8. InOrder(s)'
    <2>1. Increasing(ch'[s]) /\ Increasing(ring'[s])
      BY <1>1, <1>7, LaneTypes, IncreasingAppend DEF Served, InOrder
    <2>2. ASSUME NEW j \in Pending(s)'
          PROVE  Place(s) < ring'[s][j] /\ \A i \in 1..Len(ch[s]) : ch[s][i] < ring'[s][j]
      <3>1. CASE j \in Pending(s)
        BY <1>3, <1>4, <3>1 DEF Served, InOrder
      <3>2. CASE j = n
        BY <1>4, <1>7, <3>2
      <3> QED BY <1>6, <3>1, <3>2
    <2> QED BY <1>1, <1>5, <2>1, <2>2 DEF Served, InOrder
  <1>9. Handed(s)'
    <2>1. ASSUME NEW j \in 1..Len(ring'[s]) PROVE ring'[s][j] <= seq
      <3>1. CASE j \in 1..Len(ring[s])
        BY SMTT(30), <1>3, <1>4, <1>7, <3>1
      <3>2. CASE j = n
        BY <1>3, <1>4, <3>2
      <3> QED BY <1>3, <1>4, <3>1, <3>2 DEF n
    <2>2. Place(s) <= seq /\ (\A i \in 1..Len(ch[s]) : ch[s][i] <= seq) /\ \A x \in lost[s] : x <= seq
      BY <1>3, <1>7
    <2> QED BY <1>1, <1>5, <2>1, <2>2 DEF Handed
  <1>10. Held(s)'
    <2> SUFFICES ASSUME NEW x \in critical, Place(s) < x, x <= seq, x \notin lost[s]
                 PROVE  \/ \E i \in 1..Len(ch[s]) : ch[s][i] = x
                        \/ \E j \in Pending(s)' : ring'[s][j] = x
      BY <1>1, <1>5 DEF Held
    <2>1. CASE x = seq
      BY <1>4, <1>6, <2>1
    <2>2. CASE x # seq
      <3>1. x <= Newest(s)
        BY <1>3, <1>5, <2>2
      <3>2. (\E i \in 1..Len(ch[s]) : ch[s][i] = x) \/ (\E j \in Pending(s) : ring[s][j] = x)
        BY <3>1 DEF Served, Held
      <3> QED BY <1>3, <1>4, <1>6, <3>2
    <2> QED BY <2>1, <2>2
  <1>11. Refused(s)'
    <2>1. ASSUME NEW j \in Pending(s)' PROVE ring'[s][j] \notin lost[s]
      <3>1. CASE j \in Pending(s)
        BY <1>3, <1>4, <3>1 DEF Served, Refused
      <3>2. CASE j = n
        BY <1>3, <1>4, <1>7, <3>2
      <3> QED BY <1>6, <3>1, <3>2
    <2> QED BY <1>1, <2>1 DEF Refused
  <1> QED BY <1>8, <1>9, <1>10, <1>11 DEF Served

\* The pump takes the head of the ring: into the channel, or away if it is droppable.
LEMMA DeliverServes ==
  ASSUME TypeInv, NEW s \in Subs, Served(s), PumpDeliver(s)
  PROVE  Served(s)'
  <1> DEFINE h == ring[s][1]
  <1>1. /\ ring' = ring /\ lost' = lost /\ got' = got /\ from' = from /\ pub' = pub
        /\ seq' = seq /\ critical' = critical /\ pump[s] = "deliver" /\ pump'[s] = "advance"
    BY DEF TypeInv, TypeOK, PumpDeliver
  <1>2. /\ Place(s) \in Nat /\ Newest(s) \in Int /\ (\A i \in 1..Len(ch[s]) : ch[s][i] \in Nat)
        /\ (\A j \in 1..Len(ring[s]) : ring[s][j] \in Nat) /\ Len(ring[s]) \in Nat /\ Len(ch[s]) \in Nat
    BY LaneTypes
  <1>3. ring[s] # <<>> /\ Len(ring[s]) > 0 /\ Head(ring[s]) = h /\ h \in Events
    BY <1>1, LaneTypes, TailFacts DEF TypeInv
  <1>4. Newest(s)' = Newest(s) /\ Place(s)' = Place(s)
    BY <1>1 DEF Newest, Awaits, Place
  <1>5. Pending(s) = 1..Len(ring[s]) /\ Pending(s)' = 2..Len(ring[s]) /\ 1 \in Pending(s)
    BY <1>1, <1>2, <1>3 DEF Pending
  <1>6. \A j \in Pending(s)' : j \in Pending(s) /\ h < ring[s][j]
    BY <1>2, <1>5 DEF Served, InOrder, Increasing
  <1>7. Place(s) < h /\ h <= Newest(s) /\ \A i \in 1..Len(ch[s]) : ch[s][i] < h
    BY <1>2, <1>5 DEF Served, InOrder, Handed
  <1>8. Refused(s)'
    BY <1>1, <1>6 DEF Served, Refused
  <1> HIDE DEF h
  <1>9. CASE ch' = [ch EXCEPT ![s] = Append(ch[s], Head(ring[s]))]
    <2>1. ch'[s] = Append(ch[s], h)
      BY <1>3, <1>9 DEF TypeInv, TypeOK
    <2>2. /\ Len(ch'[s]) = Len(ch[s]) + 1 /\ (\A i \in 1..Len(ch[s]) : ch'[s][i] = ch[s][i])
          /\ ch'[s][Len(ch[s]) + 1] = h
      BY <1>3, <2>1, LaneTypes, AppendFacts
    <2>3. InOrder(s)'
      <3>1. Increasing(ch'[s])
        BY <1>3, <1>7, <2>1, LaneTypes, IncreasingAppend DEF Served, InOrder
      <3>2. ASSUME NEW i \in 1..Len(ch'[s])
            PROVE  Place(s) < ch'[s][i] /\ \A j \in Pending(s)' : ch'[s][i] < ring[s][j]
        <4>1. CASE i \in 1..Len(ch[s])
          BY <1>6, <2>2, <4>1 DEF Served, InOrder
        <4>2. CASE i = Len(ch[s]) + 1
          BY <1>6, <1>7, <2>2, <4>2
        <4> QED BY <1>2, <2>2, <4>1, <4>2
      <3>3. \A j \in Pending(s)' : Place(s) < ring[s][j]
        BY <1>6 DEF Served, InOrder
      <3>4. Increasing(ring'[s])
        BY <1>1 DEF Served, InOrder
      <3> QED BY <1>1, <1>4, <3>1, <3>2, <3>3, <3>4 DEF InOrder
    <2>4. Handed(s)'
      <3>1. ASSUME NEW i \in 1..Len(ch'[s]) PROVE ch'[s][i] <= Newest(s)
        <4>1. CASE i \in 1..Len(ch[s])
          BY <2>2, <4>1 DEF Served, Handed
        <4>2. CASE i = Len(ch[s]) + 1
          BY <1>7, <2>2, <4>2
        <4> QED BY <1>2, <2>2, <4>1, <4>2
      <3> QED BY <1>1, <1>4, <3>1 DEF Served, Handed
    <2>5. Held(s)'
      <3> SUFFICES ASSUME NEW x \in critical, Place(s) < x, x <= Newest(s), x \notin lost[s]
                   PROVE  \/ \E i \in 1..Len(ch'[s]) : ch'[s][i] = x
                          \/ \E j \in Pending(s)' : ring[s][j] = x
        BY <1>1, <1>4 DEF Held
      <3>1. CASE \E i \in 1..Len(ch[s]) : ch[s][i] = x
        BY <1>2, <2>2, <3>1
      <3>2. CASE \E j \in Pending(s) : ring[s][j] = x
        <4>1. PICK j \in Pending(s) : ring[s][j] = x
          BY <3>2
        <4>2. CASE j = 1
          BY <1>2, <2>2, <4>1, <4>2 DEF h
        <4>3. CASE j # 1
          BY <1>2, <1>5, <4>1, <4>3
        <4> QED BY <4>2, <4>3
      <3> QED BY <3>1, <3>2 DEF Served, Held
    <2> QED BY <1>8, <2>3, <2>4, <2>5 DEF Served
  <1>10. CASE ch' = ch /\ h \notin critical
    <2>1. InOrder(s)'
      <3>1. \A j \in Pending(s)' : Place(s) < ring[s][j] /\ \A i \in 1..Len(ch[s]) : ch[s][i] < ring[s][j]
        BY <1>6 DEF Served, InOrder
      <3> QED BY <1>1, <1>4, <1>10, <3>1 DEF Served, InOrder
    <2>2. Handed(s)'
      BY <1>1, <1>4, <1>10 DEF Served, Handed
    <2>3. Held(s)'
      <3> SUFFICES ASSUME NEW x \in critical, Place(s) < x, x <= Newest(s), x \notin lost[s]
                   PROVE  \/ \E i \in 1..Len(ch[s]) : ch[s][i] = x
                          \/ \E j \in Pending(s)' : ring[s][j] = x
        BY <1>1, <1>4, <1>10 DEF Held
      <3>1. ASSUME NEW j \in Pending(s), ring[s][j] = x PROVE j \in Pending(s)'
        BY <1>2, <1>5, <1>10, <3>1 DEF h
      <3> QED BY <3>1 DEF Served, Held
    <2> QED BY <1>8, <2>1, <2>2, <2>3 DEF Served
  <1> QED BY <1>3, <1>9, <1>10 DEF PumpDeliver, MayDrop

\* It removes the event it has handled.
LEMMA AdvanceServes ==
  ASSUME TypeInv, NEW s \in Subs, Served(s), PumpAdvance(s)
  PROVE  Served(s)'
  <1>1. /\ ring'[s] = Tail(ring[s]) /\ lost' = lost /\ got' = got /\ from' = from /\ pub' = pub /\ ch' = ch
        /\ seq' = seq /\ critical' = critical /\ pump[s] = "advance" /\ pump'[s] = "top" /\ ring[s] # <<>>
    BY DEF TypeInv, TypeOK, PumpAdvance
  <1>2. /\ Len(ring[s]) \in Nat \ {0} /\ Len(ring'[s]) = Len(ring[s]) - 1
        /\ \A j \in 1..Len(ring'[s]) : ring'[s][j] = ring[s][j + 1]
    BY <1>1, LaneTypes, TailFacts
  <1>3. Newest(s)' = Newest(s) /\ Place(s)' = Place(s)
    BY <1>1 DEF Newest, Awaits, Place
  <1>4. Pending(s) = 2..Len(ring[s]) /\ Pending(s)' = 1..Len(ring'[s])
    BY <1>1, <1>2 DEF Pending
  <1>5. \A j \in Pending(s)' : j + 1 \in Pending(s) /\ ring'[s][j] = ring[s][j + 1]
    BY <1>2, <1>4
  <1>6. \A j \in Pending(s) : j - 1 \in Pending(s)' /\ ring'[s][j - 1] = ring[s][j]
    BY <1>2, <1>4
  <1>7. InOrder(s)'
    <2>1. Increasing(ring'[s])
      BY <1>1, LaneTypes, IncreasingTail DEF Served, InOrder
    <2>2. Increasing(ch'[s])
      BY <1>1 DEF Served, InOrder
    <2>3. \A j \in Pending(s)' : Place(s) < ring'[s][j]
      BY <1>5 DEF Served, InOrder
    <2>4. \A i \in 1..Len(ch[s]), j \in Pending(s)' : ch[s][i] < ring'[s][j]
      BY <1>5 DEF Served, InOrder
    <2> QED BY <1>1, <1>3, <2>1, <2>2, <2>3, <2>4 DEF Served, InOrder
  <1>8. Handed(s)'
    <2>1. ASSUME NEW j \in 1..Len(ring'[s]) PROVE ring'[s][j] <= Newest(s)
      <3>1. j + 1 \in 1..Len(ring[s]) /\ ring'[s][j] = ring[s][j + 1]
        BY <1>2
      <3> QED BY <3>1 DEF Served, Handed
    <2> QED BY <1>1, <1>3, <2>1 DEF Served, Handed
  <1>9. Held(s)'
    <2> SUFFICES ASSUME NEW x \in critical, Place(s) < x, x <= Newest(s), x \notin lost[s]
                 PROVE  \/ \E i \in 1..Len(ch[s]) : ch[s][i] = x
                        \/ \E j \in Pending(s)' : ring'[s][j] = x
      BY <1>1, <1>3 DEF Held
    <2> QED BY <1>6 DEF Served, Held
  <1>10. Refused(s)'
    BY <1>1, <1>5 DEF Served, Refused
  <1> QED BY <1>7, <1>8, <1>9, <1>10 DEF Served

\* The consumer reads the oldest event of the channel.
LEMMA ReceiveFacts ==
  ASSUME TypeInv, NEW s \in Subs, Receive(s)
  PROVE  /\ got'[s] = Append(got[s], Head(ch[s])) /\ ch'[s] = Tail(ch[s]) /\ ch[s] # <<>>
         /\ Place(s)' = ch[s][1] /\ 1 \in 1..Len(ch[s]) /\ Head(ch[s]) = ch[s][1] /\ ch[s][1] \in Events
         /\ Len(ch'[s]) = Len(ch[s]) - 1
         /\ \A i \in 1..Len(ch'[s]) : ch'[s][i] = ch[s][i + 1] /\ i + 1 \in 1..Len(ch[s])
         /\ \A i \in 1..Len(ch[s]) : i # 1 => i - 1 \in 1..Len(ch'[s])
  <1>1. got'[s] = Append(got[s], Head(ch[s])) /\ ch'[s] = Tail(ch[s]) /\ ch[s] # <<>>
    BY DEF TypeInv, TypeOK, Receive
  <1>2. /\ Head(ch[s]) = ch[s][1] /\ ch[s][1] \in Events /\ Len(ch[s]) \in Nat \ {0}
        /\ Len(ch'[s]) = Len(ch[s]) - 1 /\ \A i \in 1..Len(ch'[s]) : ch'[s][i] = ch[s][i + 1]
    BY <1>1, LaneTypes, TailFacts
  <1>3. got'[s] # <<>> /\ got'[s][Len(got'[s])] = ch[s][1]
    <2> DEFINE e == ch[s][1]
               n == Len(got[s]) + 1
    <2>1. got'[s] = Append(got[s], e) /\ e \in Events /\ got[s] \in Seq(Events)
      BY <1>1, <1>2, LaneTypes
    <2> HIDE DEF e
    <2>2. Append(got[s], e) # <<>> /\ Len(Append(got[s], e)) = n /\ Append(got[s], e)[n] = e
      BY <2>1, AppendFacts
    <2> QED BY <2>1, <2>2 DEF e
  <1> QED BY <1>1, <1>2, <1>3 DEF Place

LEMMA ReceiveServes ==
  ASSUME TypeInv, NEW s \in Subs, Served(s), Receive(s)
  PROVE  Served(s)'
  <1>1. /\ ring' = ring /\ lost' = lost /\ from' = from /\ pub' = pub
        /\ seq' = seq /\ critical' = critical /\ pump' = pump
    BY DEF Receive
  <1>2. /\ ch'[s] = Tail(ch[s]) /\ ch[s] # <<>>
        /\ Place(s)' = ch[s][1] /\ 1 \in 1..Len(ch[s]) /\ Head(ch[s]) = ch[s][1]
        /\ Len(ch'[s]) = Len(ch[s]) - 1
        /\ \A i \in 1..Len(ch'[s]) : ch'[s][i] = ch[s][i + 1] /\ i + 1 \in 1..Len(ch[s])
        /\ \A i \in 1..Len(ch[s]) : i # 1 => i - 1 \in 1..Len(ch'[s])
    BY ReceiveFacts
  <1>3. Newest(s)' = Newest(s) /\ Pending(s)' = Pending(s)
    BY <1>1 DEF Newest, Awaits, Pending
  <1>4. /\ Place(s) \in Nat /\ Newest(s) \in Int /\ (\A i \in 1..Len(ch[s]) : ch[s][i] \in Nat)
        /\ critical \subseteq Nat /\ Len(ch[s]) \in Nat
    BY LaneTypes
  <1>5. InOrder(s)'
    <2>1. Increasing(ch'[s]) /\ \A i \in 1..Len(ch'[s]) : ch[s][1] < ch'[s][i]
      BY <1>2, LaneTypes, IncreasingTail DEF Served, InOrder
    <2>2. \A j \in Pending(s) : ch[s][1] < ring[s][j]
      BY <1>2 DEF Served, InOrder
    <2>3. \A i \in 1..Len(ch'[s]), j \in Pending(s) : ch'[s][i] < ring[s][j]
      BY <1>2 DEF Served, InOrder
    <2> QED BY <1>1, <1>2, <1>3, <2>1, <2>2, <2>3 DEF Served, InOrder
  <1>6. Handed(s)'
    <2>1. ch[s][1] <= Newest(s) /\ \A i \in 1..Len(ch'[s]) : ch'[s][i] <= Newest(s)
      BY <1>2 DEF Served, Handed
    <2> QED BY <1>1, <1>2, <1>3, <2>1 DEF Served, Handed
  <1>7. Held(s)'
    <2> SUFFICES ASSUME NEW x \in critical, ch[s][1] < x, x <= Newest(s), x \notin lost[s]
                 PROVE  \/ \E i \in 1..Len(ch'[s]) : ch'[s][i] = x
                        \/ \E j \in Pending(s) : ring[s][j] = x
      BY <1>1, <1>2, <1>3 DEF Held
    <2>1. Place(s) < x
      <3>1. Place(s) < ch[s][1]
        BY <1>2 DEF Served, InOrder
      <3> QED BY <1>2, <1>4, <3>1
    <2>2. ASSUME NEW i \in 1..Len(ch[s]), ch[s][i] = x PROVE \E k \in 1..Len(ch'[s]) : ch'[s][k] = x
      <3>1. i # 1
        BY <1>2, <1>4, <2>2
      <3>2. i - 1 \in 1..Len(ch'[s]) /\ ch'[s][i - 1] = ch[s][(i - 1) + 1] /\ (i - 1) + 1 = i
        BY <1>2, <1>4, <3>1
      <3> QED BY <2>2, <3>2
    <2> QED BY <2>1, <2>2 DEF Served, Held
  <1>8. Refused(s)'
    BY <1>1, <1>3 DEF Served, Refused
  <1> QED BY <1>5, <1>6, <1>7, <1>8 DEF Served

\* A subscription that has just been made misses nothing yet.
LEMMA SubscribeServes ==
  ASSUME StreamInv, NEW s \in Subs, Subscribe(s)
  PROVE  Served(s)'
  <1>1. /\ ch' = ch /\ ring' = ring /\ got' = got /\ lost' = lost /\ seq' = seq /\ critical' = critical
        /\ pub' = pub /\ from'[s] = seq /\ pump'[s] = "top" /\ pub.step = "idle" /\ pump[s] = "off"
    BY DEF Subscribe, StreamInv, TypeInv, TypeOK
  <1>2. ch[s] = <<>> /\ ring[s] = <<>> /\ got[s] = <<>> /\ lost[s] = {} /\ pub.todo = {} /\ seq \in Int
        /\ critical \subseteq 1..seq
    BY <1>1 DEF StreamInv, TypeInv, TypeOK
  <1>3. Place(s)' = seq /\ Newest(s)' = seq /\ Pending(s)' = {} /\ Len(ch'[s]) = 0 /\ Len(ring'[s]) = 0
    BY <1>1, <1>2 DEF Place, Newest, Awaits, Pending
  <1>4. InOrder(s)' /\ Handed(s)' /\ Refused(s)'
    BY <1>1, <1>2, <1>3 DEF InOrder, Increasing, Handed, Refused
  <1>5. Held(s)'
    <2>1. \A x \in critical : ~(seq < x /\ x <= seq)
      BY <1>2
    <2> QED BY <1>1, <1>3, <2>1 DEF Held
  <1> QED BY <1>4, <1>5 DEF Served

\* A new event is newer than all that was handed over.
LEMMA PublishServes ==
  ASSUME StreamInv, NEW s \in subs, Publish
  PROVE  Served(s)'
  <1>1. /\ ch' = ch /\ ring' = ring /\ got' = got /\ lost' = lost /\ seq' = seq + 1 /\ from' = from
        /\ pump' = pump /\ pub.todo = {} /\ pub'.todo = subs /\ pub'.step = "offer"
        /\ critical' \in {critical, critical \cup {seq + 1}}
    BY DEF Publish, StreamInv, TypeInv
  <1>2. Served(s) /\ seq \in Nat /\ critical \subseteq 1..seq
    BY CapsAssumption DEF StreamInv, TypeInv, TypeOK
  <1>3. Place(s)' = Place(s) /\ Newest(s)' = seq /\ Newest(s) = seq /\ Pending(s)' = Pending(s)
    BY <1>1, <1>2 DEF Place, Newest, Awaits, Pending
  <1>4. InOrder(s)' /\ Handed(s)' /\ Refused(s)'
    BY <1>1, <1>2, <1>3 DEF Served, InOrder, Increasing, Handed, Refused
  <1>5. Held(s)'
    <2>1. \A x \in critical' : x <= seq => x \in critical
      BY <1>1, <1>2
    <2> QED BY <1>1, <1>2, <1>3, <2>1 DEF Served, Held
  <1> QED BY <1>4, <1>5 DEF Served

\* Where the publisher is after a step at x.
LEMMA PubFacts ==
  ASSUME TypeInv, NEW x \in Subs, Offer(x) \/ Enqueue(x) \/ Wake(x)
  PROVE  /\ pub'.todo \in {pub.todo, pub.todo \ {x}} /\ (pub'.step = "wake" => pub'.at = x)
         /\ (pub.step = "wake" => pub.at = x)
  <1>1. pub \in [step : {"idle", "offer", "enqueue", "wake"}, todo : SUBSET Subs, at : Subs \cup {None}]
    BY DEF TypeInv, TypeOK
  <1>2. CASE Offered(x)
    <2>1. pub'.todo = pub.todo \ {x} /\ pub'.step = "offer"
      BY <1>2 DEF Offered
    <2> QED BY <2>1 DEF Offer, Enqueue, Wake
  <1>3. CASE pub' = [pub EXCEPT !.step = "enqueue", !.at = x] /\ pub.step = "offer"
    BY <1>1, <1>3
  <1>4. CASE pub' = [pub EXCEPT !.step = "wake"] /\ pub.step = "enqueue" /\ pub.at = x
    BY <1>1, <1>4
  <1>5. CASE Offer(x)
    BY <1>2, <1>3, <1>5 DEF Offer
  <1>6. CASE Enqueue(x)
    BY <1>2, <1>4, <1>6 DEF Enqueue
  <1>7. CASE Wake(x)
    BY <1>2, <1>7 DEF Wake
  <1> QED BY <1>5, <1>6, <1>7

\* The publisher at x.
LEMMA HandOverServes ==
  ASSUME StreamInv, NEW s \in subs, NEW x \in Subs, Offer(x) \/ Enqueue(x) \/ Wake(x)
  PROVE  Served(s)'
  <1>1. TypeInv /\ Served(s) /\ s \in Subs
    BY DEF StreamInv, TypeInv, TypeOK
  <1>2. CASE x # s
    <2>1. Awaits(s)' <=> Awaits(s)
      <3>1. pub'.todo \in {pub.todo, pub.todo \ {x}} /\ (pub'.step = "wake" => pub'.at = x)
            /\ (pub.step = "wake" => pub.at = x)
        BY <1>1, PubFacts
      <3> QED BY <1>2, <3>1 DEF Awaits
    <2>2. /\ ch'[s] = ch[s] /\ ring'[s] = ring[s] /\ got'[s] = got[s] /\ lost'[s] = lost[s]
          /\ from'[s] = from[s] /\ pump' = pump /\ seq' = seq /\ critical' = critical
      BY <1>1, <1>2 DEF TypeInv, TypeOK, Offer, Enqueue, Wake
    <2> QED BY <1>1, <2>1, <2>2, Elsewhere
  <1>3. CASE x = s /\ (Enqueue(s) \/ (Offer(s) /\ MayGoDirect(s)))
    BY <1>1, <1>3, OfferServes, RefuseServes, EnqueueServes
  <1>4. CASE x = s /\ (Wake(s) \/ (Offer(s) /\ ~MayGoDirect(s)))
    <2>1. Awaits(s)' <=> Awaits(s)
      <3>1. CASE Wake(s)
        BY <3>1 DEF Wake, Offered, Awaits
      <3>2. CASE Offer(s) /\ ~MayGoDirect(s)
        <4>1. pub' = [pub EXCEPT !.step = "enqueue", !.at = s] /\ pub.step = "offer"
          BY <3>2 DEF Offer
        <4> QED BY <1>1, <4>1 DEF TypeInv, TypeOK, Awaits
      <3> QED BY <1>4, <3>1, <3>2
    <2>2. /\ ch' = ch /\ ring' = ring /\ got' = got /\ lost' = lost
          /\ from' = from /\ pump' = pump /\ seq' = seq /\ critical' = critical
      BY <1>4 DEF Offer, Wake
    <2> QED BY <1>1, <2>1, <2>2, Elsewhere
  <1> QED BY <1>2, <1>3, <1>4

\* The pump or the owner of x.
LEMMA LaneServes ==
  ASSUME StreamInv, NEW s \in subs', NEW x \in Subs,
         PumpStep(x) \/ PumpExit(x) \/ Subscribe(x) \/ Receive(x) \/ Unsubscribe(x) \/ CloseDone(x)
  PROVE  Served(s)'
  <1>1. TypeInv /\ s \in Subs /\ pub' = pub /\ seq' = seq /\ critical' = critical /\ lost' = lost
    BY DEF StreamInv, TypeInv, TypeOK, PumpStep, PumpTop, PumpWoken, PumpDeliver, PumpAdvance, PumpExit,
           Subscribe, Receive, Unsubscribe, CloseDone
  <1>2. CASE x = s /\ Subscribe(s)
    BY <1>1, <1>2, SubscribeServes
  <1>3. CASE ~(x = s /\ Subscribe(s))
    <2>1. s \in subs /\ ~(x = s /\ (Unsubscribe(s) \/ CloseDone(s)))
      BY <1>1, <1>3 DEF PumpStep, PumpTop, PumpWoken, PumpDeliver, PumpAdvance, PumpExit,
                        Subscribe, Receive, Unsubscribe, CloseDone
    <2>2. Served(s)
      BY <2>1 DEF StreamInv
    <2>3. Awaits(s)' <=> Awaits(s)
      BY <1>1 DEF Awaits
    <2>4. CASE x = s /\ (PumpDeliver(s) \/ PumpAdvance(s) \/ Receive(s))
      BY <1>1, <2>2, <2>4, DeliverServes, AdvanceServes, ReceiveServes
    <2>5. CASE x = s /\ (PumpTop(s) \/ PumpWoken(s) \/ PumpExit(s))
      <3>1. /\ ch' = ch /\ ring' = ring /\ got' = got /\ from' = from
            /\ (pump'[s] = "advance" <=> pump[s] = "advance")
        BY <1>1, <2>5 DEF TypeInv, TypeOK, PumpTop, PumpWoken, PumpExit, ExitPoints
      <3> QED BY <1>1, <2>2, <2>3, <3>1, Elsewhere
    <2>6. CASE x # s
      <3>1. /\ ch'[s] = ch[s] /\ ring'[s] = ring[s] /\ got'[s] = got[s] /\ from'[s] = from[s]
            /\ pump'[s] = pump[s]
        BY <1>1, <2>6 DEF TypeInv, TypeOK, PumpStep, PumpTop, PumpWoken, PumpDeliver, PumpAdvance, PumpExit,
                          Subscribe, Receive, Unsubscribe, CloseDone
      <3> QED BY <1>1, <2>2, <2>3, <3>1, Elsewhere
    <2> QED BY <1>3, <2>1, <2>4, <2>5, <2>6 DEF PumpStep
  <1> QED BY <1>2, <1>3

\* A subscription that was not made yet has nothing.
LEMMA OffStep ==
  ASSUME StreamInv, Next, NEW s \in Subs, pump'[s] = "off"
  PROVE  s \notin subs' /\ got'[s] = <<>> /\ ch'[s] = <<>> /\ ring'[s] = <<>> /\ lost'[s] = {}
  <1> DEFINE Nothing == s \notin subs' /\ got'[s] = <<>> /\ ch'[s] = <<>> /\ ring'[s] = <<>> /\ lost'[s] = {}
  <1>1. TypeOK /\ (pub.step \in {"enqueue", "wake"} => pub.at \in pub.todo) /\ pub.todo \subseteq subs
    BY DEF StreamInv, TypeInv
  <1>2. ASSUME pump[s] = "off"
        PROVE  s \notin subs /\ got[s] = <<>> /\ ch[s] = <<>> /\ ring[s] = <<>> /\ lost[s] = {}
    BY <1>2 DEF StreamInv
  <1>3. CASE Publish \/ PublishDone
    BY <1>2, <1>3 DEF Publish, PublishDone
  <1>4. ASSUME NEW x \in Subs, Offer(x) \/ Enqueue(x) \/ Wake(x) PROVE Nothing
    <2>1. x # s /\ pump[s] = "off" /\ subs' = subs
      BY <1>1, <1>2, <1>4 DEF Offer, Enqueue, Wake
    <2> QED BY <1>1, <1>2, <1>4, <2>1 DEF TypeOK, Offer, Enqueue, Wake
  <1>5. ASSUME NEW x \in Subs, PumpStep(x) \/ PumpExit(x) PROVE Nothing
    <2>1. x # s
      BY <1>1, <1>5 DEF TypeOK, PumpStep, PumpTop, PumpWoken, PumpDeliver, PumpAdvance, PumpExit
    <2> QED BY <1>1, <1>2, <1>5, <2>1
        DEF TypeOK, PumpStep, PumpTop, PumpWoken, PumpDeliver, PumpAdvance, PumpExit
  <1>6. ASSUME NEW x \in Subs, Subscribe(x) \/ Receive(x) \/ Unsubscribe(x) \/ CloseDone(x) PROVE Nothing
    BY <1>1, <1>2, <1>6 DEF TypeOK, Subscribe, Receive, Unsubscribe, CloseDone
  <1> QED BY <1>3, <1>4, <1>5, <1>6 DEF Next, PublisherStep

LEMMA StreamStep == StreamInv /\ [Next]_vars => StreamInv'
  <1> SUFFICES ASSUME StreamInv, [Next]_vars PROVE StreamInv'
    OBVIOUS
  <1>1. CASE Next
    <2>1. TypeInv' /\ ReserveIsCritical'
      BY <1>1, TypeStep, ReserveStep DEF StreamInv
    <2>2. critical' \subseteq 1..seq' /\ pub'.todo \subseteq subs'
      <3>1. seq \in Nat /\ critical \subseteq 1..seq /\ pub.todo \subseteq subs /\ TypeInv
        BY CapsAssumption DEF StreamInv, TypeInv, TypeOK
      <3>2. CASE Publish
        BY <3>1, <3>2 DEF Publish
      <3>3. CASE PublisherStep
        <4>1. critical' = critical /\ seq' = seq /\ subs' = subs
          BY <3>3 DEF PublisherStep, PublishDone, Offer, Enqueue, Wake
        <4>2. CASE PublishDone
          BY <4>1, <4>2, <3>1 DEF PublishDone, Idle
        <4>3. ASSUME NEW x \in Subs, Offer(x) \/ Enqueue(x) \/ Wake(x) PROVE pub'.todo \subseteq pub.todo
          BY <3>1, <4>3, PubFacts
        <4> QED BY <3>1, <3>3, <4>1, <4>2, <4>3 DEF PublisherStep
      <3>4. ASSUME NEW x \in Subs, PumpStep(x) \/ PumpExit(x) \/ Subscribe(x) \/ Receive(x) \/ CloseDone(x)
            PROVE  critical' = critical /\ seq' = seq /\ pub' = pub /\ subs \subseteq subs'
        BY <3>4 DEF PumpStep, PumpTop, PumpWoken, PumpDeliver, PumpAdvance, PumpExit, Subscribe, Receive,
                    CloseDone
      <3>5. ASSUME NEW x \in Subs, Unsubscribe(x)
            PROVE  critical' = critical /\ seq' = seq /\ pub' = pub /\ pub.todo = {}
        BY <3>1, <3>5 DEF Unsubscribe, TypeInv
      <3> QED BY <1>1, <3>1, <3>2, <3>3, <3>4, <3>5 DEF Next
    <2>3. \A s \in Subs : pump'[s] = "off" =>
            s \notin subs' /\ got'[s] = <<>> /\ ch'[s] = <<>> /\ ring'[s] = <<>> /\ lost'[s] = {}
      BY <1>1, OffStep
    <2>4. ASSUME NEW s \in subs' PROVE Served(s)'
      <3>1. CASE Publish
        BY <3>1, PublishServes DEF Publish
      <3>2. CASE PublishDone
        <4>1. TypeInv /\ s \in subs /\ s \in Subs /\ Served(s)
          BY <3>2 DEF PublishDone, StreamInv, TypeInv, TypeOK
        <4>2. Awaits(s)' <=> Awaits(s)
          BY <3>2 DEF PublishDone, Idle, Awaits
        <4> QED BY <3>2, <4>1, <4>2, Elsewhere DEF PublishDone
      <3>3. ASSUME NEW x \in Subs, Offer(x) \/ Enqueue(x) \/ Wake(x) PROVE Served(s)'
        <4>1. s \in subs
          BY <3>3 DEF Offer, Enqueue, Wake
        <4> QED BY <3>3, <4>1, HandOverServes
      <3> QED BY <1>1, <3>1, <3>2, <3>3, LaneServes DEF Next, PublisherStep
    <2> QED BY <2>1, <2>2, <2>3, <2>4 DEF StreamInv
  <1>2. CASE UNCHANGED vars
    BY <1>2 DEF vars, StreamInv, TypeInv, TypeOK, ReserveIsCritical, Served, InOrder, Increasing, Handed, Held,
                Refused, Place, Newest, Awaits, Pending
  <1> QED BY <1>1, <1>2

THEOREM ServedAlways == Spec => []StreamInv
  BY StreamInit, StreamStep, PTL DEF Spec

\* EventStream counts as EventBus does.
LEMMA SameCardinality == ASSUME NEW S PROVE Stream!Cardinality(S) = Cardinality(S)
  BY Zenon DEF Stream!Cardinality, Cardinality

\* A critical event is refused only when the reserve is full of others that s has yet
\* to read.
LEMMA CrowdedOut ==
  ASSUME StreamInv, NEW s \in subs, Enqueue(s), Full(s), seq \in critical
  PROVE  Cardinality(Stream!Unread(s)) >= Slack
  <1> DEFINE f == [i \in 1..Slack |-> ring[s][QueueCap + i]]
             U == Stream!Unread(s)
  <1>1. TypeInv /\ Served(s) /\ s \in Subs
    BY DEF StreamInv, TypeInv, TypeOK
  <1>2. /\ Len(ring[s]) \in Nat /\ (\A j \in 1..Len(ring[s]) : ring[s][j] \in Nat) /\ seq \in Nat
        /\ Place(s) \in Nat /\ critical \subseteq Events
    BY <1>1, LaneTypes DEF Events
  <1>3. QueueCap + Slack <= Len(ring[s]) /\ QueueCap \in Nat \ {0} /\ Slack \in Nat \ {0}
    BY <1>2, CapsAssumption DEF Full, Limit
  <1>4. Newest(s) = seq - 1
    BY <1>1 DEF TypeInv, Enqueue, Newest, Awaits
  <1>5. ASSUME NEW i \in 1..Slack
        PROVE  QueueCap + i \in Pending(s) /\ QueueCap + i \in 1..Len(ring[s]) /\ QueueCap + i > QueueCap
    BY <1>2, <1>3 DEF Pending
  <1>6. ASSUME NEW i \in 1..Slack PROVE f[i] \in U
    <2>1. f[i] = ring[s][QueueCap + i]
      OBVIOUS
    <2>2. f[i] \in critical
      BY <1>1, <1>5, <2>1 DEF StreamInv, ReserveIsCritical
    <2>3. Place(s) < f[i] /\ f[i] \notin lost[s]
      BY <1>1, <1>5, <2>1 DEF Served, InOrder, Refused
    <2>4. f[i] < seq
      <3>1. ring[s][QueueCap + i] <= seq - 1 /\ ring[s][QueueCap + i] \in Nat
        BY <1>1, <1>2, <1>4, <1>5 DEF Served, Handed
      <3> QED BY <1>2, <2>1, <3>1
    <2> QED BY <2>2, <2>3, <2>4 DEF Stream!Unread, Stream!Position, Place
  <1>7. ASSUME NEW i \in 1..Slack, NEW j \in 1..Slack, i # j PROVE f[i] # f[j]
    <2>1. ring[s][QueueCap + i] \in Nat /\ ring[s][QueueCap + j] \in Nat
      BY <1>2, <1>5
    <2>2. CASE i < j
      BY <1>1, <1>3, <1>5, <2>1, <2>2 DEF Served, InOrder, Increasing
    <2>3. CASE j < i
      BY <1>1, <1>3, <1>5, <2>1, <2>3 DEF Served, InOrder, Increasing
    <2> QED BY <1>3, <1>7, <2>2, <2>3
  <1>8. f \in Injection(1..Slack, U)
    <2>1. f \in [1..Slack -> U]
      BY <1>6
    <2> HIDE DEF f
    <2> QED BY <1>7, <2>1 DEF Injection, IsInjective
  <1>9. IsFiniteSet(U)
    <2>1. IsFiniteSet(1..MaxSeq)
      BY CapsAssumption, FS_Interval
    <2>2. U \in SUBSET (1..MaxSeq)
      BY <1>2 DEF Events, Stream!Unread
    <2> QED BY <2>1, <2>2, FS_Subset
  <1>10. Cardinality(1..Slack) = Slack
    BY <1>3, FS_Interval
  <1>11. Cardinality(1..Slack) <= Cardinality(U)
    BY <1>8, <1>9, FS_Injection
  <1> QED BY <1>3, <1>9, <1>10, <1>11, FS_CardinalityType

\* What is read next: nothing critical is skipped that was not refused.
LEMMA ReceiveReads ==
  ASSUME StreamInv, NEW s \in Subs, Receive(s)
  PROVE  Stream!Read(s)
  <1> DEFINE e == ch[s][1]
  <1>1. TypeInv /\ s \in subs /\ Served(s)
    BY DEF Receive, StreamInv
  <1>2. /\ Place(s) \in Nat /\ Newest(s) \in Int /\ seq \in 0..MaxSeq /\ critical \subseteq Events
        /\ Events \subseteq Nat /\ (\A i \in 1..Len(ch[s]) : ch[s][i] \in Nat)
    BY <1>1, LaneTypes
  <1>3. e \in Events /\ Head(ch[s]) = e /\ 1 \in 1..Len(ch[s])
    BY <1>1, ReceiveFacts
  <1>4. Place(s) < e /\ e <= Newest(s) /\ Newest(s) <= seq
    BY <1>1, <1>2, <1>3, CapsAssumption DEF Served, InOrder, Handed, Newest
  <1>5. ASSUME NEW x \in critical, Place(s) < x, x < e PROVE x \in lost[s]
    <2>1. x <= Newest(s)
      BY <1>2, <1>3, <1>4, <1>5
    <2>2. ASSUME NEW i \in 1..Len(ch[s]), ch[s][i] = x PROVE FALSE
      <3>1. CASE i = 1
        BY <1>2, <1>3, <1>5, <2>2, <3>1
      <3>2. CASE i # 1
        <4>1. e < x
          BY <1>1, <1>3, <2>2, <3>2 DEF Served, InOrder, Increasing
        <4> QED BY <1>2, <1>3, <1>5, <4>1
      <3> QED BY <3>1, <3>2
    <2>3. ASSUME NEW j \in Pending(s), ring[s][j] = x PROVE FALSE
      <3>1. e < x
        BY <1>1, <1>3, <2>3 DEF Served, InOrder
      <3> QED BY <1>2, <1>3, <1>5, <3>1
    <2> QED BY <1>1, <1>5, <2>1, <2>2, <2>3 DEF Served, Held
  <1>6. /\ got' = [got EXCEPT ![s] = Append(got[s], e)]
        /\ UNCHANGED <<seq, critical, subs, lost, from>>
    BY <1>3 DEF Receive
  <1>7. Stream!Position(s) = Place(s)
    BY DEF Stream!Position, Place
  <1>8. e \in Place(s)+1 .. seq
    <2>1. Place(s) + 1 <= e /\ e <= seq
      BY <1>2, <1>3, <1>4
    <2> QED BY <1>2, <1>3, <2>1
  <1> HIDE DEF e
  <1> QED BY <1>1, <1>5, <1>6, <1>7, <1>8 DEF Stream!Read

LEMMA Refines == StreamInv /\ [Next]_vars => [Stream!Next]_Stream!vars
  <1> SUFFICES ASSUME StreamInv, [Next]_vars PROVE Stream!Next \/ UNCHANGED Stream!vars
    OBVIOUS
  <1> USE DEF Stream!vars
  <1>1. CASE UNCHANGED vars
    BY <1>1 DEF vars
  <1>2. CASE Publish
    BY <1>2 DEF Publish, Stream!Next, Stream!Emit
  <1>3. ASSUME NEW s \in Subs, Enqueue(s) PROVE Stream!Next \/ UNCHANGED Stream!vars
    <2>1. s \in subs /\ lost \in [Subs -> SUBSET Events]
      BY <1>3 DEF StreamInv, TypeInv, TypeOK, Enqueue
    <2>2. CASE Full(s) /\ seq \in critical
      <3>1. Cardinality(Stream!Unread(s)) >= Slack
        BY <1>3, <2>1, <2>2, CrowdedOut
      <3>2. lost' = [lost EXCEPT ![s] = lost[s] \cup {seq}] /\ UNCHANGED <<seq, critical, subs, got, from>>
        <4>1. {seq} \cap critical = {seq}
          BY <2>2
        <4>2. lost' = [lost EXCEPT ![s] = lost[s] \cup ({seq} \cap critical)]
              /\ UNCHANGED <<seq, critical, subs, got, from>>
          BY <1>3, <2>2 DEF Enqueue
        <4> QED BY <4>1, <4>2
      <3>3. Stream!Refuse(s)
        BY <2>1, <2>2, <3>1, <3>2, SameCardinality, Zenon DEF Stream!Refuse
      <3> QED BY <3>3 DEF Stream!Next
    <2>3. CASE ~(Full(s) /\ seq \in critical)
      <3>1. UNCHANGED <<seq, critical, subs, got, from>>
        BY <1>3 DEF Enqueue
      <3>2. CASE Full(s)
        <4>1. {seq} \cap critical = {}
          BY <2>3, <3>2
        <4>2. lost' = [lost EXCEPT ![s] = lost[s] \cup {}]
          BY <1>3, <3>2, <4>1 DEF Enqueue
        <4> QED BY <2>1, <3>1, <4>2
      <3>3. CASE ~Full(s)
        BY <1>3, <3>1, <3>3 DEF Enqueue
      <3> QED BY <3>2, <3>3
    <2> QED BY <2>2, <2>3
  <1>4. ASSUME NEW s \in Subs, Subscribe(s) PROVE Stream!Next
    <2>1. s \notin subs /\ got[s] = <<>>
      BY <1>4 DEF Subscribe, StreamInv
    <2>2. Stream!Join(s)
      BY <1>4, <2>1 DEF Subscribe, Stream!Join
    <2> QED BY <2>2 DEF Stream!Next
  <1>5. ASSUME NEW s \in Subs, Receive(s) PROVE Stream!Next
    BY <1>5, ReceiveReads DEF Stream!Next
  <1>6. ASSUME NEW s \in Subs, Unsubscribe(s) PROVE Stream!Next
    <2>1. Stream!Leave(s)
      BY <1>6 DEF Unsubscribe, Stream!Leave
    <2> QED BY <2>1 DEF Stream!Next
  <1>7. CASE \/ PublishDone
             \/ \E s \in Subs : Offer(s) \/ Wake(s) \/ PumpStep(s) \/ PumpExit(s) \/ CloseDone(s)
    BY <1>7 DEF PublishDone, Offer, Wake, PumpStep, PumpTop, PumpWoken, PumpDeliver, PumpAdvance, PumpExit,
                CloseDone
  <1> QED BY <1>1, <1>2, <1>3, <1>4, <1>5, <1>6, <1>7 DEF Next, PublisherStep

\* The bus keeps its promise whatever the capacities: channels, rings and pumps are
\* invisible, events are read in order, each once, and a critical one is missed only
\* when Slack others are waiting.
THEOREM BusIsAStream == Spec => IsAStream
  <1>1. Init => Stream!Init
    BY DEF Init, Stream!Init
  <1> QED BY <1>1, Refines, ServedAlways, PTL DEF Spec, IsAStream, Stream!Spec

=============================================================================
