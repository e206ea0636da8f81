---------------------------- MODULE EventStream ----------------------------
(***************************************************************************)
(* What the event bus promises its subscribers, without channels, rings or *)
(* goroutines: each reads a subsequence of the published events, in order, *)
(* without repetition, and what it misses is droppable, apart from the     *)
(* critical events the bus had to refuse it.                               *)
(***************************************************************************)
EXTENDS Integers, Sequences, FiniteSets

CONSTANTS Subs,
          Slack    \* critical events a subscription holds back before it refuses one

VARIABLES seq, critical, subs, got, lost, from
vars == <<seq, critical, subs, got, lost, from>>

Init ==
  /\ seq = 0 /\ critical = {} /\ subs = {}
  /\ got = [s \in Subs |-> <<>>] /\ lost = [s \in Subs |-> {}] /\ from = [s \in Subs |-> 0]

Emit ==
  /\ seq' = seq + 1
  /\ critical' \in {critical, critical \cup {seq + 1}}
  /\ UNCHANGED <<subs, got, lost, from>>

Join(s) ==
  /\ s \notin subs /\ got[s] = <<>>
  /\ subs' = subs \cup {s} /\ from' = [from EXCEPT ![s] = seq]
  /\ UNCHANGED <<seq, critical, got, lost>>

Leave(s) ==
  /\ subs' = subs \ {s}
  /\ UNCHANGED <<seq, critical, got, lost, from>>

\* The last event read, or the last one before the subscription.
Position(s) == IF got[s] = <<>> THEN from[s] ELSE got[s][Len(got[s])]

Read(s) ==
  /\ s \in subs
  /\ \E e \in Position(s)+1 .. seq :
       /\ \A x \in critical : Position(s) < x /\ x < e => x \in lost[s]
       /\ got' = [got EXCEPT ![s] = Append(@, e)]
  /\ UNCHANGED <<seq, critical, subs, lost, from>>

\* Critical events a subscription has yet to read.
Unread(s) == {x \in critical : Position(s) < x /\ x < seq} \ lost[s]

\* Only the newest event can be refused, while it is being published, and never
\* because of events that matter less.
Refuse(s) ==
  /\ s \in subs /\ seq \in critical /\ Cardinality(Unread(s)) >= Slack
  /\ lost' = [lost EXCEPT ![s] = @ \cup {seq}]
  /\ UNCHANGED <<seq, critical, subs, got, from>>

Next == Emit \/ \E s \in Subs : Join(s) \/ Leave(s) \/ Read(s) \/ Refuse(s)

Spec == Init /\ [][Next]_vars
=============================================================================
