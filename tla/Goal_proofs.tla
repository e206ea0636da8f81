----------------------------- MODULE Goal_proofs -----------------------------
(***************************************************************************)
(* Proofs about Goal, for every number of control calls, loops and reports *)
(* of the agent.                                                           *)
(***************************************************************************)
EXTENDS Goal, TLAPS

-----------------------------------------------------------------------------
(* The inductive invariant *)

\* A loop that mirrors has something to mirror, and one that tells its last has no
\* goal any more.
TypeInv ==
  /\ TypeOK
  /\ \A t \in Threads :
       /\ th[t].pc = "mirror" => th[t].heard # <<>>
       /\ th[t].pc \in TellPCs /\ th[t].next = "done" => th[t].own = NoGoal

\* Goals, channels and threads are of calls that were made.
CallInv ==
  /\ g.id <= calls /\ stop <= calls
  /\ \A t \in closed : t <= calls
  /\ \A t \in Threads : th[t].own <= calls /\ (calls < t => th[t] = At("idle"))

\* A loop that begins a turn on a closed channel begins no other.
LateInv ==
  \A t \in Threads : th[t].late # 0 =>
    th[t].late = 1 /\ t \in closed /\ th[t].pc \notin {"poll", "recheck", "begin"}

\* t has not passed the grace period, at which a loop that was told to stop ends.
Fresh(t) == Starting(t) \/ th[t].pc \in {"check", "decide", "grace"}

\* t is, or will be, in a turn for the goal.
Working(t) == Serves(t) /\ ~(t \in closed /\ Fresh(t))

\* Unless loops overlap, one at most works for the goal.
SoleInv == ~overlap => \A t, u \in Threads : Working(t) /\ Working(u) => t = u

\* t has its instruction and has not judged the answer.
Instructed(t) ==
  \/ th[t].pc \in LoopPCs \ {"start", "check", "decide"}
  \/ th[t].pc \in TellPCs /\ th[t].next = "text"

\* Once a claim waits for its evidence, the loop that will judge the next answer
\* was told to ask for it.
ToldInv ==
  ~overlap /\ g.round =>
    \A t \in Threads : Working(t) /\ Owns(t) /\ Instructed(t) => th[t].instr = "verify"

VerdictInv == verdict # "none" => verdict = "verify" \/ overlap

IInv == TypeInv /\ CallInv /\ StopClosedOnce /\ LateInv /\ ActiveHasLoop
        /\ SoleInv /\ ToldInv /\ VerdictInv
\* A thread between two calls.
LEMMA AtType == ASSUME NEW p \in {"snap", "idle", "done"} PROVE At(p) \in Thread
  BY GoalAssumption DEF At, Thread, LoopPCs, TellPCs, Instr, Status, NoGoal, Threads

LEMMA InitInv == Init => IInv
  <1> SUFFICES ASSUME Init PROVE IInv
    OBVIOUS
  <1> USE GoalAssumption DEF Init
  <1>1. TypeInv
    <2>1. th \in [Threads -> Thread] /\ \A t \in Threads : th[t].pc \notin {"mirror"} \cup TellPCs
      BY AtType DEF At, TellPCs
    <2>2. g \in Goal
      BY DEF Goal, Status, NoGoal
    <2>3. TypeOK
      <3>1. stop \in 0..MaxCalls /\ closed \subseteq Threads /\ calls \in 0..MaxCalls /\ verdict \in Instr
        BY DEF NoStop, Instr
      <3>2. loopOn \in BOOLEAN /\ down \in BOOLEAN /\ overlap \in BOOLEAN /\ broken \in BOOLEAN
        BY Zenon
      <3> QED BY <2>1, <2>2, <3>1, <3>2 DEF TypeOK
    <2> QED BY <2>1, <2>3 DEF TypeInv
  <1>2. CallInv /\ LateInv
    BY DEF CallInv, LateInv, At, Threads, NoGoal, NoStop
  <1>3. StopClosedOnce /\ ActiveHasLoop /\ VerdictInv
    BY DEF StopClosedOnce, ActiveHasLoop, VerdictInv, NoGoal
  <1>4. SoleInv /\ ToldInv
    BY DEF SoleInv, ToldInv, Working, Serves, Starting, Owns, At, TellPCs, NoGoal, Threads
  <1> QED BY <1>1, <1>2, <1>3, <1>4 DEF IInv

-----------------------------------------------------------------------------
(* Threads *)

\* What becomes of a thread that another one's step does not concern: an event may
\* reach it in its turn.
Same(u) ==
  /\ th'[u].pc = th[u].pc /\ th'[u].next = th[u].next /\ th'[u].own = th[u].own
  /\ th'[u].instr = th[u].instr /\ th'[u].late = th[u].late
  /\ th[u].pc # "turn" => th'[u] = th[u]

LEMMA HearFacts ==
  ASSUME NEW r \in Thread, NEW s \in Status
  PROVE  /\ Hear(r, s) \in Thread
         /\ Hear(r, s).pc = r.pc /\ Hear(r, s).next = r.next /\ Hear(r, s).own = r.own
         /\ Hear(r, s).instr = r.instr /\ Hear(r, s).late = r.late
         /\ r.pc # "turn" => Hear(r, s) = r
  BY SMTT(30) DEF Hear, Thread

\* The part of a thread that the invariant is about.
Row(t, p, n, o, i, l) ==
  /\ th'[t].pc = p /\ th'[t].next = n /\ th'[t].own = o
  /\ th'[t].instr = i /\ th'[t].late = l

\* A step of t leaves the other threads what they are.
Only(t) ==
  /\ th' \in [Threads -> Thread]
  /\ \A u \in Threads : u # t => Same(u)

LEMMA SetOne ==
  ASSUME TypeInv, NEW t \in Threads, NEW r \in Thread, th' = [th EXCEPT ![t] = r]
  PROVE  Only(t) /\ Row(t, r.pc, r.next, r.own, r.instr, r.late)
  BY DEF TypeInv, TypeOK, Only, Same, Row

LEMMA GotoFacts ==
  ASSUME TypeInv, NEW t \in Threads, NEW p \in LoopPCs, Goto(t, p)
  PROVE  Only(t) /\ Row(t, p, th[t].next, th[t].own, th[t].instr, th[t].late)
  <1> DEFINE r == [th[t] EXCEPT !.pc = p]
  <1>1. th' = [th EXCEPT ![t] = r]
    BY DEF Goto
  <1>2. r \in Thread /\ r.pc = p /\ r.next = th[t].next /\ r.own = th[t].own
        /\ r.instr = th[t].instr /\ r.late = th[t].late
    BY DEF TypeInv, TypeOK, Thread
  <1> HIDE DEF r
  <1> QED BY <1>1, <1>2, SetOne

LEMMA ReturnFacts ==
  ASSUME TypeInv, NEW t \in Threads, Return(t)
  PROVE  Only(t) /\ Row(t, "done", "done", NoGoal, "none", 0)
  <1>1. At("done") \in Thread
    BY AtType
  <1>2. Only(t) /\ Row(t, At("done").pc, At("done").next, At("done").own, At("done").instr, At("done").late)
    BY <1>1, SetOne DEF Return
  <1> QED BY <1>2 DEF At

LEMMA TellFacts ==
  ASSUME TypeInv, NEW t \in Threads, NEW n \in {"start", "check", "text", "done"}, Tell(t, n)
  PROVE  /\ Only(t)
         /\ n = "done" => Row(t, "snap", "done", NoGoal, "none", 0)
         /\ n # "done" => Row(t, "snap", n, th[t].own, th[t].instr, th[t].late)
  <1>1. CASE n = "done"
    <2>1. At("snap") \in Thread
      BY AtType
    <2>2. th' = [th EXCEPT ![t] = At("snap")]
      BY <1>1 DEF Tell
    <2>3. Only(t) /\ Row(t, At("snap").pc, At("snap").next, At("snap").own, At("snap").instr, At("snap").late)
      BY <2>1, <2>2, SetOne
    <2> QED BY <1>1, <2>3 DEF At
  <1>2. CASE n # "done"
    <2> DEFINE r == [th[t] EXCEPT !.pc = "snap", !.next = n]
    <2>1. th' = [th EXCEPT ![t] = r]
      BY <1>2 DEF Tell
    <2>2. r \in Thread /\ r.pc = "snap" /\ r.next = n /\ r.own = th[t].own
          /\ r.instr = th[t].instr /\ r.late = th[t].late
      BY DEF TypeInv, TypeOK, Thread, TellPCs
    <2> HIDE DEF r
    <2> QED BY <1>2, <2>1, <2>2, SetOne
  <1> QED BY <1>1, <1>2

LEMMA AgainFacts ==
  ASSUME TypeInv, NEW t \in Threads, th' = [th EXCEPT ![t] = Again(t)]
  PROVE  Only(t) /\ Row(t, "check", "done", th[t].own, "none", th[t].late)
  <1>1. Again(t) \in Thread /\ Again(t).pc = "check" /\ Again(t).next = "done" /\ Again(t).own = th[t].own
        /\ Again(t).instr = "none" /\ Again(t).late = th[t].late
    BY DEF TypeInv, TypeOK, Again, Thread, LoopPCs, Instr
  <1> QED BY <1>1, SetOne

\* A thread that takes a step has been called, and a loop's instruction, place and
\* goal are of the kinds Thread says.
LEMMA Called ==
  ASSUME IInv, NEW t \in Threads, th[t].pc # "idle"
  PROVE  t <= calls /\ th[t].own <= calls /\ th[t] \in Thread
  <1>1. ~(calls < t)
    BY DEF IInv, CallInv, At
  <1> QED BY <1>1 DEF IInv, CallInv, TypeInv, TypeOK, Threads

-----------------------------------------------------------------------------
(* What a step of one thread has to respect *)

\* The new record of t.
Sound(t) ==
  /\ th'[t].pc = "mirror" => th'[t].heard # <<>>
  /\ th'[t].pc \in TellPCs /\ th'[t].next = "done" => th'[t].own = NoGoal
  /\ th'[t].own <= calls' /\ (calls' < t => th'[t] = At("idle"))
  /\ th'[t].late # 0 =>
       th'[t].late = 1 /\ t \in closed' /\ th'[t].pc \notin {"poll", "recheck", "begin"}

\* The goal's record.
SameGoal == g' \in Goal /\ g'.id = g.id /\ overlap' = overlap

\* t starts to work for no goal, opens an evidence round only if it worked for it,
\* and has the instruction for the round it is in.
Obedient(t) ==
  /\ Working(t)' => Working(t)
  /\ g'.round => g.round \/ Working(t)
  /\ ~overlap /\ g'.round /\ Working(t)' /\ Owns(t)' /\ Instructed(t)' => th'[t].instr = "verify"

\* The channels.
SameEngine == UNCHANGED <<stop, loopOn, closed, calls, down>>

\* An active goal keeps its loop.
Keeps(t) ==
  g'.id # NoGoal /\ g'.status = "active" /\ ~broken' =>
    g.status = "active" /\ ~broken /\ closed' = closed /\ (Serves(t) /\ t \notin closed => Serves(t)')

LEMMA SameFacts ==
  ASSUME NEW u \in Threads, Same(u), g'.id = g.id
  PROVE  /\ Serves(u)' = Serves(u) /\ Owns(u)' = Owns(u) /\ Fresh(u)' = Fresh(u)
         /\ Instructed(u)' = Instructed(u) /\ th'[u].instr = th[u].instr
  BY DEF Same, Serves, Starting, Owns, Fresh, Instructed

LEMMA TypeKept ==
  ASSUME TypeInv, NEW t \in Threads, Only(t), Sound(t), g' \in Goal,
         stop' \in 0..MaxCalls, loopOn' \in BOOLEAN, closed' \subseteq Threads, calls' \in 0..MaxCalls,
         down' \in BOOLEAN, verdict' \in Instr, overlap' \in BOOLEAN, broken' \in BOOLEAN
  PROVE  TypeInv'
  <1>1. TypeOK'
    BY Zenon DEF TypeOK, Only
  <1>2. ASSUME NEW u \in Threads
        PROVE  /\ th'[u].pc = "mirror" => th'[u].heard # <<>>
               /\ th'[u].pc \in TellPCs /\ th'[u].next = "done" => th'[u].own = NoGoal
    <2>1. CASE u = t
      BY <2>1 DEF Sound
    <2>2. CASE u # t
      BY <2>2 DEF Only, Same, TypeInv
    <2> QED BY <2>1, <2>2
  <1> QED BY <1>1, <1>2 DEF TypeInv

LEMMA CallKept ==
  ASSUME IInv, NEW t \in Threads, Only(t), Sound(t), calls' \in 0..MaxCalls, calls <= calls',
         g'.id <= calls', stop' <= calls', \A u \in closed' : u <= calls'
  PROVE  CallInv'
  <1>1. ASSUME NEW u \in Threads
        PROVE  th'[u].own <= calls' /\ (calls' < u => th'[u] = At("idle"))
    <2>1. CASE u = t
      BY <2>1 DEF Sound
    <2>2. CASE u # t
      <3>1. th[u].own \in 0..MaxCalls /\ calls \in 0..MaxCalls /\ u \in Nat
        BY GoalAssumption DEF IInv, TypeInv, TypeOK, Thread, Threads
      <3>2. Same(u) /\ th[u].own <= calls /\ (calls < u => th[u] = At("idle"))
        BY <2>2 DEF Only, IInv, CallInv
      <3>3. calls' < u => th[u] = At("idle") /\ th[u].pc = "idle"
        BY <3>1, <3>2, GoalAssumption DEF At
      <3> QED BY <3>1, <3>2, <3>3, GoalAssumption DEF Same
    <2> QED BY <2>1, <2>2
  <1> QED BY <1>1 DEF CallInv

LEMMA LateKept ==
  ASSUME IInv, NEW t \in Threads, Only(t), Sound(t), closed \subseteq closed'
  PROVE  LateInv'
  <1> SUFFICES ASSUME NEW u \in Threads, th'[u].late # 0
               PROVE  th'[u].late = 1 /\ u \in closed' /\ th'[u].pc \notin {"poll", "recheck", "begin"}
    BY DEF LateInv
  <1>1. CASE u = t
    BY <1>1 DEF Sound
  <1>2. CASE u # t
    BY <1>2 DEF Only, Same, IInv, LateInv
  <1> QED BY <1>1, <1>2

LEMMA SoleKept ==
  ASSUME IInv, NEW t \in Threads, Only(t), SameGoal, Working(t)' => Working(t), closed \subseteq closed'
  PROVE  SoleInv' /\ \A u \in Threads : Working(u)' => Working(u)
  <1>1. ASSUME NEW u \in Threads PROVE Working(u)' => Working(u)
    <2>1. CASE u # t
      BY <2>1, SameFacts DEF Only, SameGoal, Working
    <2> QED BY <2>1
  <1> QED BY <1>1 DEF IInv, SoleInv, SameGoal

LEMMA ToldKept ==
  ASSUME IInv, NEW t \in Threads, Only(t), SameGoal, Obedient(t), closed \subseteq closed'
  PROVE  ToldInv'
  <1> SUFFICES ASSUME ~overlap, g'.round, NEW u \in Threads, Working(u)', Owns(u)', Instructed(u)'
               PROVE  th'[u].instr = "verify"
    BY DEF ToldInv, SameGoal
  <1>1. CASE u = t
    BY <1>1 DEF Obedient
  <1>2. CASE u # t
    <2>1. Working(u)
      BY SoleKept DEF Obedient
    <2>2. ~Working(t)
      BY <1>2, <2>1 DEF IInv, SoleInv
    <2>3. g.round
      BY <2>2 DEF Obedient
    <2>4. Same(u) /\ g'.id = g.id
      BY <1>2 DEF Only, SameGoal
    <2> QED BY <2>1, <2>3, <2>4, SameFacts DEF IInv, ToldInv
  <1> QED BY <1>1, <1>2

LEMMA ActiveKept ==
  ASSUME IInv, NEW t \in Threads, Only(t), SameGoal, Keeps(t)
  PROVE  ActiveHasLoop'
  <1> SUFFICES ASSUME g'.id # NoGoal, g'.status = "active", ~broken'
               PROVE  \E u \in Threads \ closed' : Serves(u)'
    BY DEF ActiveHasLoop
  <1>1. PICK u \in Threads \ closed : Serves(u)
    BY DEF IInv, ActiveHasLoop, Keeps, SameGoal
  <1>2. Serves(u)'
    <2>1. CASE u = t
      BY <1>1, <2>1 DEF Keeps
    <2>2. CASE u # t
      BY <1>1, <2>2, SameFacts DEF Only, SameGoal
    <2> QED BY <2>1, <2>2
  <1> QED BY <1>1, <1>2 DEF Keeps

\* A step of a loop that leaves the channels alone.
LEMMA LoopKept ==
  ASSUME IInv, NEW t \in Threads, Only(t), Sound(t), SameGoal, SameEngine, Obedient(t), Keeps(t),
         verdict' \in Instr, broken' \in BOOLEAN, VerdictInv'
  PROVE  IInv'
  <1>1. TypeInv /\ TypeOK /\ CallInv /\ StopClosedOnce
    BY DEF IInv, TypeInv
  <1>2. TypeInv'
    <2>1. /\ stop' \in 0..MaxCalls /\ loopOn' \in BOOLEAN /\ closed' \subseteq Threads
          /\ calls' \in 0..MaxCalls /\ down' \in BOOLEAN /\ overlap' \in BOOLEAN
      BY <1>1, Zenon DEF TypeOK, SameEngine, SameGoal
    <2>2. g' \in Goal
      BY DEF SameGoal
    <2> QED BY <1>1, <2>1, <2>2, TypeKept
  <1>3. CallInv'
    <2>1. calls' \in 0..MaxCalls /\ calls <= calls' /\ g'.id <= calls' /\ stop' <= calls'
          /\ \A u \in closed' : u <= calls'
      BY <1>1, GoalAssumption DEF TypeOK, CallInv, SameEngine, SameGoal
    <2> QED BY <2>1, CallKept
  <1>4. LateInv' /\ SoleInv' /\ ToldInv' /\ ActiveHasLoop'
    BY LateKept, SoleKept, ToldKept, ActiveKept DEF SameEngine, Obedient
  <1>5. StopClosedOnce'
    BY <1>1 DEF SameEngine, StopClosedOnce
  <1> QED BY <1>2, <1>3, <1>4, <1>5 DEF IInv

\* One that leaves the engine and the history alone.
LEMMA QuietKept ==
  ASSUME IInv, NEW t \in Threads, Only(t), Sound(t), UNCHANGED quiet,
         Working(t)' => Working(t),
         ~overlap /\ g.round /\ Working(t)' /\ Owns(t)' /\ Instructed(t)' => th'[t].instr = "verify",
         g.id # NoGoal /\ g.status = "active" /\ t \notin closed /\ Serves(t) => Serves(t)'
  PROVE  IInv'
  <1>1. SameGoal /\ SameEngine
    BY DEF quiet, engine, world, history, SameGoal, SameEngine, IInv, TypeInv, TypeOK
  <1>2. Obedient(t) /\ Keeps(t)
    BY DEF quiet, engine, world, history, Obedient, Keeps
  <1>3. verdict' \in Instr /\ VerdictInv'
    BY DEF quiet, history, IInv, TypeInv, TypeOK, VerdictInv
  <1>4. broken' \in BOOLEAN
    BY Zenon DEF quiet, history, IInv, TypeInv, TypeOK
  <1> QED BY <1>1, <1>2, <1>3, <1>4, LoopKept

-----------------------------------------------------------------------------
(* The steps of a loop that leave the goal alone *)

\* The loop ends: it has no goal, its goal is not the session's or not active, or
\* its channel is closed.
LEMMA ReturnKept ==
  ASSUME IInv, NEW t \in Threads, th[t].pc # "idle", Return(t), UNCHANGED quiet,
         g.status = "active" /\ t \notin closed => ~Serves(t)
  PROVE  IInv'
  <1>1. TypeInv /\ t <= calls /\ calls' = calls
    BY Called DEF IInv, quiet, world
  <1>2. Only(t) /\ Row(t, "done", "done", NoGoal, "none", 0)
    BY <1>1, ReturnFacts
  <1>3. Sound(t)
    BY <1>1, <1>2, GoalAssumption DEF Row, Sound, TellPCs, NoGoal, TypeInv, TypeOK, Threads
  <1>4. ~Serves(t)'
    BY <1>2 DEF Row, Serves, Starting, Owns, NoGoal, TellPCs
  <1> QED BY <1>2, <1>3, <1>4, QuietKept DEF Working

\* The loop goes on within its iteration, or to the next one.
LEMMA GoesOn ==
  ASSUME IInv, NEW t \in Threads, NEW p \in LoopPCs \ {"start"}, NEW n, NEW i, NEW l,
         th[t].pc \in LoopPCs \ {"start"},
         Only(t), Row(t, p, n, th[t].own, i, l), p = "mirror" => th'[t].heard # <<>>,
         UNCHANGED quiet,
         l # 0 => l = 1 /\ t \in closed /\ p \notin {"poll", "recheck", "begin"},
         t \in closed /\ Fresh(t) => p \in {"check", "decide", "grace"},
         p \notin {"check", "decide"} =>
           (g.round /\ Owns(t) => i = "verify") \/ (i = th[t].instr /\ Instructed(t))
  PROVE  IInv'
  <1>1. TypeInv /\ t <= calls /\ calls' = calls /\ th[t].own <= calls /\ calls \in 0..MaxCalls
    BY Called DEF IInv, quiet, world, LoopPCs, TypeInv, TypeOK
  <1>2. Sound(t)
    BY <1>1, GoalAssumption DEF Row, Sound, TellPCs, LoopPCs, Threads, quiet, engine
  <1>3. Serves(t)' = Serves(t) /\ Owns(t)' = Owns(t)
    BY DEF quiet, engine, Row, Serves, Starting, Owns, TellPCs, LoopPCs
  <1>4. Working(t)' => Working(t)
    BY <1>3 DEF Working, Fresh, Row, quiet, engine
  <1>5. ~overlap /\ g.round /\ Working(t)' /\ Owns(t)' /\ Instructed(t)' => th'[t].instr = "verify"
    <2> SUFFICES ASSUME ~overlap, g.round, Working(t)', Owns(t)', Instructed(t)' PROVE i = "verify"
      BY DEF Row
    <2>1. Working(t) /\ Owns(t) /\ p \notin {"check", "decide"}
      BY <1>3, <1>4 DEF Instructed, Row, LoopPCs, TellPCs
    <2> QED BY <2>1 DEF IInv, ToldInv
  <1> QED BY <1>2, <1>3, <1>4, <1>5, QuietKept

\* It goes on in the same goal and with the same instruction.
LEMMA GotoKept ==
  ASSUME IInv, NEW t \in Threads, NEW p \in LoopPCs \ {"start", "mirror"}, Goto(t, p), UNCHANGED quiet,
         th[t].pc \in LoopPCs \ {"start"},
         p \in {"poll", "recheck", "begin"} => th[t].late = 0,
         t \in closed /\ Fresh(t) => p \in {"check", "decide", "grace"},
         p \notin {"check", "decide"} => Instructed(t)
  PROVE  IInv'
  <1>1. Only(t) /\ Row(t, p, th[t].next, th[t].own, th[t].instr, th[t].late)
    BY GotoFacts DEF IInv
  <1>2. th[t].late # 0 => th[t].late = 1 /\ t \in closed /\ p \notin {"poll", "recheck", "begin"}
    BY DEF IInv, LateInv
  <1> QED BY <1>1, <1>2, GoesOn

LEMMA StartKept == ASSUME IInv, NEW t \in Threads, Start(t) PROVE IInv'
  <1> DEFINE r == [th[t] EXCEPT !.own = g.id, !.pc = "check"]
  <1>1. TypeInv /\ th[t].pc = "start" /\ t <= calls /\ calls' = calls /\ calls \in 0..MaxCalls
        /\ g.id \in 0..calls
    BY Called, GoalAssumption DEF IInv, CallInv, TypeInv, TypeOK, Goal, Start, quiet, world
  <1>2. r \in Thread /\ r.pc = "check" /\ r.own = g.id /\ r.next = th[t].next /\ r.instr = th[t].instr
        /\ r.late = th[t].late
    BY <1>1 DEF TypeInv, TypeOK, Thread, Goal, LoopPCs
  <1>3. th' = [th EXCEPT ![t] = r]
    BY DEF Start
  <1> HIDE DEF r
  <1>4. Only(t) /\ Row(t, "check", th[t].next, g.id, th[t].instr, th[t].late)
    BY <1>1, <1>2, <1>3, SetOne
  <1>5. Sound(t)
    BY <1>1, <1>4, GoalAssumption DEF Sound, Row, TellPCs, Threads, IInv, LateInv, Start, quiet, engine
  <1>6. Serves(t) /\ Fresh(t) /\ Fresh(t)' /\ ~Instructed(t)'
    BY <1>1, <1>4 DEF Row, Serves, Starting, Fresh, Instructed, LoopPCs, TellPCs
  <1>7. Working(t)' => Working(t)
    BY <1>6 DEF Working, Start, quiet, engine
  <1>8. g.id # NoGoal => Serves(t)'
    BY <1>4 DEF Row, Serves, Owns, Start, quiet, engine
  <1> QED BY <1>4, <1>5, <1>6, <1>7, <1>8, QuietKept DEF Start

\* Check, Decide, Recheck and the rest return only when the loop's work is over.
LEMMA CheckKept == ASSUME IInv, NEW t \in Threads, Check(t) PROVE IInv'
  <1>1. CASE g.status = "active" /\ Owns(t)
    <2>1. Goto(t, "decide") /\ UNCHANGED quiet /\ th[t].pc = "check"
      BY <1>1 DEF Check
    <2> QED BY <2>1, GotoKept DEF LoopPCs
  <1>2. CASE ~(g.status = "active" /\ Owns(t))
    <2>1. Return(t) /\ UNCHANGED quiet /\ th[t].pc = "check"
      BY <1>2 DEF Check
    <2>2. g.status = "active" => ~Serves(t)
      BY <1>2, <2>1 DEF Serves, Starting, TellPCs
    <2> QED BY <2>1, <2>2, ReturnKept
  <1> QED BY <1>1, <1>2

LEMMA DecideKept == ASSUME IInv, NEW t \in Threads, Decide(t) PROVE IInv'
  <1>1. th[t].pc = "decide" /\ UNCHANGED quiet /\ TypeInv /\ th[t] \in Thread
    BY DEF Decide, IInv, TypeInv, TypeOK
  <1>2. CASE Owns(t)
    <2> DEFINE r == [th[t] EXCEPT !.pc = "grace", !.instr = Instruction]
    <2>1. r \in Thread /\ r.pc = "grace" /\ r.instr = Instruction /\ r.next = th[t].next
          /\ r.own = th[t].own /\ r.late = th[t].late
      BY <1>1 DEF Thread, LoopPCs, Instr, Instruction
    <2>2. th' = [th EXCEPT ![t] = r]
      BY <1>2 DEF Decide
    <2> HIDE DEF r
    <2>3. Only(t) /\ Row(t, "grace", th[t].next, th[t].own, Instruction, th[t].late)
      BY <1>1, <2>1, <2>2, SetOne
    <2>4. th[t].late # 0 => th[t].late = 1 /\ t \in closed
      BY DEF IInv, LateInv
    <2>5. g.round => Instruction = "verify"
      BY DEF Instruction
    <2> QED BY <1>1, <2>3, <2>4, <2>5, GoesOn DEF LoopPCs
  <1>3. CASE ~Owns(t)
    <2>1. Return(t) /\ ~Serves(t)
      BY <1>1, <1>3 DEF Decide, Serves, Starting, TellPCs
    <2> QED BY <1>1, <2>1, ReturnKept
  <1> QED BY <1>2, <1>3

LEMMA GraceKept == ASSUME IInv, NEW t \in Threads, Grace(t) PROVE IInv'
  <1>1. th[t].pc = "grace" /\ UNCHANGED quiet
    BY DEF Grace
  <1>2. CASE t \in closed
    BY <1>1, <1>2, ReturnKept DEF Grace, Stopped
  <1>3. CASE t \notin closed
    <2>1. Goto(t, "poll") /\ th[t].late = 0
      BY <1>3 DEF Grace, Stopped, IInv, LateInv
    <2> QED BY <1>1, <1>3, <2>1, GotoKept DEF LoopPCs, Instructed
  <1> QED BY <1>2, <1>3

LEMMA PollKept == ASSUME IInv, NEW t \in Threads, Poll(t) PROVE IInv'
  <1>1. th[t].pc = "poll" /\ UNCHANGED quiet /\ th[t].late = 0
    BY DEF Poll, IInv, LateInv
  <1>2. CASE Goto(t, "recheck")
    BY <1>1, <1>2, GotoKept DEF LoopPCs, Instructed, Fresh, Starting, TellPCs
  <1>3. CASE t \in closed /\ Return(t)
    BY <1>1, <1>3, ReturnKept
  <1> QED BY <1>2, <1>3 DEF Poll, Stopped

LEMMA RecheckKept == ASSUME IInv, NEW t \in Threads, Recheck(t) PROVE IInv'
  <1>1. th[t].pc = "recheck" /\ UNCHANGED quiet /\ th[t].late = 0
    BY DEF Recheck, IInv, LateInv
  <1>2. CASE Owns(t) /\ g.status = "active"
    <2>1. Goto(t, "begin")
      BY <1>2 DEF Recheck
    <2> QED BY <1>1, <2>1, GotoKept DEF LoopPCs, Instructed, Fresh, Starting, TellPCs
  <1>3. CASE ~(Owns(t) /\ g.status = "active")
    <2>1. Return(t) /\ (g.status = "active" => ~Serves(t))
      BY <1>1, <1>3 DEF Recheck, Serves, Starting, TellPCs
    <2> QED BY <1>1, <2>1, ReturnKept
  <1> QED BY <1>2, <1>3

LEMMA BeginKept == ASSUME IInv, NEW t \in Threads, Begin(t) PROVE IInv'
  <1> DEFINE l == IF t \in closed THEN 1 ELSE 0
             r == [th[t] EXCEPT !.pc = "turn", !.late = l]
  <1>1. th[t].pc = "begin" /\ UNCHANGED quiet /\ th[t].late = 0
    BY DEF Begin, IInv, LateInv
  <1>2. TypeInv /\ th[t] \in Thread /\ th \in [Threads -> Thread]
    BY DEF IInv, TypeInv, TypeOK
  <1>3. r \in Thread /\ r.pc = "turn" /\ r.late = l /\ r.next = th[t].next /\ r.own = th[t].own
        /\ r.instr = th[t].instr
    <2>1. l \in 0..2
      OBVIOUS
    <2> HIDE DEF l
    <2> QED BY <1>2, <2>1 DEF Thread, LoopPCs
  <1>4. th' = [th EXCEPT ![t] = r]
    <2>1. l = IF Stopped(t) /\ th[t].late < 2 THEN th[t].late + 1 ELSE th[t].late
      BY <1>1 DEF Stopped
    <2> HIDE DEF l
    <2> QED BY <2>1, <1>2 DEF Begin
  <1> HIDE DEF r
  <1>5. Only(t) /\ Row(t, "turn", th[t].next, th[t].own, th[t].instr, l)
    BY <1>2, <1>3, <1>4, SetOne
  <1>6. Instructed(t) /\ ~Fresh(t)
    BY <1>1 DEF Instructed, LoopPCs, Fresh, Starting, TellPCs
  <1>7. (l # 0 => l = 1 /\ t \in closed) /\ th[t].pc \in LoopPCs \ {"start"} /\ "turn" \in LoopPCs
    BY <1>1 DEF LoopPCs
  <1> HIDE DEF l
  <1> QED BY <1>1, <1>5, <1>6, <1>7, GoesOn

LEMMA SawFacts ==
  ASSUME NEW r \in Thread, NEW p \in LoopPCs, NEW b \in BOOLEAN
  PROVE  [r EXCEPT !.pc = p, !.saw = b] \in Thread
  BY DEF Thread

LEMMA TurnEndKept == ASSUME IInv, NEW t \in Threads, TurnEnd(t) PROVE IInv'
  <1> DEFINE saw == th[t].heard # <<>>
             p == IF saw THEN "mirror" ELSE "budget"
             r == [th[t] EXCEPT !.pc = p, !.saw = saw]
  <1>1. th[t].pc = "turn" /\ UNCHANGED quiet /\ TypeInv /\ th[t] \in Thread
    BY DEF TurnEnd, IInv, TypeInv, TypeOK
  <1>2. th' = [th EXCEPT ![t] = r]
    BY Zenon DEF TurnEnd
  <1>3. r \in Thread
    <2>1. p \in LoopPCs
      BY DEF LoopPCs
    <2>2. saw \in BOOLEAN
      BY Zenon
    <2> HIDE DEF p, saw
    <2> QED BY <1>1, <2>1, <2>2, SawFacts
  <1>4. /\ r.pc = p /\ r.next = th[t].next /\ r.own = th[t].own
        /\ r.instr = th[t].instr /\ r.late = th[t].late /\ r.heard = th[t].heard
    <2> HIDE DEF p, saw
    <2> QED BY <1>1 DEF Thread
  <1> HIDE DEF r
  <1>5. p = "mirror" => th'[t].heard # <<>>
    BY <1>1, <1>2, <1>4 DEF TypeInv, TypeOK
  <1>6. Only(t) /\ Row(t, p, th[t].next, th[t].own, th[t].instr, th[t].late)
    BY <1>1, <1>2, <1>3, <1>4, SetOne
  <1>7. Instructed(t) /\ ~Fresh(t)
    BY <1>1 DEF Instructed, LoopPCs, Fresh, Starting, TellPCs
  <1>8. th[t].late # 0 => th[t].late = 1 /\ t \in closed
    BY DEF IInv, LateInv
  <1> QED BY <1>1, <1>5, <1>6, <1>7, <1>8, GoesOn DEF LoopPCs

-----------------------------------------------------------------------------
(* Broadcasts *)

LEMMA SnapshotKept == ASSUME IInv, NEW t \in Threads, Snapshot(t) PROVE IInv'
  <1> DEFINE r == [th[t] EXCEPT !.pc = "send", !.shot = g.status]
  <1>1. th[t].pc = "snap" /\ UNCHANGED quiet
    BY DEF Snapshot, quiet
  <1>2. TypeInv /\ th[t] \in Thread /\ g \in Goal /\ t <= calls /\ th[t].own <= calls /\ calls \in 0..MaxCalls
    BY <1>1, Called DEF IInv, TypeInv, TypeOK
  <1>3. r \in Thread /\ r.pc = "send" /\ r.next = th[t].next /\ r.own = th[t].own
        /\ r.instr = th[t].instr /\ r.late = th[t].late
    BY <1>2 DEF Thread, Goal, TellPCs
  <1>4. th' = [th EXCEPT ![t] = r]
    BY DEF Snapshot
  <1> HIDE DEF r
  <1>5. Only(t) /\ Row(t, "send", th[t].next, th[t].own, th[t].instr, th[t].late)
    BY <1>2, <1>3, <1>4, SetOne
  <1>6. Sound(t)
    BY <1>1, <1>2, <1>5, GoalAssumption
    DEF Sound, Row, TellPCs, Threads, IInv, TypeInv, LateInv, quiet, engine, world
  <1>7. Serves(t)' = Serves(t) /\ Owns(t)' = Owns(t) /\ Fresh(t)' = Fresh(t) /\ Instructed(t)' = Instructed(t)
    BY <1>1, <1>5 DEF quiet, engine, Row, Serves, Starting, Owns, Fresh, Instructed, TellPCs, LoopPCs
  <1>8. Working(t)' = Working(t)
    BY <1>1, <1>7 DEF Working, quiet, engine
  <1>9. th'[t].instr = th[t].instr
    BY <1>5 DEF Row
  <1> QED BY <1>1, <1>5, <1>6, <1>7, <1>8, <1>9, QuietKept DEF IInv, ToldInv

\* An event reaches the other threads.
LEMMA SetAndHear ==
  ASSUME TypeInv, NEW t \in Threads, NEW r \in Thread, NEW s \in Status,
         th' = [u \in Threads |-> IF u # t THEN Hear(th[u], s) ELSE r]
  PROVE  Only(t) /\ Row(t, r.pc, r.next, r.own, r.instr, r.late)
  <1>1. \A u \in Threads : th[u] \in Thread /\ th'[u] = IF u # t THEN Hear(th[u], s) ELSE r
    BY DEF TypeInv, TypeOK
  <1>2. ASSUME NEW u \in Threads, u # t PROVE Same(u) /\ th'[u] \in Thread
    BY <1>1, <1>2, HearFacts DEF Same
  <1>3. th'[t] = r
    BY <1>1
  <1>4. th' \in [Threads -> Thread]
    BY <1>1, <1>2
  <1> QED BY <1>2, <1>3, <1>4 DEF Only, Row

\* What the publisher goes on with.
LEMMA BroadcastFacts ==
  ASSUME TypeInv, NEW t \in Threads, Broadcast(t)
  PROVE  /\ Only(t)
         /\ th[t].next = "done" => Row(t, "done", "done", NoGoal, "none", 0)
         /\ th[t].next = "check" => Row(t, "check", "done", th[t].own, "none", th[t].late)
         /\ th[t].next \in {"start", "text"} =>
              Row(t, th[t].next, "done", th[t].own, th[t].instr, th[t].late)
  <1>1. th[t] \in Thread /\ th[t].shot \in Status /\ th[t].next \in {"start", "check", "text", "done"}
    BY DEF TypeInv, TypeOK, Thread
  <1>2. CASE th[t].next = "done"
    <2> DEFINE r == At("done")
    <2>1. th' = [u \in Threads |-> IF u # t THEN Hear(th[u], th[t].shot) ELSE r]
      BY <1>2 DEF Broadcast
    <2>2. r \in Thread /\ r.pc = "done" /\ r.next = "done" /\ r.own = NoGoal /\ r.instr = "none" /\ r.late = 0
      BY AtType DEF At
    <2> HIDE DEF r
    <2> QED BY <1>1, <1>2, <2>1, <2>2, SetAndHear
  <1>3. CASE th[t].next = "check"
    <2> DEFINE r == [Again(t) EXCEPT !.shot = "cleared"]
    <2>1. th' = [u \in Threads |-> IF u # t THEN Hear(th[u], th[t].shot) ELSE r]
      BY <1>3 DEF Broadcast
    <2>2. r \in Thread /\ r.pc = "check" /\ r.next = "done" /\ r.own = th[t].own /\ r.instr = "none"
          /\ r.late = th[t].late
      BY <1>1 DEF Again, Thread, LoopPCs, Instr, Status
    <2> HIDE DEF r
    <2> QED BY <1>1, <1>3, <2>1, <2>2, SetAndHear
  <1>4. CASE th[t].next \in {"start", "text"}
    <2> DEFINE r == [th[t] EXCEPT !.pc = th[t].next, !.next = "done", !.shot = "cleared"]
    <2>1. th' = [u \in Threads |-> IF u # t THEN Hear(th[u], th[t].shot) ELSE r]
      BY <1>4 DEF Broadcast
    <2>2. r \in Thread /\ r.pc = th[t].next /\ r.next = "done" /\ r.own = th[t].own
          /\ r.instr = th[t].instr /\ r.late = th[t].late
      BY <1>1, <1>4 DEF Thread, LoopPCs, Status
    <2> HIDE DEF r
    <2> QED BY <1>1, <1>4, <2>1, <2>2, SetAndHear
  <1> QED BY <1>1, <1>2, <1>3, <1>4

LEMMA BroadcastKept == ASSUME IInv, NEW t \in Threads, Broadcast(t) PROVE IInv'
  <1>1. TypeInv /\ th[t].pc = "send" /\ UNCHANGED quiet
    BY DEF IInv, Broadcast, quiet
  <1>2. t <= calls /\ th[t].own <= calls /\ calls \in 0..MaxCalls /\ calls' = calls
        /\ th[t].next \in {"start", "check", "text", "done"}
    BY <1>1, Called DEF TypeInv, TypeOK, Thread, quiet, world
  <1>3. th[t].late # 0 => th[t].late = 1 /\ t \in closed'
    BY <1>1 DEF IInv, LateInv, quiet, engine
  <1>4. CASE th[t].next = "done"
    <2>1. Only(t) /\ Row(t, "done", "done", NoGoal, "none", 0)
      BY <1>1, <1>4, BroadcastFacts
    <2>2. Sound(t)
      BY <1>2, <2>1, GoalAssumption DEF Row, Sound, TellPCs, NoGoal, Threads
    <2>3. ~Serves(t) /\ ~Serves(t)'
      BY <1>1, <1>4, <2>1 DEF Row, Serves, Starting, Owns, NoGoal, TellPCs, TypeInv
    <2> QED BY <1>1, <2>1, <2>2, <2>3, QuietKept DEF Working
  <1>5. CASE th[t].next = "check"
    <2>1. Only(t) /\ Row(t, "check", "done", th[t].own, "none", th[t].late)
      BY <1>1, <1>5, BroadcastFacts
    <2>2. Sound(t)
      BY <1>2, <1>3, <2>1, GoalAssumption DEF Row, Sound, TellPCs, Threads
    <2>3. Serves(t)' = Serves(t) /\ Fresh(t)' /\ ~Instructed(t)'
      BY <1>1, <1>5, <2>1 DEF Row, Serves, Starting, Owns, TellPCs, Fresh, Instructed, LoopPCs, quiet, engine
    <2> QED BY <1>1, <2>1, <2>2, <2>3, QuietKept DEF Working, quiet, engine
  <1>6. CASE th[t].next \in {"start", "text"}
    <2>1. Only(t) /\ Row(t, th[t].next, "done", th[t].own, th[t].instr, th[t].late)
      BY <1>1, <1>6, BroadcastFacts
    <2>2. Sound(t)
      BY <1>2, <1>3, <1>6, <2>1, GoalAssumption DEF Row, Sound, TellPCs, Threads
    <2>3. Serves(t)' = Serves(t) /\ Owns(t)' = Owns(t) /\ Fresh(t)' = Fresh(t) /\ Instructed(t)' = Instructed(t)
      BY <1>1, <1>6, <2>1
      DEF Row, Serves, Starting, Owns, TellPCs, Fresh, Instructed, LoopPCs, quiet, engine
    <2>4. Working(t)' = Working(t) /\ th'[t].instr = th[t].instr
      BY <1>1, <2>1, <2>3 DEF Working, quiet, engine, Row
    <2> QED BY <1>1, <2>1, <2>2, <2>3, <2>4, QuietKept DEF IInv, ToldInv
  <1> QED BY <1>2, <1>4, <1>5, <1>6

\* An agent's report, or the end of the host, moves no thread.
LEMMA AgentUpdateKept == ASSUME IInv, AgentUpdate PROVE IInv'
  <1>1. PICK s \in AgentStatus : th' = [u \in Threads |-> Hear(th[u], s)]
    BY DEF AgentUpdate
  <1>2. TypeInv /\ s \in Status /\ UNCHANGED quiet
    BY GoalAssumption DEF IInv, AgentUpdate, quiet, Status
  <1>3. \A u \in Threads : Same(u) /\ th'[u] \in Thread
    BY <1>1, <1>2, HearFacts DEF TypeInv, TypeOK, Same
  <1>4. th' \in [Threads -> Thread]
    BY <1>1, <1>3
  <1>5. PICK t \in Threads : TRUE
    BY GoalAssumption DEF Threads
  <1>6. Only(t) /\ Same(t)
    BY <1>3, <1>4 DEF Only
  <1>7. Sound(t)
    <2>1. th[t].own \in Nat /\ calls \in Nat
      BY <1>2, GoalAssumption DEF TypeInv, TypeOK, Thread
    <2>2. calls < t => th'[t] = At("idle")
      <3>1. At("idle").pc = "idle"
        BY DEF At
      <3>2. calls < t => th[t] = At("idle")
        BY DEF IInv, CallInv
      <3> QED BY <1>6, <3>1, <3>2 DEF Same
    <2> QED BY <1>2, <1>6, <2>1, <2>2
        DEF Sound, Same, IInv, TypeInv, CallInv, LateInv, quiet, engine, world
  <1>8. Serves(t)' = Serves(t) /\ Owns(t)' = Owns(t) /\ Fresh(t)' = Fresh(t)
        /\ Instructed(t)' = Instructed(t) /\ th'[t].instr = th[t].instr
    BY <1>2, <1>6, SameFacts DEF quiet, engine
  <1>9. Working(t)' = Working(t)
    BY <1>2, <1>8 DEF Working, quiet, engine
  <1> QED BY <1>2, <1>6, <1>7, <1>8, <1>9, QuietKept DEF IInv, ToldInv

LEMMA StopLoopFacts ==
  ASSUME IInv, StopLoop
  PROVE  /\ closed \subseteq closed' /\ closed' \subseteq closed \cup ({stop} \ {NoStop})
         /\ closed' \subseteq Threads /\ \A u \in closed' : u <= calls
         /\ stop' \in 0..MaxCalls /\ stop' <= calls /\ loopOn' \in BOOLEAN /\ StopClosedOnce'
  <1>1. stop \in 0..MaxCalls /\ closed \subseteq Threads /\ stop <= calls /\ calls \in 0..MaxCalls
        /\ (\A u \in closed : u <= calls) /\ StopClosedOnce
    BY DEF IInv, TypeInv, TypeOK, CallInv
  <1>2. loopOn' \in BOOLEAN
    BY Zenon DEF IInv, TypeInv, TypeOK, StopLoop
  <1>3. CASE loopOn
    <2>1. closed' = closed \cup ({stop} \ {NoStop}) /\ loopOn' = FALSE /\ stop' = NoStop
      BY <1>3 DEF StopLoop
    <2>2. closed' \subseteq Threads /\ \A u \in closed' : u <= calls
      BY <1>1, <2>1, GoalAssumption DEF NoStop, Threads
    <2>3. stop' \in 0..MaxCalls /\ stop' <= calls
      BY <1>1, <2>1, GoalAssumption DEF NoStop
    <2> QED BY <1>2, <2>1, <2>2, <2>3 DEF StopClosedOnce
  <1>4. CASE ~loopOn
    BY <1>1, <1>2, <1>4 DEF StopLoop, StopClosedOnce
  <1> QED BY <1>3, <1>4

LEMMA ShutdownKept == ASSUME IInv, Shutdown PROVE IInv'
  <1>1. UNCHANGED <<g, calls, th, verdict, overlap>> /\ broken' = TRUE /\ down' = TRUE
    BY DEF Shutdown
  <1>2. /\ closed \subseteq closed' /\ closed' \subseteq Threads /\ \A u \in closed' : u <= calls
        /\ stop' \in 0..MaxCalls /\ stop' <= calls /\ loopOn' \in BOOLEAN /\ StopClosedOnce'
    BY StopLoopFacts DEF Shutdown
  <1>3. TypeInv'
    <2>1. TypeOK'
      <3>1. broken' \in BOOLEAN /\ down' \in BOOLEAN
        BY <1>1
      <3> QED BY <1>1, <1>2, <3>1, Zenon DEF IInv, TypeInv, TypeOK
    <2> QED BY <1>1, <2>1 DEF IInv, TypeInv
  <1>4. CallInv' /\ LateInv' /\ ActiveHasLoop' /\ VerdictInv'
    BY <1>1, <1>2 DEF IInv, CallInv, LateInv, ActiveHasLoop, VerdictInv
  <1>5. \A u \in Threads : /\ Serves(u)' = Serves(u) /\ Owns(u)' = Owns(u) /\ Fresh(u)' = Fresh(u)
                           /\ Instructed(u)' = Instructed(u)
    BY <1>1 DEF Serves, Starting, Owns, Fresh, Instructed
  <1>6. \A u \in Threads : Working(u)' => Working(u)
    BY <1>2, <1>5 DEF Working
  <1>7. SoleInv' /\ ToldInv'
    BY <1>1, <1>5, <1>6 DEF IInv, SoleInv, ToldInv
  <1> QED BY <1>2, <1>3, <1>4, <1>7 DEF IInv

-----------------------------------------------------------------------------
(* The steps of a loop that write the goal *)

\* A loop that captured the session's goal and is past the grace period works for it.
Writer(t) == Owns(t) /\ th[t].pc \in {"turn", "mirror", "budget", "terminal", "tool", "text"}

LEMMA WriterFacts ==
  ASSUME IInv, NEW t \in Threads, Writer(t)
  PROVE  /\ Working(t) /\ Instructed(t) /\ t <= calls /\ th[t].own <= calls /\ th[t].own # NoGoal
         /\ calls \in 0..MaxCalls /\ g \in Goal
         /\ th[t].late # 0 => th[t].late = 1 /\ t \in closed
  <1>1. t <= calls /\ th[t].own <= calls /\ calls \in 0..MaxCalls /\ g \in Goal
    BY Called DEF Writer, IInv, TypeInv, TypeOK
  <1>2. Working(t) /\ Instructed(t) /\ th[t].own # NoGoal
    BY DEF Writer, Working, Serves, Owns, Fresh, Starting, TellPCs, Instructed, LoopPCs
  <1>3. th[t].late # 0 => th[t].late = 1 /\ t \in closed
    BY DEF IInv, LateInv
  <1> QED BY <1>1, <1>2, <1>3

\* It stays.
LEMMA WriterStays ==
  ASSUME IInv, NEW t \in Threads, Writer(t), Only(t), SameGoal, SameEngine,
         NEW p \in {"check", "mirror", "budget", "terminal", "tool", "text", "snap"},
         NEW n \in {"check", "text"}, NEW i,
         Row(t, p, IF p = "snap" THEN n ELSE th'[t].next, th[t].own, i, th[t].late),
         p = "mirror" => th'[t].heard # <<>>,
         p = "check" \/ (p = "snap" /\ n = "check") \/ (i = th[t].instr /\ (g'.round => g.round)),
         g'.status = "active" /\ ~broken' => g.status = "active" /\ ~broken,
         verdict' \in Instr, broken' \in BOOLEAN, VerdictInv'
  PROVE  IInv'
  <1>1. /\ Working(t) /\ Instructed(t) /\ t <= calls /\ th[t].own <= calls
        /\ calls \in 0..MaxCalls /\ (th[t].late # 0 => th[t].late = 1 /\ t \in closed)
    BY WriterFacts
  <1>2. Sound(t)
    BY <1>1, GoalAssumption DEF Sound, Row, TellPCs, Threads, SameEngine
  <1>3. Owns(t)' /\ Serves(t)'
    BY DEF Writer, Owns, Serves, Row, SameGoal
  <1>4. ~overlap /\ g'.round /\ Instructed(t)' => th'[t].instr = "verify"
    <2> SUFFICES ASSUME ~overlap, g'.round, Instructed(t)' PROVE i = "verify"
      BY DEF Row
    <2>1. ~(p = "check" \/ (p = "snap" /\ n = "check"))
      BY DEF Instructed, Row, LoopPCs, TellPCs
    <2>2. i = th[t].instr /\ g.round
      BY <2>1
    <2> QED BY <1>1, <2>2 DEF IInv, ToldInv, Writer
  <1>5. Obedient(t) /\ Keeps(t)
    BY <1>1, <1>3, <1>4 DEF Obedient, Keeps, SameEngine
  <1> QED BY <1>2, <1>5, LoopKept

\* It gives its goal up: the goal is active no more, or one of the accidents that
\* leave it without a loop happened.
LEMMA WriterLeaves ==
  ASSUME IInv, NEW t \in Threads, Writer(t), Only(t), SameGoal, UNCHANGED <<calls, down>>,
         NEW p \in {"snap", "done"}, Row(t, p, "done", NoGoal, "none", 0),
         g'.status # "active" \/ broken',
         verdict' \in Instr, broken' \in BOOLEAN, VerdictInv',
         closed \subseteq closed', closed' \subseteq Threads, \A u \in closed' : u <= calls,
         stop' \in 0..MaxCalls, stop' <= calls, loopOn' \in BOOLEAN, StopClosedOnce'
  PROVE  IInv'
  <1>1. /\ Working(t) /\ t <= calls /\ calls \in 0..MaxCalls /\ g.id <= calls /\ TypeInv
        /\ down' \in BOOLEAN /\ overlap' \in BOOLEAN
    <2>1. Working(t) /\ t <= calls /\ calls \in 0..MaxCalls /\ g.id <= calls /\ TypeInv
      BY WriterFacts DEF IInv, CallInv
    <2>2. down' \in BOOLEAN /\ overlap' \in BOOLEAN
      BY Zenon DEF IInv, TypeInv, TypeOK, SameGoal
    <2> QED BY <2>1, <2>2
  <1>2. Sound(t)
    BY <1>1, GoalAssumption DEF Sound, Row, TellPCs, Threads, NoGoal
  <1>3. ~Owns(t)' /\ ~Serves(t)'
    BY DEF Row, Owns, Serves, Starting, NoGoal, TellPCs
  <1>4. Obedient(t) /\ Keeps(t)
    BY <1>1, <1>3 DEF Obedient, Keeps, Working
  <1>5. TypeInv'
    BY <1>1, <1>2, TypeKept DEF SameGoal
  <1>6. CallInv'
    <2>1. calls' \in 0..MaxCalls /\ calls <= calls' /\ g'.id <= calls' /\ stop' <= calls'
          /\ \A u \in closed' : u <= calls'
      BY <1>1, GoalAssumption DEF SameGoal
    <2> QED BY <1>2, <2>1, CallKept
  <1>7. LateInv' /\ SoleInv' /\ ToldInv' /\ ActiveHasLoop'
    BY <1>2, <1>4, LateKept, SoleKept, ToldKept, ActiveKept DEF Obedient
  <1> QED BY <1>5, <1>6, <1>7 DEF IInv

\* A loop whose goal is not the session's gives it up.
LEMMA StrangerReturns ==
  ASSUME IInv, NEW t \in Threads, th[t].pc \in LoopPCs \ {"start"}, ~Owns(t), Return(t), UNCHANGED quiet
  PROVE  IInv'
  BY ReturnKept DEF LoopPCs, Serves, Starting, TellPCs

\* It tells its last and leaves the channels alone.
LEMMA TellsItsLast ==
  ASSUME IInv, NEW t \in Threads, Writer(t), Tell(t, "done"), SameGoal, SameEngine,
         g'.status # "active" \/ broken', verdict' \in Instr, broken' \in BOOLEAN, VerdictInv'
  PROVE  IInv'
  <1>1. Only(t) /\ Row(t, "snap", "done", NoGoal, "none", 0)
    BY TellFacts DEF IInv
  <1>2. /\ closed \subseteq closed' /\ closed' \subseteq Threads /\ \A u \in closed' : u <= calls
        /\ stop' \in 0..MaxCalls /\ stop' <= calls /\ StopClosedOnce'
    BY DEF IInv, TypeInv, TypeOK, CallInv, StopClosedOnce, SameEngine
  <1>3. loopOn' \in BOOLEAN
    BY Zenon DEF IInv, TypeInv, TypeOK, SameEngine
  <1> QED BY <1>1, <1>2, <1>3, WriterLeaves DEF SameEngine

LEMMA TurnFailedKept == ASSUME IInv, NEW t \in Threads, TurnFailed(t) PROVE IInv'
  <1>1. th[t].pc = "turn" /\ UNCHANGED <<engine, world, verdict, overlap>>
    BY DEF TurnFailed
  <1>2. CASE Owns(t)
    <2>1. Writer(t) /\ Tell(t, "done") /\ broken' = TRUE
      BY <1>1, <1>2 DEF TurnFailed, Writer
    <2>2. SameGoal /\ SameEngine
      BY <1>1 DEF engine, world, SameGoal, SameEngine, IInv, TypeInv, TypeOK
    <2>3. verdict' \in Instr /\ VerdictInv'
      BY <1>1 DEF IInv, TypeInv, TypeOK, VerdictInv
    <2> QED BY <2>1, <2>2, <2>3, TellsItsLast
  <1>3. CASE ~Owns(t)
    BY <1>1, <1>3, StrangerReturns DEF TurnFailed, LoopPCs, quiet, history
  <1> QED BY <1>2, <1>3

LEMMA MirrorKept == ASSUME IInv, NEW t \in Threads, Mirror(t) PROVE IInv'
  <1>1. th[t].pc = "mirror" /\ TypeInv /\ th[t] \in Thread /\ g \in Goal
        /\ th[t].heard \in Seq(Status) /\ th[t].heard # <<>>
    BY DEF Mirror, IInv, TypeInv, TypeOK, Thread
  <1>2. CASE ~Owns(t)
    BY <1>1, <1>2, StrangerReturns DEF Mirror, LoopPCs
  <1>3. CASE Owns(t)
    <2> DEFINE p == IF Len(th[t].heard) = 1 THEN "budget" ELSE "mirror"
               h == Tail(th[t].heard)
               r == [th[t] EXCEPT !.heard = h, !.pc = p]
    <2>1. /\ g' = [g EXCEPT !.status = Head(th[t].heard)] /\ UNCHANGED <<stop, loopOn, closed, world, verdict, overlap>>
          /\ th' = [th EXCEPT ![t].heard = Tail(@), ![t].pc = IF Len(th[t].heard) = 1 THEN "budget" ELSE @]
      BY <1>3 DEF Mirror
    <2>2. broken' = (broken \/ (g.status # "active" /\ Head(th[t].heard) = "active"))
      BY <1>3 DEF Mirror
    <2>3. h \in Seq(Status) /\ Head(th[t].heard) \in Status /\ (p = "mirror" => h # <<>>)
      <3>1. h \in Seq(Status) /\ Head(th[t].heard) \in Status /\ Len(h) = Len(th[t].heard) - 1
        BY <1>1
      <3>2. Len(th[t].heard) # 1 => Len(h) # 0
        BY <1>1, <3>1
      <3>3. p = "mirror" => Len(th[t].heard) # 1
        OBVIOUS
      <3> HIDE DEF p, h
      <3>4. h = <<>> => Len(h) = 0
        OBVIOUS
      <3> QED BY <3>1, <3>2, <3>3, <3>4
    <2>4. p \in {"mirror", "budget"}
      OBVIOUS
    <2>5. th' = [th EXCEPT ![t] = r]
      BY <1>1, <2>1 DEF TypeInv, TypeOK
    <2> HIDE DEF p, h
    <2>6. /\ r \in Thread /\ r.pc = p /\ r.next = th[t].next /\ r.own = th[t].own
          /\ r.instr = th[t].instr /\ r.late = th[t].late /\ r.heard = h
      BY <1>1, <2>3, <2>4 DEF Thread, LoopPCs
    <2>7. th'[t] = r
      BY <1>1, <2>5 DEF TypeInv, TypeOK
    <2> HIDE DEF r
    <2>8. Only(t) /\ Row(t, p, th[t].next, th[t].own, th[t].instr, th[t].late)
      BY <1>1, <2>5, <2>6, SetOne
    <2>9. Row(t, p, th'[t].next, th[t].own, th[t].instr, th[t].late) /\ (p = "mirror" => th'[t].heard # <<>>)
      BY <2>3, <2>6, <2>7, <2>8 DEF Row
    <2>10. SameGoal /\ SameEngine /\ g'.round = g.round
      BY <1>1, <2>1, <2>3 DEF SameGoal, SameEngine, Goal, world
    <2>11. g'.status = "active" /\ ~broken' => g.status = "active" /\ ~broken
      BY <1>1, <2>1, <2>2 DEF Goal
    <2>12. broken' \in BOOLEAN
      BY <2>2, Zenon DEF IInv, TypeInv, TypeOK
    <2>13. verdict' \in Instr /\ VerdictInv' /\ Writer(t)
      BY <1>1, <1>3, <2>1 DEF IInv, TypeInv, TypeOK, VerdictInv, Writer
    <2> QED BY <2>4, <2>8, <2>9, <2>10, <2>11, <2>12, <2>13, WriterStays
  <1> QED BY <1>2, <1>3

LEMMA BudgetKept == ASSUME IInv, NEW t \in Threads, Budget(t) PROVE IInv'
  <1>1. th[t].pc = "budget" /\ UNCHANGED <<world, history>> /\ TypeInv /\ g \in Goal
    BY DEF Budget, IInv, TypeInv, TypeOK
  <1>2. CASE ~Owns(t)
    BY <1>1, <1>2, StrangerReturns DEF Budget, LoopPCs, quiet
  <1>3. CASE Owns(t) /\ UNCHANGED <<g, stop, loopOn, closed>>
                     /\ Goto(t, IF th[t].saw THEN "terminal" ELSE "tool")
    <2>1. Writer(t) /\ Instructed(t) /\ ~Fresh(t)
      BY <1>1, <1>3 DEF Writer, Instructed, LoopPCs, Fresh, Starting, TellPCs
    <2>2. CASE th[t].saw
      BY <1>1, <1>3, <2>1, <2>2, GotoKept DEF LoopPCs, quiet, engine
    <2>3. CASE ~th[t].saw
      BY <1>1, <1>3, <2>1, <2>3, GotoKept DEF LoopPCs, quiet, engine
    <2> QED BY <2>2, <2>3
  <1>4. CASE Owns(t) /\ Tell(t, "done") /\ g' = [g EXCEPT !.status = "budget_limited"] /\ StopLoop
    <2>1. Only(t) /\ Row(t, "snap", "done", NoGoal, "none", 0)
      BY <1>1, <1>4, TellFacts
    <2>2. /\ closed \subseteq closed' /\ closed' \subseteq Threads /\ \A u \in closed' : u <= calls
          /\ stop' \in 0..MaxCalls /\ stop' <= calls /\ loopOn' \in BOOLEAN /\ StopClosedOnce'
      BY <1>4, StopLoopFacts
    <2>3. SameGoal /\ g'.status # "active" /\ UNCHANGED <<calls, down>>
      BY <1>1, <1>4 DEF SameGoal, Goal, Status, world, history
    <2>4. verdict' \in Instr /\ VerdictInv' /\ Writer(t)
      BY <1>1, <1>4 DEF IInv, TypeInv, TypeOK, VerdictInv, Writer, history
    <2>5. broken' \in BOOLEAN
      BY <1>1, Zenon DEF TypeInv, TypeOK, history
    <2> QED BY <2>1, <2>2, <2>3, <2>4, <2>5, WriterLeaves
  <1> QED BY <1>2, <1>3, <1>4 DEF Budget, Spend

LEMMA TerminalStateKept == ASSUME IInv, NEW t \in Threads, TerminalState(t) PROVE IInv'
  <1>1. th[t].pc = "terminal" /\ UNCHANGED quiet /\ TypeInv /\ th[t] \in Thread /\ g \in Goal
    BY DEF TerminalState, IInv, TypeInv, TypeOK
  <1>2. CASE ~Owns(t)
    BY <1>1, <1>2, StrangerReturns DEF TerminalState, LoopPCs
  <1>3. CASE Owns(t) /\ g.status \in Terminal
    <2>1. Writer(t) /\ Tell(t, "done") /\ g'.status # "active"
      BY <1>1, <1>3 DEF TerminalState, Writer, Terminal, quiet, engine
    <2>2. SameGoal /\ SameEngine
      BY <1>1 DEF quiet, engine, world, history, SameGoal, SameEngine
    <2>3. verdict' \in Instr /\ VerdictInv'
      BY <1>1 DEF IInv, TypeInv, TypeOK, VerdictInv, quiet, history
    <2>4. broken' \in BOOLEAN
      BY <1>1, Zenon DEF TypeInv, TypeOK, quiet, history
    <2> QED BY <2>1, <2>2, <2>3, <2>4, TellsItsLast
  <1>4. CASE Owns(t) /\ g.status \notin Terminal
    <2> DEFINE r == [th[t] EXCEPT !.pc = "tool", !.saw = FALSE]
    <2>1. th' = [th EXCEPT ![t] = r]
      BY <1>4 DEF TerminalState
    <2>2. r \in Thread /\ r.pc = "tool" /\ r.next = th[t].next /\ r.own = th[t].own
          /\ r.instr = th[t].instr /\ r.late = th[t].late
      BY <1>1 DEF Thread, LoopPCs
    <2> HIDE DEF r
    <2>3. Only(t) /\ Row(t, "tool", th[t].next, th[t].own, th[t].instr, th[t].late)
      BY <1>1, <2>1, <2>2, SetOne
    <2>4. Instructed(t) /\ ~Fresh(t) /\ (th[t].late # 0 => th[t].late = 1 /\ t \in closed)
      BY <1>1 DEF Instructed, LoopPCs, Fresh, Starting, TellPCs, IInv, LateInv
    <2> QED BY <1>1, <2>3, <2>4, GoesOn DEF LoopPCs
  <1> QED BY <1>2, <1>3, <1>4

\* A writer tells the world where it is and goes on.
LEMMA TellsMore ==
  ASSUME IInv, NEW t \in Threads, Writer(t), NEW n \in {"check", "text"}, Tell(t, n), SameGoal, SameEngine,
         n = "check" \/ (g'.round => g.round),
         g'.status = "active" /\ ~broken' => g.status = "active" /\ ~broken,
         verdict' \in Instr, broken' \in BOOLEAN, VerdictInv'
  PROVE  IInv'
  <1>1. Only(t) /\ Row(t, "snap", n, th[t].own, th[t].instr, th[t].late)
    BY TellFacts DEF IInv
  <1> QED BY <1>1, WriterStays

LEMMA ToolKept == ASSUME IInv, NEW t \in Threads, Tool(t) PROVE IInv'
  <1>1. th[t].pc = "tool" /\ UNCHANGED <<stop, loopOn, closed, world, verdict, overlap>> /\ g \in Goal
    BY DEF Tool, IInv, TypeInv, TypeOK
  <1>2. SameEngine /\ verdict' \in Instr /\ VerdictInv' /\ broken \in BOOLEAN
    <2>1. SameEngine /\ verdict' \in Instr /\ VerdictInv'
      BY <1>1 DEF SameEngine, world, IInv, TypeInv, TypeOK, VerdictInv
    <2>2. broken \in BOOLEAN
      BY Zenon DEF IInv, TypeInv, TypeOK
    <2> QED BY <2>1, <2>2
  <1>3. CASE Goto(t, "text") /\ UNCHANGED <<g, broken>>
    BY <1>1, <1>3, GotoKept DEF quiet, engine, history, LoopPCs, Instructed, Fresh, Starting, TellPCs
  <1>4. CASE ~Owns(t) /\ Return(t) /\ UNCHANGED <<g, broken>>
    BY <1>1, <1>4, StrangerReturns DEF quiet, engine, history, LoopPCs
  <1>5. CASE Owns(t) /\ Report(t)
    <2>1. Writer(t)
      BY <1>1, <1>5 DEF Writer
    <2>2. CASE /\ g' = [g EXCEPT !.claimed = TRUE, !.round = TRUE]
               /\ \/ Tell(t, "check") /\ UNCHANGED broken
                  \/ Tell(t, "done") /\ broken' = TRUE
      <3>1. SameGoal /\ g'.status = g.status
        BY <1>1, <2>2 DEF SameGoal, Goal
      <3>2. CASE Tell(t, "check") /\ UNCHANGED broken
        BY <1>2, <2>1, <3>1, <3>2, TellsMore
      <3>3. CASE Tell(t, "done") /\ broken' = TRUE
        BY <1>2, <2>1, <3>1, <3>3, TellsItsLast
      <3> QED BY <2>2, <3>2, <3>3
    <2>3. CASE g' = [g EXCEPT !.status = "blocked"] /\ Tell(t, "done") /\ UNCHANGED broken
      <3>1. SameGoal /\ g'.status # "active"
        BY <1>1, <2>3 DEF SameGoal, Goal, Status
      <3> QED BY <1>2, <2>1, <2>3, <3>1, TellsItsLast
    <2>4. CASE Tell(t, "text") /\ UNCHANGED <<g, broken>>
      <3>1. SameGoal
        BY <1>1, <2>4 DEF SameGoal
      <3> QED BY <1>2, <2>1, <2>4, <3>1, TellsMore
    <2> QED BY <1>5, <2>2, <2>3, <2>4 DEF Report
  <1> QED BY <1>3, <1>4, <1>5 DEF Tool

\* A verdict on the round a claim opened is on the answer to the request for evidence.
LEMMA VerdictFacts ==
  ASSUME IInv, NEW t \in Threads, Writer(t), g.round, overlap' = overlap,
         verdict' \in {verdict, th[t].instr}
  PROVE  verdict' \in Instr /\ VerdictInv'
  <1>1. Working(t) /\ Instructed(t) /\ Owns(t)
    BY WriterFacts DEF Writer
  <1>2. overlap \/ th[t].instr = "verify"
    BY <1>1 DEF IInv, ToldInv
  <1>3. verdict \in Instr /\ th[t].instr \in Instr
    BY DEF IInv, TypeInv, TypeOK, Thread
  <1> QED BY <1>2, <1>3 DEF IInv, VerdictInv

\* The next iteration of a loop that owns its goal.
LEMMA WriterAgain ==
  ASSUME IInv, NEW t \in Threads, Writer(t), th' = [th EXCEPT ![t] = Again(t)], SameGoal, SameEngine,
         g'.status = "active" /\ ~broken' => g.status = "active" /\ ~broken,
         verdict' \in Instr, broken' \in BOOLEAN, VerdictInv'
  PROVE  IInv'
  <1>1. Only(t) /\ Row(t, "check", "done", th[t].own, "none", th[t].late)
    BY AgainFacts DEF IInv
  <1>2. Row(t, "check", th'[t].next, th[t].own, "none", th[t].late)
    BY <1>1 DEF Row
  <1> QED BY <1>1, <1>2, WriterStays

LEMMA TextKept == ASSUME IInv, NEW t \in Threads, Text(t) PROVE IInv'
  <1>1. th[t].pc = "text" /\ UNCHANGED <<stop, loopOn, closed, world, overlap, broken>> /\ g \in Goal
    BY DEF Text, IInv, TypeInv, TypeOK
  <1>2. SameEngine /\ verdict \in Instr /\ VerdictInv /\ broken' \in BOOLEAN /\ overlap' = overlap
    <2>1. SameEngine /\ verdict \in Instr /\ VerdictInv
      BY <1>1 DEF SameEngine, world, IInv, TypeInv, TypeOK
    <2>2. broken' \in BOOLEAN
      BY <1>1, Zenon DEF IInv, TypeInv, TypeOK
    <2> QED BY <1>1, <2>1, <2>2
  <1>3. CASE ~Owns(t)
    BY <1>1, <1>3, StrangerReturns DEF Text, quiet, engine, history, LoopPCs
  <1>4. CASE Owns(t)
    <2>1. Writer(t)
      BY <1>1, <1>4 DEF Writer
    <2>2. PICK r \in Reply : IF g.round THEN Resolve(t, Claims(r), r.stuck, r.shown)
                                        ELSE Latch(t, Claims(r), r.stuck)
      BY <1>4, Zenon DEF Text
    <2>3. CASE g.round
      <3>1. Resolve(t, Claims(r), r.stuck, r.shown)
        BY <2>2, <2>3
      <3>2. CASE Claims(r) \/ r.stuck
        <4>1. Tell(t, "done") /\ verdict' \in {verdict, th[t].instr}
              /\ \E s \in {"complete", "blocked"} : g' = [g EXCEPT !.round = FALSE, !.status = s]
          BY <3>1, <3>2 DEF Resolve
        <4>2. SameGoal /\ g'.status # "active"
          BY <1>1, <1>2, <4>1 DEF SameGoal, Goal, Status
        <4>3. verdict' \in Instr /\ VerdictInv'
          BY <1>2, <2>1, <2>3, <4>1, VerdictFacts
        <4> QED BY <1>2, <2>1, <4>1, <4>2, <4>3, TellsItsLast
      <3>3. CASE ~(Claims(r) \/ r.stuck)
        <4>1. g' = [g EXCEPT !.round = FALSE, !.claimed = FALSE] /\ th' = [th EXCEPT ![t] = Again(t)]
              /\ verdict' = verdict
          BY <3>1, <3>3 DEF Resolve
        <4>2. SameGoal /\ g'.status = g.status
          BY <1>1, <1>2, <4>1 DEF SameGoal, Goal
        <4>3. g'.status = "active" /\ ~broken' => g.status = "active" /\ ~broken
          BY <1>1, <4>2
        <4>4. verdict' \in Instr /\ VerdictInv'
          BY <1>2, <4>1 DEF VerdictInv
        <4> QED BY <1>2, <2>1, <4>1, <4>2, <4>3, <4>4, WriterAgain
      <3> QED BY <3>2, <3>3
    <2>4. CASE ~g.round
      <3>1. Latch(t, Claims(r), r.stuck) /\ verdict' = verdict
        BY <2>2, <2>4 DEF Latch
      <3>2. verdict' \in Instr /\ VerdictInv'
        BY <1>2, <3>1 DEF VerdictInv
      <3>3. CASE g' = [g EXCEPT !.claimed = TRUE, !.round = TRUE] /\ Tell(t, "check")
        <4>1. SameGoal /\ g'.status = g.status
          BY <1>1, <1>2, <3>3 DEF SameGoal, Goal
        <4>2. g'.status = "active" /\ ~broken' => g.status = "active" /\ ~broken
          BY <1>1, <4>1
        <4> QED BY <1>2, <2>1, <3>2, <3>3, <4>1, <4>2, TellsMore
      <3>4. CASE g' = [g EXCEPT !.status = "blocked"] /\ Tell(t, "done")
        <4>1. SameGoal /\ g'.status # "active"
          BY <1>1, <1>2, <3>4 DEF SameGoal, Goal, Status
        <4> QED BY <1>2, <2>1, <3>2, <3>4, <4>1, TellsItsLast
      <3>5. CASE g' = g /\ th' = [th EXCEPT ![t] = Again(t)]
        <4>1. SameGoal /\ g'.status = g.status
          BY <1>1, <1>2, <3>5 DEF SameGoal
        <4>2. g'.status = "active" /\ ~broken' => g.status = "active" /\ ~broken
          BY <1>1, <4>1
        <4> QED BY <1>2, <2>1, <3>2, <3>5, <4>1, <4>2, WriterAgain
      <3> QED BY <3>1, <3>3, <3>4, <3>5 DEF Latch
    <2> QED BY <2>3, <2>4
  <1> QED BY <1>3, <1>4

-----------------------------------------------------------------------------
(* Control calls *)

LEMMA CallFacts ==
  ASSUME IInv, NEW t \in Threads, NEW n \in {"start", "done"}, Call(t, n)
  PROVE  /\ t = calls + 1 /\ calls' = t /\ calls' \in 0..MaxCalls /\ calls \in 0..MaxCalls
         /\ th[t] = At("idle") /\ ~Serves(t) /\ t \notin closed /\ t # stop
         /\ Only(t) /\ Row(t, "snap", n, NoGoal, "none", 0) /\ Sound(t) /\ down' \in BOOLEAN
  <1>1. calls \in 0..MaxCalls /\ t = calls + 1 /\ calls' = t /\ Tell(t, n) /\ TypeInv /\ CallInv
    BY DEF Call, IInv, TypeInv, TypeOK
  <1>2. calls' \in 0..MaxCalls /\ calls < t
    BY <1>1, GoalAssumption DEF Threads
  <1>3. th[t] = At("idle") /\ t \notin closed /\ t # stop
    BY <1>1, <1>2, GoalAssumption DEF CallInv, TypeInv, TypeOK
  <1>4. ~Serves(t) /\ th[t].own = NoGoal /\ th[t].instr = "none" /\ th[t].late = 0
    BY <1>3 DEF At, Serves, Starting, Owns, TellPCs
  <1>5. Only(t) /\ Row(t, "snap", n, NoGoal, "none", 0)
    BY <1>1, <1>4, TellFacts
  <1>6. Sound(t)
    BY <1>1, <1>2, <1>5, GoalAssumption DEF Sound, Row, TellPCs, NoGoal
  <1>7. down' \in BOOLEAN
    BY Zenon DEF Call, IInv, TypeInv, TypeOK
  <1> QED BY <1>1, <1>2, <1>3, <1>4, <1>5, <1>6, <1>7

\* A call that stops the loop.
LEMMA StopKept ==
  ASSUME IInv, NEW t \in Threads, Call(t, "done"), StopLoop, UNCHANGED history,
         g' \in Goal, g'.id = g.id, g'.round = g.round, g'.status # "active"
  PROVE  IInv'
  <1>1. /\ t = calls + 1 /\ calls' = t /\ calls' \in 0..MaxCalls /\ calls \in 0..MaxCalls
        /\ Only(t) /\ Row(t, "snap", "done", NoGoal, "none", 0) /\ Sound(t) /\ down' \in BOOLEAN
    BY CallFacts
  <1>2. /\ closed \subseteq closed' /\ closed' \subseteq Threads /\ \A u \in closed' : u <= calls
        /\ stop' \in 0..MaxCalls /\ stop' <= calls /\ loopOn' \in BOOLEAN /\ StopClosedOnce'
    BY StopLoopFacts
  <1>3. ~Owns(t)' /\ ~Serves(t)'
    BY <1>1 DEF Row, Owns, Serves, Starting, NoGoal, TellPCs
  <1>4. SameGoal /\ Obedient(t) /\ Keeps(t) /\ VerdictInv' /\ verdict' \in Instr
    BY <1>3 DEF SameGoal, Obedient, Keeps, Working, history, VerdictInv, IInv, TypeInv, TypeOK
  <1>5. TypeInv'
    <2>1. overlap' \in BOOLEAN /\ broken' \in BOOLEAN
      BY Zenon DEF history, IInv, TypeInv, TypeOK
    <2> QED BY <1>1, <1>2, <1>4, <2>1, TypeKept DEF IInv
  <1>6. CallInv'
    <2>1. calls <= calls' /\ g'.id <= calls' /\ stop' <= calls' /\ \A u \in closed' : u <= calls'
      <3>1. g.id <= calls /\ g.id \in 0..MaxCalls
        BY DEF IInv, CallInv, TypeInv, TypeOK, Goal
      <3>2. \A u \in closed' : u \in Nat
        BY <1>2 DEF Threads
      <3> QED BY <1>1, <1>2, <3>1, <3>2, GoalAssumption
    <2> QED BY <1>1, <2>1, CallKept
  <1>7. LateInv' /\ SoleInv' /\ ToldInv' /\ ActiveHasLoop'
    BY <1>1, <1>2, <1>4, LateKept, SoleKept, ToldKept, ActiveKept DEF Obedient
  <1> QED BY <1>2, <1>4, <1>5, <1>6, <1>7 DEF IInv

\* A call that starts a loop on a channel of its own: unless loops overlap from now
\* on, nobody else works for the goal.
LEMMA NewLoopKept ==
  ASSUME IInv, NEW t \in Threads, Call(t, "start"), g' \in Goal, g'.id <= t, ~g'.round,
         loopOn' = TRUE, stop' = t, closed \subseteq closed', closed' \subseteq closed \cup ({stop} \ {NoStop}),
         overlap' \in BOOLEAN, broken' \in BOOLEAN, verdict' \in Instr, VerdictInv',
         ~overlap' => \A u \in Threads \ {t} : ~Working(u)'
  PROVE  IInv'
  <1>1. /\ t = calls + 1 /\ calls' = t /\ calls' \in 0..MaxCalls /\ calls \in 0..MaxCalls
        /\ t \notin closed /\ t # stop
        /\ Only(t) /\ Row(t, "snap", "start", NoGoal, "none", 0) /\ Sound(t) /\ down' \in BOOLEAN
    BY CallFacts
  <1>2. TypeInv /\ CallInv /\ stop \in 0..MaxCalls /\ closed \subseteq Threads /\ t \in Nat \ {0}
    BY GoalAssumption DEF IInv, TypeInv, TypeOK, Threads
  <1>3. closed' \subseteq Threads /\ t \notin closed' /\ \A u \in closed' : u <= calls /\ u \in Nat
    BY <1>1, <1>2, GoalAssumption DEF Threads, NoStop, CallInv
  <1>4. TypeInv'
    <2>1. loopOn' \in BOOLEAN /\ stop' \in 0..MaxCalls
      BY <1>1
    <2> QED BY <1>1, <1>2, <1>3, <2>1, TypeKept
  <1>5. CallInv'
    <2>1. calls <= calls' /\ g'.id <= calls' /\ stop' <= calls' /\ \A u \in closed' : u <= calls'
      BY <1>1, <1>2, <1>3, GoalAssumption
    <2> QED BY <1>1, <2>1, CallKept
  <1>6. LateInv'
    BY <1>1, LateKept
  <1>7. StopClosedOnce' /\ ToldInv'
    BY <1>2, <1>3 DEF StopClosedOnce, NoStop, ToldInv
  <1>8. ActiveHasLoop'
    <2>1. Serves(t)'
      BY <1>1 DEF Row, Serves, Starting, TellPCs
    <2> QED BY <1>3, <2>1 DEF ActiveHasLoop
  <1>9. SoleInv'
    BY DEF SoleInv
  <1> QED BY <1>4, <1>5, <1>6, <1>7, <1>8, <1>9 DEF IInv

LEMMA GoalSetKept == ASSUME IInv, NEW t \in Threads, GoalSet(t) PROVE IInv'
  <1>1. /\ Call(t, "start") /\ g' = [id |-> t, status |-> "active", round |-> FALSE, claimed |-> FALSE]
        /\ loopOn' = TRUE /\ stop' = t /\ verdict' = "none" /\ broken' = FALSE
        /\ closed \subseteq closed' /\ closed' \subseteq closed \cup ({stop} \ {NoStop})
    BY DEF GoalSet
  <1>2. overlap' = \E u \in Threads \ closed' : Starting(u)
    BY Zenon DEF GoalSet
  <1>3. g' \in Goal /\ g'.id <= t /\ ~g'.round
    BY <1>1, GoalAssumption DEF Goal, Status, Threads
  <1>4. overlap' \in BOOLEAN /\ broken' \in BOOLEAN /\ verdict' \in Instr /\ VerdictInv'
    <2>1. overlap' \in BOOLEAN
      BY <1>2, Zenon
    <2> QED BY <1>1, <2>1 DEF Instr, VerdictInv
  <1>5. ASSUME ~overlap', NEW u \in Threads \ {t} PROVE ~Working(u)'
    <2>1. t = calls + 1 /\ calls \in 0..MaxCalls /\ Only(t)
      BY <1>1, CallFacts
    <2>2. Same(u)
      BY <2>1 DEF Only
    <2>3. ~Owns(u)'
      <3>1. th[u].own <= calls /\ th[u].own \in 0..MaxCalls
        BY DEF IInv, CallInv, TypeInv, TypeOK, Thread
      <3> QED BY <1>1, <2>1, <2>2, <3>1, GoalAssumption DEF Same, Owns
    <2>4. CASE u \in closed'
      BY <2>3, <2>4 DEF Working, Serves, Fresh
    <2>5. CASE u \notin closed'
      <3>1. ~Starting(u)
        BY <1>2, <1>5, <2>5, Zenon
      <3>2. ~Starting(u)'
        BY <2>2, <3>1 DEF Same, Starting
      <3> QED BY <2>3, <3>2 DEF Working, Serves
    <2> QED BY <2>4, <2>5
  <1> QED BY <1>1, <1>3, <1>4, <1>5, NewLoopKept

LEMMA GoalResumeKept == ASSUME IInv, NEW t \in Threads, GoalResume(t) PROVE IInv'
  <1>1. /\ Call(t, "start") /\ g' = [g EXCEPT !.status = "active", !.round = FALSE, !.claimed = FALSE]
        /\ loopOn' = TRUE /\ stop' = t /\ UNCHANGED <<closed, verdict>> /\ broken' = FALSE
    BY DEF GoalResume
  <1>2. overlap' = (overlap \/ \E u \in Threads : Serves(u))
    BY Zenon DEF GoalResume
  <1>3. g \in Goal /\ g.id <= calls /\ t = calls + 1 /\ calls \in 0..MaxCalls /\ Only(t)
    <2>1. g \in Goal /\ g.id <= calls
      BY DEF IInv, TypeInv, TypeOK, CallInv
    <2> QED BY <1>1, <2>1, CallFacts
  <1>4. g' \in Goal /\ g'.id = g.id /\ g'.id <= t /\ ~g'.round
    <2>1. g' \in Goal /\ g'.id = g.id /\ ~g'.round
      BY <1>1, <1>3 DEF Goal, Status
    <2>2. g.id \in 0..MaxCalls
      BY <1>3 DEF Goal
    <2> QED BY <1>3, <2>1, <2>2, GoalAssumption
  <1>5. overlap' \in BOOLEAN /\ broken' \in BOOLEAN /\ verdict' \in Instr /\ VerdictInv'
    <2>1. overlap' \in BOOLEAN
      BY <1>2, Zenon
    <2>2. overlap => overlap'
      BY <1>2, Zenon
    <2> QED BY <1>1, <2>1, <2>2 DEF IInv, TypeInv, TypeOK, VerdictInv
  <1>6. ASSUME ~overlap', NEW u \in Threads \ {t} PROVE ~Working(u)'
    <2>1. ~Serves(u)
      BY <1>2, <1>6, Zenon
    <2>2. Same(u)
      BY <1>3 DEF Only
    <2> QED BY <1>4, <2>1, <2>2, SameFacts DEF Working
  <1> QED BY <1>1, <1>4, <1>5, <1>6, NewLoopKept

LEMMA ControlKept == ASSUME IInv, NEW t \in Threads, Control(t) PROVE IInv'
  <1>1. g \in Goal
    BY DEF IInv, TypeInv, TypeOK
  <1>2. CASE GoalPause(t)
    <2>1. g' \in Goal /\ g'.id = g.id /\ g'.round = g.round /\ g'.status # "active"
      BY <1>1, <1>2 DEF GoalPause, Goal, Status
    <2> QED BY <1>2, <2>1, StopKept DEF GoalPause
  <1>3. CASE GoalClear(t)
    <2>1. g' \in Goal /\ g'.id = g.id /\ g'.round = g.round /\ g'.status # "active"
      BY <1>1, <1>3 DEF GoalClear, Goal, Status
    <2> QED BY <1>3, <2>1, StopKept DEF GoalClear
  <1> QED BY <1>2, <1>3, GoalSetKept, GoalResumeKept DEF Control

-----------------------------------------------------------------------------
(* The theorems *)

LEMMA StepKept == ASSUME IInv, NEW t \in Threads, Step(t) PROVE IInv'
  <1>1. CASE Snapshot(t) \/ Broadcast(t) \/ Start(t) \/ Check(t) \/ Decide(t) \/ Grace(t) \/ Poll(t)
    BY <1>1, SnapshotKept, BroadcastKept, StartKept, CheckKept, DecideKept, GraceKept, PollKept
  <1>2. CASE Recheck(t) \/ Begin(t) \/ TurnFailed(t) \/ TurnEnd(t)
    BY <1>2, RecheckKept, BeginKept, TurnFailedKept, TurnEndKept
  <1>3. CASE Mirror(t) \/ Budget(t) \/ TerminalState(t) \/ Tool(t) \/ Text(t)
    BY <1>3, MirrorKept, BudgetKept, TerminalStateKept, ToolKept, TextKept
  <1> QED BY <1>1, <1>2, <1>3 DEF Step

LEMMA NextKept == IInv /\ [Next]_vars => IInv'
  <1> SUFFICES ASSUME IInv, [Next]_vars PROVE IInv'
    OBVIOUS
  <1>1. CASE Next
    BY <1>1, ShutdownKept, AgentUpdateKept, ControlKept, StepKept DEF Next
  <1>2. CASE UNCHANGED vars
    <2> USE <1>2 DEF vars, engine, world, history
    <2>1. TypeInv' /\ CallInv' /\ StopClosedOnce' /\ LateInv' /\ ActiveHasLoop' /\ VerdictInv'
      BY DEF IInv, TypeInv, TypeOK, CallInv, StopClosedOnce, LateInv, ActiveHasLoop, VerdictInv,
             Serves, Starting, Owns
    <2>2. SoleInv' /\ ToldInv'
      BY DEF IInv, SoleInv, ToldInv, Working, Serves, Starting, Owns, Fresh, Instructed
    <2> QED BY <2>1, <2>2 DEF IInv
  <1> QED BY <1>1, <1>2

THEOREM InvariantHolds == Spec => []IInv
  BY InitInv, NextKept, PTL DEF Spec

\* Every variable keeps its type: goals and channels are of calls, threads are records
\* of Thread.
THEOREM TypeCorrect == Spec => []TypeOK
  <1>1. IInv => TypeOK
    BY DEF IInv, TypeInv
  <1> QED BY <1>1, InvariantHolds, PTL

\* However calls, loops, turns and an agent's own reports interleave: no stop channel
\* is closed twice, a loop that was told to stop begins at most the one turn it had
\* decided on, and an active goal has a loop that nobody told to stop, unless one of
\* the accidents the code logs or accepts took it away.
THEOREM LoopsAreHandedOver == Spec => []LoopsHandedOver
  <1>1. IInv => LoopsHandedOver
    <2>1. LateInv => OneLateTurn
      BY DEF LateInv, OneLateTurn
    <2> QED BY <2>1 DEF IInv, LoopsHandedOver
  <1> QED BY <1>1, InvariantHolds, PTL

\* The host believes an agent's claim to be done only after it asked for evidence,
\* unless two loops served the goal at once.
THEOREM ClaimsAreVerified == Spec => []EvidenceUnlessOverlap
  <1>1. IInv => EvidenceUnlessOverlap
    BY DEF IInv, VerdictInv, EvidenceUnlessOverlap
  <1> QED BY <1>1, InvariantHolds, PTL

\* A loop that did not capture the session's goal never changes it.
THEOREM OldLoopsAreHarmless == Spec => OwnGoalOnly
  <1>1. IInv /\ [Next]_vars =>
          [\A t \in Threads : th[t].pc \in LoopPCs /\ th'[t] # th[t] /\ th[t].own # g.id => g' = g]_vars
    <2> SUFFICES ASSUME IInv, Next, NEW t \in Threads, th[t].pc \in LoopPCs, th'[t] # th[t], th[t].own # g.id
                 PROVE  g' = g
      OBVIOUS
    <2>1. CASE Shutdown \/ AgentUpdate
      BY <2>1 DEF Shutdown, AgentUpdate, engine
    <2>2. ASSUME NEW u \in Threads, Control(u) PROVE FALSE
      <3>1. PICK n \in {"start", "done"} : Call(u, n)
        BY <2>2 DEF Control, GoalSet, GoalPause, GoalResume, GoalClear
      <3>2. th[u] = At("idle") /\ th' = [th EXCEPT ![u] = th'[u]]
        BY <3>1, CallFacts DEF Call, Tell, IInv, TypeInv, TypeOK
      <3>3. u # t
        BY <3>2 DEF At, LoopPCs
      <3> QED BY <3>2, <3>3 DEF IInv, TypeInv, TypeOK
    <2>3. ASSUME NEW u \in Threads, Step(u) PROVE g' = g
      <3>1. CASE u = t
        <4>1. ~Owns(t)
          BY DEF Owns
        <4> QED BY <2>3, <3>1, <4>1
            DEF Step, Snapshot, Broadcast, Start, Check, Decide, Grace, Poll, Recheck, Begin, TurnFailed,
                TurnEnd, Mirror, Budget, TerminalState, Tool, Text, quiet, engine
      <3>2. CASE u # t
        <4>1. CASE Mirror(u) \/ Budget(u) \/ Tool(u) \/ Text(u)
          <5>1. th \in [Threads -> Thread]
            BY DEF IInv, TypeInv, TypeOK
          <5>2. \A n, p : Tell(u, n) \/ Goto(u, p) \/ Return(u) => th'[t] = th[t]
            BY <3>2, <5>1 DEF Tell, Goto, Return
          <5>3. \A r : th' = [th EXCEPT ![u] = r] => th'[t] = th[t]
            BY <3>2, <5>1
          <5>4. CASE Mirror(u)
            BY <3>2, <5>1, <5>2, <5>4 DEF Mirror
          <5>5. CASE Budget(u)
            BY <5>2, <5>5 DEF Budget, Spend, engine
          <5>6. CASE Tool(u)
            BY <5>2, <5>6 DEF Tool, Report
          <5>7. CASE Text(u)
            BY <5>2, <5>3, <5>7 DEF Text, Resolve, Latch
          <5> QED BY <4>1, <5>4, <5>5, <5>6, <5>7
        <4>2. CASE ~(Mirror(u) \/ Budget(u) \/ Tool(u) \/ Text(u))
          BY <2>3, <4>2
          DEF Step, Snapshot, Broadcast, Start, Check, Decide, Grace, Poll, Recheck, Begin, TurnFailed,
              TurnEnd, TerminalState, quiet, engine
        <4> QED BY <4>1, <4>2
      <3> QED BY <3>1, <3>2
    <2> QED BY <2>1, <2>2, <2>3 DEF Next
  <1> QED BY <1>1, InvariantHolds, PTL DEF Spec, OwnGoalOnly

================
