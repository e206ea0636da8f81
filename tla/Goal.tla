------------------------------- MODULE Goal --------------------------------
(***************************************************************************)
(* The goal engine of src/internal/acp/goal.go: /goal set, pause, resume   *)
(* and clear, and the loops that send continuation turns for a goal.       *)
(*                                                                         *)
(* A thread is one control call and, when the call is a set or a resume,   *)
(* the loop goroutine it starts after its broadcast.  Everything under one *)
(* hold of ge.mu is one step; goalAnalyze takes the mutex once per section,*)
(* so other threads run between its sections.  A goal is known by the      *)
(* number of the call that made it (the pointer a loop captures), a stop   *)
(* channel by the call that opened it.  What a turn says is chosen at the  *)
(* section that reads it.  Texts, deliverables and times are left out.     *)
(***************************************************************************)
EXTENDS Integers, Sequences, FiniteSets

CONSTANTS
  MaxCalls,      \* control calls made
  MaxHeard,      \* goal_updated events one turn collects
  MaxLoops,      \* goroutines that loop at a time
  AgentStatus    \* what an agent with a goal mode of its own reports

ASSUME GoalAssumption ==
  /\ MaxCalls \in Nat \ {0} /\ MaxHeard \in Nat /\ MaxLoops \in Nat \ {0}
  /\ AgentStatus \subseteq {"active", "user_paused", "blocked", "complete"}

Threads == 1..MaxCalls
NoGoal  == 0
NoStop  == 0

Status   == {"active", "user_paused", "blocked", "complete", "cleared", "budget_limited"}
Terminal == Status \ {"active"}
Instr    == {"none", "work", "verify"}
\* Where a loop is, from the goroutine's start to its return.
LoopPCs  == {"start", "check", "decide", "grace", "poll", "recheck", "begin", "turn",
             "mirror", "budget", "terminal", "tool", "text"}
\* broadcastGoal: the snapshot under the mutex, then the publication.
TellPCs  == {"snap", "send"}

VARIABLES
  g,        \* ge.g: status, verifyingRound, claimedCompletion
  stop, loopOn,   \* ge.stop, ge.loopOn
  closed,   \* stop channels that have been closed
  calls,    \* control calls made
  th,       \* the threads: see Thread
  down,     \* Shutdown has run
  verdict,  \* the instruction of the turn whose text completed the goal (history)
  overlap,  \* the goal was resumed while a loop of it still ran, or set while one
            \* was starting that nobody had told to stop (history)
  broken    \* something left the goal active without a loop (history)

engine  == <<g, stop, loopOn, closed>>
world   == <<calls, down>>
history == <<verdict, overlap, broken>>
vars == <<engine, world, th, history>>

Goal == [id : 0..MaxCalls, status : Status, round : BOOLEAN, claimed : BOOLEAN]

\* pc, the pc after a broadcast, the goal the loop captured, the instruction it
\* decided on, the goal_updated events its turn collected, sawAgentGoalUpdate,
\* the snapshot it is about to publish, turns begun since its channel was closed (to 2).
Thread == [pc : LoopPCs \cup TellPCs \cup {"idle", "done"}, next : {"start", "check", "text", "done"},
           own : 0..MaxCalls, instr : Instr, heard : Seq(Status), saw : BOOLEAN,
           shot : Status, late : 0..2]

At(p) == [pc |-> p, next |-> "done", own |-> NoGoal, instr |-> "none", heard |-> <<>>,
          saw |-> FALSE, shot |-> "cleared", late |-> 0]

TypeOK ==
  /\ g \in Goal /\ stop \in 0..MaxCalls /\ loopOn \in BOOLEAN /\ closed \subseteq Threads
  /\ calls \in 0..MaxCalls /\ th \in [Threads -> Thread]
  /\ down \in BOOLEAN
  /\ verdict \in Instr /\ overlap \in BOOLEAN /\ broken \in BOOLEAN

Init ==
  /\ g = [id |-> NoGoal, status |-> "cleared", round |-> FALSE, claimed |-> FALSE]
  /\ stop = NoStop /\ loopOn = FALSE /\ closed = {} /\ calls = 0
  /\ th = [t \in Threads |-> At("idle")]
  /\ down = FALSE
  /\ verdict = "none" /\ overlap = FALSE /\ broken = FALSE

Owns_Any(t) == th[t].own # NoGoal
\* goalLoopOwns
Owns(t) == th[t].own # NoGoal /\ g.id = th[t].own

\* sessionBusy, for the turns of loops.
Busy == \E t \in Threads : th[t].pc = "turn"

\* t's loop has yet to capture a goal: it will be the one there is then.
Starting(t) == th[t].pc = "start" \/ (th[t].pc \in TellPCs /\ th[t].next = "start")

\* t is about to start a loop for the goal, or runs one.
Serves(t) == Starting(t) \/ Owns(t)

StopLoop_ClosesNil == IF loopOn
  THEN closed' = closed \cup {stop} /\ stop' = NoStop /\ UNCHANGED loopOn
  ELSE UNCHANGED <<closed, loopOn, stop>>
StopLoop_KeepsOn == IF loopOn
  THEN closed' = closed \cup ({stop} \ {NoStop}) /\ UNCHANGED <<loopOn, stop>>
  ELSE UNCHANGED <<closed, loopOn, stop>>

\* stopLoopLocked
StopLoop == IF loopOn
  THEN closed' = closed \cup ({stop} \ {NoStop}) /\ loopOn' = FALSE /\ stop' = NoStop
  ELSE UNCHANGED <<closed, loopOn, stop>>

-----------------------------------------------------------------------------
(* threads *)

Goto(t, p) == th' = [th EXCEPT ![t].pc = p]
Return(t)  == th' = [th EXCEPT ![t] = At("done")]

\* Broadcast the state, then go on at n, or return.
Tell(t, n) ==
  th' = [th EXCEPT ![t] = IF n = "done" THEN At("snap") ELSE [@ EXCEPT !.pc = "snap", !.next = n]]

\* The next iteration of the loop.
Again(t) == [th[t] EXCEPT !.pc = "check", !.next = "done", !.instr = "none"]

\* A published goal_updated reaches the drainer of every loop in a turn.
Hear(r, s) == IF r.pc = "turn" /\ Len(r.heard) < MaxHeard THEN [r EXCEPT !.heard = Append(@, s)] ELSE r

Snapshot(t) ==
  /\ th[t].pc = "snap"
  /\ th' = [th EXCEPT ![t].pc = "send", ![t].shot = g.status]
  /\ UNCHANGED <<engine, world, history>>

Broadcast(t) ==
  /\ th[t].pc = "send"
  /\ th' = [u \in Threads |->
       IF u # t THEN Hear(th[u], th[t].shot)
       ELSE CASE th[t].next = "done"  -> At("done")
              [] th[t].next = "check" -> [Again(t) EXCEPT !.shot = "cleared"]
              [] OTHER -> [th[t] EXCEPT !.pc = th[t].next, !.next = "done", !.shot = "cleared"]]
  /\ UNCHANGED <<engine, world, history>>

\* An agent with a goal mode of its own reports during a turn.
AgentUpdate ==
  /\ \E s \in AgentStatus : th' = [t \in Threads |-> Hear(th[t], s)] /\ th' # th
  /\ UNCHANGED <<engine, world, history>>

-----------------------------------------------------------------------------
(* control calls *)

\* The next call; n is where its thread goes after its broadcast.
Call(t, n) ==
  /\ ~down /\ calls < MaxCalls /\ t = calls + 1 /\ calls' = t /\ Tell(t, n)
  /\ UNCHANGED down

\* Threads that loop, or will.
Looping == {t \in Threads : th[t].pc \in LoopPCs \/ (th[t].pc \in TellPCs /\ th[t].next # "done")}
Room == Cardinality(Looping) < MaxLoops

GoalSet(t) ==
  /\ Room /\ Call(t, "start")
  /\ closed' = IF loopOn THEN closed \cup ({stop} \ {NoStop}) ELSE closed
  /\ g' = [id |-> t, status |-> "active", round |-> FALSE, claimed |-> FALSE]
  /\ loopOn' = TRUE /\ stop' = t
  /\ verdict' = "none" /\ broken' = FALSE
  /\ overlap' = \E u \in Threads \ closed' : Starting(u)

GoalPause(t) ==
  /\ g.id # NoGoal /\ g.status = "active" /\ Call(t, "done")
  /\ g' = [g EXCEPT !.status = "user_paused"] /\ StopLoop
  /\ UNCHANGED history

GoalResume(t) ==
  /\ g.id # NoGoal /\ g.status \in {"user_paused", "blocked"} /\ Room /\ Call(t, "start")
  /\ g' = [g EXCEPT !.status = "active", !.round = FALSE, !.claimed = FALSE]
  /\ loopOn' = TRUE /\ stop' = t
  /\ overlap' = (overlap \/ \E u \in Threads : Serves(u)) /\ broken' = FALSE
  /\ UNCHANGED <<closed, verdict>>

GoalClear(t) ==
  /\ g.id # NoGoal /\ Call(t, "done")
  /\ g' = [g EXCEPT !.status = "cleared"] /\ StopLoop
  /\ UNCHANGED history

Shutdown ==
  /\ ~down /\ down' = TRUE /\ StopLoop /\ broken' = TRUE
  /\ UNCHANGED <<g, calls, th, verdict, overlap>>

-----------------------------------------------------------------------------
(* goalLoop up to its turn *)

quiet == <<engine, world, history>>

Start(t) ==
  /\ th[t].pc = "start"
  /\ th' = [th EXCEPT ![t].own = g.id, ![t].pc = "check"]
  /\ UNCHANGED quiet

Check(t) ==
  /\ th[t].pc = "check"
  /\ IF g.status = "active" /\ Owns(t) THEN Goto(t, "decide") ELSE Return(t)
  /\ UNCHANGED quiet

\* The instruction to work is the first one or one to continue.
Instruction == IF g.round THEN "verify" ELSE "work"

Decide(t) ==
  /\ th[t].pc = "decide"
  /\ IF Owns(t) THEN th' = [th EXCEPT ![t].pc = "grace", ![t].instr = Instruction] ELSE Return(t)
  /\ UNCHANGED quiet

\* A loop's stop channel is the one its call opened.
Stopped(t) == t \in closed

Grace_NoStop(t) == th[t].pc = "grace" /\ Goto(t, "poll") /\ UNCHANGED quiet
\* goalWaitIdle: the grace period, then the poll of the busy flag.  While the
\* user's own turns keep the session busy, the poll is not taken.
Grace(t) ==
  /\ th[t].pc = "grace"
  /\ IF Stopped(t) THEN Return(t) ELSE Goto(t, "poll")
  /\ UNCHANGED quiet

Poll(t) ==
  /\ th[t].pc = "poll"
  /\ \/ ~Busy /\ Goto(t, "recheck")
     \/ Stopped(t) /\ Return(t)
  /\ UNCHANGED quiet

Recheck(t) ==
  /\ th[t].pc = "recheck"
  /\ IF Owns(t) /\ g.status = "active" THEN Goto(t, "begin") ELSE Return(t)
  /\ UNCHANGED quiet

\* Subscribe and PromptWithOpts.
Begin(t) ==
  /\ th[t].pc = "begin"
  /\ th' = [th EXCEPT ![t].pc = "turn", ![t].late = IF Stopped(t) /\ @ < 2 THEN @ + 1 ELSE @]
  /\ UNCHANGED quiet

-----------------------------------------------------------------------------
(* the end of a turn and goalAnalyze *)

\* The prompt failed or was cancelled: the loop ends, the goal stays active.
TurnFailed(t) ==
  /\ th[t].pc = "turn"
  /\ IF Owns(t) THEN Tell(t, "done") /\ broken' = TRUE ELSE Return(t) /\ UNCHANGED broken
  /\ UNCHANGED <<engine, world, verdict, overlap>>

TurnEnd(t) ==
  /\ th[t].pc = "turn"
  /\ LET saw == th[t].heard # <<>> IN
     th' = [th EXCEPT ![t].pc = IF saw THEN "mirror" ELSE "budget", ![t].saw = saw]
  /\ UNCHANGED quiet

\* One collected goal_updated event; its status wins.
Mirror(t) ==
  /\ th[t].pc = "mirror"
  /\ IF ~Owns(t) THEN Return(t) /\ UNCHANGED quiet
     ELSE /\ g' = [g EXCEPT !.status = Head(th[t].heard)]
          /\ th' = [th EXCEPT ![t].heard = Tail(@), ![t].pc = IF Len(th[t].heard) = 1 THEN "budget" ELSE @]
          /\ broken' = (broken \/ (g.status # "active" /\ Head(th[t].heard) = "active"))
          /\ UNCHANGED <<stop, loopOn, closed, world, verdict, overlap>>

\* Budget enforcement: the usage the turn reported is over the budget, or not.
Spend(t) ==
  \/ Goto(t, IF th[t].saw THEN "terminal" ELSE "tool") /\ UNCHANGED <<g, stop, loopOn, closed>>
  \/ Tell(t, "done") /\ g' = [g EXCEPT !.status = "budget_limited"] /\ StopLoop
Budget(t) ==
  /\ th[t].pc = "budget"
  /\ IF Owns(t) THEN Spend(t) ELSE Return(t) /\ UNCHANGED engine
  /\ UNCHANGED <<world, history>>

TerminalState(t) ==
  /\ th[t].pc = "terminal"
  /\ IF ~Owns(t) THEN Return(t)
     ELSE IF g.status \in Terminal THEN Tell(t, "done")
     ELSE th' = [th EXCEPT ![t].pc = "tool", ![t].saw = FALSE]
  /\ UNCHANGED quiet

\* The update_goal call of the turn: completed, a blocker, both at once, a note.
Report(t) ==
  \/ /\ g' = [g EXCEPT !.claimed = TRUE, !.round = TRUE]
     /\ \/ Tell(t, "check") /\ UNCHANGED broken
        \/ Tell(t, "done") /\ broken' = TRUE
  \/ g' = [g EXCEPT !.status = "blocked"] /\ Tell(t, "done") /\ UNCHANGED broken
  \/ Tell(t, "text") /\ UNCHANGED <<g, broken>>
Tool(t) ==
  /\ th[t].pc = "tool"
  /\ \/ Goto(t, "text") /\ UNCHANGED <<g, broken>>
     \/ Owns(t) /\ Report(t)
     \/ ~Owns(t) /\ Return(t) /\ UNCHANGED <<g, broken>>
  /\ UNCHANGED <<stop, loopOn, closed, world, verdict, overlap>>

\* The reply of the evidence round.
Resolve(t, claim, blocked, evidence) ==
  IF claim \/ blocked
  THEN LET won == claim /\ evidence IN
       /\ g' = [g EXCEPT !.round = FALSE, !.status = IF won THEN "complete" ELSE "blocked"]
       /\ verdict' = IF won THEN th[t].instr ELSE verdict
       /\ Tell(t, "done")
  ELSE /\ g' = [g EXCEPT !.round = FALSE, !.claimed = FALSE]
       /\ th' = [th EXCEPT ![t] = Again(t)] /\ UNCHANGED verdict

Latch_Trusts(t, claim, blocked) ==
  IF claim THEN g' = [g EXCEPT !.status = "complete"] /\ verdict' = th[t].instr /\ Tell(t, "done")
           ELSE th' = [th EXCEPT ![t] = Again(t)] /\ UNCHANGED <<g, verdict>>
\* The reply of any other turn: a claim is latched for the evidence round.
Latch(t, claim, blocked) ==
  /\ UNCHANGED verdict
  /\ IF claim /\ ~g.claimed
     THEN g' = [g EXCEPT !.claimed = TRUE, !.round = TRUE] /\ Tell(t, "check")
     ELSE IF blocked THEN g' = [g EXCEPT !.status = "blocked"] /\ Tell(t, "done")
     ELSE th' = [th EXCEPT ![t] = Again(t)] /\ UNCHANGED g

\* analyzeGoalText.  A reply says that the goal is reached, has a word of completion,
\* denies one, says that it is stuck, shows its work.  ("Cannot complete" is stuck and,
\* for its word, a claim.)
Reply == [reached : BOOLEAN, word : BOOLEAN, denied : BOOLEAN, stuck : BOOLEAN, shown : BOOLEAN]
Claims(r) == r.reached \/ (r.word /\ ~r.denied)

Text(t) ==
  /\ th[t].pc = "text"
  /\ IF ~Owns(t) THEN Return(t) /\ UNCHANGED <<g, verdict>>
     ELSE \E r \in Reply : IF g.round THEN Resolve(t, Claims(r), r.stuck, r.shown)
                                     ELSE Latch(t, Claims(r), r.stuck)
  /\ UNCHANGED <<stop, loopOn, closed, world, overlap, broken>>

-----------------------------------------------------------------------------
Control(t) == GoalSet(t) \/ GoalPause(t) \/ GoalResume(t) \/ GoalClear(t)
\* Steps a thread takes by itself; a turn ends within promptTimeout.
Step(t) ==
  \/ Snapshot(t) \/ Broadcast(t)
  \/ Start(t) \/ Check(t) \/ Decide(t) \/ Grace(t) \/ Poll(t) \/ Recheck(t) \/ Begin(t)
  \/ TurnFailed(t) \/ TurnEnd(t)
  \/ Mirror(t) \/ Budget(t) \/ TerminalState(t) \/ Tool(t) \/ Text(t)

Next == Shutdown \/ AgentUpdate \/ \E t \in Threads : Control(t) \/ Step(t)

Spec == Init /\ [][Next]_vars
FairSpec == Spec /\ \A t \in Threads : WF_vars(Step(t))

-----------------------------------------------------------------------------
(* properties *)

\* ge.stop is closed by whoever ends the loop (a call, the budget, Shutdown):
\* never twice, which would panic.
StopClosedOnce == loopOn => stop # NoStop /\ stop \notin closed

\* A goal replaced by /goal set gets nothing from the loops of the old one:
\* no step of a loop changes a goal it did not capture.
OwnGoalOnly ==
  [][\A t \in Threads :
       th[t].pc \in LoopPCs /\ th'[t] # th[t] /\ th[t].own # g.id => g' = g]_vars

\* Whoever closes a loop's channel sees at most one more turn of it begin, the
\* one it had already decided on.
OneLateTurn == \A t \in Threads : th[t].late <= 1

\* The host completes a goal only on the answer to the evidence round, unless
\* another loop came to serve it too: the goal was resumed while an earlier loop of
\* it still ran, or set before a resumed one, whose channel a second resume had
\* replaced without closing it, had captured its goal.
EvidenceUnlessOverlap == g.status = "complete" /\ verdict # "none" => verdict = "verify" \/ overlap

\* The only ways an active goal loses its loop: a failed or cancelled turn, a
\* tool call that both completes and blocks, a status an old turn brings back,
\* and Shutdown.
ActiveHasLoop ==
  g.id # NoGoal /\ g.status = "active" /\ ~broken => \E t \in Threads \ closed : Serves(t)

\* Loops are handed over: the goal keeps one that serves it, the one that was told
\* to stop starts no turn but the one it had decided on, and is told once.
LoopsHandedOver == StopClosedOnce /\ OneLateTurn /\ ActiveHasLoop

\* Loops whose channel is closed end, again and again until none is left: a turn
\* in flight, a busy session or a swapped goal holds none of them for ever.
StoppedEnd == []<>(\A t \in closed : th[t].pc = "done")

=============================================================================
