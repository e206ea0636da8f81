---------------------------- MODULE AgentProcess ----------------------------
(***************************************************************************)
(* The agent process behind the bridge: src/internal/acp/bridge.go.        *)
(*                                                                         *)
(* A call that needs the agent boots it unless it is up (ensureBooted),    *)
(* and waits when another call already does.  The process may exit, and a  *)
(* user may restart it, at any moment; both wipe the state that refers to  *)
(* it (resetProcessRoster) and fail the requests in flight.  A request is  *)
(* stored, written to the current stdin, and answered by that process's    *)
(* reader.                                                                 *)
(***************************************************************************)
EXTENDS Integers, FiniteSets

CONSTANTS
  Threads,    \* goroutines that serve a call
  MaxCalls,   \* calls made
  MaxProc     \* agent processes started

ASSUME ProcessAssumption == MaxCalls \in Nat \ {0} /\ MaxProc \in Nat \ {0}

Procs   == 1..MaxProc
NoProc  == 0
BootPCs == {"process", "spawn", "publish", "init", "close"}

VARIABLES
  cmd,       \* b.cmd and b.stdin
  procs,     \* processes started
  alive,     \* processes that run
  doomed,    \* processes that were killed and still run
  reader,    \* readStdout of a process runs
  waiter,    \* waitProcess of a process
  ready, bootOK, booting,   \* (bootError only words a failure)
  bootNo,    \* which bootDone channel
  resetting, \* agentMessageMu is held by a reset
  pc, kind,  \* where a call is, and what it is for
  snap,      \* the cmd a restart read, or the process a boot started
  done,      \* the bootDone a call waits for
  req,       \* its request: "none", "out", "ok" or "failed"
  to,        \* the process the request was written to
  result,    \* whether its boot succeeded
  calls,
  swept,     \* processes wiped by a restart that kills another (history)
  undone     \* the latest boot failed or was undone (history)

procVars == <<cmd, procs, alive, doomed, reader, waiter>>
bootVars == <<ready, bootOK, booting, bootNo>>
reqVars  == <<req, to>>
callVars == <<pc, kind, snap, done, result, calls>>
history  == <<swept, undone>>
vars     == <<procVars, bootVars, resetting, reqVars, callVars, history>>

TypeOK ==
  /\ cmd \in 0..MaxProc /\ procs \in 0..MaxProc
  /\ alive \subseteq Procs /\ doomed \subseteq Procs /\ reader \subseteq Procs
  /\ waiter \in [Procs -> {"none", "wait", "reset", "fail", "gone"}]
  /\ ready \in BOOLEAN /\ bootOK \in BOOLEAN /\ booting \in BOOLEAN /\ bootNo \in Nat
  /\ resetting \in BOOLEAN
  /\ pc \in [Threads -> BootPCs \cup {"idle", "ensure", "wait", "session", "answer",
                                      "read", "wipe", "fail", "kill"}]
  /\ kind \in [Threads -> {"boot", "new", "load", "restart"}]
  /\ snap \in [Threads -> 0..MaxProc] /\ done \in [Threads -> Nat]
  /\ req \in [Threads -> {"none", "out", "ok", "failed"}] /\ to \in [Threads -> 0..MaxProc]
  /\ result \in [Threads -> BOOLEAN] /\ calls \in 0..MaxCalls
  /\ swept \subseteq Procs /\ undone \in BOOLEAN

Init ==
  /\ cmd = NoProc /\ procs = 0 /\ alive = {} /\ doomed = {} /\ reader = {}
  /\ waiter = [p \in Procs |-> "none"]
  /\ ready = FALSE /\ bootOK = FALSE /\ booting = FALSE /\ bootNo = 0
  /\ resetting = FALSE
  /\ pc = [t \in Threads |-> "idle"] /\ kind = [t \in Threads |-> "boot"]
  /\ snap = [t \in Threads |-> NoProc] /\ done = [t \in Threads |-> 0]
  /\ req = [t \in Threads |-> "none"] /\ to = [t \in Threads |-> NoProc]
  /\ result = [t \in Threads |-> FALSE] /\ calls = 0
  /\ swept = {} /\ undone = FALSE

Set(f, t, v) == [f EXCEPT ![t] = v]
Goto(t, p) == pc' = Set(pc, t, p)

\* The call returns, and forgets its locals.
Return(t) ==
  /\ Goto(t, "idle") /\ kind' = Set(kind, t, "boot") /\ snap' = Set(snap, t, NoProc)
  /\ done' = Set(done, t, 0) /\ result' = Set(result, t, FALSE)

Step(t, p) == Goto(t, p) /\ UNCHANGED <<kind, snap, done, result>>

-----------------------------------------------------------------------------
(* requests *)

\* requestRaw: the write fails when there is no process.
Send(t) ==
  /\ req' = Set(req, t, IF cmd = NoProc THEN "failed" ELSE "out")
  /\ to' = Set(to, t, cmd)

Consume(t) == req' = Set(req, t, "none") /\ UNCHANGED to

\* The reader of the current process delivers an answer or an error.  Lines of
\* a process that was replaced are dropped.
Reads(p) == ~resetting /\ p \in reader /\ p = cmd

Answer(t) ==
  /\ req[t] = "out" /\ Reads(to[t])
  /\ \E r \in {"ok", "failed"} : req' = Set(req, t, r)
  /\ to' = Set(to, t, NoProc)
  /\ UNCHANGED <<procVars, bootVars, resetting, callVars, history>>

TimesOut(t) ==
  /\ req[t] = "out" /\ req' = Set(req, t, "failed") /\ to' = Set(to, t, NoProc)
  /\ UNCHANGED <<procVars, bootVars, resetting, callVars, history>>

\* failAllPending: every request in flight, to whichever process.
FailAll ==
  /\ req' = [t \in Threads |-> IF req[t] = "out" THEN "failed" ELSE req[t]]
  /\ to' = [t \in Threads |-> NoProc]

-----------------------------------------------------------------------------
(* ensureBooted *)

\* After a boot: a caller of Boot returns; NewSession and LoadSession go on with
\* their session, and a restart loads the session it remembers, if any, by
\* LoadSession, which boots first like any call.
Booted(t, ok) ==
  \/ /\ ok /\ kind[t] \in {"new", "load"}
     /\ Goto(t, "session") /\ result' = Set(result, t, FALSE) /\ done' = Set(done, t, 0)
     /\ UNCHANGED <<kind, snap>>
  \/ /\ ok /\ kind[t] = "restart"
     /\ Goto(t, "ensure") /\ kind' = Set(kind, t, "load")
     /\ result' = Set(result, t, FALSE) /\ done' = Set(done, t, 0) /\ UNCHANGED snap
  \/ (ok => kind[t] \in {"boot", "restart"}) /\ Return(t)

Call(t) ==
  /\ pc[t] = "idle" /\ calls < MaxCalls /\ calls' = calls + 1
  /\ \E k \in {"boot", "new", "load", "restart"} :
       kind' = Set(kind, t, k) /\ Goto(t, IF k = "restart" THEN "read" ELSE "ensure")
  /\ UNCHANGED <<procVars, bootVars, resetting, reqVars, snap, done, result, history>>

MayBoot == ~booting

Ensure(t) ==
  /\ pc[t] = "ensure"
  /\ \/ (ready \/ bootOK) /\ Booted(t, TRUE) /\ UNCHANGED <<bootVars, undone>>
     \/ /\ ~ready /\ ~bootOK /\ ~MayBoot
        /\ Goto(t, "wait") /\ done' = Set(done, t, bootNo)
        /\ UNCHANGED <<kind, snap, result, bootVars, undone>>
     \/ /\ ~ready /\ ~bootOK /\ MayBoot
        /\ booting' = TRUE /\ bootOK' = FALSE /\ bootNo' = bootNo + 1 /\ undone' = FALSE
        /\ Step(t, "process") /\ UNCHANGED ready
  /\ UNCHANGED <<procVars, resetting, reqVars, calls, swept>>

\* bootDone of boot n is closed.
Finished(n) == n < bootNo \/ ~booting

\* A waiter wakes: a newer boot in flight is waited for in its turn.
Chains_No(t) == FALSE
Chains(t) == booting /\ bootNo # done[t]

Judge(t) ==
  /\ pc[t] = "wait" /\ Finished(done[t])
  /\ \/ Chains(t) /\ Goto(t, "ensure") /\ done' = Set(done, t, 0) /\ UNCHANGED <<kind, snap, result>>
     \/ ~Chains(t) /\ Booted(t, ready \/ bootOK)
  /\ UNCHANGED <<procVars, bootVars, resetting, reqVars, calls, history>>

\* ensureProcess: a process that is there is kept.
Process(t) ==
  /\ pc[t] = "process"
  /\ Step(t, IF cmd # NoProc THEN "init" ELSE "spawn")
  /\ UNCHANGED <<procVars, bootVars, resetting, reqVars, calls, history>>

\* The outcome of a boot; a failure goes through setBootError.
Outcome(t, ok) ==
  /\ result' = Set(result, t, ok) /\ Goto(t, "close")
  /\ IF ok THEN bootOK' = TRUE /\ UNCHANGED <<ready, undone>>
     ELSE /\ ready' = FALSE /\ bootOK' = FALSE
          /\ undone' = TRUE
  /\ UNCHANGED <<kind, snap, done, booting, bootNo>>

SpawnFails_Ignored(t) ==
  /\ pc[t] = "spawn" /\ Step(t, "publish")
  /\ UNCHANGED <<procVars, bootVars, resetting, reqVars, calls, history>>
SpawnFails(t) ==
  /\ pc[t] = "spawn" /\ Outcome(t, FALSE)
  /\ UNCHANGED <<procVars, resetting, reqVars, calls, swept>>

Spawn(t) ==
  /\ pc[t] = "spawn" /\ procs < MaxProc
  /\ procs' = procs + 1 /\ alive' = alive \cup {procs + 1}
  /\ Goto(t, "publish") /\ snap' = Set(snap, t, procs + 1)
  /\ UNCHANGED <<cmd, doomed, reader, waiter, bootVars, resetting, reqVars, kind, done, result,
                 calls, history>>

Publish(t) ==
  /\ pc[t] = "publish"
  /\ cmd' = snap[t] /\ reader' = reader \cup {snap[t]} /\ waiter' = Set(waiter, snap[t], "wait")
  /\ Goto(t, "init") /\ snap' = Set(snap, t, NoProc)
  /\ UNCHANGED <<procs, alive, doomed, bootVars, resetting, reqVars, kind, done, result, calls, history>>

\* initialize and authenticate.
Initialize(t) ==
  /\ pc[t] = "init" /\ req[t] = "none" /\ Send(t)
  /\ UNCHANGED <<procVars, bootVars, resetting, callVars, history>>

Initialized(t) ==
  /\ pc[t] = "init" /\ req[t] \in {"ok", "failed"}
  /\ Consume(t) /\ Outcome(t, req[t] = "ok")
  /\ UNCHANGED <<procVars, resetting, calls, swept>>

\* The deferred section, on every way out of the boot.
Closes_OnSuccess(t) == result[t]
Closes(t) == TRUE

CloseBoot(t) ==
  /\ pc[t] = "close" /\ Booted(t, result[t])
  /\ booting' = IF Closes(t) THEN FALSE ELSE booting
  /\ UNCHANGED <<procVars, ready, bootOK, bootNo, resetting, reqVars, calls, history>>

-----------------------------------------------------------------------------
(* a session on the booted process *)

\* session/new, session/load.
OpenSession(t) ==
  /\ pc[t] = "session" /\ Send(t) /\ Step(t, "answer")
  /\ UNCHANGED <<procVars, bootVars, resetting, calls, history>>

SessionOpened(t) ==
  /\ pc[t] = "answer" /\ req[t] = "ok" /\ Consume(t) /\ Return(t)
  /\ ready' = TRUE
  /\ UNCHANGED <<procVars, bootOK, booting, bootNo, resetting, calls, history>>

\* createSession reports the failure through setBootError, LoadSession does not.
SessionFails(t) ==
  /\ pc[t] = "answer" /\ req[t] = "failed" /\ Consume(t) /\ Return(t)
  /\ \/ kind[t] # "new" /\ UNCHANGED <<bootVars, undone>>
     \/ /\ kind[t] = "new"
        /\ ready' = FALSE /\ bootOK' = FALSE
        /\ undone' = TRUE
        /\ UNCHANGED <<booting, bootNo>>
  /\ UNCHANGED <<procVars, resetting, calls, swept>>

-----------------------------------------------------------------------------
(* the process ends, or is restarted *)

\* resetProcessRoster up to the release of b.mu; agentMessageMu stays held.
Wipe ==
  /\ ~resetting /\ resetting' = TRUE
  /\ cmd' = NoProc /\ ready' = FALSE /\ bootOK' = FALSE /\ UNCHANGED <<booting, bootNo>>
  /\ undone' = TRUE

\* The rest of it: failAllPending.
FailPending == resetting' = FALSE /\ FailAll

RestartReads(t) ==
  /\ pc[t] = "read" /\ Goto(t, "wipe") /\ snap' = Set(snap, t, cmd)
  /\ UNCHANGED <<procVars, bootVars, resetting, reqVars, kind, done, result, calls, history>>

RestartWipes(t) ==
  /\ pc[t] = "wipe" /\ Step(t, "fail") /\ Wipe
  /\ swept' = swept \cup ((alive \cap {cmd}) \ {snap[t]})
  /\ UNCHANGED <<procs, alive, doomed, reader, waiter, reqVars, calls>>

RestartFails(t) ==
  /\ pc[t] = "fail" /\ Step(t, "kill") /\ FailPending
  /\ UNCHANGED <<procVars, bootVars, calls, history>>

RestartKills(t) ==
  /\ pc[t] = "kill" /\ doomed' = doomed \cup (alive \cap {snap[t]})
  /\ Goto(t, "ensure") /\ snap' = Set(snap, t, NoProc)
  /\ UNCHANGED <<cmd, procs, alive, reader, waiter, bootVars, resetting, reqVars, kind, done, result,
                 calls, history>>

\* A process exits, of itself or killed.
Exits(p) ==
  /\ p \in alive /\ alive' = alive \ {p} /\ doomed' = doomed \ {p} /\ swept' = swept \ {p}
  /\ UNCHANGED <<cmd, procs, reader, waiter, bootVars, resetting, reqVars, callVars, undone>>

\* waitProcess, in three sections.
WaitWakes(p) ==
  /\ waiter[p] = "wait" /\ p \notin alive
  /\ waiter' = Set(waiter, p, IF cmd = p THEN "reset" ELSE "gone")
  /\ UNCHANGED <<cmd, procs, alive, doomed, reader, bootVars, resetting, reqVars, callVars, history>>

\* The process may have been replaced since.
Superseded_No(p) == FALSE
Superseded(p) == cmd # p

WaitWipes(p) ==
  /\ waiter[p] = "reset" /\ ~resetting
  /\ \/ Superseded(p) /\ waiter' = Set(waiter, p, "gone") /\ UNCHANGED <<cmd, bootVars, resetting, undone>>
     \/ ~Superseded(p) /\ waiter' = Set(waiter, p, "fail") /\ Wipe
  /\ UNCHANGED <<procs, alive, doomed, reader, reqVars, callVars, swept>>

WaitFails(p) ==
  /\ waiter[p] = "fail" /\ waiter' = Set(waiter, p, "gone") /\ FailPending
  /\ UNCHANGED <<cmd, procs, alive, doomed, reader, bootVars, callVars, history>>

\* readStdout of a process that ended: at EOF it returns, and on an error (the
\* pipe is closed by Wait) it fails every request first.
ReaderEnds(p) ==
  /\ p \in reader /\ p \notin alive /\ reader' = reader \ {p}
  /\ FailAll \/ UNCHANGED reqVars
  /\ UNCHANGED <<cmd, procs, alive, doomed, waiter, bootVars, resetting, callVars, history>>

-----------------------------------------------------------------------------
Run(t) ==
  \/ Ensure(t) \/ Judge(t) \/ Process(t) \/ SpawnFails(t) \/ Spawn(t) \/ Publish(t)
  \/ Initialize(t) \/ Initialized(t) \/ CloseBoot(t)
  \/ OpenSession(t) \/ SessionOpened(t) \/ SessionFails(t)
  \/ RestartReads(t) \/ RestartWipes(t) \/ RestartFails(t) \/ RestartKills(t)

Wait(p) == WaitWakes(p) \/ WaitWipes(p) \/ WaitFails(p)

Next ==
  \/ \E t \in Threads : Call(t) \/ Run(t) \/ Answer(t) \/ TimesOut(t)
  \/ \E p \in Procs : Exits(p) \/ Wait(p) \/ ReaderEnds(p)

Spec == Init /\ [][Next]_vars

\* Goroutines run, and every request has a deadline.
FairSpec ==
  /\ Spec
  /\ \A t \in Threads : WF_vars(Run(t)) /\ WF_vars(TimesOut(t))
  /\ \A p \in Procs : WF_vars(Wait(p))

-----------------------------------------------------------------------------
(* properties *)

\* The processes somebody still answers for: the current one, one about to be
\* published, and those killed or about to be.
Known(p) ==
  \/ p = cmd \/ p \in doomed
  \/ \E t \in Threads : snap[t] = p /\ pc[t] \in {"publish", "wipe", "fail", "kill"}

\* A live process is lost only to a restart that had read another: boots never
\* race each other, and no late waitProcess wipes a successor.
StrayOnlyByRestart == \A p \in alive : Known(p) \/ p \in swept

\* A caller that waited is told of a failure only when the latest boot failed
\* or was undone, never "against a healthy process".
VerdictOfLatestBoot ==
  [][\A t \in Threads :
       pc[t] = "wait" /\ pc'[t] = "idle" /\ ~ready /\ ~bootOK => undone]_vars

\* Every call returns, whatever happens to the processes.
CallsReturn == \A t \in Threads : pc[t] # "idle" ~> pc[t] = "idle"
=============================================================================
