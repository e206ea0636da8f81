----------------------------- MODULE Agent_proofs -----------------------------
(***************************************************************************)
(* Proofs about the agent process (AgentProcess) and the requests it makes *)
(* of the user (ClientRequests), for every number of calls, sessions,      *)
(* requests and processes.                                                 *)
(***************************************************************************)
EXTENDS AgentProcess, ClientRequests, TLAPS

(***************************************************************************)
(* AgentProcess.                                                           *)
(*                                                                         *)
(* A process is lost when cmd is overwritten or wiped.  Boots exclude each *)
(* other, so a boot that publishes finds no process there; and a           *)
(* waitProcess that wipes is of the current process, which has exited.     *)
(***************************************************************************)
\* Boots exclude each other, and one that spawned has nothing to overwrite.
BootInv ==
  /\ \A t \in Threads : pc[t] \in BootPCs => booting
  /\ \A t, u \in Threads : pc[t] \in BootPCs /\ pc[u] \in BootPCs => t = u
  /\ \A t \in Threads : pc[t] \in {"spawn", "publish"} => cmd = NoProc
  /\ \A t \in Threads : pc[t] = "publish" => snap[t] \in 1..procs

\* Only started processes run, and a waitProcess that woke up is of a dead one.
ProcInv ==
  /\ alive \subseteq 1..procs
  /\ \A p \in Procs : p > procs => waiter[p] = "none"
  /\ \A p \in Procs : waiter[p] \in {"reset", "fail", "gone"} => p \notin alive

\* The outcome of the latest boot shows in the flags, unless it was undone.
Judged == ready \/ bootOK \/ undone

VerdictInv ==
  /\ booting => bootNo > 0
  /\ \A t \in Threads : pc[t] = "wait" => bootNo > 0
  /\ bootNo > 0 /\ ~booting => Judged
  /\ \A t \in Threads : pc[t] = "close" => Judged

IInv == TypeOK /\ BootInv /\ ProcInv /\ VerdictInv /\ StrayOnlyByRestart

LEMMA InitInv == Init => IInv
  <1> SUFFICES ASSUME Init PROVE IInv
    OBVIOUS
  <1> USE ProcessAssumption DEF Init, NoProc
  <1>1. TypeOK
    <2>1. result \in [Threads -> BOOLEAN]
      BY Zenon
    <2>2. pc \in [Threads -> BootPCs \cup {"idle", "ensure", "wait", "session", "answer",
                                           "read", "wipe", "fail", "kill"}]
      OBVIOUS
    <2>3. waiter \in [Procs -> {"none", "wait", "reset", "fail", "gone"}]
      OBVIOUS
    <2>4. /\ ready \in BOOLEAN /\ bootOK \in BOOLEAN /\ booting \in BOOLEAN
          /\ bootNo \in Nat /\ undone \in BOOLEAN /\ resetting \in BOOLEAN
      OBVIOUS
    <2> QED BY <2>1, <2>2, <2>3, <2>4 DEF TypeOK, Procs
  <1>2. BootInv
    BY DEF BootInv, BootPCs
  <1>3. ProcInv
    BY DEF ProcInv, Procs
  <1>4. VerdictInv
    BY DEF VerdictInv
  <1>5. StrayOnlyByRestart
    BY DEF StrayOnlyByRestart
  <1> QED BY <1>1, <1>2, <1>3, <1>4, <1>5 DEF IInv

\* Where a call goes after a boot, with its locals in their types.
LEMMA BootedFacts ==
  ASSUME TypeOK, NEW t \in Threads, NEW ok \in BOOLEAN, Booted(t, ok)
  PROVE  /\ \E l \in {"session", "ensure", "idle"} : pc' = [pc EXCEPT ![t] = l]
         /\ ~ok => pc' = [pc EXCEPT ![t] = "idle"]
         /\ kind' \in [Threads -> {"boot", "new", "load", "restart"}]
         /\ snap' \in [Threads -> 0..MaxProc]
         /\ \A u \in Threads \ {t} : snap'[u] = snap[u]
         /\ done' \in [Threads -> Nat]
         /\ result' \in [Threads -> BOOLEAN]
  <1> USE ProcessAssumption DEF TypeOK, Goto, Set, NoProc
  <1>1. CASE /\ ok /\ kind[t] \in {"new", "load"}
             /\ Goto(t, "session") /\ result' = Set(result, t, FALSE) /\ done' = Set(done, t, 0)
             /\ UNCHANGED <<kind, snap>>
    <2>1. result' \in [Threads -> BOOLEAN]
      BY <1>1, Zenon
    <2> QED BY <1>1, <2>1
  <1>2. CASE /\ ok /\ kind[t] = "restart"
             /\ Goto(t, "ensure") /\ kind' = Set(kind, t, "load")
             /\ result' = Set(result, t, FALSE) /\ done' = Set(done, t, 0) /\ UNCHANGED snap
    <2>1. result' \in [Threads -> BOOLEAN]
      BY <1>2, Zenon
    <2> QED BY <1>2, <2>1
  <1>3. CASE Return(t)
    <2>1. result' \in [Threads -> BOOLEAN]
      BY <1>3, Zenon DEF Return
    <2> QED BY <1>3, <2>1 DEF Return
  <1> QED BY <1>1, <1>2, <1>3 DEF Booted

-----------------------------------------------------------------------------
(* Type correctness *)

\* The types in three groups, which the provers treat best apart: the data, the
\* flags, and where a call is.
DataType ==
  /\ cmd \in 0..MaxProc /\ procs \in 0..MaxProc
  /\ alive \subseteq Procs /\ doomed \subseteq Procs /\ reader \subseteq Procs
  /\ waiter \in [Procs -> {"none", "wait", "reset", "fail", "gone"}]
  /\ bootNo \in Nat
  /\ kind \in [Threads -> {"boot", "new", "load", "restart"}]
  /\ snap \in [Threads -> 0..MaxProc] /\ done \in [Threads -> Nat]
  /\ req \in [Threads -> {"none", "out", "ok", "failed"}] /\ to \in [Threads -> 0..MaxProc]
  /\ calls \in 0..MaxCalls /\ swept \subseteq Procs

FlagType ==
  /\ ready \in BOOLEAN /\ bootOK \in BOOLEAN /\ booting \in BOOLEAN
  /\ resetting \in BOOLEAN /\ undone \in BOOLEAN /\ result \in [Threads -> BOOLEAN]

PlaceType ==
  pc \in [Threads -> BootPCs \cup {"idle", "ensure", "wait", "session", "answer",
                                   "read", "wipe", "fail", "kill"}]

\* The data keep their types: a process is published by the boot that started it.
LEMMA DataStep == IInv /\ Next => DataType'
  <1> SUFFICES ASSUME IInv, Next PROVE DataType'
    OBVIOUS
  <1> USE ProcessAssumption
          DEF IInv, TypeOK, BootInv, ProcInv, DataType, Procs, NoProc,
              Goto, Set, Step, procVars, bootVars, reqVars, callVars, history
  <1>1. ASSUME NEW t \in Threads, Ensure(t) PROVE DataType'
    <2>1. UNCHANGED <<procVars, resetting, reqVars, calls, swept>>
      BY <1>1 DEF Ensure
    <2>2. CASE Booted(t, TRUE) /\ UNCHANGED <<bootVars, undone>>
      BY <2>1, <2>2, BootedFacts, TRUE \in BOOLEAN
    <2>3. CASE /\ ~ready /\ ~bootOK /\ ~MayBoot
               /\ Goto(t, "wait") /\ done' = Set(done, t, bootNo)
               /\ UNCHANGED <<kind, snap, result, bootVars, undone>>
      BY <2>1, <2>3
    <2>4. CASE /\ ~ready /\ ~bootOK /\ MayBoot
               /\ booting' = TRUE /\ bootOK' = FALSE /\ bootNo' = bootNo + 1 /\ undone' = FALSE
               /\ Step(t, "process") /\ UNCHANGED ready
      BY <2>1, <2>4
    <2> QED BY <1>1, <2>2, <2>3, <2>4 DEF Ensure
  <1>2. ASSUME NEW t \in Threads, Judge(t) PROVE DataType'
    <2>1. UNCHANGED <<procVars, bootVars, resetting, reqVars, calls, history>>
      BY <1>2 DEF Judge
    <2>2. CASE Goto(t, "ensure") /\ done' = Set(done, t, 0) /\ UNCHANGED <<kind, snap, result>>
      BY <2>1, <2>2
    <2>3. CASE Booted(t, ready \/ bootOK)
      BY <2>1, <2>3, BootedFacts
    <2> QED BY <1>2, <2>2, <2>3 DEF Judge
  <1>3. ASSUME NEW t \in Threads, Call(t)
        PROVE  DataType'
    BY <1>3 DEF Call
  <1>4. ASSUME NEW t \in Threads, Publish(t) PROVE DataType'
    <2>1. snap[t] \in Procs
      BY <1>4 DEF Publish
    <2> QED BY <1>4, <2>1 DEF Publish
  <1>5. ASSUME NEW t \in Threads, CloseBoot(t) PROVE DataType'
    <2>1. result[t] \in BOOLEAN /\ Booted(t, result[t])
      BY <1>5 DEF CloseBoot
    <2> QED BY <1>5, <2>1, BootedFacts DEF CloseBoot
  <1>6. ASSUME NEW t \in Threads, Process(t)
        PROVE  DataType'
    BY <1>6 DEF Process
  <1>7. ASSUME NEW t \in Threads, SpawnFails(t)
        PROVE  DataType'
    BY <1>7 DEF SpawnFails, Outcome
  <1>8. ASSUME NEW t \in Threads, Spawn(t)
        PROVE  DataType'
    BY <1>8 DEF Spawn
  <1>9. ASSUME NEW t \in Threads, Initialize(t)
        PROVE  DataType'
    BY <1>9 DEF Initialize, Send
  <1>10. ASSUME NEW t \in Threads, Initialized(t)
        PROVE  DataType'
    BY <1>10 DEF Initialized, Outcome, Consume
  <1>11. ASSUME NEW t \in Threads, OpenSession(t)
        PROVE  DataType'
    BY <1>11 DEF OpenSession, Send
  <1>12. ASSUME NEW t \in Threads, SessionOpened(t)
        PROVE  DataType'
    BY <1>12 DEF SessionOpened, Consume, Return
  <1>13. ASSUME NEW t \in Threads, SessionFails(t)
        PROVE  DataType'
    BY <1>13 DEF SessionFails, Consume, Return
  <1>14. ASSUME NEW t \in Threads, RestartWipes(t) PROVE DataType'
    <2>1. swept' \subseteq Procs
      BY <1>14 DEF RestartWipes
    <2> QED BY <1>14, <2>1 DEF RestartWipes, Wipe
  <1>15. ASSUME NEW t \in Threads, RestartKills(t) PROVE DataType'
    <2>1. doomed' \subseteq Procs
      BY <1>15 DEF RestartKills
    <2> QED BY <1>15, <2>1 DEF RestartKills
  <1>16. ASSUME NEW t \in Threads, RestartReads(t)
        PROVE  DataType'
    BY <1>16 DEF RestartReads
  <1>17. ASSUME NEW t \in Threads, RestartFails(t)
        PROVE  DataType'
    BY <1>17 DEF RestartFails, FailPending, FailAll
  <1>18. ASSUME NEW t \in Threads, Answer(t)
        PROVE  DataType'
    BY <1>18 DEF Answer
  <1>19. ASSUME NEW t \in Threads, TimesOut(t)
        PROVE  DataType'
    BY <1>19 DEF TimesOut
  <1>20. ASSUME NEW p \in Procs, Exits(p)
        PROVE  DataType'
    BY <1>20 DEF Exits
  <1>21. ASSUME NEW p \in Procs, WaitWakes(p)
        PROVE  DataType'
    BY <1>21 DEF WaitWakes
  <1>22. ASSUME NEW p \in Procs, WaitWipes(p)
        PROVE  DataType'
    BY <1>22 DEF WaitWipes, Wipe, Superseded
  <1>23. ASSUME NEW p \in Procs, WaitFails(p)
        PROVE  DataType'
    BY <1>23 DEF WaitFails, FailPending, FailAll
  <1>24. ASSUME NEW p \in Procs, ReaderEnds(p)
        PROVE  DataType'
    BY <1>24 DEF ReaderEnds, FailAll
  <1> QED BY <1>1, <1>2, <1>3, <1>4, <1>5, <1>6, <1>7, <1>8, <1>9, <1>10, <1>11, <1>12,
            <1>13, <1>14, <1>15, <1>16, <1>17, <1>18, <1>19, <1>20, <1>21, <1>22, <1>23,
            <1>24
         DEF Next, Run, Wait

\* The flags stay booleans.
LEMMA FlagStep == IInv /\ Next => FlagType'
  <1> SUFFICES ASSUME IInv, Next PROVE FlagType'
    OBVIOUS
  <1> USE ProcessAssumption
          DEF IInv, TypeOK, FlagType, NoProc,
              Goto, Set, Step, procVars, bootVars, reqVars, callVars, history
  <1>1. ASSUME NEW t \in Threads, Call(t) \/ Ensure(t) \/ Judge(t)
        PROVE  FlagType'
    BY <1>1 DEF Call, Ensure, Booted, Return, MayBoot, Judge, Finished, Chains
  <1>2. ASSUME NEW t \in Threads, Process(t) \/ SpawnFails(t) \/ Spawn(t) \/ Publish(t) \/
               Initialize(t) \/ Initialized(t) \/ CloseBoot(t)
        PROVE  FlagType'
    BY <1>2 DEF Process, SpawnFails, Outcome, Spawn, Publish, Initialize, Send, Initialized,
       Consume, CloseBoot, Booted, Return, Closes
  <1>3. ASSUME NEW t \in Threads, OpenSession(t) \/ SessionOpened(t) \/ SessionFails(t)
        PROVE  FlagType'
    BY <1>3 DEF OpenSession, Send, SessionOpened, Consume, Return, SessionFails
  <1>4. ASSUME NEW t \in Threads, RestartReads(t) \/ RestartWipes(t) \/ RestartFails(t) \/
               RestartKills(t)
        PROVE  FlagType'
    BY <1>4 DEF RestartReads, RestartWipes, Wipe, RestartFails, FailPending, FailAll,
       RestartKills
  <1>5. ASSUME NEW t \in Threads, Answer(t) \/ TimesOut(t)
        PROVE  FlagType'
    BY <1>5 DEF Answer, TimesOut
  <1>6. ASSUME NEW p \in Procs, Exits(p) \/ WaitWakes(p) \/ WaitWipes(p) \/ WaitFails(p) \/
               ReaderEnds(p)
        PROVE  FlagType'
    BY <1>6 DEF Exits, WaitWakes, WaitWipes, Wipe, Superseded, WaitFails, FailPending,
       FailAll, ReaderEnds
  <1> QED BY <1>1, <1>2, <1>3, <1>4, <1>5, <1>6
         DEF Next, Run, Wait

\* A call goes from place to place.
LEMMA PlaceStep == IInv /\ Next => PlaceType'
  <1> SUFFICES ASSUME IInv, Next PROVE PlaceType'
    OBVIOUS
  <1> USE ProcessAssumption
          DEF IInv, TypeOK, PlaceType, BootPCs, NoProc,
              Goto, Set, Step, procVars, bootVars, reqVars, callVars, history
  <1>1. ASSUME NEW t \in Threads, Call(t) \/ Ensure(t) \/ Judge(t)
        PROVE  PlaceType'
    BY <1>1 DEF Call, Ensure, Booted, Return, MayBoot, Judge, Finished, Chains
  <1>2. ASSUME NEW t \in Threads, Process(t)
        PROVE  PlaceType'
    BY <1>2 DEF Process
  <1>3. ASSUME NEW t \in Threads, SpawnFails(t)
        PROVE  PlaceType'
    BY <1>3 DEF SpawnFails, Outcome
  <1>4. ASSUME NEW t \in Threads, Spawn(t)
        PROVE  PlaceType'
    BY <1>4 DEF Spawn
  <1>5. ASSUME NEW t \in Threads, Publish(t)
        PROVE  PlaceType'
    BY <1>5 DEF Publish
  <1>6. ASSUME NEW t \in Threads, Initialize(t)
        PROVE  PlaceType'
    BY <1>6 DEF Initialize, Send
  <1>7. ASSUME NEW t \in Threads, Initialized(t)
        PROVE  PlaceType'
    BY <1>7 DEF Initialized, Outcome, Consume
  <1>8. ASSUME NEW t \in Threads, CloseBoot(t)
        PROVE  PlaceType'
    BY <1>8 DEF CloseBoot, Booted, Return, Closes
  <1>9. ASSUME NEW t \in Threads, OpenSession(t) \/ SessionOpened(t) \/ SessionFails(t)
        PROVE  PlaceType'
    BY <1>9 DEF OpenSession, Send, SessionOpened, Consume, Return, SessionFails
  <1>10. ASSUME NEW t \in Threads, RestartReads(t) \/ RestartWipes(t) \/ RestartFails(t) \/
               RestartKills(t)
        PROVE  PlaceType'
    BY <1>10 DEF RestartReads, RestartWipes, Wipe, RestartFails, FailPending, FailAll,
       RestartKills
  <1>11. ASSUME NEW t \in Threads, Answer(t) \/ TimesOut(t)
        PROVE  PlaceType'
    BY <1>11 DEF Answer, TimesOut
  <1>12. ASSUME NEW p \in Procs, Exits(p) \/ WaitWakes(p) \/ WaitWipes(p) \/ WaitFails(p) \/
               ReaderEnds(p)
        PROVE  PlaceType'
    BY <1>12 DEF Exits, WaitWakes, WaitWipes, Wipe, Superseded, WaitFails, FailPending,
       FailAll, ReaderEnds
  <1> QED BY <1>1, <1>2, <1>3, <1>4, <1>5, <1>6, <1>7, <1>8, <1>9, <1>10, <1>11, <1>12
         DEF Next, Run, Wait

-----------------------------------------------------------------------------
(* Boots, processes, verdicts *)

\* Only a call that finds no boot under way begins one, and it ends with its own.
LEMMA BootStep == IInv /\ Next => BootInv'
  <1> SUFFICES ASSUME IInv, Next PROVE BootInv'
    OBVIOUS
  <1> USE ProcessAssumption
          DEF IInv, TypeOK, BootInv, BootPCs, NoProc,
              Goto, Set, Step, procVars, bootVars, reqVars, callVars, history
  <1>1. ASSUME NEW t \in Threads, Judge(t) PROVE BootInv'
    <2>1. CASE Chains(t)
      BY <1>1, <2>1 DEF Judge
    <2>2. CASE Booted(t, ready \/ bootOK)
      BY <1>1, <2>2, BootedFacts DEF Judge
    <2> QED BY <1>1, <2>1, <2>2 DEF Judge
  <1>2. ASSUME NEW t \in Threads, Call(t) \/ Ensure(t)
        PROVE  BootInv'
    BY <1>2 DEF Call, Ensure, Booted, Return, MayBoot
  <1>3. ASSUME NEW t \in Threads, CloseBoot(t) PROVE BootInv'
    <2>1. result[t] \in BOOLEAN /\ Booted(t, result[t])
      BY <1>3 DEF CloseBoot
    <2> QED BY <1>3, <2>1, BootedFacts DEF CloseBoot, Closes
  <1>4. ASSUME NEW t \in Threads, Process(t) \/ SpawnFails(t) \/ Spawn(t) \/ Publish(t) \/
               Initialize(t) \/ Initialized(t)
        PROVE  BootInv'
    BY <1>4 DEF Process, SpawnFails, Outcome, Spawn, Publish, Initialize, Send, Initialized,
       Consume
  <1>5. ASSUME NEW t \in Threads, OpenSession(t) \/ SessionOpened(t) \/ SessionFails(t)
        PROVE  BootInv'
    BY <1>5 DEF OpenSession, Send, SessionOpened, Consume, Return, SessionFails
  <1>6. ASSUME NEW t \in Threads, RestartReads(t) \/ RestartWipes(t) \/ RestartFails(t) \/
               RestartKills(t)
        PROVE  BootInv'
    BY <1>6 DEF RestartReads, RestartWipes, Wipe, RestartFails, FailPending, FailAll,
       RestartKills
  <1>7. ASSUME NEW t \in Threads, Answer(t) \/ TimesOut(t)
        PROVE  BootInv'
    BY <1>7 DEF Answer, TimesOut
  <1>8. ASSUME NEW p \in Procs, Exits(p) \/ WaitWakes(p) \/ WaitWipes(p) \/ WaitFails(p) \/
               ReaderEnds(p)
        PROVE  BootInv'
    BY <1>8 DEF Exits, WaitWakes, WaitWipes, Wipe, Superseded, WaitFails, FailPending,
       FailAll, ReaderEnds
  <1> QED BY <1>1, <1>2, <1>3, <1>4, <1>5, <1>6, <1>7, <1>8
         DEF Next, Run, Wait

\* Every process is started once, and waited for once it is dead.
LEMMA ProcStep == IInv /\ Next => ProcInv'
  <1> SUFFICES ASSUME IInv, Next PROVE ProcInv'
    OBVIOUS
  <1>1. CASE UNCHANGED <<procs, alive, waiter>>
    BY <1>1 DEF IInv, ProcInv
  <1> USE ProcessAssumption DEF IInv, TypeOK, BootInv, ProcInv, Procs, NoProc, Set
  <1>2. ASSUME NEW t \in Threads, Spawn(t) PROVE ProcInv'
    BY <1>2 DEF Spawn
  <1>3. ASSUME NEW t \in Threads, Publish(t) PROVE ProcInv'
    BY <1>3 DEF Publish
  <1>4. ASSUME NEW p \in Procs, Exits(p) PROVE ProcInv'
    BY <1>4 DEF Exits
  <1>5. ASSUME NEW p \in Procs, WaitWakes(p) PROVE ProcInv'
    BY <1>5 DEF WaitWakes
  <1>6. ASSUME NEW p \in Procs, WaitWipes(p) PROVE ProcInv'
    BY <1>6 DEF WaitWipes
  <1>7. ASSUME NEW p \in Procs, WaitFails(p) PROVE ProcInv'
    BY <1>7 DEF WaitFails
  <1>8. ASSUME NEW t \in Threads,
               \/ Call(t) \/ Ensure(t) \/ Judge(t) \/ Process(t) \/ SpawnFails(t)
               \/ Initialize(t) \/ Initialized(t) \/ CloseBoot(t) \/ OpenSession(t)
               \/ SessionOpened(t) \/ SessionFails(t) \/ RestartReads(t) \/ RestartWipes(t)
               \/ RestartFails(t) \/ RestartKills(t) \/ Answer(t) \/ TimesOut(t)
        PROVE  UNCHANGED <<procs, alive, waiter>>
    BY <1>8 DEF Call, Ensure, Judge, Process, SpawnFails, Initialize, Initialized, CloseBoot,
       OpenSession, SessionOpened, SessionFails, RestartReads, RestartWipes, RestartFails,
       RestartKills, Answer, TimesOut, procVars
  <1>9. ASSUME NEW p \in Procs, ReaderEnds(p) PROVE UNCHANGED <<procs, alive, waiter>>
    BY <1>9 DEF ReaderEnds
  <1> QED BY <1>1, <1>2, <1>3, <1>4, <1>5, <1>6, <1>7, <1>8, <1>9 DEF Next, Run, Wait

\* Whatever takes a boot's outcome back says so.
LEMMA VerdictStep == IInv /\ Next => VerdictInv'
  <1> SUFFICES ASSUME IInv, Next PROVE VerdictInv'
    OBVIOUS
  <1> USE ProcessAssumption
          DEF IInv, TypeOK, BootInv, VerdictInv, Judged, BootPCs, NoProc,
              Goto, Set, Step, procVars, bootVars, reqVars, callVars, history
  <1>1. ASSUME NEW t \in Threads, Call(t)
        PROVE  VerdictInv'
    BY <1>1 DEF Call
  <1>2. ASSUME NEW t \in Threads, Ensure(t)
        PROVE  VerdictInv'
    BY <1>2 DEF Ensure, Booted, Return, MayBoot
  <1>3. ASSUME NEW t \in Threads, Judge(t)
        PROVE  VerdictInv'
    BY <1>3 DEF Judge, Booted, Return, Finished, Chains
  <1>4. ASSUME NEW t \in Threads, Process(t)
        PROVE  VerdictInv'
    BY <1>4 DEF Process
  <1>5. ASSUME NEW t \in Threads, SpawnFails(t)
        PROVE  VerdictInv'
    BY <1>5 DEF SpawnFails, Outcome
  <1>6. ASSUME NEW t \in Threads, Spawn(t)
        PROVE  VerdictInv'
    BY <1>6 DEF Spawn
  <1>7. ASSUME NEW t \in Threads, Publish(t)
        PROVE  VerdictInv'
    BY <1>7 DEF Publish
  <1>8. ASSUME NEW t \in Threads, Initialize(t)
        PROVE  VerdictInv'
    BY <1>8 DEF Initialize, Send
  <1>9. ASSUME NEW t \in Threads, Initialized(t)
        PROVE  VerdictInv'
    BY <1>9 DEF Initialized, Outcome, Consume
  <1>10. ASSUME NEW t \in Threads, CloseBoot(t)
        PROVE  VerdictInv'
    BY <1>10 DEF CloseBoot, Booted, Return, Closes
  <1>11. ASSUME NEW t \in Threads, OpenSession(t) \/ SessionOpened(t) \/ SessionFails(t)
        PROVE  VerdictInv'
    BY <1>11 DEF OpenSession, Send, SessionOpened, Consume, Return, SessionFails
  <1>12. ASSUME NEW t \in Threads, RestartReads(t) \/ RestartWipes(t) \/ RestartFails(t) \/
               RestartKills(t)
        PROVE  VerdictInv'
    BY <1>12 DEF RestartReads, RestartWipes, Wipe, RestartFails, FailPending, FailAll,
       RestartKills
  <1>13. ASSUME NEW t \in Threads, Answer(t) \/ TimesOut(t)
        PROVE  VerdictInv'
    BY <1>13 DEF Answer, TimesOut
  <1>14. ASSUME NEW p \in Procs, Exits(p) \/ WaitWakes(p) \/ WaitWipes(p) \/ WaitFails(p) \/
               ReaderEnds(p)
        PROVE  VerdictInv'
    BY <1>14 DEF Exits, WaitWakes, WaitWipes, Wipe, Superseded, WaitFails, FailPending,
       FailAll, ReaderEnds
  <1> QED BY <1>1, <1>2, <1>3, <1>4, <1>5, <1>6, <1>7, <1>8, <1>9, <1>10, <1>11, <1>12,
            <1>13, <1>14
         DEF Next, Run, Wait

\* A process leaves cmd to be killed, dead, or by a restart that had read another.
LEMMA StrayStep == IInv /\ Next => StrayOnlyByRestart'
  <1> SUFFICES ASSUME IInv, Next PROVE StrayOnlyByRestart'
    OBVIOUS
  <1> USE ProcessAssumption
          DEF IInv, TypeOK, BootInv, ProcInv, StrayOnlyByRestart, Known, Procs, NoProc,
              Goto, Set, Step, procVars, bootVars, reqVars, callVars, history
  <1>1. ASSUME NEW t \in Threads, Call(t)
        PROVE  StrayOnlyByRestart'
    BY <1>1 DEF Call
  <1>2. ASSUME NEW t \in Threads, Ensure(t)
        PROVE  StrayOnlyByRestart'
    BY <1>2 DEF Ensure, Booted, Return, MayBoot
  <1>3. ASSUME NEW t \in Threads, Judge(t)
        PROVE  StrayOnlyByRestart'
    BY <1>3 DEF Judge, Booted, Return, Finished, Chains
  <1>4. ASSUME NEW t \in Threads, Process(t)
        PROVE  StrayOnlyByRestart'
    BY <1>4 DEF Process
  <1>5. ASSUME NEW t \in Threads, SpawnFails(t)
        PROVE  StrayOnlyByRestart'
    BY <1>5 DEF SpawnFails, Outcome
  <1>6. ASSUME NEW t \in Threads, Spawn(t)
        PROVE  StrayOnlyByRestart'
    BY <1>6 DEF Spawn
  <1>7. ASSUME NEW t \in Threads, Publish(t)
        PROVE  StrayOnlyByRestart'
    BY <1>7 DEF Publish
  <1>8. ASSUME NEW t \in Threads, Initialize(t)
        PROVE  StrayOnlyByRestart'
    BY <1>8 DEF Initialize, Send
  <1>9. ASSUME NEW t \in Threads, Initialized(t)
        PROVE  StrayOnlyByRestart'
    BY <1>9 DEF Initialized, Outcome, Consume
  <1>10. ASSUME NEW t \in Threads, CloseBoot(t)
        PROVE  StrayOnlyByRestart'
    BY <1>10 DEF CloseBoot, Booted, Return, Closes
  <1>11. ASSUME NEW t \in Threads, OpenSession(t)
        PROVE  StrayOnlyByRestart'
    BY <1>11 DEF OpenSession, Send
  <1>12. ASSUME NEW t \in Threads, SessionOpened(t)
        PROVE  StrayOnlyByRestart'
    BY <1>12 DEF SessionOpened, Consume, Return
  <1>13. ASSUME NEW t \in Threads, SessionFails(t)
        PROVE  StrayOnlyByRestart'
    BY <1>13 DEF SessionFails, Consume, Return
  <1>14. ASSUME NEW t \in Threads, RestartReads(t)
        PROVE  StrayOnlyByRestart'
    BY <1>14 DEF RestartReads
  <1>15. ASSUME NEW t \in Threads, RestartWipes(t)
        PROVE  StrayOnlyByRestart'
    BY <1>15 DEF RestartWipes, Wipe
  <1>16. ASSUME NEW t \in Threads, RestartFails(t)
        PROVE  StrayOnlyByRestart'
    BY <1>16 DEF RestartFails, FailPending, FailAll
  <1>17. ASSUME NEW t \in Threads, RestartKills(t)
        PROVE  StrayOnlyByRestart'
    BY <1>17 DEF RestartKills
  <1>18. ASSUME NEW t \in Threads, Answer(t)
        PROVE  StrayOnlyByRestart'
    BY <1>18 DEF Answer
  <1>19. ASSUME NEW t \in Threads, TimesOut(t)
        PROVE  StrayOnlyByRestart'
    BY <1>19 DEF TimesOut
  <1>20. ASSUME NEW p \in Procs, Exits(p)
        PROVE  StrayOnlyByRestart'
    BY <1>20 DEF Exits
  <1>21. ASSUME NEW p \in Procs, WaitWakes(p)
        PROVE  StrayOnlyByRestart'
    BY <1>21 DEF WaitWakes
  <1>22. ASSUME NEW p \in Procs, WaitWipes(p)
        PROVE  StrayOnlyByRestart'
    BY <1>22 DEF WaitWipes, Wipe, Superseded
  <1>23. ASSUME NEW p \in Procs, WaitFails(p)
        PROVE  StrayOnlyByRestart'
    BY <1>23 DEF WaitFails, FailPending, FailAll
  <1>24. ASSUME NEW p \in Procs, ReaderEnds(p)
        PROVE  StrayOnlyByRestart'
    BY <1>24 DEF ReaderEnds, FailAll
  <1> QED BY <1>1, <1>2, <1>3, <1>4, <1>5, <1>6, <1>7, <1>8, <1>9, <1>10, <1>11, <1>12,
            <1>13, <1>14, <1>15, <1>16, <1>17, <1>18, <1>19, <1>20, <1>21, <1>22, <1>23,
            <1>24
         DEF Next, Run, Wait

-----------------------------------------------------------------------------
(* Theorems *)

LEMMA InvStep == IInv /\ [Next]_vars => IInv'
  <1> SUFFICES ASSUME IInv, [Next]_vars PROVE IInv'
    OBVIOUS
  <1>1. CASE Next
    <2>1. TypeOK'
      <3>1. DataType' /\ FlagType' /\ PlaceType'
        BY <1>1, DataStep, FlagStep, PlaceStep
      <3> QED BY <3>1 DEF TypeOK, DataType, FlagType, PlaceType
    <2> QED BY <1>1, <2>1, BootStep, ProcStep, VerdictStep, StrayStep DEF IInv
  <1>2. CASE UNCHANGED vars
    BY <1>2 DEF IInv, TypeOK, BootInv, ProcInv, VerdictInv, Judged, StrayOnlyByRestart, Known,
       vars, procVars, bootVars, reqVars, callVars, history
  <1> QED BY <1>1, <1>2

LEMMA InvariantHolds == Spec => []IInv
  BY InitInv, InvStep, PTL DEF Spec

\* Every variable keeps its type, through boots, exits and restarts in any order.
THEOREM TypeCorrect == Spec => []TypeOK
  <1>1. IInv => TypeOK
    BY DEF IInv
  <1> QED BY <1>1, InvariantHolds, PTL

\* A live process is lost only to a restart that had read another one: boots never
\* overwrite each other's process (ensureBooted, ensureProcess), and waitProcess
\* never wipes a process that runs.
THEOREM StraysAreTheRestarts == Spec => []StrayOnlyByRestart
  <1>1. IInv => StrayOnlyByRestart
    BY DEF IInv
  <1> QED BY <1>1, InvariantHolds, PTL

\* A call leaves the wait for a boot only by its own verdict.
LEMMA WaiterWakes ==
  ASSUME IInv, Next, NEW t \in Threads, pc[t] = "wait", pc'[t] = "idle"
  PROVE  Judge(t)
  <1> USE DEF IInv, TypeOK, Goto, Set, Step, callVars
  <1>1. ASSUME NEW u \in Threads, Call(u) \/ Ensure(u)
        PROVE  FALSE
    BY <1>1 DEF Call, Ensure, Booted, Return
  <1>2. ASSUME NEW u \in Threads, Process(u) \/ SpawnFails(u) \/ Spawn(u) \/ Publish(u) \/
               Initialize(u) \/ Initialized(u) \/ CloseBoot(u)
        PROVE  FALSE
    BY <1>2 DEF Process, SpawnFails, Outcome, Spawn, Publish, Initialize, Initialized,
       CloseBoot, Booted, Return
  <1>3. ASSUME NEW u \in Threads, OpenSession(u) \/ SessionOpened(u) \/ SessionFails(u)
        PROVE  FALSE
    BY <1>3 DEF OpenSession, SessionOpened, Return, SessionFails
  <1>4. ASSUME NEW u \in Threads, RestartReads(u) \/ RestartWipes(u) \/ RestartFails(u) \/
               RestartKills(u)
        PROVE  FALSE
    BY <1>4 DEF RestartReads, RestartWipes, RestartFails, RestartKills
  <1>5. ASSUME NEW u \in Threads, Answer(u) \/ TimesOut(u)
        PROVE  FALSE
    BY <1>5 DEF Answer, TimesOut
  <1>6. ASSUME NEW p \in Procs, Exits(p) \/ WaitWakes(p) \/ WaitWipes(p) \/ WaitFails(p) \/
               ReaderEnds(p)
        PROVE  FALSE
    BY <1>6 DEF Exits, WaitWakes, WaitWipes, WaitFails, ReaderEnds
  <1>7. ASSUME NEW u \in Threads, Judge(u) PROVE u = t
    BY <1>7 DEF Judge, Booted, Return
  <1> QED BY <1>1, <1>2, <1>3, <1>4, <1>5, <1>6, <1>7 DEF Next, Run, Wait

\* A caller that waited for a boot is told of a failure only when the latest boot
\* failed, or was undone by an exit, a restart or a failed session/new.
THEOREM VerdictsAreTrue == Spec => VerdictOfLatestBoot
  <1> DEFINE A == \A t \in Threads :
                    pc[t] = "wait" /\ pc'[t] = "idle" /\ ~ready /\ ~bootOK => undone
  <1>1. IInv /\ [Next]_vars => [A]_vars
    <2> SUFFICES ASSUME IInv, Next, NEW t \in Threads,
                        pc[t] = "wait", pc'[t] = "idle", ~ready, ~bootOK
                 PROVE  undone
      BY DEF A
    <2>1. Judge(t)
      BY WaiterWakes
    <2>2. ~booting /\ bootNo > 0
      BY <2>1 DEF Judge, Finished, Chains, Goto, Set, IInv, TypeOK, VerdictInv
    <2> QED BY <2>2 DEF IInv, VerdictInv, Judged
  <1> QED BY <1>1, InvariantHolds, PTL DEF Spec, VerdictOfLatestBoot

(***************************************************************************)
(* ClientRequests.                                                         *)
(*                                                                         *)
(* SettledOnce, OwnProcess and AcceptedWins speak of replies; that no      *)
(* second one is ever built follows from what the request table says while *)
(* the request is still open, so the inductive invariant ties the phase of *)
(* a request to its process, its verdict and its goroutine.                *)
(***************************************************************************)
Replies == outbox \cup written

\* The request table: what each phase says of the request.
TableInv ==
  \A r \in Reqs :
    /\ r > count => phase[r] = "unused"
    /\ phase[r] = "unused" => verdict[r] = "none" /\ told[r] = 0 /\ goroutine[r] = "none"
                              /\ ~retired[r]
    /\ phase[r] = "pending" => proc # NoAgent /\ from[r] = proc /\ told[r] = 0 /\ ~retired[r]
    /\ phase[r] = "settled" => verdict[r] # "none" /\ told[r] = 1
    /\ goroutine[r] = "resolve" => verdict[r] # "none"
    /\ r \in accepted <=> verdict[r] = "answer"

\* The replies: of settled requests only, one each.
ReplyInv ==
  /\ \A m \in Replies :
       /\ phase[m.req] = "settled" /\ m.proc = from[m.req]
       /\ m.body = verdict[m.req]
  /\ \A m, n \in Replies : m.req = n.req => m = n
  /\ outbox \cap written = {}

\* Only roster rows wait.
RowInv == \A s \in Sessions : awaiting[s] => s \in row

RequestsInv == RequestsTypeOK /\ TableInv /\ ReplyInv /\ RowInv /\ AwaitingHasRequest

LEMMA RequestsInitInv == RequestsInit => RequestsInv
  BY RequestsAssumption DEF RequestsInit, RequestsInv, RequestsTypeOK, TableInv, ReplyInv,
       Replies, RowInv,
     AwaitingHasRequest,
     Reqs, Agents, NoAgent, Verdicts, Reply, Pending

\* The awaiting flags stay booleans.
LEMMA AwaitingType ==
  ASSUME NEW S, NEW W, SetAwaiting(S, W), awaiting \in [Sessions -> BOOLEAN]
  PROVE  awaiting' \in [Sessions -> BOOLEAN]
  <1>1. ASSUME NEW s \in Sessions
        PROVE  (IF s \in S \cap row THEN s \in W ELSE awaiting[s]) \in BOOLEAN
    <2>1. CASE s \in S \cap row
      <3>1. (s \in W) \in BOOLEAN
        OBVIOUS
      <3> QED BY <2>1, <3>1, Zenon
    <2>2. CASE s \notin S \cap row
      <3>1. awaiting[s] \in BOOLEAN
        OBVIOUS
      <3> QED BY <2>2, <3>1, Zenon
    <2> QED BY <2>1, <2>2
  <1> QED BY <1>1, Zenon DEF SetAwaiting

\* What every settlement relies on: it keeps the verdicts that were given, and
\* answers each request it wins by the process that asked.
LEMMA SettleKeeps ==
  ASSUME RequestsInv, NEW R \in SUBSET Reqs, NEW v \in [Reqs -> Verdicts \cup {"none"}],
         NEW dest \in [Reqs -> 0..MaxAgents],
         Settle(R, v, dest),
         \A r \in Reqs : verdict[r] # "none" => v[r] = verdict[r],
         \A r \in Reqs : v[r] = "answer" => verdict[r] = "answer",
         \A r \in Reqs : phase[r] = "unused" => v[r] = "none",
         \A r \in R : phase[r] = "pending" => v[r] # "none" /\ dest[r] = from[r],
         goroutine' \in [Reqs -> {"none", "wait", "resolve", "expire", "gone"}],
         \A r \in Reqs : phase[r] = "unused" => goroutine'[r] = "none",
         \A r \in Reqs : goroutine'[r] = "resolve" => goroutine[r] = "resolve",
         UNCHANGED <<proc, agents, count, from, of, deadline, retired, unloading, row,
                     accepted, written>>
  PROVE  RequestsInv'
  <1> DEFINE won == R \cap Pending
             new == {ReplyOf(r, dest[r], v) : r \in won}
  <1>0. \A r \in won : r \in Reqs /\ phase[r] = "pending" /\ ~retired[r] /\ v[r] # "none"
                       /\ dest[r] = from[r] /\ from[r] \in Agents /\ told[r] = 0
    BY DEF Pending, RequestsInv, RequestsTypeOK, TableInv, Agents, NoAgent
  <1>1. /\ verdict' = v
        /\ phase' = [r \in Reqs |-> IF r \in won THEN "settled" ELSE phase[r]]
        /\ told' = [r \in Reqs |-> IF r \in won THEN told[r] + 1 ELSE told[r]]
        /\ SetAwaiting({of[r] : r \in won}, StillAwaiting(won))
        /\ outbox' = outbox \cup new
    <2>1. {r \in won : ~retired[r]} = won
      BY <1>0
    <2> QED BY <2>1 DEF Settle, Claimed
  <1>2. new \subseteq Reply
    BY <1>0 DEF ReplyOf, Reply
  <1>3. \A m \in new : m.req \in won /\ m.proc = from[m.req] /\ m.body = v[m.req]
    BY <1>0 DEF ReplyOf
  <1>4. RequestsTypeOK'
    <2>1. told' \in [Reqs -> 0..1]
      BY <1>0, <1>1 DEF RequestsInv, RequestsTypeOK
    <2>2. awaiting' \in [Sessions -> BOOLEAN]
      BY <1>1, AwaitingType DEF RequestsInv, RequestsTypeOK
    <2>3. phase' \in [Reqs -> {"unused", "pending", "settled"}]
      BY <1>1 DEF RequestsInv, RequestsTypeOK
    <2>4. outbox' \subseteq Reply
      BY <1>1, <1>2 DEF RequestsInv, RequestsTypeOK
    <2> QED BY <1>1, <2>1, <2>2, <2>3, <2>4 DEF RequestsInv, RequestsTypeOK
  <1>5. TableInv'
    BY <1>0, <1>1 DEF RequestsInv, RequestsTypeOK, TableInv, NoAgent
  <1>6. ReplyInv'
    <2>1. \A m \in Replies : m.req \in Reqs /\ phase[m.req] = "settled" /\ m.req \notin won
      BY <1>0 DEF RequestsInv, RequestsTypeOK, ReplyInv, Replies, Reply
    <2>2. Replies' = Replies \cup new
      BY <1>1 DEF Replies
    <2>3. \A m \in Replies' : phase'[m.req] = "settled" /\ m.proc = from'[m.req]
                              /\ m.body = verdict'[m.req]
      BY <1>0, <1>1, <1>3, <2>1, <2>2 DEF RequestsInv, ReplyInv, TableInv
    <2>4. \A m, n \in new : m.req = n.req => m = n
      BY DEF ReplyOf
    <2>5. \A m, n \in Replies' : m.req = n.req => m = n
      BY <1>3, <2>1, <2>2, <2>4 DEF RequestsInv, ReplyInv
    <2>6. outbox' \cap written' = {}
      BY <1>1, <1>3, <2>1 DEF RequestsInv, ReplyInv, Replies
    <2> QED BY <2>3, <2>5, <2>6 DEF ReplyInv, Replies
  <1>7. AwaitingHasRequest'
    <2> SUFFICES ASSUME NEW s \in Sessions, awaiting'[s]
                 PROVE  \E r \in Reqs : phase'[r] = "pending" /\ of[r] = s
      BY DEF AwaitingHasRequest, Pending
    <2>1. CASE s \in {of[r] : r \in won} \cap row
      <3>1. s \in StillAwaiting(won)
        BY <1>1, <2>1 DEF SetAwaiting
      <3>2. PICK q \in Pending \ won : of[q] = s
        BY <3>1 DEF StillAwaiting
      <3> QED BY <1>1, <3>2 DEF Pending
    <2>2. CASE s \notin {of[r] : r \in won} \cap row
      <3>1. awaiting[s]
        BY <1>1, <2>2 DEF SetAwaiting
      <3>2. PICK q \in Pending : of[q] = s
        BY <3>1 DEF RequestsInv, AwaitingHasRequest
      <3>3. s \in row
        BY <3>1 DEF RequestsInv, RowInv
      <3> QED BY <1>1, <2>2, <3>2, <3>3 DEF Pending
    <2> QED BY <2>1, <2>2
  <1>8. RowInv'
    BY <1>1 DEF SetAwaiting, RequestsInv, RowInv
  <1> QED BY <1>4, <1>5, <1>6, <1>7, <1>8 DEF RequestsInv

-----------------------------------------------------------------------------
(* One lemma per step that is more than an assignment or two *)

LEMMA ForwardKeeps == RequestsInv /\ Forward => RequestsInv'
  <1> SUFFICES ASSUME RequestsInv, Forward PROVE RequestsInv'
    OBVIOUS
  <1> DEFINE r == count + 1
  <1>1. r \in Reqs /\ phase[r] = "unused" /\ verdict[r] = "none" /\ told[r] = 0
    BY RequestsAssumption DEF Forward, RequestsInv, RequestsTypeOK, TableInv, Reqs
  <1>2. /\ count' = r /\ phase' = [phase EXCEPT ![r] = "pending"]
        /\ from' = [from EXCEPT ![r] = proc] /\ goroutine' = [goroutine EXCEPT ![r] = "wait"]
        /\ SetAwaiting({of[r]}, {of[r]}) /\ proc # NoAgent
        /\ UNCHANGED <<proc, agents, of, deadline, verdict, retired, outbox, unloading, row,
                     requestHistory>>
    BY DEF Forward
  <1>3. ~retired[r] /\ proc \in Agents
    BY <1>1, <1>2 DEF RequestsInv, RequestsTypeOK, TableInv, NoAgent
  <1>4. RequestsTypeOK'
    <2>1. count' \in 0..MaxReq
      BY <1>1, <1>2 DEF Reqs
    <2>2. awaiting' \in [Sessions -> BOOLEAN]
      BY <1>2, AwaitingType DEF RequestsInv, RequestsTypeOK
    <2>3. from' \in [Reqs -> 0..MaxAgents]
      BY <1>1, <1>2, RequestsAssumption DEF RequestsInv, RequestsTypeOK, NoAgent, Agents
    <2> QED BY <1>2, <2>1, <2>2, <2>3 DEF RequestsInv, RequestsTypeOK, requestHistory
  <1>5. TableInv'
    BY <1>1, <1>2, <1>3 DEF RequestsInv, RequestsTypeOK, TableInv, requestHistory, Reqs
  <1>6. ReplyInv'
    BY <1>1, <1>2 DEF RequestsInv, RequestsTypeOK, ReplyInv, Replies, Reply, requestHistory
  <1>7. AwaitingHasRequest' /\ RowInv'
    BY <1>1, <1>2 DEF SetAwaiting, RequestsInv, RequestsTypeOK, AwaitingHasRequest, RowInv,
         Pending
  <1> QED BY <1>4, <1>5, <1>6, <1>7 DEF RequestsInv

LEMMA AnswerKeeps == ASSUME RequestsInv, NEW r \in Reqs, AnswerRequest(r) PROVE RequestsInv'
  <1>1. RequestsTypeOK'
    BY DEF AnswerRequest, RequestsInv, RequestsTypeOK, rowVars, Verdicts
  <1>2. TableInv'
    BY DEF AnswerRequest, RequestsInv, RequestsTypeOK, TableInv, rowVars
  <1>3. ReplyInv'
    BY DEF AnswerRequest, RequestsInv, RequestsTypeOK, ReplyInv, Replies, Reply
  <1>4. AwaitingHasRequest' /\ RowInv'
    BY DEF AnswerRequest, RequestsInv, AwaitingHasRequest, RowInv, Pending, rowVars
  <1> QED BY <1>1, <1>2, <1>3, <1>4 DEF RequestsInv

LEMMA ResolveKeeps == ASSUME RequestsInv, NEW r \in Reqs, Resolve(r) PROVE RequestsInv'
  <1>1. /\ goroutine[r] = "resolve" /\ goroutine' = [goroutine EXCEPT ![r] = "gone"]
        /\ Settle({r}, verdict, from)
        /\ UNCHANGED <<proc, agents, count, from, of, deadline, retired, unloading, row,
                       accepted, written>>
    BY DEF Resolve
  <1>2. verdict[r] # "none" /\ phase[r] # "unused"
    BY <1>1 DEF RequestsInv, TableInv
  <1>3. verdict \in [Reqs -> Verdicts \cup {"none"}] /\ from \in [Reqs -> 0..MaxAgents]
        /\ goroutine \in [Reqs -> {"none", "wait", "resolve", "expire", "gone"}]
    BY DEF RequestsInv, RequestsTypeOK
  <1>4. \A q \in Reqs : phase[q] = "unused" => verdict[q] = "none" /\ goroutine[q] = "none"
    BY DEF RequestsInv, TableInv
  <1> QED BY <1>1, <1>2, <1>3, <1>4, SettleKeeps

LEMMA ExpireKeeps == ASSUME RequestsInv, NEW r \in Reqs, Expire(r) PROVE RequestsInv'
  <1>1. /\ goroutine[r] = "expire" /\ goroutine' = [goroutine EXCEPT ![r] = "gone"]
        /\ Settle({r}, Timed(r), from)
        /\ UNCHANGED <<proc, agents, count, from, of, deadline, retired, unloading, row,
                       accepted, written>>
    BY DEF Expire, Expires
  <1>2. phase[r] # "unused"
    BY <1>1 DEF RequestsInv, TableInv
  <1>3. verdict \in [Reqs -> Verdicts \cup {"none"}] /\ from \in [Reqs -> 0..MaxAgents]
        /\ goroutine \in [Reqs -> {"none", "wait", "resolve", "expire", "gone"}]
    BY DEF RequestsInv, RequestsTypeOK
  <1>4. \A q \in Reqs : phase[q] = "unused" => verdict[q] = "none" /\ goroutine[q] = "none"
    BY DEF RequestsInv, TableInv
  <1>5. /\ Timed(r) \in [Reqs -> Verdicts \cup {"none"}] /\ Timed(r)[r] # "none"
        /\ \A q \in Reqs : q # r \/ verdict[q] # "none" => Timed(r)[q] = verdict[q]
        /\ \A q \in Reqs : Timed(r)[q] = "answer" => verdict[q] = "answer"
    BY <1>3 DEF Timed, Verdicts
  <1> QED BY <1>1, <1>2, <1>3, <1>4, <1>5, SettleKeeps

LEMMA CancelKeeps == ASSUME RequestsInv, NEW s \in Sessions, Cancel(s) PROVE RequestsInv'
  <1> DEFINE R == {r \in Pending : of[r] = s}
             dest == [q \in Reqs |-> proc]
  <1>1. /\ R \in SUBSET Reqs /\ Settle(R, Cancelled(R), dest)
        /\ UNCHANGED <<proc, agents, count, from, of, deadline, retired, goroutine, unloading,
                     row,
                       accepted, written>>
    BY DEF Cancel, Pending
  <1>2. \A r \in R : phase[r] = "pending" /\ from[r] = proc
    BY DEF Pending, RequestsInv, TableInv
  <1>3. verdict \in [Reqs -> Verdicts \cup {"none"}] /\ proc \in 0..MaxAgents
        /\ goroutine \in [Reqs -> {"none", "wait", "resolve", "expire", "gone"}]
    BY RequestsAssumption DEF RequestsInv, RequestsTypeOK, NoAgent, Agents
  <1>4. \A q \in Reqs : phase[q] = "unused" => verdict[q] = "none" /\ goroutine[q] = "none"
    BY DEF RequestsInv, TableInv
  <1>5. /\ Cancelled(R) \in [Reqs -> Verdicts \cup {"none"}]
        /\ \A q \in Reqs : q \notin R \/ verdict[q] # "none" => Cancelled(R)[q] = verdict[q]
        /\ \A q \in Reqs : Cancelled(R)[q] = "answer" => verdict[q] = "answer"
        /\ \A q \in R : Cancelled(R)[q] # "none"
    BY <1>1, <1>3 DEF Cancelled, Verdicts
  <1>6. dest \in [Reqs -> 0..MaxAgents] /\ \A q \in R : dest[q] = from[q]
    BY <1>1, <1>2, <1>3
  <1>7. \A q \in Reqs : phase[q] = "unused" => Cancelled(R)[q] = "none"
    BY <1>2, <1>4, <1>5
  <1> HIDE DEF R, dest
  <1> QED BY <1>1, <1>3, <1>4, <1>5, <1>6, <1>7, SettleKeeps

LEMMA ResetKeeps == RequestsInv /\ Reset => RequestsInv'
  <1> SUFFICES ASSUME RequestsInv, Reset PROVE RequestsInv'
    OBVIOUS
  <1>1. /\ verdict' = Cancelled(Pending) /\ proc' = NoAgent
        /\ phase' = [r \in Reqs |-> IF r \in Pending THEN "settled" ELSE phase[r]]
        /\ told' = [r \in Reqs |-> IF r \in Pending THEN told[r] + 1 ELSE told[r]]
        /\ retired' = [r \in Reqs |-> retired[r] \/ r \in Pending]
        /\ row' = {} /\ awaiting' = [s \in Sessions |-> FALSE]
        /\ UNCHANGED <<agents, count, from, of, deadline, goroutine, outbox, unloading,
                       accepted, written>>
    BY DEF Reset, Retired
  <1>2. \A r \in Pending : r \in Reqs /\ phase[r] = "pending" /\ told[r] = 0
    BY DEF Pending, RequestsInv, TableInv
  <1>3. /\ verdict' \in [Reqs -> Verdicts \cup {"none"}]
        /\ \A r \in Reqs : r \notin Pending \/ verdict[r] # "none" => verdict'[r] = verdict[r]
        /\ \A r \in Reqs : verdict'[r] = "answer" <=> verdict[r] = "answer"
        /\ \A r \in Pending : verdict'[r] # "none"
    BY <1>1, <1>2 DEF Cancelled, Verdicts, RequestsInv, RequestsTypeOK
  <1>4. RequestsTypeOK'
    <2>1. retired' \in [Reqs -> BOOLEAN]
      BY <1>1 DEF RequestsInv, RequestsTypeOK
    <2>2. told' \in [Reqs -> 0..1]
      BY <1>1, <1>2 DEF RequestsInv, RequestsTypeOK
    <2>3. phase' \in [Reqs -> {"unused", "pending", "settled"}]
      BY <1>1 DEF RequestsInv, RequestsTypeOK
    <2> QED BY <1>1, <1>3, <2>1, <2>2, <2>3 DEF RequestsInv, RequestsTypeOK, NoAgent
  <1>5. TableInv'
    <2> SUFFICES ASSUME NEW r \in Reqs
                 PROVE  /\ r > count => phase'[r] = "unused"
                        /\ phase'[r] = "unused" => verdict'[r] = "none" /\ told'[r] = 0 /\ goroutine[r] = "none"
                                                    /\ ~retired'[r]
                        /\ phase'[r] # "pending"
                        /\ phase'[r] = "settled" => verdict'[r] # "none" /\ told'[r] = 1
                        /\ goroutine[r] = "resolve" => verdict'[r] # "none"
                        /\ r \in accepted <=> verdict'[r] = "answer"
      BY <1>1 DEF TableInv
    <2>1. CASE r \in Pending
      BY <1>1, <1>2, <1>3, <2>1 DEF RequestsInv, RequestsTypeOK, TableInv
    <2>2. CASE r \notin Pending
      BY <1>1, <1>3, <2>2 DEF RequestsInv, RequestsTypeOK, TableInv, Pending
    <2> QED BY <2>1, <2>2
  <1>6. ReplyInv'
    BY <1>1, <1>2, <1>3 DEF RequestsInv, RequestsTypeOK, ReplyInv, Replies, Reply, TableInv
  <1>7. AwaitingHasRequest' /\ RowInv'
    BY <1>1 DEF AwaitingHasRequest, RowInv
  <1> QED BY <1>4, <1>5, <1>6, <1>7 DEF RequestsInv

LEMMA WriteKeeps == ASSUME RequestsInv, NEW m \in outbox, Write(m) PROVE RequestsInv'
  <1>1. /\ outbox' = outbox \ {m} /\ written' \in {written, written \cup {m}}
        /\ UNCHANGED <<proc, agents, tableVars, rowVars, accepted, told>>
    BY DEF Write
  <1>2. RequestsTypeOK'
    BY <1>1 DEF RequestsInv, RequestsTypeOK, tableVars, rowVars
  <1>3. TableInv' /\ AwaitingHasRequest' /\ RowInv'
    BY <1>1 DEF RequestsInv, TableInv, AwaitingHasRequest, RowInv, Pending, tableVars, rowVars
  <1>4. ReplyInv'
    BY <1>1 DEF RequestsInv, ReplyInv, Replies, tableVars
  <1> QED BY <1>2, <1>3, <1>4 DEF RequestsInv

-----------------------------------------------------------------------------
(* The invariant is inductive *)

LEMMA NextKeeps == RequestsInv /\ [RequestsNext]_requestVars => RequestsInv'
  <1> SUFFICES ASSUME RequestsInv, [RequestsNext]_requestVars PROVE RequestsInv'
    OBVIOUS
  <1>1. CASE SpawnAgent
    <2>1. proc = NoAgent /\ proc' = agents + 1 /\ agents' = agents + 1 /\ agents < MaxAgents
          /\ UNCHANGED <<tableVars, outbox, rowVars, requestHistory>>
      BY <1>1 DEF SpawnAgent
    <2>2. RequestsTypeOK'
      BY <2>1, RequestsAssumption DEF RequestsInv, RequestsTypeOK, Agents, tableVars, rowVars,
           requestHistory
    <2>3. TableInv'
      BY <2>1 DEF RequestsInv, TableInv, tableVars, requestHistory
    <2>4. ReplyInv' /\ AwaitingHasRequest' /\ RowInv'
      BY <2>1 DEF RequestsInv, ReplyInv, Replies, AwaitingHasRequest, RowInv, Pending, tableVars,
           rowVars,
                  requestHistory
    <2> QED BY <2>2, <2>3, <2>4 DEF RequestsInv
  <1>2. CASE Forward
    BY <1>2, ForwardKeeps
  <1>3. CASE Reset
    BY <1>3, ResetKeeps
  <1>4. ASSUME NEW r \in Reqs, AnswerRequest(r) PROVE RequestsInv'
    BY <1>4, AnswerKeeps
  <1>5. ASSUME NEW r \in Reqs, Waiter(r) PROVE RequestsInv'
    <2>1. CASE WaiterDone(r)
      BY <2>1 DEF WaiterDone, RequestsInv, RequestsTypeOK, TableInv, ReplyInv, Replies,
           AwaitingHasRequest, RowInv,
                  Pending, rowVars, requestHistory
    <2> QED BY <1>5, <2>1, ResolveKeeps, ExpireKeeps DEF Waiter
  <1>6. ASSUME NEW r \in Reqs, WaiterTimer(r) PROVE RequestsInv'
    BY <1>6 DEF WaiterTimer, RequestsInv, RequestsTypeOK, TableInv, ReplyInv, Replies,
         AwaitingHasRequest, RowInv,
                Pending, rowVars, requestHistory
  <1>7. ASSUME NEW m \in outbox, Write(m) PROVE RequestsInv'
    BY <1>7, WriteKeeps
  <1>8. ASSUME NEW s \in Sessions, Cancel(s) PROVE RequestsInv'
    BY <1>8, CancelKeeps
  <1>9. ASSUME NEW s \in Sessions,
               Load(s) \/ Forget(s) \/ Unload(s) \/ MarkUnloaded(s)
        PROVE  RequestsInv'
    <2>1. /\ UNCHANGED <<proc, agents, tableVars, outbox, requestHistory>>
          /\ row' \in {row \cup {s}, row \ {s}, row}
          /\ unloading' \in SUBSET Sessions
          /\ \/ awaiting' = [awaiting EXCEPT ![s] = FALSE]
             \/ UNCHANGED <<row, awaiting>>
      BY <1>9 DEF Load, Forget, Unload, MarkUnloaded, RequestsInv, RequestsTypeOK
    <2>2. RequestsTypeOK'
      BY <2>1 DEF RequestsInv, RequestsTypeOK, tableVars, requestHistory
    <2>3. TableInv' /\ ReplyInv'
      BY <2>1 DEF RequestsInv, TableInv, ReplyInv, Replies, tableVars, requestHistory
    <2>4. RowInv' /\ AwaitingHasRequest'
      BY <2>1 DEF RequestsInv, RequestsTypeOK, RowInv, AwaitingHasRequest, Pending, tableVars
    <2> QED BY <2>2, <2>3, <2>4 DEF RequestsInv
  <1>10. CASE UNCHANGED requestVars
    BY <1>10 DEF requestVars, tableVars, rowVars, requestHistory, RequestsInv, RequestsTypeOK,
         TableInv, ReplyInv, Replies,
                 AwaitingHasRequest, RowInv, Pending
  <1> QED BY <1>1, <1>2, <1>3, <1>4, <1>5, <1>6, <1>7, <1>8, <1>9, <1>10 DEF RequestsNext

LEMMA RequestsInvariantHolds == RequestsSpec => []RequestsInv
  BY RequestsInitInv, NextKeeps, PTL DEF RequestsSpec

-----------------------------------------------------------------------------
(* What follows from it *)

\* Type correctness of the request table, its goroutines and replies.
THEOREM RequestsTypeCorrect == RequestsSpec => []RequestsTypeOK
  <1>1. RequestsInv => RequestsTypeOK
    BY DEF RequestsInv
  <1> QED BY <1>1, RequestsInvariantHolds, PTL

\* Answers, timers, cancels and resets of the process race in any order: a
\* request leaves the table once, with one event and at most one reply.
THEOREM OneSettlement == RequestsSpec => []SettledOnce
  <1>1. RequestsInv => SettledOnce
    BY DEF RequestsInv, RequestsTypeOK, TableInv, ReplyInv, Replies, SettledOnce
  <1> QED BY <1>1, RequestsInvariantHolds, PTL

\* No reply goes to a process other than the one that asked, however often the
\* agent is replaced.
THEOREM RepliesReachTheirProcess == RequestsSpec => []OwnProcess
  <1>1. RequestsInv => OwnProcess
    BY DEF RequestsInv, TableInv, ReplyInv, Replies, OwnProcess, Pending
  <1> QED BY <1>1, RequestsInvariantHolds, PTL

\* An answer that a browser was told was accepted is the one the agent gets.
THEOREM AcceptedAnswerWins == RequestsSpec => []AcceptedWins
  <1>1. ASSUME RequestsInv PROVE AcceptedWins
    <2>1. \A r \in accepted : verdict[r] = "answer"
      BY <1>1 DEF RequestsInv, RequestsTypeOK, TableInv
    <2>2. \A m \in outbox \cup written : m.req \in Reqs /\ m.body = verdict[m.req]
      BY <1>1 DEF RequestsInv, RequestsTypeOK, ReplyInv, Replies, Reply
    <2>3. \A m \in outbox \cup written : (m.body = "answer") <=> (m.req \in accepted)
      BY <1>1, <2>2 DEF RequestsInv, TableInv
    <2> QED BY <2>1, <2>3 DEF AcceptedWins
  <1> QED BY <1>1, RequestsInvariantHolds, PTL

\* All three: one reply, to whom it is due, and the one a browser was told of.
THEOREM RepliesRight == RequestsSpec => []OneReply
  <1>1. SettledOnce /\ OwnProcess /\ AcceptedWins => OneReply
    BY DEF OneReply
  <1> QED BY <1>1, OneSettlement, RepliesReachTheirProcess, AcceptedAnswerWins, PTL

\* A session's row waits for input only while a request of that session is open.
THEOREM AwaitingIsFounded == RequestsSpec => []AwaitingHasRequest
  <1>1. RequestsInv => AwaitingHasRequest
    BY DEF RequestsInv
  <1> QED BY <1>1, RequestsInvariantHolds, PTL

-----------------------------------------------------------------------------
(* An action property *)

\* A settlement stops a session waiting only when no request of it is left.
LEMMA SettleSpares ==
  ASSUME NEW R, NEW v, NEW dest, Settle(R, v, dest), UNCHANGED row,
         NEW s \in Sessions, awaiting[s], ~awaiting'[s],
         NEW r \in Reqs, phase'[r] = "pending", of[r] = s
  PROVE  FALSE
  <1> DEFINE won == R \cap Pending
  <1>1. /\ phase' = [q \in Reqs |-> IF q \in won THEN "settled" ELSE phase[q]]
        /\ SetAwaiting({of[q] : q \in won}, StillAwaiting(won))
    BY DEF Settle, Claimed
  <1>2. r \in Pending \ won
    BY <1>1 DEF Pending
  <1>3. s \in StillAwaiting(won)
    BY <1>2 DEF StillAwaiting
  <1> QED BY <1>1, <1>3 DEF SetAwaiting

\* Settling one request of a session leaves its row waiting for the others.
THEOREM SiblingsAreSpared == RequestsSpec => SiblingsKeepAwaiting
  <1> DEFINE A == \A s \in Sessions :
                    awaiting[s] /\ ~awaiting'[s] /\ s \in row' /\ unloading' = unloading =>
                      ~\E r \in Reqs : phase'[r] = "pending" /\ of[r] = s
  <1>1. ASSUME RequestsInv, [RequestsNext]_requestVars PROVE [A]_requestVars
    <2> SUFFICES ASSUME RequestsNext,
                        NEW s \in Sessions, awaiting[s], ~awaiting'[s], s \in row',
                        unloading' = unloading,
                        NEW r \in Reqs, phase'[r] = "pending", of[r] = s
                 PROVE  FALSE
      BY <1>1
    <2>1. s \in row /\ awaiting \in [Sessions -> BOOLEAN]
      BY <1>1 DEF RequestsInv, RowInv, RequestsTypeOK
    <2>2. CASE SpawnAgent
      BY <2>2 DEF SpawnAgent, rowVars
    <2>3. CASE Forward
      BY <2>3 DEF Forward, SetAwaiting
    <2>4. CASE Reset
      BY <2>4 DEF Reset
    <2>5. ASSUME NEW q \in Reqs, AnswerRequest(q) \/ WaiterDone(q) \/ WaiterTimer(q) PROVE FALSE
      BY <2>5 DEF AnswerRequest, WaiterDone, WaiterTimer, rowVars
    <2>6. ASSUME NEW q \in Reqs, Resolve(q) \/ Expire(q) PROVE FALSE
      BY <2>6, SettleSpares DEF Resolve, Expire
    <2>7. ASSUME NEW x \in Sessions, Cancel(x) PROVE FALSE
      BY <2>7, SettleSpares DEF Cancel
    <2>8. ASSUME NEW m \in outbox, Write(m) PROVE FALSE
      BY <2>8 DEF Write, rowVars
    <2>9. ASSUME NEW x \in Sessions, Load(x) \/ Forget(x) \/ Unload(x) \/ MarkUnloaded(x)
          PROVE  FALSE
      BY <2>1, <2>9 DEF Load, Forget, Unload, MarkUnloaded
    <2> QED BY <2>2, <2>3, <2>4, <2>5, <2>6, <2>7, <2>8, <2>9 DEF RequestsNext, Waiter
  <1> QED BY <1>1, RequestsInvariantHolds, PTL DEF RequestsSpec, SiblingsKeepAwaiting
=============================================================================
