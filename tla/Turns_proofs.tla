---------------------------- MODULE Turns_proofs ----------------------------
(***************************************************************************)
(* Proofs about Turns, for every number of sessions, calls and rows.       *)
(***************************************************************************)
EXTENDS Turns, FiniteSetTheorems, TLAPS

-----------------------------------------------------------------------------
(* Type correctness *)

\* A call that works on a session knows which.
OnSession == {"load", "loading", "resume", "resuming", "boot", "sent", "release"}

TypeInv ==
  /\ TypeOK
  /\ \A t \in Threads :
       pc[t] \in OnSession \/ (pc[t] = "loaded" /\ then[t] = "begin") => tgt[t] \in Sessions

LEMMA TypeInit == Init => TypeInv
  BY TurnsAssumption DEF Init, TypeInv, TypeOK, OnSession, NoRow

\* The two legs of busy keep their types.
LEMMA TypeLegs ==
  ASSUME TypeInv, NEW s \in Sessions, NEW c \in Nat, NEW o \in BOOLEAN
  PROVE  /\ Sync(s, c, o) => busy' \in [Sessions -> BOOLEAN]
         /\ SetOpen(s, o) => open' \in [Sessions -> BOOLEAN]
  BY DEF TypeInv, TypeOK, Sync, SetOpen, HasRow

\* A row made, kept or focused.
LEMMA TypeFocus ==
  ASSUME TypeInv, NEW s \in Sessions, Focus(s)
  PROVE  /\ obj' \in [Sessions -> 0..MaxObj] /\ objs' \in 0..MaxObj
         /\ unloaded' \in [Sessions -> BOOLEAN] /\ active' \in Sessions /\ last' \in Sessions
  BY TurnsAssumption DEF TypeInv, TypeOK, Focus, HasRow, NoRow

\* Rows dropped.
LEMMA TypeDrop ==
  ASSUME TypeInv, NEW S \in SUBSET Sessions, Drop(S)
  PROVE  /\ obj' \in [Sessions -> 0..MaxObj] /\ count' \in [Sessions -> Nat]
         /\ busy' \in [Sessions -> BOOLEAN] /\ unloaded' \in [Sessions -> BOOLEAN]
         /\ awaiting' \in [Sessions -> BOOLEAN] /\ open' \in [Sessions -> BOOLEAN]
  <1> USE TurnsAssumption DEF TypeInv, TypeOK
  <1>1. obj' \in [Sessions -> 0..MaxObj] /\ count' \in [Sessions -> Nat]
    BY DEF Drop, NoRow
  <1>2. busy' \in [Sessions -> BOOLEAN] /\ unloaded' \in [Sessions -> BOOLEAN]
    BY Zenon DEF Drop
  <1>3. awaiting' \in [Sessions -> BOOLEAN] /\ open' \in [Sessions -> BOOLEAN]
    BY Zenon DEF Drop
  <1> QED BY <1>1, <1>2, <1>3

\* What a prompt does with a session it knows.
LEMMA TypePromptTo ==
  ASSUME TypeInv, NEW t \in Threads, NEW s \in Sessions, PromptTo(t, s),
         calls' \in 0..MaxCalls,
         UNCHANGED <<obj, objs, unloaded, awaiting, sweep, working, used, demoted>>
  PROVE  TypeInv'
  <1> USE TurnsAssumption DEF TypeInv, TypeOK, OnSession, sweep
  <1>1. CASE Return(t)
    BY <1>1 DEF Return, Done, Goto, focus, NoRow
  <1>2. CASE LoadFirst(t, s, "begin")
    BY <1>2 DEF LoadFirst, Goto, focus
  <1>3. CASE Begin(t, s)
    <2>1. count[s] + 1 \in Nat
      OBVIOUS
    <2>2. busy' \in [Sessions -> BOOLEAN] /\ open' \in [Sessions -> BOOLEAN]
      <3> HIDE DEF TypeInv
      <3> QED BY <1>3, <2>1, TypeLegs, Zenon DEF Begin
    <2> QED BY <1>3, <2>1, <2>2 DEF Begin, Goto
  <1> QED BY <1>1, <1>2, <1>3 DEF PromptTo

LEMMA TypeStep == TypeInv /\ [Next]_vars => TypeInv'
  <1> SUFFICES ASSUME TypeInv, [Next]_vars PROVE TypeInv'
    OBVIOUS
  <1> USE TurnsAssumption DEF TypeInv, TypeOK, OnSession, rowVars, focus, callVars, sweep
  <1>1. ASSUME NEW s \in Sessions, Evidence(s) \/ Completed(s) \/ Settle(s) PROVE TypeInv'
    <2>1. busy' \in [Sessions -> BOOLEAN] /\ open' \in [Sessions -> BOOLEAN]
      BY <1>1, TypeLegs DEF Evidence, Completed, Settle, NoteActivity, NoteEnd
    <2> QED BY <1>1, <2>1 DEF Evidence, Completed, Settle, others
  <1>2. ASSUME NEW s \in Sessions, Work(s) PROVE TypeInv'
    BY <1>2 DEF Work
  <1>3. ASSUME NEW s \in Sessions, Awaiting(s) PROVE TypeInv'
    <2>1. busy' \in [Sessions -> BOOLEAN] /\ open' \in [Sessions -> BOOLEAN]
      BY <1>3, TypeLegs DEF Awaiting, NoteActivity
    <2> QED BY <1>3, <2>1 DEF Awaiting, HasRow
  <1>4. ASSUME NEW s \in Sessions, Answered(s) PROVE TypeInv'
    BY <1>4 DEF Answered
  <1>5. ASSUME NEW t \in Threads, Replay(t) PROVE TypeInv'
    <2>1. busy' \in [Sessions -> BOOLEAN] /\ open' \in [Sessions -> BOOLEAN]
      BY <1>5, TypeLegs DEF Replay, NoteActivity, NoteEnd
    <2> QED BY <1>5, <2>1 DEF Replay, others
  <1>6. ASSUME NEW t \in Threads, Prompt(t) PROVE TypeInv'
    <2>1. calls' \in 0..MaxCalls
      BY <1>6 DEF Prompt
    <2>2. CASE active # None /\ PromptTo(t, active)
      BY <1>6, <2>1, <2>2, TypePromptTo DEF Prompt
    <2>3. CASE \E s \in Sessions : PromptTo(t, s)
      BY <1>6, <2>1, <2>3, TypePromptTo DEF Prompt
    <2>4. CASE Goto(t, IF last # None THEN "restore" ELSE "new")
               /\ UNCHANGED <<tgt, held, then, ended, count, busy, open, focus>>
      BY <1>6, <2>1, <2>4 DEF Prompt, Goto
    <2> QED BY <1>6, <2>2, <2>3, <2>4 DEF Prompt, PromptActive
  <1>7. ASSUME NEW t \in Threads, Load(t) PROVE TypeInv'
    BY <1>7 DEF Load, LoadFirst, Goto
  <1>8. ASSUME NEW t \in Threads, Resume(t) PROVE TypeInv'
    BY <1>8 DEF Resume, Goto
  <1>9. ASSUME NEW t \in Threads, Restore(t) PROVE TypeInv'
    <2>1. CASE Return(t)
      BY <1>9, <2>1 DEF Restore, Return, Done, Goto, NoRow
    <2>2. CASE last # None /\ LoadFirst(t, last, "resolve")
      BY <1>9, <2>2 DEF Restore, LoadFirst, Goto
    <2> QED BY <1>9, <2>1, <2>2 DEF Restore
  <1>10. ASSUME NEW t \in Threads, FocusOnly(t) \/ ResumeFocus(t) PROVE TypeInv'
    BY ZenonT(40), <1>10 DEF FocusOnly, ResumeFocus, FocusBusy, Goto
  <1>11. ASSUME NEW t \in Threads, LoadRequest(t) \/ ResumeRequest(t) PROVE TypeInv'
    BY <1>11 DEF LoadRequest, ResumeRequest, Request, Goto
  <1>12. ASSUME NEW t \in Threads, LoadOk(t) \/ ResumeOk(t) PROVE TypeInv'
    <2>1. tgt[t] \in Sessions /\ Focus(tgt[t])
      BY <1>12 DEF LoadOk, ResumeOk, Answer
    <2> QED BY <1>12, <2>1, TypeFocus DEF LoadOk, ResumeOk, Answer, Goto
  <1>13. ASSUME NEW t \in Threads, NewOk(t) PROVE TypeInv'
    <2>1. PICK s \in Sessions : Focus(s) /\ used' = used \cup {s}
      BY <1>13 DEF NewOk
    <2> QED BY <1>13, <2>1, TypeFocus DEF NewOk, Goto
  <1>14. ASSUME NEW t \in Threads, LoadFailed(t) PROVE TypeInv'
    BY <1>14 DEF LoadFailed, Return, Done, Goto, NoRow
  <1>15. ASSUME NEW t \in Threads, Loaded(t) PROVE TypeInv'
    <2>1. calls' \in 0..MaxCalls
      BY <1>15 DEF Loaded
    <2>2. CASE Return(t)
      BY <1>15, <2>2 DEF Loaded, Return, Done, Goto, NoRow
    <2>3. CASE then[t] = "begin" /\ Begin(t, tgt[t])
      <3>1. tgt[t] \in Sessions
        BY <1>15, <2>3 DEF Loaded
      <3>2. count[tgt[t]] + 1 \in Nat
        BY <3>1
      <3>3. busy' \in [Sessions -> BOOLEAN] /\ open' \in [Sessions -> BOOLEAN]
        <4> HIDE DEF TypeInv
        <4> QED BY <2>3, <3>1, <3>2, TypeLegs, Zenon DEF Begin
      <3> QED BY <1>15, <2>3, <3>1, <3>2, <3>3 DEF Loaded, Begin, Goto
    <2>4. CASE active # None /\ PromptTo(t, active)
      BY <1>15, <2>1, <2>4, TypePromptTo DEF Loaded
    <2> QED BY <1>15, <2>2, <2>3, <2>4 DEF Loaded, Continue
  <1>16. ASSUME NEW t \in Threads, Boot(t) PROVE TypeInv'
    BY <1>16 DEF Boot, Goto
  <1>17. ASSUME NEW t \in Threads, Resolved(t) PROVE TypeInv'
    BY <1>17 DEF Resolved, Goto
  <1>18. ASSUME NEW t \in Threads, Release(t) PROVE TypeInv'
    <2> DEFINE s == tgt[t]
    <2>1. s \in Sessions
      BY <1>18 DEF Release
    <2>2. CASE Counted(t)
      <3>1. count[s] - 1 \in Nat
        BY <2>1, <2>2 DEF Counted
      <3>2. busy' \in [Sessions -> BOOLEAN] /\ open' \in [Sessions -> BOOLEAN]
        BY <1>18, <2>1, <2>2, <3>1, TypeLegs DEF Release
      <3>3. count' \in [Sessions -> Nat]
        BY <1>18, <2>1, <2>2, <3>1 DEF Release
      <3> QED BY <1>18, <3>2, <3>3 DEF Release, Done, Goto, NoRow
    <2>3. CASE ~Counted(t)
      BY <1>18, <2>3 DEF Release, Done, Goto, NoRow
    <2> QED BY <2>2, <2>3
  <1>19. ASSUME NEW s \in Sessions, Forget(s) PROVE TypeInv'
    BY <1>19, TypeDrop DEF Forget
  <1>20. CASE Reset
    BY <1>20, TypeDrop DEF Reset
  <1>21. CASE Sweep
    BY <1>21 DEF Sweep, Resident
  <1>22. ASSUME NEW s \in Sessions, Skip(s) \/ Close(s) PROVE TypeInv'
    BY <1>22 DEF Skip, Close
  <1>23. CASE MarkUnloaded
    <2>1. closing \in Sessions /\ obj[closing] \in 1..MaxObj
      BY <1>23 DEF MarkUnloaded, HasRow, NoRow
    <2>2. demoted' \subseteq 1..MaxObj
      BY <1>23, <2>1 DEF MarkUnloaded
    <2> QED BY <1>23, <2>1, <2>2 DEF MarkUnloaded, SetOpen
  <1>24. CASE NotClosed
    BY <1>24 DEF NotClosed
  <1>25. CASE UNCHANGED vars
    BY <1>25 DEF vars
  <1> QED
    BY <1>1, <1>2, <1>3, <1>4, <1>5, <1>6, <1>7, <1>8, <1>9, <1>10, <1>11, <1>12, <1>13, <1>14,
       <1>15, <1>16, <1>17, <1>18, <1>19, <1>20, <1>21, <1>22, <1>23, <1>24, <1>25 DEF Next, Call

\* Every variable keeps its type: busyCount never falls below zero, and a call
\* about a session never loses which one.
THEOREM TypeCorrect == Spec => []TypeOK
  <1>1. TypeInv => TypeOK
    BY DEF TypeInv
  <1> QED BY <1>1, TypeInit, TypeStep, PTL DEF Spec

-----------------------------------------------------------------------------
(* Prompts and the rows they started on *)

Flying == {"boot", "sent", "release"}

\* A row is of one session and is never made twice: a prompt started on the row it
\* holds can only ever count on the session it was for.
RowsInv ==
  /\ \A s \in Sessions : obj[s] <= objs /\ (obj[s] = NoRow => count[s] = 0)
  /\ \A s, u \in Sessions : obj[s] # NoRow /\ obj[s] = obj[u] => s = u
  /\ \A t \in Threads : held[t] <= objs
  /\ \A t \in Threads, s \in Sessions :
       pc[t] \in Flying /\ obj[s] # NoRow /\ held[t] = obj[s] => tgt[t] = s

\* What a step does to rows, counts and prompts in flight.
SameFlight ==
  \A t \in Threads : /\ pc'[t] \in Flying <=> pc[t] \in Flying
                     /\ pc[t] \in Flying => held'[t] = held[t] /\ tgt'[t] = tgt[t]
                     /\ held'[t] \in {held[t], NoRow}
Fewer ==
  /\ SameFlight /\ UNCHANGED <<objs, demoted>>
  /\ \A s \in Sessions : \/ obj'[s] = obj[s] /\ count'[s] = count[s]
                         \/ obj'[s] = NoRow /\ count'[s] = 0
Made(s) ==
  /\ SameFlight /\ UNCHANGED <<count, demoted>>
  /\ obj[s] = NoRow /\ objs' = objs + 1 /\ obj' = [obj EXCEPT ![s] = objs + 1]
Begun(t, s) ==
  /\ pc[t] \notin Flying /\ obj[s] # NoRow /\ pc' = [pc EXCEPT ![t] = "boot"]
  /\ tgt' = [tgt EXCEPT ![t] = s] /\ held' = [held EXCEPT ![t] = obj[s]]
  /\ count' = [count EXCEPT ![s] = count[s] + 1] /\ UNCHANGED <<obj, objs, demoted>>
Ended(t) ==
  /\ pc[t] = "release" /\ pc' = [pc EXCEPT ![t] = "idle"]
  /\ tgt' = [tgt EXCEPT ![t] = None] /\ held' = [held EXCEPT ![t] = NoRow]
  /\ count' = IF Counted(t) THEN [count EXCEPT ![tgt[t]] = count[tgt[t]] - 1] ELSE count
  /\ UNCHANGED <<obj, objs, demoted>>

\* A step takes rows away or leaves them, makes one, begins or ends a prompt, or
\* demotes a row.
LEMMA StepKinds ==
  ASSUME TypeInv, Next
  PROVE  \/ Fewer \/ MarkUnloaded \/ \E s \in Sessions : Made(s)
         \/ \E t \in Threads : Ended(t) \/ \E s \in Sessions : Begun(t, s)
  <1> DEFINE Kinds == \/ Fewer \/ MarkUnloaded \/ \E s \in Sessions : Made(s)
                      \/ \E t \in Threads : Ended(t) \/ \E s \in Sessions : Begun(t, s)
  <1> SUFFICES Kinds
    OBVIOUS
  <1> USE DEF TypeInv, TypeOK, Flying
  <1>0. ASSUME SameFlight, UNCHANGED <<obj, objs, count, demoted>> PROVE Fewer
    BY <1>0 DEF Fewer
  <1>1. ASSUME NEW s \in Sessions,
               \/ Evidence(s) \/ Completed(s) \/ Work(s) \/ Settle(s) \/ Awaiting(s) \/ Answered(s)
               \/ Skip(s) \/ Close(s)
        PROVE  Fewer
    <2>1. UNCHANGED <<pc, tgt, held, obj, objs, count, demoted>>
      BY <1>1 DEF Evidence, Completed, Work, Settle, Awaiting, Answered, Skip, Close,
         others, rowVars, callVars
    <2> QED BY <1>0, <2>1 DEF SameFlight
  <1>2. ASSUME Sweep \/ NotClosed \/ \E t \in Threads : Replay(t) PROVE Fewer
    <2>1. UNCHANGED <<pc, tgt, held, obj, objs, count, demoted>>
      BY <1>2 DEF Sweep, NotClosed, Replay, others, rowVars, callVars
    <2> QED BY <1>0, <2>1 DEF SameFlight
  <1>3. ASSUME NEW S \in SUBSET Sessions, Drop(S), UNCHANGED <<objs, callVars, demoted>>
        PROVE  Fewer
    <2>1. \A s \in Sessions : \/ obj'[s] = obj[s] /\ count'[s] = count[s]
                              \/ obj'[s] = NoRow /\ count'[s] = 0
      BY <1>3 DEF Drop
    <2>2. SameFlight
      BY <1>3 DEF callVars, SameFlight
    <2> QED BY <1>3, <2>1, <2>2 DEF Fewer
  <1>4. CASE Reset \/ \E s \in Sessions : Forget(s)
    BY <1>3, <1>4 DEF Reset, Forget
  <1>5. ASSUME NEW t \in Threads, pc[t] \notin Flying, Return(t),
               UNCHANGED <<obj, objs, demoted>>
        PROVE  Fewer
    <2>1. SameFlight
      BY <1>5 DEF SameFlight, Return, Done, Goto
    <2> QED BY <1>0, <1>5, <2>1 DEF Return
  <1>6. ASSUME NEW t \in Threads, NEW s, NEW next, pc[t] \notin Flying, LoadFirst(t, s, next),
               UNCHANGED <<obj, objs, demoted>>
        PROVE  Fewer
    <2>1. SameFlight
      BY <1>6 DEF SameFlight, LoadFirst, Goto
    <2> QED BY <1>0, <1>6, <2>1 DEF LoadFirst
  <1>7. ASSUME NEW t \in Threads, NEW s \in Sessions, pc[t] \notin Flying, obj[s] # NoRow,
               Begin(t, s), UNCHANGED <<obj, objs, demoted>>
        PROVE  Kinds
    BY <1>7 DEF Begin, Begun, Goto
  <1>8. ASSUME NEW t \in Threads, NEW s \in Sessions, pc[t] \notin Flying, PromptTo(t, s),
               UNCHANGED <<obj, objs, demoted>>
        PROVE  Kinds
    <2> HIDE DEF Kinds
    <2> QED BY <1>5, <1>6, <1>7, <1>8 DEF PromptTo, HasRow, Kinds
  <1>9. ASSUME NEW t \in Threads, NEW p \in {"restore", "new", "loading", "resuming", "loaded", "resume"},
               pc[t] \notin Flying, Goto(t, p), UNCHANGED <<held, obj, objs, count, demoted>>,
               \A x \in Threads \ {t} : tgt'[x] = tgt[x]
        PROVE  Fewer
    <2>1. SameFlight
      BY <1>9 DEF SameFlight, Goto
    <2> QED BY <1>0, <1>9, <2>1
  <1>10. ASSUME NEW t \in Threads, Prompt(t) PROVE Kinds
    <2>1. pc[t] \notin Flying /\ UNCHANGED <<obj, objs, demoted>>
      BY <1>10 DEF Prompt
    <2>2. CASE \E s \in Sessions : PromptTo(t, s)
      BY <1>8, <2>1, <2>2
    <2>3. CASE PromptActive(t)
      <3>1. CASE active # None /\ PromptTo(t, active)
        BY <1>8, <2>1, <3>1
      <3>2. CASE Goto(t, IF last # None THEN "restore" ELSE "new") /\ UNCHANGED <<tgt, held, count>>
        BY <1>9, <2>1, <3>2
      <3> QED BY <2>3, <3>1, <3>2 DEF PromptActive
    <2> QED BY <1>10, <2>2, <2>3 DEF Prompt
  <1>11. ASSUME NEW t \in Threads, Load(t) \/ Restore(t) \/ LoadFailed(t) PROVE Kinds
    <2>1. pc[t] \notin Flying /\ UNCHANGED <<obj, objs, demoted>>
      BY <1>11 DEF Load, Restore, LoadFailed
    <2>2. Return(t) \/ \E s, n : LoadFirst(t, s, n)
      BY <1>11 DEF Load, Restore, LoadFailed
    <2> QED BY <1>5, <1>6, <2>1, <2>2
  <1>12. ASSUME NEW t \in Threads,
                Resume(t) \/ FocusOnly(t) \/ ResumeFocus(t) \/ LoadRequest(t) \/ ResumeRequest(t)
         PROVE  Kinds
    <2>1. pc[t] \notin Flying /\ UNCHANGED <<held, obj, objs, count, demoted>>
      BY <1>12 DEF Resume, FocusOnly, ResumeFocus, LoadRequest, ResumeRequest, FocusBusy, Request,
         rowVars
    <2>2. \E p \in {"resume", "loaded", "loading", "resuming"} : Goto(t, p)
      BY <1>12 DEF Resume, FocusOnly, ResumeFocus, LoadRequest, ResumeRequest, FocusBusy, Request
    <2>3. \A x \in Threads \ {t} : tgt'[x] = tgt[x]
      BY <1>12 DEF Resume, FocusOnly, ResumeFocus, LoadRequest, ResumeRequest, FocusBusy, Request
    <2> QED BY <1>9, <2>1, <2>2, <2>3
  <1>13. ASSUME NEW t \in Threads, NEW s \in Sessions, pc[t] \notin Flying, Focus(s),
                Goto(t, "loaded"), UNCHANGED <<tgt, held, count, demoted>>
         PROVE  Kinds
    <2>1. SameFlight
      BY <1>13 DEF SameFlight, Goto
    <2>2. CASE HasRow(s)
      BY <1>0, <1>13, <2>1, <2>2 DEF Focus
    <2>3. CASE ~HasRow(s)
      BY <1>13, <2>1, <2>3 DEF Focus, HasRow, Made
    <2> QED BY <2>2, <2>3
  <1>14. ASSUME NEW t \in Threads, LoadOk(t) \/ ResumeOk(t) \/ NewOk(t) PROVE Kinds
    <2>1. pc[t] \notin Flying /\ Goto(t, "loaded") /\ UNCHANGED <<tgt, held, count, demoted>>
      BY <1>14 DEF LoadOk, ResumeOk, NewOk, Answer
    <2>2. \E s \in Sessions : Focus(s)
      BY <1>14 DEF LoadOk, ResumeOk, NewOk, Answer, OnSession
    <2> QED BY <1>13, <2>1, <2>2
  <1>15. ASSUME NEW t \in Threads, Loaded(t) PROVE Kinds
    <2>1. pc[t] \notin Flying /\ UNCHANGED <<obj, objs, demoted>>
      BY <1>15 DEF Loaded
    <2>2. CASE Return(t)
      BY <1>5, <2>1, <2>2
    <2>3. CASE then[t] = "begin" /\ obj[tgt[t]] # NoRow /\ Begin(t, tgt[t])
      BY <1>7, <1>15, <2>1, <2>3 DEF Loaded
    <2>4. CASE active # None /\ PromptTo(t, active)
      BY <1>8, <2>1, <2>4
    <2> QED BY <1>15, <2>2, <2>3, <2>4 DEF Loaded, Continue, HasRow
  <1>16. ASSUME NEW t \in Threads, Boot(t) \/ Resolved(t) PROVE Fewer
    <2>1. SameFlight
      BY <1>16 DEF Boot, Resolved, SameFlight, Goto
    <2> QED BY <1>0, <1>16, <2>1 DEF Boot, Resolved, rowVars
  <1>17. ASSUME NEW t \in Threads, Release(t) PROVE Kinds
    <2>1. Ended(t)
      BY <1>17 DEF Release, Done, Goto, Ended
    <2> QED BY <2>1
  <1> QED
    BY <1>1, <1>2, <1>4, <1>10, <1>11, <1>12, <1>14, <1>15, <1>16, <1>17 DEF Next, Call

\* Prompts in flight are finitely many, and only their beginning and end count.
LEMMA FlightFacts ==
  /\ \A o : IsFiniteSet(InFlight(o)) /\ Cardinality(InFlight(o)) \in Nat
  /\ SameFlight => \A o : o # NoRow => InFlight(o)' = InFlight(o)
  <1>1. \A o : IsFiniteSet(InFlight(o)) /\ Cardinality(InFlight(o)) \in Nat
    BY TurnsAssumption, FS_Subset, FS_CardinalityType DEF InFlight
  <1>2. ASSUME SameFlight, NEW o, o # NoRow PROVE InFlight(o)' = InFlight(o)
    BY <1>2 DEF SameFlight, InFlight, Flying
  <1> QED BY <1>1, <1>2

LEMMA RowsStep == TypeInv /\ RowsInv /\ [Next]_vars => RowsInv'
  <1> SUFFICES ASSUME TypeInv, RowsInv, [Next]_vars PROVE RowsInv'
    OBVIOUS
  <1> USE TurnsAssumption DEF TypeInv, TypeOK, RowsInv, Flying, NoRow
  <1>1. CASE Fewer
    BY <1>1 DEF Fewer, SameFlight
  <1>2. ASSUME NEW s \in Sessions, Made(s) PROVE RowsInv'
    BY <1>2 DEF Made, SameFlight
  <1>3. ASSUME NEW t \in Threads, NEW s \in Sessions, Begun(t, s) PROVE RowsInv'
    BY <1>3 DEF Begun
  <1>4. ASSUME NEW t \in Threads, Ended(t) PROVE RowsInv'
    BY <1>4 DEF Ended, Counted, HasRow
  <1>5. CASE MarkUnloaded
    BY <1>5 DEF MarkUnloaded, callVars, HasRow
  <1>6. CASE UNCHANGED vars
    BY <1>6 DEF vars, rowVars, callVars
  <1> QED BY <1>1, <1>2, <1>3, <1>4, <1>5, <1>6, StepKinds

LEMMA CountStep == TypeInv /\ RowsInv /\ CountsPrompts /\ [Next]_vars => CountsPrompts'
  <1> SUFFICES ASSUME TypeInv, RowsInv, CountsPrompts, [Next]_vars PROVE CountsPrompts'
    OBVIOUS
  <1> DEFINE Right(s) == /\ count[s] <= Cardinality(InFlight(obj[s]))
                         /\ obj[s] \notin demoted => count[s] = Cardinality(InFlight(obj[s]))
  <1> SUFFICES ASSUME NEW s \in Sessions, obj'[s] # NoRow PROVE Right(s)'
    BY DEF CountsPrompts, HasRow
  <1>0. /\ obj[s] # NoRow => Right(s)
        /\ count[s] \in Nat /\ obj[s] \in Nat
    BY DEF CountsPrompts, HasRow, TypeInv, TypeOK
  <1>1. ASSUME obj[s] # NoRow, obj'[s] = obj[s], count'[s] = count[s], demoted \subseteq demoted',
               InFlight(obj[s])' = InFlight(obj[s])
        PROVE  Right(s)'
    BY <1>0, <1>1
  <1>2. CASE Fewer
    <2>1. obj'[s] = obj[s] /\ count'[s] = count[s] /\ demoted' = demoted /\ SameFlight
      BY <1>2 DEF Fewer
    <2> QED BY <1>1, <2>1, FlightFacts
  <1>3. ASSUME NEW u \in Sessions, Made(u) PROVE Right(s)'
    <2>1. SameFlight /\ count' = count /\ demoted' = demoted
      BY <1>3 DEF Made
    <2>2. CASE s # u
      BY <1>1, <1>3, <2>1, <2>2, FlightFacts DEF Made, TypeInv, TypeOK
    <2>3. CASE s = u
      <3>1. obj'[s] = objs + 1 /\ count'[s] = 0 /\ objs \in Nat
        BY <1>3, <2>1, <2>3 DEF Made, RowsInv, TypeInv, TypeOK
      <3>2. InFlight(objs + 1) = {}
        BY <3>1 DEF InFlight, RowsInv, TypeInv, TypeOK
      <3>3. InFlight(obj[s])' = {}
        BY <2>1, <3>1, <3>2, FlightFacts DEF NoRow, InFlight
      <3> QED BY <3>1, <3>3, FS_EmptySet
    <2> QED BY <2>2, <2>3
  <1>4. ASSUME NEW t \in Threads, NEW u \in Sessions, Begun(t, u) PROVE Right(s)'
    <2>1. obj' = obj /\ demoted' = demoted /\ obj[s] # NoRow /\ obj[u] # NoRow
      BY <1>4 DEF Begun
    <2>2. CASE s # u
      <3>1. obj[s] # obj[u]
        BY <2>1, <2>2 DEF RowsInv
      <3>2. InFlight(obj[s])' = InFlight(obj[s])
        BY <1>4, <2>1, <3>1 DEF Begun, InFlight, Flying, TypeInv, TypeOK
      <3> QED BY <1>1, <1>4, <2>1, <2>2, <3>2 DEF Begun, TypeInv, TypeOK
    <2>3. CASE s = u
      <3>1. count'[s] = count[s] + 1
        BY <1>4, <2>3 DEF Begun, TypeInv, TypeOK
      <3>2. InFlight(obj[s])' = InFlight(obj[s]) \cup {t} /\ t \notin InFlight(obj[s])
        BY <1>4, <2>1, <2>3 DEF Begun, InFlight, Flying, TypeInv, TypeOK
      <3>3. Cardinality(InFlight(obj[s]))' = Cardinality(InFlight(obj[s])) + 1
        BY ZenonT(40), <2>1, <3>2, FlightFacts, FS_AddElement
      <3> QED BY <1>0, <2>1, <3>1, <3>3, FlightFacts
    <2> QED BY <2>2, <2>3
  <1>5. ASSUME NEW t \in Threads, Ended(t) PROVE Right(s)'
    <2>1. /\ obj' = obj /\ demoted' = demoted /\ obj[s] # NoRow /\ tgt[t] \in Sessions
          /\ pc[t] = "release"
      BY <1>5 DEF Ended, TypeInv, OnSession
    <2>2. InFlight(obj[s])' = InFlight(obj[s]) \ {t}
      BY <1>5, <2>1 DEF Ended, InFlight, TypeInv, TypeOK
    <2>3. CASE held[t] # obj[s]
      <3>1. InFlight(obj[s])' = InFlight(obj[s])
        BY <2>2, <2>3 DEF InFlight
      <3>2. count'[s] = count[s]
        BY <1>5, <2>1, <2>3 DEF Ended, Counted, TypeInv, TypeOK
      <3> QED BY <1>1, <2>1, <3>1, <3>2
    <2>4. CASE held[t] = obj[s]
      <3>1. t \in InFlight(obj[s]) /\ s = tgt[t]
        BY <2>1, <2>4 DEF InFlight, RowsInv, Flying
      <3>2. Cardinality(InFlight(obj[s]))' = Cardinality(InFlight(obj[s])) - 1
        BY ZenonT(40), <2>1, <2>2, <3>1, FlightFacts, FS_RemoveElement
      <3>3. CASE count[s] > 0
        <4>1. count'[s] = count[s] - 1
          BY <1>5, <2>1, <2>4, <3>1, <3>3 DEF Ended, Counted, HasRow, TypeInv, TypeOK
        <4> QED BY <1>0, <2>1, <3>2, <4>1, FlightFacts
      <3>4. CASE count[s] = 0
        <4>1. count'[s] = 0
          BY <1>5, <2>1, <3>1, <3>4 DEF Ended, Counted
        <4>2. Cardinality(InFlight(obj[s])) # 0
          BY <3>1, FlightFacts, FS_EmptySet
        <4> QED BY <1>0, <2>1, <3>2, <3>4, <4>1, <4>2, FlightFacts
      <3> QED BY <1>0, <3>3, <3>4
    <2> QED BY <2>3, <2>4
  <1>6. CASE MarkUnloaded
    <2>1. /\ obj' = obj /\ obj[s] # NoRow /\ demoted \subseteq demoted' /\ closing \in Sessions
          /\ InFlight(obj[s])' = InFlight(obj[s])
      BY <1>6 DEF MarkUnloaded, callVars, InFlight, TypeInv, TypeOK
    <2>2. CASE s # closing
      BY <1>1, <1>6, <2>1, <2>2 DEF MarkUnloaded, TypeInv, TypeOK
    <2>3. CASE s = closing
      <3>1. count'[s] = 0
        BY <1>6, <2>3, <2>1 DEF MarkUnloaded, TypeInv, TypeOK
      <3>2. obj[s] \in demoted' \/ InFlight(obj[s]) = {}
        BY <1>6, <2>3 DEF MarkUnloaded
      <3> QED BY <2>1, <3>1, <3>2, FlightFacts, FS_EmptySet
    <2> QED BY <2>2, <2>3
  <1>7. CASE UNCHANGED vars
    <2>1. obj' = obj /\ count' = count /\ demoted' = demoted /\ InFlight(obj[s])' = InFlight(obj[s])
      BY <1>7 DEF vars, rowVars, callVars, InFlight
    <2> QED BY <1>1, <2>1
  <1> QED BY <1>2, <1>3, <1>4, <1>5, <1>6, <1>7, StepKinds

-----------------------------------------------------------------------------
(* Busy and its legs *)

LEMMA LegStep == TypeInv /\ BusyHasLeg /\ [Next]_vars => BusyHasLeg'
  <1> SUFFICES ASSUME TypeInv, BusyHasLeg, [Next]_vars PROVE BusyHasLeg'
    OBVIOUS
  <1> USE DEF TypeInv, TypeOK, BusyHasLeg, HasRow
  \* One leg of u has moved, and busy with it.
  <1>1. ASSUME NEW u \in Sessions, NEW o \in BOOLEAN, Sync(u, count'[u], o), SetOpen(u, o),
               obj' = obj, count' \in [Sessions -> Nat],
               \A s \in Sessions \ {u} : count'[s] = count[s]
        PROVE  BusyHasLeg'
    BY <1>1 DEF Sync, SetOpen
  \* Neither has, and no row has gone.
  <1>2. ASSUME UNCHANGED <<busy, open, count>>, \A s \in Sessions : obj[s] # NoRow => obj'[s] # NoRow
        PROVE  BusyHasLeg'
    BY <1>2
  <1>3. ASSUME NEW s \in Sessions, Evidence(s) \/ Completed(s) \/ Settle(s) \/ Awaiting(s)
        PROVE  BusyHasLeg'
    <2>1. obj' = obj /\ count' = count
      BY <1>3 DEF Evidence, Completed, Settle, Awaiting, others
    <2>2. NoteActivity(s) \/ NoteEnd(s)
      BY <1>3 DEF Evidence, Completed, Settle, Awaiting
    <2> QED BY <1>1, <2>1, <2>2 DEF NoteActivity, NoteEnd
  <1>4. ASSUME NEW t \in Threads, Replay(t) PROVE BusyHasLeg'
    <2>1. obj' = obj /\ count' = count /\ tgt[t] \in Sessions
      BY <1>4 DEF Replay, others, OnSession
    <2>2. NoteActivity(tgt[t]) \/ NoteEnd(tgt[t])
      BY <1>4 DEF Replay
    <2> QED BY <1>1, <2>1, <2>2 DEF NoteActivity, NoteEnd
  <1>5. ASSUME NEW t \in Threads, NEW s \in Sessions, Begin(t, s), obj' = obj PROVE BusyHasLeg'
    <2>1. count'[s] = count[s] + 1 /\ count' \in [Sessions -> Nat]
      BY <1>5 DEF Begin
    <2> QED BY <1>1, <1>5, <2>1 DEF Begin
  <1>6. ASSUME NEW t \in Threads, NEW s \in Sessions, PromptTo(t, s), obj' = obj PROVE BusyHasLeg'
    BY <1>2, <1>5, <1>6 DEF PromptTo, Return, LoadFirst
  <1>7. ASSUME NEW t \in Threads, Prompt(t) PROVE BusyHasLeg'
    <2>1. CASE \E s \in Sessions : PromptTo(t, s)
      BY <1>6, <1>7, <2>1 DEF Prompt
    <2>2. CASE active # None /\ PromptTo(t, active)
      BY <1>6, <1>7, <2>2 DEF Prompt
    <2>3. CASE UNCHANGED <<count, busy, open>>
      BY <1>2, <1>7, <2>3 DEF Prompt
    <2> QED BY <1>7, <2>1, <2>2, <2>3 DEF Prompt, PromptActive
  <1>8. ASSUME NEW t \in Threads, Loaded(t) PROVE BusyHasLeg'
    <2>1. CASE Return(t)
      BY <1>2, <1>8, <2>1 DEF Loaded, Return
    <2>2. CASE then[t] = "begin" /\ Begin(t, tgt[t])
      BY <1>5, <1>8, <2>2 DEF Loaded
    <2>3. CASE active # None /\ PromptTo(t, active)
      BY <1>6, <1>8, <2>3 DEF Loaded
    <2> QED BY <1>8, <2>1, <2>2, <2>3 DEF Loaded, Continue
  <1>9. ASSUME NEW t \in Threads, Release(t) PROVE BusyHasLeg'
    <2>1. obj' = obj /\ tgt[t] \in Sessions
      BY <1>9 DEF Release, OnSession
    <2>2. CASE Counted(t)
      <3>1. /\ count'[tgt[t]] = count[tgt[t]] - 1 /\ count' \in [Sessions -> Nat]
            /\ \A s \in Sessions \ {tgt[t]} : count'[s] = count[s]
        BY <1>9, <2>1, <2>2 DEF Release, Counted
      <3>2. (open[tgt[t]] /\ ~ended[t]) \in BOOLEAN
        BY <2>1
      <3>3. /\ SetOpen(tgt[t], open[tgt[t]] /\ ~ended[t])
            /\ Sync(tgt[t], count[tgt[t]] - 1, open[tgt[t]] /\ ~ended[t])
        BY <1>9, <2>2, Zenon DEF Release
      <3> QED BY <1>1, <2>1, <3>1, <3>2, <3>3
    <2>3. CASE ~Counted(t)
      BY <1>2, <1>9, <2>1, <2>3 DEF Release
    <2> QED BY <2>2, <2>3
  <1>10. ASSUME NEW S \in SUBSET Sessions, Drop(S) PROVE BusyHasLeg'
    BY <1>10 DEF Drop
  <1>11. CASE Reset \/ \E s \in Sessions : Forget(s)
    BY <1>10, <1>11 DEF Reset, Forget
  <1>12. CASE MarkUnloaded
    <2>1. /\ obj' = obj /\ closing \in Sessions /\ ~busy'[closing]
          /\ \A s \in Sessions \ {closing} : UNCHANGED <<busy[s], count[s], open[s]>>
      BY <1>12 DEF MarkUnloaded, SetOpen
    <2> QED BY <2>1
  <1>13. ASSUME NEW s \in Sessions, Focus(s), UNCHANGED <<count, busy, open>> PROVE BusyHasLeg'
    <2>1. \A u \in Sessions : obj[u] # NoRow => obj'[u] # NoRow
      BY <1>13, TurnsAssumption DEF Focus, NoRow
    <2> QED BY <1>2, <1>13, <2>1
  <1>14. ASSUME NEW t \in Threads, LoadOk(t) \/ ResumeOk(t) \/ NewOk(t) PROVE BusyHasLeg'
    <2>1. UNCHANGED <<count, busy, open>>
      BY <1>14 DEF LoadOk, ResumeOk, NewOk, Answer
    <2>2. \E s \in Sessions : Focus(s)
      BY <1>14 DEF LoadOk, ResumeOk, NewOk, Answer, OnSession
    <2> QED BY <1>13, <2>1, <2>2
  <1>15. ASSUME NEW t \in Threads,
                \/ Load(t) \/ Resume(t) \/ Restore(t) \/ FocusOnly(t) \/ ResumeFocus(t) \/ LoadRequest(t)
                \/ ResumeRequest(t) \/ LoadFailed(t) \/ Boot(t) \/ Resolved(t)
         PROVE  BusyHasLeg'
    <2>1. UNCHANGED <<obj, count, busy, open>>
      BY <1>15 DEF Load, Resume, Restore, FocusOnly, ResumeFocus, LoadRequest, ResumeRequest,
         LoadFailed, Boot, Resolved, FocusBusy, Request, Return, LoadFirst, rowVars
    <2> QED BY <1>2, <2>1
  <1>16. ASSUME NEW s \in Sessions, Work(s) \/ Answered(s) \/ Skip(s) \/ Close(s) PROVE BusyHasLeg'
    <2>1. UNCHANGED <<obj, count, busy, open>>
      BY <1>16 DEF Work, Answered, Skip, Close, rowVars
    <2> QED BY <1>2, <2>1
  <1>17. CASE Sweep \/ NotClosed \/ UNCHANGED vars
    <2>1. UNCHANGED <<obj, count, busy, open>>
      BY <1>17 DEF Sweep, NotClosed, vars, rowVars
    <2> QED BY <1>2, <2>1
  <1> QED
    BY <1>3, <1>4, <1>7, <1>8, <1>9, <1>11, <1>12, <1>14, <1>15, <1>16, <1>17 DEF Next, Call

\* Busy is a sound projection of its two legs, for any number of sessions, calls
\* and rows: it never stands without one, and busyCount counts the prompts in
\* flight on the row it is kept in, however prompts, loads, closes, sweeps and ends
\* of the process interleave.
THEOREM BusyIsRight == Spec => []BusyRight
  <1>1. Init => TypeInv /\ RowsInv /\ BusyHasLeg /\ CountsPrompts
    BY TypeInit, TurnsAssumption DEF Init, RowsInv, BusyHasLeg, CountsPrompts, HasRow, Flying, NoRow
  <1>2. TypeInv /\ RowsInv /\ BusyHasLeg /\ CountsPrompts /\ [Next]_vars
          => (TypeInv /\ RowsInv /\ BusyHasLeg /\ CountsPrompts)'
    BY TypeStep, RowsStep, LegStep, CountStep
  <1>3. BusyHasLeg /\ CountsPrompts => BusyRight
    BY DEF BusyRight
  <1> QED BY <1>1, <1>2, <1>3, PTL DEF Spec
=============================================================================
