------------------------------- MODULE Turns -------------------------------
(***************************************************************************)
(* Sessions of the roster, their turns and what "busy" says of them:       *)
(* src/internal/acp/bridge.go and idle_unload.go.                          *)
(*                                                                         *)
(* Busy is a projection of two legs: the prompts this host has in flight   *)
(* (busyCount) and the turn the host observes in the agent's updates.      *)
(* Prompt and load calls, the agent's updates, the end of the process, the *)
(* client's close and the idle-unload sweep change them, each in short     *)
(* critical sections of b.mu between which requests to the agent run.      *)
(***************************************************************************)
EXTENDS Integers, FiniteSets

CONSTANTS
  Sessions, None,
  Threads,       \* goroutines that serve a call
  BootLast,      \* what last-session.json may hold at the start
  MaxCalls,      \* calls made
  MaxObj,        \* roster rows made
  ResidentCap    \* sessions that stay loaded in the agent

ASSUME TurnsAssumption ==
  /\ None \notin Sessions /\ IsFiniteSet(Threads) /\ BootLast \subseteq Sessions \cup {None}
  /\ MaxCalls \in Nat \ {0} /\ MaxObj \in Nat \ {0} /\ ResidentCap \in Nat

NoRow == 0

VARIABLES
  obj,        \* which *SessionState the row of a session is, NoRow if it has none
  objs,       \* rows made so far
  count, busy, unloaded, awaiting,   \* busyCount, Busy, unloaded, AwaitingInput
  open,       \* the observed turn of a session is open
  active, last,                      \* activeSessionID, lastSessionID
  pc, tgt,    \* where a call is and the session it is about
  held,       \* the row a prompt started on
  then,       \* what follows the load a call is in
  ended,      \* turnEnded of a prompt
  calls,
  todo,       \* sessions the sweep picked and has not reached
  closing,    \* the session it is closing at the agent
  working,    \* sessions that run a turn at the agent
  used,       \* ids session/new has returned, or a client knew of
  demoted     \* rows marked unloaded under a prompt in flight (history)

rowVars  == <<obj, objs, count, busy, unloaded, awaiting>>
focus    == <<active, last>>
callVars == <<pc, tgt, held, then, ended, calls>>
sweep    == <<todo, closing>>
vars     == <<rowVars, open, focus, callVars, sweep, working, used, demoted>>

TypeOK ==
  /\ obj \in [Sessions -> 0..MaxObj] /\ objs \in 0..MaxObj
  /\ count \in [Sessions -> Nat]
  /\ busy \in [Sessions -> BOOLEAN] /\ unloaded \in [Sessions -> BOOLEAN]
  /\ awaiting \in [Sessions -> BOOLEAN] /\ open \in [Sessions -> BOOLEAN]
  /\ active \in Sessions \cup {None} /\ last \in Sessions \cup {None}
  /\ pc \in [Threads -> {"idle", "restore", "new", "load", "loading", "loaded", "resume", "resuming", "boot", "sent", "release"}]
  /\ tgt \in [Threads -> Sessions \cup {None}] /\ held \in [Threads -> 0..MaxObj]
  /\ then \in [Threads -> {"return", "resolve", "begin"}]
  /\ ended \in [Threads -> BOOLEAN] /\ calls \in 0..MaxCalls
  /\ todo \subseteq Sessions /\ closing \in Sessions \cup {None}
  /\ working \subseteq Sessions /\ used \subseteq Sessions /\ demoted \subseteq 1..MaxObj

Init ==
  /\ obj = [s \in Sessions |-> NoRow] /\ objs = 0
  /\ count = [s \in Sessions |-> 0] /\ busy = [s \in Sessions |-> FALSE]
  /\ unloaded = [s \in Sessions |-> FALSE] /\ awaiting = [s \in Sessions |-> FALSE]
  /\ open = [s \in Sessions |-> FALSE]
  /\ active = None /\ last \in BootLast
  /\ pc = [t \in Threads |-> "idle"] /\ tgt = [t \in Threads |-> None]
  /\ held = [t \in Threads |-> NoRow] /\ then = [t \in Threads |-> "return"]
  /\ ended = [t \in Threads |-> FALSE] /\ calls = 0
  /\ todo = {} /\ closing = None /\ working = {}
  /\ used = {last} \ {None} /\ demoted = {}

HasRow(s) == obj[s] # NoRow

\* Prompts in flight that started on row o.
InFlight(o) == {t \in Threads : pc[t] \in {"boot", "sent", "release"} /\ held[t] = o}

-----------------------------------------------------------------------------
(* the two legs *)

\* syncBusyLocked, for a row with c prompts in flight and observed turn o.
Sync(s, c, o) == busy' = [busy EXCEPT ![s] = IF HasRow(s) THEN c > 0 \/ o ELSE FALSE]

SetOpen(s, o) == open' = [open EXCEPT ![s] = o]

\* noteTurnActivity, noteTurnEnd
NoteActivity(s) == SetOpen(s, TRUE) /\ Sync(s, count[s], TRUE)
NoteEnd(s) == SetOpen(s, FALSE) /\ Sync(s, count[s], FALSE)

others == <<obj, objs, count, unloaded, awaiting, focus, callVars, sweep, used, demoted>>

\* observeUpdateKind: execution evidence of a turn, and turn_completed.
Evidence(s) ==
  /\ s \in working /\ NoteActivity(s)
  /\ UNCHANGED <<others, working>>

Completed(s) ==
  /\ s \in working /\ working' = working \ {s} /\ NoteEnd(s)
  /\ UNCHANGED others

\* The agent begins a turn (a prompt, a scheduled task, another client's), or
\* ends one without a word that reaches the host.
Work(s) ==
  /\ working' = IF s \in working THEN working \ {s} ELSE working \cup {s}
  /\ UNCHANGED <<rowVars, open, focus, callVars, sweep, used, demoted>>

\* dispatchSessionUpdateKind observes the updates that session/load replays as
\* it does live ones.
Replay(t) ==
  /\ pc[t] = "loading"
  /\ NoteActivity(tgt[t]) \/ NoteEnd(tgt[t])
  /\ UNCHANGED <<others, working>>

\* settleTurnsLocked: a turn silent for turnStaleAfter is dropped.
Stale_NoPrompt(s) == open[s] /\ HasRow(s) /\ count[s] > 0
Stale(s) == open[s] /\ ~(HasRow(s) /\ awaiting[s])

Settle(s) ==
  /\ Stale(s) /\ NoteEnd(s)
  /\ UNCHANGED <<others, working>>

\* setSessionAwaiting: a request of the agent, and its settlement.
Awaiting(s) ==
  /\ s \in working
  /\ awaiting' = [awaiting EXCEPT ![s] = HasRow(s)]
  /\ NoteActivity(s)
  /\ UNCHANGED <<obj, objs, count, unloaded, focus, callVars, sweep, working, used, demoted>>

Answered(s) ==
  /\ awaiting[s]
  /\ awaiting' = [awaiting EXCEPT ![s] = FALSE]
  /\ UNCHANGED <<obj, objs, count, busy, unloaded, open, focus, callVars, sweep, working,
                 used, demoted>>

-----------------------------------------------------------------------------
(* calls: PromptWithOpts, LoadSession, ResumeSession, NewSession *)

Goto(t, p) == pc' = [pc EXCEPT ![t] = p]

\* The prompt is counted, the observed turn armed, the session remembered.
Begin(t, s) ==
  /\ Goto(t, "boot") /\ tgt' = [tgt EXCEPT ![t] = s] /\ held' = [held EXCEPT ![t] = obj[s]]
  /\ count' = [count EXCEPT ![s] = @ + 1] /\ SetOpen(s, TRUE) /\ Sync(s, count[s] + 1, TRUE)
  /\ last' = s /\ then' = [then EXCEPT ![t] = "return"]
  /\ UNCHANGED <<ended, active>>

\* The call returns, and forgets its locals.
Done(t) ==
  /\ Goto(t, "idle") /\ tgt' = [tgt EXCEPT ![t] = None] /\ held' = [held EXCEPT ![t] = NoRow]
  /\ then' = [then EXCEPT ![t] = "return"] /\ ended' = [ended EXCEPT ![t] = FALSE]

Return(t) == Done(t) /\ UNCHANGED <<count, busy, open, focus>>

\* A load of s, then what follows it.
LoadFirst(t, s, next) ==
  /\ Goto(t, "load") /\ tgt' = [tgt EXCEPT ![t] = s] /\ then' = [then EXCEPT ![t] = next]
  /\ UNCHANGED <<held, ended, count, busy, open, focus>>

\* The first section of a prompt, once its session is known: an unknown
\* session is refused, an unloaded one loaded.
PromptTo(t, s) ==
  \/ ~HasRow(s) /\ Return(t)
  \/ HasRow(s) /\ unloaded[s] /\ LoadFirst(t, s, "begin")
  \/ HasRow(s) /\ ~unloaded[s] /\ Begin(t, s)

\* Without a session: the active one, else the last one, else a new one.
PromptActive(t) ==
  \/ active # None /\ PromptTo(t, active)
  \/ /\ active = None
     /\ Goto(t, IF last # None THEN "restore" ELSE "new")
     /\ UNCHANGED <<tgt, held, then, ended, count, busy, open, focus>>

Prompt(t) ==
  /\ pc[t] = "idle" /\ calls < MaxCalls /\ calls' = calls + 1
  /\ PromptActive(t) \/ \E s \in Sessions : PromptTo(t, s)
  /\ UNCHANGED <<obj, objs, unloaded, awaiting, sweep, working, used, demoted>>

\* A client's LoadSession or ResumeSession of a session the agent lists.
Load(t) ==
  /\ pc[t] = "idle" /\ calls < MaxCalls /\ calls' = calls + 1
  /\ \E s \in Sessions : LoadFirst(t, s, "return") /\ used' = used \cup {s}
  /\ UNCHANGED <<obj, objs, unloaded, awaiting, sweep, working, demoted>>

Resume(t) ==
  /\ pc[t] = "idle" /\ calls < MaxCalls /\ calls' = calls + 1
  /\ Goto(t, "resume")
  /\ \E s \in Sessions : tgt' = [tgt EXCEPT ![t] = s] /\ used' = used \cup {s}
  /\ UNCHANGED <<rowVars, open, focus, held, then, ended, sweep, working, demoted>>

\* restoreLastSession reads the pointer again.
Restore(t) ==
  /\ pc[t] = "restore"
  /\ IF last = None THEN Return(t) ELSE LoadFirst(t, last, "resolve")
  /\ UNCHANGED <<obj, objs, unloaded, awaiting, calls, sweep, working, used, demoted>>

\* What a call does once its session is loaded.  The row is looked up again.
Continue(t, next) ==
  \/ next = "return" /\ Return(t)
  \/ next = "begin" /\ (IF HasRow(tgt[t]) THEN Begin(t, tgt[t]) ELSE Return(t))
  \/ next = "resolve" /\ (IF active = None THEN Return(t) ELSE PromptTo(t, active))

\* The row a session/load, session/resume or session/new makes or keeps.
Focus(s) ==
  /\ IF HasRow(s) THEN UNCHANGED <<obj, objs>>
     ELSE objs < MaxObj /\ objs' = objs + 1 /\ obj' = [obj EXCEPT ![s] = objs + 1]
  /\ unloaded' = [unloaded EXCEPT ![s] = FALSE]
  /\ active' = s /\ last' = s

\* A busy session is focused and not loaded, nor resumed; the caller goes on.
FocusBusy(t) ==
  /\ busy[tgt[t]] /\ active' = tgt[t] /\ last' = tgt[t]
  /\ Goto(t, "loaded")
  /\ UNCHANGED <<rowVars, open, tgt, held, then, ended, calls, sweep, working, used, demoted>>
FocusOnly(t)   == pc[t] = "load" /\ FocusBusy(t)
ResumeFocus(t) == pc[t] = "resume" /\ FocusBusy(t)

\* Boot and the request, any other: it leaves,
Request(t, p) ==
  /\ ~busy[tgt[t]] /\ Goto(t, p)
  /\ UNCHANGED <<rowVars, open, focus, tgt, held, then, ended, calls, sweep, working, used, demoted>>
LoadRequest(t)   == pc[t] = "load" /\ Request(t, "loading")
ResumeRequest(t) == pc[t] = "resume" /\ Request(t, "resuming")

\* ... and is answered, or fails.  session/resume replays nothing.
Answer(t) ==
  /\ Focus(tgt[t]) /\ Goto(t, "loaded")
  /\ UNCHANGED <<count, busy, awaiting, open, tgt, held, then, ended, calls, sweep, working,
                 used, demoted>>
LoadOk(t)   == pc[t] = "loading" /\ Answer(t)
ResumeOk(t) == pc[t] = "resuming" /\ Answer(t)

NewOk(t) ==
  /\ pc[t] = "new"
  /\ \E s \in Sessions \ used : Focus(s) /\ used' = used \cup {s}
  /\ Goto(t, "loaded") /\ then' = [then EXCEPT ![t] = "resolve"]
  /\ UNCHANGED <<count, busy, awaiting, open, tgt, held, ended, calls, sweep, working, demoted>>

LoadFailed(t) ==
  /\ pc[t] \in {"loading", "resuming", "new"} /\ Return(t)
  /\ UNCHANGED <<obj, objs, unloaded, awaiting, calls, sweep, working, used, demoted>>

Loaded(t) ==
  /\ pc[t] = "loaded" /\ Continue(t, then[t])
  /\ UNCHANGED <<obj, objs, unloaded, awaiting, calls, sweep, working, used, demoted>>

\* ensureBooted: a prompt that never reached the agent has ended.
Boot(t) ==
  /\ pc[t] = "boot"
  /\ \/ Goto(t, "sent") /\ UNCHANGED ended
     \/ Goto(t, "release") /\ ended' = [ended EXCEPT ![t] = TRUE]
  /\ UNCHANGED <<rowVars, open, focus, tgt, held, then, calls, sweep, working, used, demoted>>

\* session/prompt is answered, given up as stalled or cancelled, and has ended;
\* or it is lost (timeout, failed write, end of the process) and has not.
Resolved(t) ==
  /\ pc[t] = "sent" /\ Goto(t, "release")
  /\ \E e \in BOOLEAN : ended' = [ended EXCEPT ![t] = e]
  /\ UNCHANGED <<rowVars, open, focus, tgt, held, then, calls, sweep, working, used, demoted>>

\* releaseBusy: only on the row the prompt started on.
Counted_AnyRow(t) == HasRow(tgt[t]) /\ count[tgt[t]] > 0
Counted_NoFloor(t) == HasRow(tgt[t]) /\ obj[tgt[t]] = held[t]
Counted(t) == HasRow(tgt[t]) /\ obj[tgt[t]] = held[t] /\ count[tgt[t]] > 0

Release(t) ==
  /\ pc[t] = "release" /\ Done(t)
  /\ LET s == tgt[t]  o == open[s] /\ ~ended[t] IN
     IF Counted(t)
     THEN /\ count' = [count EXCEPT ![s] = @ - 1]
          /\ SetOpen(s, o) /\ Sync(s, count[s] - 1, o)
     ELSE UNCHANGED <<count, open, busy>>
  /\ UNCHANGED <<obj, objs, unloaded, awaiting, focus, calls, sweep, working, used, demoted>>

-----------------------------------------------------------------------------
(* rows that go *)

\* The rows of S, their turns and pointers to them are dropped.
Drop(S) ==
  LET Keep(f, v) == [s \in Sessions |-> IF s \in S THEN v ELSE f[s]] IN
  /\ obj' = Keep(obj, NoRow) /\ count' = Keep(count, 0) /\ busy' = Keep(busy, FALSE)
  /\ unloaded' = Keep(unloaded, FALSE) /\ awaiting' = Keep(awaiting, FALSE)
  /\ open' = Keep(open, FALSE)

\* CloseSession, SessionDelete: forgetSessionLocked.
Forget(s) ==
  /\ HasRow(s) /\ Drop({s})
  /\ active' = (IF active = s THEN None ELSE active)
  /\ last' = (IF last = s THEN None ELSE last)
  /\ UNCHANGED <<objs, callVars, sweep, working, used, demoted>>

\* resetProcessRoster: the process has ended; the active session is remembered.
Reset ==
  /\ \E s \in Sessions : HasRow(s)
  /\ Drop(Sessions)
  /\ active' = None /\ last' = (IF active # None /\ HasRow(active) THEN active ELSE last)
  /\ working' = {}
  /\ UNCHANGED <<objs, callVars, sweep, used, demoted>>

\* sessionPinnedLocked.  (The goal's session and those with a queue or a
\* background task are pinned too: Skip.)
Pinned(s) == busy[s] \/ awaiting[s] \/ open[s] \/ s \in {active, last}

Resident == {s \in Sessions : HasRow(s) /\ ~unloaded[s]}

\* SweepIdleUnload picks as many unpinned sessions as exceed the cap,
Sweep ==
  /\ todo = {} /\ closing = None /\ Cardinality(Resident) > ResidentCap
  /\ \E S \in SUBSET {s \in Resident : ~Pinned(s)} :
       S # {} /\ Cardinality(S) <= Cardinality(Resident) - ResidentCap /\ todo' = S
  /\ UNCHANGED <<rowVars, open, focus, callVars, closing, working, used, demoted>>

Skip(s) ==
  /\ s \in todo /\ closing = None /\ todo' = todo \ {s}
  /\ UNCHANGED <<rowVars, open, focus, callVars, closing, working, used, demoted>>

\* unloadResident looks again and asks the agent to close the session,
Close(s) ==
  /\ s \in todo /\ closing = None /\ s \in Resident /\ ~Pinned(s)
  /\ closing' = s /\ todo' = todo \ {s}
  /\ UNCHANGED <<rowVars, open, focus, callVars, working, used, demoted>>

\* ... and markUnloadedLocked demotes the row when it has, whatever has
\* happened to it in the meantime.
MarkUnloaded ==
  /\ closing # None /\ HasRow(closing)
  /\ unloaded' = [unloaded EXCEPT ![closing] = TRUE] /\ busy' = [busy EXCEPT ![closing] = FALSE]
  /\ count' = [count EXCEPT ![closing] = 0] /\ awaiting' = [awaiting EXCEPT ![closing] = FALSE]
  /\ SetOpen(closing, FALSE)
  /\ demoted' = IF InFlight(obj[closing]) = {} THEN demoted ELSE demoted \cup {obj[closing]}
  /\ closing' = None
  /\ UNCHANGED <<obj, objs, focus, callVars, todo, working, used>>

NotClosed ==
  /\ closing # None /\ closing' = None
  /\ UNCHANGED <<rowVars, open, focus, callVars, todo, working, used, demoted>>

-----------------------------------------------------------------------------
Call(t) ==
  \/ Restore(t) \/ FocusOnly(t) \/ LoadRequest(t) \/ LoadOk(t) \/ NewOk(t) \/ LoadFailed(t)
  \/ ResumeFocus(t) \/ ResumeRequest(t) \/ ResumeOk(t) \/ Loaded(t) \/ Boot(t) \/ Resolved(t) \/ Release(t)

Next ==
  \/ \E t \in Threads : Prompt(t) \/ Load(t) \/ Resume(t) \/ Call(t) \/ Replay(t)
  \/ \E s \in Sessions :
       \/ Evidence(s) \/ Completed(s) \/ Work(s) \/ Settle(s) \/ Awaiting(s) \/ Answered(s)
       \/ Forget(s) \/ Skip(s) \/ Close(s)
  \/ Reset \/ Sweep \/ MarkUnloaded \/ NotClosed

Spec == Init /\ [][Next]_vars

\* Every request to the agent has a deadline; clients go on reading the
\* roster, and every read settles first.
FairSpec ==
  /\ Spec /\ \A t \in Threads : WF_vars(Call(t))
  /\ \A s \in Sessions : WF_vars(Settle(s))

-----------------------------------------------------------------------------
(* properties *)

\* A session never reports busy with neither leg behind it: nothing would
\* ever take that back.
BusyHasLeg == \A s \in Sessions : busy[s] => HasRow(s) /\ (count[s] > 0 \/ open[s])

\* busyCount is the number of prompts in flight on that row, through restarts,
\* closes and restores, so that neither a stale prompt nor the first of two to
\* end clears the busy flag of another; a row that was demoted under a prompt
\* may count less, and never more.
CountsPrompts ==
  \A s \in Sessions : HasRow(s) =>
    /\ count[s] <= Cardinality(InFlight(obj[s]))
    /\ obj[s] \notin demoted => count[s] = Cardinality(InFlight(obj[s]))

\* Busy is founded, by a prompt that counts or by a turn that is observed.
BusyRight == BusyHasLeg /\ CountsPrompts

\* A lost turn_completed cannot pin a session to busy.
QuietSettles ==
  \A s \in Sessions : <>[](s \notin working /\ ~awaiting[s]) => <>[]~busy[s]

=============================================================================
