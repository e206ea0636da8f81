--------------------------- MODULE ClientRequests ---------------------------
(***************************************************************************)
(* Requests of the agent that the browser answers (permissions, questions, *)
(* plan approvals): src/internal/acp/bridge.go.                            *)
(*                                                                         *)
(* The agent's reader stores a request and starts a goroutine that waits   *)
(* for it.  An answer of any browser, the goroutine's timer, a cancel of   *)
(* the turn and the end of the agent process race to settle it, each in a  *)
(* critical section of clientReqMu.  The reply is written to the agent's   *)
(* stdin after the section, so a step of its own.                          *)
(***************************************************************************)
EXTENDS Integers, FiniteSets

CONSTANTS
  Sessions,
  MaxReq,       \* requests the agents send
  MaxAgents     \* agent processes

ASSUME RequestsAssumption == MaxReq \in Nat \ {0} /\ MaxAgents \in Nat \ {0}

Reqs     == 1..MaxReq
NoAgent  == 0
Agents   == 1..MaxAgents

VARIABLES
  proc,       \* whose stdin b.stdin is
  agents,     \* processes started so far
  count,      \* nextClientReqID
  phase,      \* clientReqs: "unused", "pending" (stored) or "settled"
  from, of,   \* a request's process and session
  deadline,   \* it has a host-side budget
  verdict,    \* what closed its done channel, "none" while open
  retired,    \* its process was replaced
  goroutine,  \* that waits for it
  outbox,     \* replies built and not yet written
  unloading,  \* sessions being closed at the agent by idle-unload
  row,        \* sessions with a roster row
  awaiting,   \* AwaitingInput of the row
  accepted,   \* answers a browser was told were taken (history)
  told,       \* client_request_resolved events of a request (history)
  written     \* replies that reached a process (history)

tableVars      == <<count, phase, from, of, deadline, verdict, retired, goroutine>>
rowVars        == <<unloading, row, awaiting>>
requestHistory == <<accepted, told, written>>
requestVars    == <<proc, agents, tableVars, outbox, rowVars, requestHistory>>

Verdicts == {"answer", "cancel", "timeout"}
Reply    == [req : Reqs, proc : Agents, body : Verdicts]

RequestsTypeOK ==
  /\ proc \in {NoAgent} \cup Agents /\ agents \in 0..MaxAgents /\ proc <= agents
  /\ count \in 0..MaxReq
  /\ phase \in [Reqs -> {"unused", "pending", "settled"}]
  /\ from \in [Reqs -> 0..MaxAgents] /\ of \in [Reqs -> Sessions]
  /\ deadline \in [Reqs -> BOOLEAN]
  /\ verdict \in [Reqs -> Verdicts \cup {"none"}]
  /\ retired \in [Reqs -> BOOLEAN]
  /\ goroutine \in [Reqs -> {"none", "wait", "resolve", "expire", "gone"}]
  /\ outbox \subseteq Reply
  /\ unloading \subseteq Sessions /\ row \subseteq Sessions
  /\ awaiting \in [Sessions -> BOOLEAN]
  /\ accepted \subseteq Reqs /\ told \in [Reqs -> 0..1] /\ written \subseteq Reply

RequestsInit ==
  /\ proc = NoAgent /\ agents = 0 /\ count = 0
  /\ phase = [r \in Reqs |-> "unused"]
  /\ from = [r \in Reqs |-> NoAgent]
  /\ of \in [Reqs -> Sessions] /\ deadline \in [Reqs -> BOOLEAN]
  /\ verdict = [r \in Reqs |-> "none"] /\ retired = [r \in Reqs |-> FALSE]
  /\ goroutine = [r \in Reqs |-> "none"]
  /\ outbox = {} /\ unloading = {} /\ row = {}
  /\ awaiting = [s \in Sessions |-> FALSE]
  /\ accepted = {} /\ told = [r \in Reqs |-> 0] /\ written = {}

Pending == {r \in Reqs : phase[r] = "pending"}

-----------------------------------------------------------------------------
\* ensureProcess: a new agent process, when there is none.
SpawnAgent ==
  /\ proc = NoAgent /\ agents < MaxAgents
  /\ proc' = agents + 1 /\ agents' = agents + 1
  /\ UNCHANGED <<tableVars, outbox, rowVars, requestHistory>>

\* setSessionAwaiting on the sessions of S, of which those of W wait; a no-op for
\* a session without a row.
SetAwaiting(S, W) ==
  awaiting' = [s \in Sessions |-> IF s \in S \cap row THEN s \in W ELSE awaiting[s]]

\* forwardPermission, forwardXaiRequest: the reader stores the request with
\* the stdin of its process, marks the session and starts the goroutine.
Forward ==
  /\ proc # NoAgent /\ count < MaxReq
  /\ LET r == count + 1 IN
     /\ count' = r
     /\ phase' = [phase EXCEPT ![r] = "pending"]
     /\ from' = [from EXCEPT ![r] = proc]
     /\ goroutine' = [goroutine EXCEPT ![r] = "wait"]
     /\ SetAwaiting({of[r]}, {of[r]})
  /\ UNCHANGED <<proc, agents, of, deadline, verdict, retired, outbox, unloading, row, requestHistory>>

\* RespondPermissionWithMeta, RespondClientRequest: the first answer to an open
\* request is taken, every other is refused.
AnswerRequest(r) ==
  /\ phase[r] = "pending" /\ verdict[r] = "none"
  /\ verdict' = [verdict EXCEPT ![r] = "answer"]
  /\ accepted' = accepted \cup {r}
  /\ UNCHANGED <<proc, agents, count, phase, from, of, deadline, retired, goroutine, outbox,
                 rowVars, told, written>>

\* waitClientResolution: the select, either branch when both are ready.
WaiterDone(r) ==
  /\ goroutine[r] = "wait" /\ verdict[r] # "none"
  /\ goroutine' = [goroutine EXCEPT ![r] = "resolve"]
  /\ UNCHANGED <<proc, agents, count, phase, from, of, deadline, verdict, retired, outbox,
                 rowVars, requestHistory>>

WaiterTimer(r) ==
  /\ goroutine[r] = "wait" /\ deadline[r]
  /\ goroutine' = [goroutine EXCEPT ![r] = "expire"]
  /\ UNCHANGED <<proc, agents, count, phase, from, of, deadline, verdict, retired, outbox,
                 rowVars, requestHistory>>

-----------------------------------------------------------------------------
(* resolveClientRequestLocked for every request of R, which took verdict v *)

\* CompareAndDelete: only one of the racing settlements gets the request.
Claimed_All(R) == R
Claimed(R) == R \cap Pending

\* "Another request in the same session may still be awaiting input."
StillAwaiting_No(R) == {}
StillAwaiting(R) == {of[q] : q \in Pending \ R}

ReplyOf(r, p, v) == [req |-> r, proc |-> p, body |-> v[r]]

\* to: the process whose stdin each reply goes to.
Settle(R, v, to) ==
  LET won == Claimed(R) IN
  /\ verdict' = v
  /\ phase' = [r \in Reqs |-> IF r \in won THEN "settled" ELSE phase[r]]
  /\ told' = [r \in Reqs |-> IF r \in won THEN told[r] + 1 ELSE told[r]]
  /\ SetAwaiting({of[r] : r \in won}, StillAwaiting(won))
  /\ outbox' = outbox \cup {ReplyOf(r, to[r], v) : r \in {q \in won : ~retired[q]}}

\* resolveClientRequest of the goroutine.
Resolve(r) ==
  /\ goroutine[r] = "resolve"
  /\ Settle({r}, verdict, from)
  /\ goroutine' = [goroutine EXCEPT ![r] = "gone"]
  /\ UNCHANGED <<proc, agents, count, from, of, deadline, retired, unloading, row,
                 accepted, written>>

\* "An accepted answer wins over the timer."
Timed(r) == IF verdict[r] = "none" THEN [verdict EXCEPT ![r] = "timeout"] ELSE verdict

\* expireClientRequest
Expires_Open(r) == IF verdict[r] = "none" THEN {r} ELSE {}
Expires(r) == {r}

Expire(r) ==
  /\ goroutine[r] = "expire"
  /\ Settle(Expires(r), Timed(r), from)
  /\ goroutine' = [goroutine EXCEPT ![r] = "gone"]
  /\ UNCHANGED <<proc, agents, count, from, of, deadline, retired, unloading, row,
                 accepted, written>>

Cancelled(R) == [r \in Reqs |-> IF r \in R /\ verdict[r] = "none" THEN "cancel" ELSE verdict[r]]

\* CancelWithMeta settles the session's requests; the replies go to b.stdin.
Cancel(s) ==
  /\ s \in row
  /\ LET R == {r \in Pending : of[r] = s} IN
     /\ R # {}
     /\ Settle(R, Cancelled(R), [q \in Reqs |-> proc])
  /\ UNCHANGED <<proc, agents, count, from, of, deadline, retired, goroutine, unloading, row,
                 accepted, written>>

\* resetProcessRoster, when the process exits or the user restarts it: every
\* request is retired without a reply, and the roster is emptied.
Retired_None == {}
Retired == Pending

Reset ==
  /\ proc # NoAgent
  /\ proc' = NoAgent
  /\ LET v == Cancelled(Retired) IN
     /\ verdict' = v
     /\ phase' = [r \in Reqs |-> IF r \in Retired THEN "settled" ELSE phase[r]]
     /\ told' = [r \in Reqs |-> IF r \in Retired THEN told[r] + 1 ELSE told[r]]
  /\ retired' = [r \in Reqs |-> retired[r] \/ r \in Retired]
  /\ row' = {} /\ awaiting' = [s \in Sessions |-> FALSE]
  /\ UNCHANGED <<agents, count, from, of, deadline, goroutine, outbox, unloading,
                 accepted, written>>

\* writeAgentMessage, outside the lock; a write to a dead process is lost.
Write(m) ==
  /\ m \in outbox
  /\ outbox' = outbox \ {m}
  /\ written' = IF m.proc = proc THEN written \cup {m} ELSE written
  /\ UNCHANGED <<proc, agents, tableVars, rowVars, accepted, told>>

-----------------------------------------------------------------------------
(* the roster rows that carry AwaitingInput *)

\* createSession, LoadSession, ResumeSession: a missing row is made.
Load(s) ==
  /\ proc # NoAgent /\ s \notin row
  /\ row' = row \cup {s} /\ awaiting' = [awaiting EXCEPT ![s] = FALSE]
  /\ UNCHANGED <<proc, agents, tableVars, outbox, unloading, requestHistory>>

\* forgetSessionLocked, after session/close or session/delete.
Forget(s) ==
  /\ s \in row
  /\ row' = row \ {s} /\ awaiting' = [awaiting EXCEPT ![s] = FALSE]
  /\ UNCHANGED <<proc, agents, tableVars, outbox, unloading, requestHistory>>

\* unloadResident: an idle session is closed at the agent, which takes up to
\* 30 s, and then its row is marked, whatever happened to it meanwhile.
Unload(s) ==
  /\ proc # NoAgent /\ s \in row /\ ~awaiting[s] /\ s \notin unloading
  /\ unloading' = unloading \cup {s}
  /\ UNCHANGED <<proc, agents, tableVars, outbox, row, awaiting, requestHistory>>

MarkUnloaded(s) ==
  /\ s \in unloading
  /\ unloading' = unloading \ {s}
  /\ \/ awaiting' = [awaiting EXCEPT ![s] = FALSE]
     \/ UNCHANGED awaiting                                  \* session/close failed
  /\ UNCHANGED <<proc, agents, tableVars, outbox, row, requestHistory>>

-----------------------------------------------------------------------------
Waiter(r) == WaiterDone(r) \/ Resolve(r) \/ Expire(r)

RequestsNext ==
  \/ SpawnAgent \/ Forward \/ Reset
  \/ \E r \in Reqs : AnswerRequest(r) \/ Waiter(r) \/ WaiterTimer(r)
  \/ \E m \in outbox : Write(m)
  \/ \E s \in Sessions : Cancel(s) \/ Load(s) \/ Forget(s) \/ Unload(s) \/ MarkUnloaded(s)

RequestsSpec == RequestsInit /\ [][RequestsNext]_requestVars

\* The goroutine of a request runs, and its timer fires.
RequestsFairSpec ==
  RequestsSpec /\ \A r \in Reqs : WF_requestVars(Waiter(r)) /\ WF_requestVars(WaiterTimer(r))

-----------------------------------------------------------------------------
(* properties *)

\* However many browsers, timers and cancels race, a request leaves the table
\* once, with one resolved event and at most one reply, built or written.
SettledOnce ==
  /\ \A r \in Reqs : told[r] = IF phase[r] = "settled" THEN 1 ELSE 0
  /\ \A m, n \in outbox \cup written : m.req = n.req => m = n /\ ~(m \in outbox /\ m \in written)

\* A reply goes to the process that asked, "never the replacement", whichever
\* path wrote it; a stored request is of the process b.stdin belongs to.
OwnProcess ==
  /\ \A m \in outbox \cup written : m.proc = from[m.req]
  /\ \A r \in Pending : proc # NoAgent /\ from[r] = proc

\* Whoever was told that the answer was taken sees that answer go to the
\* agent, unless the process was replaced: no timer or cancel overrides it.
AcceptedWins ==
  /\ \A r \in accepted : verdict[r] = "answer"
  /\ \A m \in outbox \cup written : (m.body = "answer") <=> (m.req \in accepted)

\* One reply at most, to the process that asked, and the one a browser was told of.
OneReply == SettledOnce /\ OwnProcess /\ AcceptedWins

\* A session never waits for input that nobody asks for.
AwaitingHasRequest == \A s \in Sessions : awaiting[s] => \E r \in Pending : of[r] = s

\* Settling one request leaves its session waiting for the others (a row that
\* goes, or is marked as unloaded, stops waiting).
SiblingsKeepAwaiting ==
  [][\A s \in Sessions :
       awaiting[s] /\ ~awaiting'[s] /\ s \in row' /\ unloading' = unloading =>
         ~\E r \in Reqs : phase'[r] = "pending" /\ of[r] = s]_requestVars

\* A request with a budget does not stay open for ever, even when the answer
\* and the timer arrive together.
BudgetEnds == \A r \in Reqs : (phase[r] = "pending" /\ deadline[r]) ~> phase[r] = "settled"
=============================================================================
