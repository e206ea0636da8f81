----------------------------- MODULE SessionLog -----------------------------
(***************************************************************************)
(* A session's updates.jsonl, the agent that writes it and speaks of the   *)
(* same events on its pipe, and the host that reads both: pages of the     *)
(* history through a cache of the parsed file, live events with the ids of *)
(* anonymous tool calls (src/internal/acp/session_history.go,              *)
(* synth_tool_call.go, bridge.go).  SessionHistory has the operators.      *)
(*                                                                         *)
(* The agent: lines reach the file in order but for user echoes, which may *)
(* come late; file and pipe do not wait for each other; a rewind writes a  *)
(* marker and nothing else.                                                *)
(***************************************************************************)
EXTENDS SessionHistory

CONSTANTS
  Shapes,      \* the fingerprint and family of a tool call
  Texts,       \* what an edit may replace and put in its place
  MaxEvents, MaxResets,
  MaxLag       \* events the file, or the host, may be behind

ASSUME SessionAssumption == MaxEvents \in Nat /\ MaxResets \in Nat /\ MaxLag \in Nat \ {0}

VARIABLES
  ev,        \* what happened, in the order of time
  story,     \* the events the agent's own history still has, and where its
  turnAt,    \* turns begin
  turn,      \* a turn is open
  disk,      \* the lines of the file: places in ev
  sent,      \* how many events the host has taken from the pipe
  live,      \* the liveToolResolver of the session
  liveIds,   \* the ids live events got, by place in ev
  seed,      \* the view read to seed the resolver: nothing yet, the size of the
             \* file seen, or the lines it has
  overtaken, \* such a view told of the end of a call that was still to be delivered
  cache,     \* the view kept: the size it is filed under, the lines it has
  resets

agent == <<ev, story, turnAt, turn>>
pipe  == <<sent, live, liveIds, seed, overtaken>>
vars  == <<agent, disk, pipe, cache, resets>>

NotRead == -1
Events == DOMAIN ev
File == [i \in DOMAIN disk |-> ev[disk[i]]]
Lines(n) == SubSeq(File, 1, n)
Written == {disk[i] : i \in DOMAIN disk}

Unseeded == [seeded |-> FALSE, open |-> <<>>, pending |-> <<>>, count |-> <<>>]

Unread == [at |-> "none", n |-> 0]

TypeOK ==
  /\ \A i \in Events : IsLine(ev[i]) /\ ev[i].own \in 0..i
  /\ story \in Seq(Events) /\ turnAt \in Seq(1..MaxEvents) /\ turn \in BOOLEAN
  /\ disk \in Seq(Events) /\ Cardinality(Written) = Len(disk)
  /\ sent \in 0..Len(ev) /\ DOMAIN liveIds \subseteq 1..sent
  /\ live.seeded \in BOOLEAN /\ Len(live.pending) <= Len(live.open)
  /\ seed.at \in {"none", "stat", "read"} /\ seed.n \in 0..Len(disk)
  /\ cache.n \in 0..Len(disk) /\ cache.size \in NotRead..Len(disk)
  /\ overtaken \in BOOLEAN /\ resets \in 0..MaxResets

Init ==
  /\ ev = <<>> /\ story = <<>> /\ turnAt = <<>> /\ turn = FALSE /\ disk = <<>>
  /\ sent = 0 /\ live = Unseeded /\ liveIds = <<>> /\ seed = Unread /\ overtaken = FALSE
  /\ cache = [size |-> NotRead, n |-> 0] /\ resets = 0

-----------------------------------------------------------------------------
(* the agent *)

Now == IF ev = <<>> THEN 0 ELSE ev[Len(ev)].ts
Event(kind) == [kind |-> kind, ts |-> Now + 1, pi |-> NoPI, target |-> 0,
                name |-> None, family |-> None, over |-> FALSE, own |-> 0]
host == <<disk, pipe, cache, resets>>

\* Resolving needs the resolver; response_completed never gets to it.
Resolved(e) == e.kind \in {"call", "update", "done"}

\* Events the resolver has no part in are passed over.
Upcoming == {i \in sent+1..Len(ev) : Resolved(ev[i])}

Happens(e) ==
  /\ Len(ev) < MaxEvents
  /\ Len(ev) - Len(disk) < MaxLag /\ Cardinality(Upcoming) < MaxLag
  /\ ev' = Append(ev, e)
  /\ UNCHANGED host
InStory == story' = Append(story, Len(ev'))

\* Older agents number no prompt; one that does never stops.
Marked == \E i \in Events : ev[i].pi # NoPI
Prompt ==
  /\ ~turn /\ turn' = TRUE
  /\ \E pi \in {Len(turnAt)} \cup (IF Marked THEN {} ELSE {NoPI}) :
       Happens([Event("user") EXCEPT !.pi = pi])
  /\ InStory /\ turnAt' = Append(turnAt, Len(story'))

MoreOfPrompt ==
  /\ turn /\ ev[Len(ev)].kind = "user"
  /\ Happens([Event("user") EXCEPT !.pi = ev[Len(ev)].pi])
  /\ InStory /\ UNCHANGED <<turnAt, turn>>

Says(kind) == turn /\ Happens(Event(kind)) /\ InStory /\ UNCHANGED <<turnAt, turn>>

\* Calls made at once may share a millisecond.
CallTool(s) ==
  /\ turn
  /\ \E same \in IF ev[Len(ev)].kind = "call" THEN BOOLEAN ELSE {FALSE} :
       Happens([Event("call") EXCEPT !.ts = IF same THEN Now ELSE @, !.name = s.name, !.family = s.family])
  /\ InStory /\ UNCHANGED <<turnAt, turn>>

\* Calls of this turn that have no final update.
Running ==
  {c \in story[turnAt[Len(turnAt)]]..Len(ev) :
     ev[c].kind = "call" /\ \A i \in Events : ~(ev[i].own = c /\ ev[i].over)}

ToolUpdate(c) ==
  /\ turn /\ c \in Running
  /\ \E over \in BOOLEAN, shows \in {"name", "family", "nothing"} :
       /\ over \/ shows = "name"
       /\ Happens([Event("update") EXCEPT !.own = c, !.over = over,
                     !.name = IF shows = "name" THEN ev[c].name ELSE None,
                     !.family = IF shows = "family" THEN ev[c].family ELSE None])
  /\ InStory /\ UNCHANGED <<turnAt, turn>>

EndTurn == turn /\ turn' = FALSE /\ Happens(Event("done")) /\ InStory /\ UNCHANGED turnAt

Rewind ==
  /\ ~turn
  /\ \E t \in 0..Len(turnAt)-1 :
       /\ Happens([Event("rewind") EXCEPT !.target = t])
       /\ story' = SubSeq(story, 1, turnAt[t + 1] - 1) /\ turnAt' = SubSeq(turnAt, 1, t)
  /\ UNCHANGED turn

\* Only user echoes are overtaken on their way to the file.
Write ==
  /\ \E i \in Events \ Written :
       /\ \A j \in 1..i-1 : j \in Written \/ ev[j].kind = "user"
       /\ disk' = Append(disk, i)
  /\ UNCHANGED <<agent, pipe, cache, resets>>

-----------------------------------------------------------------------------
(* live events *)

NextUp == CHOOSE i \in Upcoming : \A j \in Upcoming : i <= j

\* normalizedSessionHistory, as the resolver and every page request call it: the
\* view is filed under the size seen before it was read.
Filed(size) == [size |-> size, n |-> Len(disk)]

Stat ==
  /\ Upcoming # {} /\ ~live.seeded /\ seed.at = "none"
  /\ seed' = [at |-> "stat", n |-> Len(disk)]
  /\ UNCHANGED <<agent, disk, sent, live, liveIds, overtaken, cache, resets>>

Read ==
  /\ seed.at = "stat"
  /\ cache' = IF cache.size = seed.n THEN cache ELSE Filed(seed.n)
  /\ seed' = [at |-> "read", n |-> cache'.n]
  /\ overtaken' = (overtaken \/ \E j \in 1..seed'.n :
                     disk[j] > sent /\ (ev[disk[j]].kind \in {"done", "resp"} \/ ev[disk[j]].over))
  /\ UNCHANGED <<agent, disk, sent, live, liveIds, resets>>

\* seedFrom: the calls still open in the history, and those whose start may yet come.
Seeded_Uncounted == LET w == View(Lines(seed.n)).calls IN
  [seeded |-> TRUE, open |-> w.open, pending |-> w.open, count |-> <<>>]
Seeded == LET w == View(Lines(seed.n)).calls IN
  [seeded |-> TRUE, open |-> w.open, pending |-> w.open, count |-> w.count]
Resolver == IF live.seeded THEN live ELSE Seeded

LiveStart(r, e) ==
  LET hits == {i \in DOMAIN r.pending : r.pending[i].ts = e.ts /\ SameStart(r.pending[i], e)}
      first == CHOOSE i \in hits : \A j \in hits : i <= j
      id == <<e.ts, CountAt(r.count, e.ts)>>
  IN IF hits # {}
     THEN [id |-> r.pending[first].id, r |-> [r EXCEPT !.pending = RemoveAt(@, first)]]
     ELSE [id |-> id, r |-> [r EXCEPT !.open = Append(@, Call(id, e)), !.count = Bump(@, e.ts)]]

LiveUpdate(r, e) ==
  LET m == Match(e, r.open) IN
  IF m = 0 THEN [id |-> <<>>, r |-> r]
  ELSE [id |-> r.open[m].id, r |-> [r EXCEPT !.open = IF e.over THEN RemoveAt(@, m) ELSE @]]

\* handleLive
Handle_Half(r, e) ==
  CASE e.kind = "call"   -> LiveStart(r, e)
    [] e.kind = "update" -> LiveUpdate(r, e)
    [] e.kind = "done"   -> [id |-> <<>>, r |-> [r EXCEPT !.open = <<>>]]
Handle(r, e) ==
  CASE e.kind = "call"   -> LiveStart(r, e)
    [] e.kind = "update" -> LiveUpdate(r, e)
    [] e.kind = "done"   -> [id |-> <<>>, r |-> [r EXCEPT !.open = <<>>, !.pending = <<>>]]

Deliver ==
  /\ Upcoming # {} /\ (live.seeded \/ seed.at = "read")
  /\ sent' = NextUp /\ seed' = Unread
  /\ LET h == Handle(Resolver, ev[NextUp]) IN
       /\ live' = h.r
       /\ liveIds' = IF h.id = <<>> THEN liveIds ELSE Give(liveIds, NextUp, h.id)
  /\ UNCHANGED <<agent, disk, overtaken, cache, resets>>

\* The agent is gone or the session unloaded: the resolver with it, and what was
\* on the pipe.  (After the last event of the run it would lead nowhere.)
Reset ==
  /\ resets < MaxResets /\ resets' = resets + 1 /\ Len(ev) < MaxEvents
  /\ Written = Events /\ (turn => Marked /\ ev[Len(ev)].kind # "user")
  /\ turn' = FALSE /\ sent' = Len(ev) /\ live' = Unseeded /\ seed' = Unread
  /\ UNCHANGED <<ev, story, turnAt, disk, liveIds, overtaken, cache>>

Agent ==
  \/ Prompt \/ MoreOfPrompt \/ EndTurn \/ Rewind \/ Write
  \/ \E k \in {"thought", "resp"} : Says(k)
  \/ \E s \in Shapes : CallTool(s)
  \/ \E c \in Events : ToolUpdate(c)

Next == Agent \/ Stat \/ Read \/ Deliver \/ Reset

Spec == Init /\ [][Next]_vars

-----------------------------------------------------------------------------
(* properties *)

\* How much of the file a page request sees: all of it, unless the view kept for
\* the file's present size is another.
Seen == IF cache.size = Len(disk) THEN cache.n ELSE Len(disk)

\* Once the file has every line, the history a page shows is the one the agent
\* itself goes on from: its events, in its order, its turns where it began them.
\* (What is still on the pipe changes neither.)
StoryTold ==
  Len(disk) = Len(ev) /\ Upcoming = {} =>
    LET order == Survivors(Lines(Seen)) IN
    /\ [k \in DOMAIN order |-> disk[order[k]]] = story
    /\ PromptStarts(Lines(Seen), order) = turnAt

\* No view is being read for the resolver.  (Reading one changes neither the lines
\* nor the live ids: what holds before it holds during it.)
Settled == seed.at = "none"

\* A response_completed came between a call and its last update.
Straddled ==
  \E i \in Events : ev[i].kind = "resp" /\ \E c \in 1..i :
    ev[c].kind = "call" /\ \A j \in 1..i : ~(ev[j].own = c /\ ev[j].over)

\* Once the file has every line, the three ways out give a call one id: a live event,
\* its line in the file and in a page of the agent's, unless a response ended under
\* the call; and live, unless the file was so far ahead when the resolver was seeded
\* that it held the end of a call still to come.
IdsAgree ==
  Len(disk) = Len(ev) /\ disk # <<>> /\ Settled /\ ~Straddled =>
    LET order == Survivors(File)
        ids == PageIds(File, order, TRUE)
    IN /\ PageIds(File, order, FALSE) = ids
       /\ ~overtaken => \A i \in DOMAIN ids : disk[i] \in DOMAIN liveIds => ids[i] = liveIds[disk[i]]

\* The counts in the header of a folded edit are those of a shortest script, or
\* the whole of both sides where the texts are long.
Matchings(a, b) ==
  {M \in SUBSET {p \in (DOMAIN a) \X (DOMAIN b) : a[p[1]] = b[p[2]]} :
     \A p, q \in M : (p[1] < q[1]) <=> (p[2] < q[2])}
DiffsCount ==
  \A old, new \in Texts :
    LET c == LineCounts(old, new)
        common == Len(new) - c[1]
    IN /\ common = Len(old) - c[2]
       /\ IF Len(old) + Len(new) > DiffLines THEN common = 0
          ELSE /\ \E M \in Matchings(old, new) : Cardinality(M) = common
               /\ \A M \in Matchings(old, new) : Cardinality(M) <= common

\* Whatever their size, pages hold every side question once and, read from the tail,
\* leave no envelope out.
Pages(n, total) == {<<k * n, IF k * n + n > total THEN total ELSE k * n + n>> : k \in 0..(total - 1) \div n}
TailPages(n, total) == {Window(-k * n, n, total) : k \in 1..(total + n - 1) \div n}
PagesCover ==
  \A total, n \in 1..MaxEvents :
    /\ UNION {w[1]..(w[2] - 1) : w \in TailPages(n, total)} = 0..(total - 1)
    /\ \A anchor \in -1..(total - 1) : Cardinality({w \in Pages(n, total) : CarriesBtw(w, anchor)}) = 1

\* The lines an item of a lite page stands for, and the edit their full form shows.
Of(v, i) == {k \in i.seq..i.end : IdAt(v, k) = i.id /\ (i.id # <<>> \/ At(v, k).kind = At(v, i.seq).kind)}
Latest(v, K, F(_)) ==
  LET told == {k \in K : F(At(v, k)) # 0} IN
  IF told = {} THEN 0 ELSE F(At(v, CHOOSE k \in told : \A j \in told : j <= k))
FullEdit(v, K) == EditFold(Latest(v, K, Details), Latest(v, K, Diff))

\* Pages cover the history.  A side question is between the survivors that are older
\* and those that are younger; the last n turns are n turns.  Every line is of one item
\* of the lite page, which counts each body it has lost once and shows the edit that
\* the full page will show.  (What is still on the pipe changes no page.)
PagesTell ==
  LET v == View(File)
      total == Len(v.order)
      lite == Page(v, <<0, total>>).items
      of == [j \in DOMAIN lite |-> Of(v, lite[j])]
  IN PagesCover /\ DiffsCount /\ (Len(disk) = Len(ev) /\ Upcoming = {} /\ Settled /\ total > 0 =>
    /\ \A at \in 0..Now : LET anchor == Anchor(v, at) IN
         \A k \in 1..total : At(v, k).ts <= at <=> k <= anchor + 1
    /\ \A n \in DOMAIN v.starts :
         Cardinality({k \in DOMAIN v.starts : v.starts[k] > LastTurns(n, total, v.starts)[1]}) = n
    /\ \A k \in 1..total : Cardinality({j \in DOMAIN lite : k \in of[j]}) = 1
    /\ \A j \in DOMAIN lite :
         /\ lite[j].omitted = Cardinality({k \in of[j] : HasBody(At(v, k))})
         /\ lite[j].edits = FullEdit(v, of[j]))
=============================================================================
