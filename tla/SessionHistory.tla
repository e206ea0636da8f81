--------------------------- MODULE SessionHistory ---------------------------
(***************************************************************************)
(* What the host makes of a session's updates.jsonl: the order of its      *)
(* lines, the branch that survives the rewinds, the turns, the ids of      *)
(* anonymous tool calls, the pages and their lite form                     *)
(* (src/internal/acp/session_history.go, synth_tool_call.go, lite.go).     *)
(*                                                                         *)
(* A line is a record: ts, kind, pi (the promptIndex of a user chunk),     *)
(* target (of a rewind_marker), name and family (what a tool line shows of *)
(* its call), over (its status is terminal).  Texts, and the many shapes a *)
(* tool's arguments come in, are left out: a call has one fingerprint.     *)
(***************************************************************************)
EXTENDS Integers, Sequences, FiniteSets, SequencesExt, TLC

CONSTANT DiffLines   \* up to so many lines, of both sides, an edit is compared

NoPI == -1
None == "none"

\* What parseUpdateLineMeta keeps of a line; a line it cannot parse is no line.
Kinds == {"user", "thought", "call", "update", "resp", "done", "rewind"}
IsLine(l) == l.kind \in Kinds /\ l.ts \in Nat /\ l.pi \in Nat \cup {NoPI} /\ l.target \in Nat /\ l.over \in BOOLEAN

\* parseToolLineMeta: what a line shows of its call, by the arguments it repeats
\* and by the shape of its output.
Input(l)  == IF l.kind \in {"call", "update"} THEN l.name ELSE None
Output(l) == IF l.kind \in {"call", "update"} THEN l.family ELSE None

\* sort by agentTimestampMs, then by place in the file
Precedes(lines, a, b) == lines[a].ts < lines[b].ts \/ (lines[a].ts = lines[b].ts /\ a < b)
Order(lines) == SortSeq([i \in DOMAIN lines |-> i], LAMBDA a, b : Precedes(lines, a, b))

-----------------------------------------------------------------------------
(* userRunTurnTracker and filterRewindBranch *)

Tracker == [seen |-> FALSE, inUser |-> FALSE, pi |-> NoPI]

\* A chunk opens a run when none is open or when its promptIndex is another.
NewRun(t, pi) == ~t.inUser \/ ((t.seen \/ pi # NoPI) /\ pi # t.pi)
\* Once an index has been seen, a run without one is no turn.
Counts(t, pi) == pi # NoPI \/ ~t.seen
OnUser(t, pi) == [seen |-> t.seen \/ pi # NoPI, inUser |-> TRUE,
                  pi |-> IF NewRun(t, pi) THEN pi ELSE t.pi]
OnNonUser_Keeps(t) == t
OnNonUser(t)  == [t EXCEPT !.inUser = FALSE, !.pi = NoPI]

\* One line of the walk: w.out are the survivors, w.starts where turns begin.
Cut(w, l) ==
  [w EXCEPT !.t = OnNonUser(@),
            !.out = IF l.target < Len(w.starts) THEN SubSeq(@, 1, w.starts[l.target + 1] - 1) ELSE @,
            !.starts = IF l.target < Len(@) THEN SubSeq(@, 1, l.target) ELSE @]
Keep(w, i, l) ==
  IF l.kind = "user"
  THEN [out |-> Append(w.out, i), t |-> OnUser(w.t, l.pi),
        starts |-> IF NewRun(w.t, l.pi) /\ Counts(w.t, l.pi)
                   THEN Append(w.starts, Len(w.out) + 1) ELSE w.starts]
  ELSE [w EXCEPT !.out = Append(@, i), !.t = OnNonUser(@)]

Walk(lines) ==
  FoldLeft(LAMBDA w, i : IF lines[i].kind = "rewind" THEN Cut(w, lines[i]) ELSE Keep(w, i, lines[i]),
           [out |-> <<>>, starts |-> <<>>, t |-> Tracker], Order(lines))

\* The file's surviving lines by msgSeq (here from 1).
Survivors(lines) == Walk(lines).out

\* turnIndexesOf walks the survivors afresh.
PromptStarts(lines, s) ==
  LET step(w, k) == LET l == lines[s[k]] IN
        IF l.kind # "user" THEN [w EXCEPT !.t = OnNonUser(@)]
        ELSE [t |-> OnUser(w.t, l.pi),
              starts |-> IF NewRun(w.t, l.pi) /\ Counts(w.t, l.pi) THEN Append(w.starts, k) ELSE w.starts]
  IN FoldLeft(step, [t |-> Tracker, starts |-> <<>>], [k \in DOMAIN s |-> k]).starts

-----------------------------------------------------------------------------
(* ids of anonymous tool calls *)

\* Places in open of which P holds; the only one, or 0.
Filter(open, P(_)) == {i \in DOMAIN open : P(open[i])}
Unique(open, P(_)) ==
  LET hits == Filter(open, P) IN
  IF Cardinality(hits) = 1 THEN CHOOSE i \in hits : TRUE ELSE 0

HasFingerprint(u) == Input(u) # None
FingerprintMatch(u, c) == HasFingerprint(u) /\ c.name = Input(u)
\* A line that shows no family goes with a call of any.
FamilyCompatible(u, c) == Output(u) \in {None, c.family}
SameStart(a, b) == a.name = b.name

\* Several open calls of the family of a final output: the first, unless it has a twin.
FirstOfFamily(u, open) ==
  LET hits == Filter(open, LAMBDA c : FamilyCompatible(u, c))
      first == CHOOSE i \in hits : \A j \in hits : i <= j
  IN IF u.over /\ Cardinality(hits) > 1 /\ \A j \in hits \ {first} : ~SameStart(open[first], open[j])
     THEN first ELSE 0

\* matchUpdateToCall: by fingerprint, by family, and last the only open call.
Match(u, open) ==
  LET byPrint  == Unique(open, LAMBDA c : FingerprintMatch(u, c))
      ofFamily == IF Output(u) = None THEN 0 ELSE Unique(open, LAMBDA c : FamilyCompatible(u, c))
      first    == IF Output(u) = None THEN 0 ELSE FirstOfFamily(u, open)
      lone     == IF /\ u.over /\ Len(open) = 1
                     /\ HasFingerprint(u) => FingerprintMatch(u, open[1]) THEN 1 ELSE 0
  IN CASE byPrint # 0 -> byPrint [] ofFamily # 0 -> ofFamily [] first # 0 -> first [] OTHER -> lone

Call(id, l) == [id |-> id, ts |-> l.ts, name |-> Input(l), family |-> Output(l)]

\* The calls so far: open ones, how many began in a millisecond, ids given by line.
NoCalls == [open |-> <<>>, count |-> <<>>, ids |-> <<>>]
CountAt(count, ts) == IF ts \in DOMAIN count THEN count[ts] ELSE 0
Bump(count, ts) == [t \in DOMAIN count \cup {ts} |-> IF t = ts THEN CountAt(count, ts) + 1 ELSE count[t]]
Give(ids, i, id) == [j \in DOMAIN ids \cup {i} |-> IF j = i THEN id ELSE ids[j]]

ObserveStart(w, i, l) ==
  LET id == <<l.ts, CountAt(w.count, l.ts)>> IN
  [open |-> Append(w.open, Call(id, l)), count |-> Bump(w.count, l.ts), ids |-> Give(w.ids, i, id)]
ObserveUpdate(w, i, l) ==
  LET m == Match(l, w.open) IN
  IF m = 0 THEN w
  ELSE [w EXCEPT !.ids = Give(@, i, w.open[m].id), !.open = IF l.over THEN RemoveAt(@, m) ELSE @]

\* walkSyntheticToolCalls; response_completed counts as the end of a turn here.
WalkCalls(lines, s) ==
  FoldLeft(LAMBDA w, i : CASE lines[i].kind \in {"done", "resp"} -> [w EXCEPT !.open = <<>>]
                           [] lines[i].kind = "call"   -> ObserveStart(w, i, lines[i])
                           [] lines[i].kind = "update" -> ObserveUpdate(w, i, lines[i])
                           [] OTHER -> w,
           NoCalls, s)

\* normalizeSyntheticToolCallsInSlice, for pages that come from the agent.
SliceCalls(lines, s) ==
  FoldLeft(LAMBDA w, i : CASE lines[i].kind = "done"   -> [w EXCEPT !.open = <<>>]
                           [] lines[i].kind = "call"   -> ObserveStart(w, i, lines[i])
                           [] lines[i].kind = "update" -> ObserveUpdate(w, i, lines[i])
                           [] OTHER -> w,
           NoCalls, s)

\* buildNormalizedHistory: v.order[k] is the line of msgSeq k (here from 1).
View(lines) ==
  LET s == Survivors(lines) IN
  [lines |-> lines, order |-> s, starts |-> PromptStarts(lines, s), calls |-> WalkCalls(lines, s)]
At(v, k) == v.lines[v.order[k]]
IdAt(v, k) == IF v.order[k] \in DOMAIN v.calls.ids THEN v.calls.ids[v.order[k]] ELSE <<>>

-----------------------------------------------------------------------------
(* pages: windows [start, end) of msgSeq, from 0 *)

LastTurns(n, total, starts) ==
  IF n <= 0 \/ starts = <<>> THEN <<total, total>>
  ELSE <<starts[IF n > Len(starts) THEN 1 ELSE Len(starts) - n + 1] - 1, total>>

\* A negative offset counts from the tail.
Window(offset, limit, total) ==
  LET start == IF offset < 0 THEN (IF total + offset < 0 THEN 0 ELSE total + offset)
               ELSE IF offset > total THEN total ELSE offset
      end == IF limit > 0 THEN start + limit ELSE start
  IN <<start, IF end > total THEN total ELSE end>>

\* btwAnchorSeq: the last survivor not younger than the question, or -1.
Anchor(v, at) == Cardinality({k \in DOMAIN v.order : At(v, k).ts <= at}) - 1
CarriesBtw_Half(w, anchor) == w[1] <= anchor /\ anchor < w[2]
CarriesBtw(w, anchor) == (w[1] <= anchor /\ anchor < w[2]) \/ (anchor < 0 /\ w[1] = 0)

\* SessionUpdates: the ids of a page's tool lines come from the host's own reading
\* of the file or, where it has none, from a walk over the page the agent sends.
PageIds(lines, s, local) == IF local THEN WalkCalls(lines, s).ids ELSE SliceCalls(lines, s).ids

-----------------------------------------------------------------------------
(* the lite form of a page *)

\* liteLCSCounts: lines added and removed along the longest common subsequence.
LCSCounts(a, b) ==
  LET m == Len(a)  n == Len(b)
      dp[i \in 1..m+1, j \in 1..n+1] ==
        IF i > m \/ j > n THEN 0
        ELSE IF a[i] = b[j] THEN dp[i + 1, j + 1] + 1
        ELSE IF dp[i + 1, j] >= dp[i, j + 1] THEN dp[i + 1, j] ELSE dp[i, j + 1]
      walk[i \in 1..m+1, j \in 1..n+1] ==
        IF i > m \/ j > n THEN <<n - j + 1, m - i + 1>>
        ELSE IF a[i] = b[j] THEN walk[i + 1, j + 1]
        ELSE IF dp[i + 1, j] >= dp[i, j + 1] THEN <<walk[i + 1, j][1], walk[i + 1, j][2] + 1>>
        ELSE <<walk[i, j + 1][1] + 1, walk[i, j + 1][2]>>
  IN walk[1, 1]

\* liteDiffLineCounts, of texts as sequences of lines.
LineCounts(old, new) ==
  IF old # <<>> /\ new # <<>> /\ Len(old) + Len(new) <= DiffLines
  THEN LCSCounts(old, new) ELSE <<Len(new), Len(old)>>

\* The edit a line tells of, 0 for none: the diff in its content, or the details
\* in its rawOutput.  (An edit is named by the ts of its line.)
Diff(l) == IF l.kind \in {"call", "update"} THEN l.ts ELSE 0
Details(l) == IF l.kind = "update" /\ l.over THEN l.ts ELSE 0
EditFold(details, diff) == IF details # 0 THEN details ELSE diff

\* Lines whose body the lite form drops.
HasBody(l) == l.kind \in {"call", "update", "thought"}

\* liteProjectEnvelope.  An item of the page: its msgSeq and msgSeqEnd, the id of
\* its tool call, how many bodies it has lost, the edit its header shows.
Item(v, k) ==
  LET l == At(v, k) IN
  [seq |-> k, end |-> k, id |-> IdAt(v, k), omitted |-> IF HasBody(l) THEN 1 ELSE 0,
   edits |-> EditFold(Details(l), Diff(l))]

\* liteMergeTool: the later edit stands; liteMergeThought
MergeTool(p, j, i) ==
  [p EXCEPT !.items[j].end = i.end, !.items[j].omitted = @ + i.omitted,
            !.items[j].edits = IF i.edits # 0 THEN i.edits ELSE @]
MergeThought(p, j, i) == [p EXCEPT !.items[j].end = i.end, !.items[j].omitted = @ + i.omitted]

\* liteCoalesce: tool lines of one id become one, and so do thoughts in a row.
CoalesceStep(v, p, k) ==
  LET i == Item(v, k)
      same == {j \in DOMAIN p.items : i.id # <<>> /\ p.items[j].id = i.id}
      alone == Append(p.items, i)
  IN CASE At(v, k).kind = "thought" ->
            IF p.run # 0 THEN MergeThought(p, p.run, i) ELSE [items |-> alone, run |-> Len(alone)]
       [] same # {} -> [MergeTool(p, CHOOSE j \in same : TRUE, i) EXCEPT !.run = 0]
       [] OTHER -> [items |-> alone, run |-> 0]
Coalesce(v, w) ==
  FoldLeft(LAMBDA p, k : CoalesceStep(v, p, k), [items |-> <<>>, run |-> 0],
           [j \in 1..(w[2] - w[1]) |-> w[1] + j]).items

\* localUpdatesPage: one window of the view.
Page(v, w) == [items |-> Coalesce(v, w), total |-> Len(v.order), more |-> w[2] < Len(v.order)]
=============================================================================
