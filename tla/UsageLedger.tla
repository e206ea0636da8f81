---------------------------- MODULE UsageLedger ----------------------------
(***************************************************************************)
(* The usage ledger of src/internal/acp/usage_ledger.go and the report of  *)
(* bridge_ext_usage.go that is made from it.                               *)
(*                                                                         *)
(* The agent appends a line per turn to a session's updates.jsonl, rewrites*)
(* the file when the user rewinds, and removes it when it is old.  A sync  *)
(* copies the turns into the ledger: it loads, lists and stats the files,  *)
(* scans the changed ones, merges under led.mu, then writes the entries and*)
(* after them the cursors.  A report scans the files the ledger has not    *)
(* caught up with and adds the rest from memory.  Files change between any *)
(* two steps, a read or a write may fail, the host may die.                *)
(*                                                                         *)
(* A turn is a number, in the order of time.  A cursor (mtime, size) is the*)
(* version of the file it was taken from.  Windows and the cwd filter are  *)
(* left out, and of the counters of a turn there is one, its tokens.       *)
(***************************************************************************)
EXTENDS Integers, Sequences, FiniteSets, FiniteSetsExt, Functions

CONSTANTS
  Files,
  MaxTurns,      \* turns the agent writes
  MaxVersion,    \* changes of one file
  MaxFaults,     \* failed reads and writes of the ledger, unreadable directories,
                 \* and lost ledger files
  MaxRestarts,
  Named,         \* turns that carry a prompt_id
  Models,
  Usage          \* what a turn used: its tokens, and those of each model it names

Turns == 1..MaxTurns
NoCursor == 0

ASSUME LedgerAssumption ==
  /\ MaxTurns \in Nat \ {0} /\ MaxVersion \in Nat \ {0}
  /\ MaxFaults \in Nat /\ MaxRestarts \in Nat /\ Named \subseteq Turns
  /\ IsFiniteSet(Files) /\ IsFiniteSet(Models)
  /\ \A e \in Turns :
       /\ Usage[e].tokens \in Nat /\ DOMAIN Usage[e].by \subseteq Models
       /\ Usage[e].by \in [DOMAIN Usage[e].by -> Nat]

VARIABLES
  lines,     \* turns in a file, in order; a file that is gone has none
  ver,       \* version of a file, 0 before its first line
  gone,      \* files the agent has removed
  turns,     \* turns written so far
  entries, cursors, loaded, synced, dirty,   \* the ledger in memory
  haveFile,  \* the ledger file is there
  saved,     \* its turns, by file
  savedCursors,   \* its side file
  pc,        \* where the sync is
  job,       \* what the sync carries: see Idle
  query,     \* where a report is, and what it carries: see NoQuery
  faults, restarts,
  orphans,   \* files whose cursor on disk is of a ledger file that was lost, or
             \* written over unread, and
  believed,  \* those whose cursor in memory is, as it was read (history)
  forgot     \* the process could not read the ledger file that is there (history)

agent  == <<lines, ver, gone, turns>>
memory == <<entries, cursors, loaded, synced, dirty>>
disk   == <<haveFile, saved, savedCursors>>
sync   == <<pc, job>>
bounds == <<faults, restarts>>
history == <<orphans, believed, forgot>>
vars   == <<agent, memory, disk, sync, query, bounds, history>>

Present == {f \in Files : ver[f] > 0 /\ f \notin gone}

\* usageEventKey: session and prompt_id, or session and place in the file.
EventKey(f, e, ordinal) == IF e \in Named THEN <<f, e>> ELSE <<f, -ordinal>>

\* A ledger entry: the key it is filed under and the turn it tells of.
Entry(f, e, ordinal) == [key |-> EventKey(f, e, ordinal), file |-> f, turn |-> e]

Unknown == "unknown"
Sum(f) == MapThenSumSet(LAMBDA k : f[k], DOMAIN f)
Share(f, model) == IF model \in DOMAIN f THEN f[model] ELSE 0
Rest(u) == IF u.tokens > Sum(u.by) THEN u.tokens - Sum(u.by) ELSE 0

\* ledgerFillEntry: a turn that names no model is filed under unknown as a whole,
\* and what the named ones leave is kept apart, for unknown too.
Filled(u) ==
  IF u.by = <<>> THEN [models |-> [k \in {Unknown} |-> u.tokens], residual |-> 0]
  ELSE [models |-> u.by, residual |-> Rest(u)]

\* accumulateUsage: the same, straight into the rows of the report.
Accumulated(u, model) ==
  Share(u.by, model)
    + IF model # Unknown THEN 0 ELSE IF u.by = <<>> THEN u.tokens ELSE Rest(u)

\* The events of a file, numbered in the file; scanLedgerFile and scanUsageFile
\* parse and number alike.
Scanned(f) == {Entry(f, lines[f][i], i - 1) : i \in DOMAIN lines[f]}
TurnsOf(E) == {x.turn : x \in E}
Entries == [key : Files \X ((-MaxTurns)..MaxTurns), file : Files, turn : Turns]

NoCursors == [f \in Files |-> NoCursor]

\* A step of the sync knows: the cursors copied, the paths listed, the versions
\* of the files to scan, and what the scan found.
Idle == [cursors |-> NoCursors, listed |-> {},
         todo |-> NoCursors, found |-> {}]
NoQuery == [at |-> "none", paths |-> {}, cursors |-> NoCursors,
            direct |-> {}, owed |-> {}]

Cursors == [Files -> 0..MaxVersion]

TypeOK ==
  /\ lines \in [Files -> Seq(Turns)] /\ ver \in Cursors /\ gone \subseteq Files
  /\ turns \in 0..MaxTurns
  /\ entries \subseteq Entries /\ cursors \in Cursors
  /\ loaded \in BOOLEAN /\ synced \in BOOLEAN /\ dirty \in BOOLEAN
  /\ haveFile \in BOOLEAN /\ saved \subseteq Files \X Turns /\ savedCursors \in Cursors
  /\ pc \in {"idle", "listed", "stated", "scanned", "entries", "meta"}
  /\ job.cursors \in Cursors /\ job.listed \subseteq Files /\ job.todo \in Cursors
  /\ job.found \subseteq Entries
  /\ pc \in {"idle", "entries", "meta"} => job = Idle
  /\ pc \in {"entries", "meta"} => ~dirty
  /\ query.at \in {"none", "listed", "copied", "stated", "scanned"}
  /\ query.paths \subseteq Files /\ query.direct \subseteq Entries
  /\ faults \in 0..MaxFaults /\ restarts \in 0..MaxRestarts
  /\ orphans \subseteq Files /\ believed \subseteq Files /\ forgot \in BOOLEAN

Init ==
  /\ lines = [f \in Files |-> <<>>] /\ ver = [f \in Files |-> 0] /\ gone = {} /\ turns = 0
  /\ entries = {} /\ cursors = NoCursors
  /\ loaded = FALSE /\ synced = FALSE /\ dirty = FALSE
  /\ haveFile = FALSE /\ saved = {} /\ savedCursors = NoCursors
  /\ pc = "idle" /\ job = Idle /\ query = NoQuery
  /\ faults = 0 /\ restarts = 0
  /\ orphans = {} /\ believed = {} /\ forgot = FALSE

-----------------------------------------------------------------------------
(* the agent *)

host == <<memory, disk, sync, query, bounds, history>>

AppendTurn(f) ==
  /\ turns < MaxTurns /\ f \notin gone /\ ver[f] < MaxVersion
  /\ turns' = turns + 1
  /\ lines' = [lines EXCEPT ![f] = Append(@, turns')]
  /\ ver' = [ver EXCEPT ![f] = @ + 1]
  /\ UNCHANGED <<gone, host>>

Rewind(f) ==
  /\ f \in Present /\ ver[f] < MaxVersion
  /\ \E k \in 0..Len(lines[f])-1 : lines' = [lines EXCEPT ![f] = SubSeq(@, 1, k)]
  /\ ver' = [ver EXCEPT ![f] = @ + 1]
  /\ UNCHANGED <<gone, turns, host>>

CleanUp(f) ==
  /\ f \in Present
  /\ gone' = gone \cup {f} /\ lines' = [lines EXCEPT ![f] = <<>>]
  /\ UNCHANGED <<ver, turns, host>>

-----------------------------------------------------------------------------
(* syncUsageLedger *)

\* The entries a fresh process reads: a turn without a prompt_id comes back with
\* ordinal 0, and the last of those with one key stays.
Reload(S) ==
  LET E == {Entry(p[1], p[2], 0) : p \in S} IN
  {x \in E : \A y \in E : y.key = x.key => y.turn <= x.turn}

\* load, of a ledger file that is there: as it is, without its cursors, or not at all.
\* Only a file that was read lets the cursors count.  A file that cannot be read is
\* taken for none, and what is saved next is written over it.
ReadBoth == /\ entries' = Reload(saved) /\ cursors' = savedCursors
            /\ believed' = orphans /\ forgot' = FALSE
ReadEntries == /\ entries' = Reload(saved) /\ cursors' = NoCursors
               /\ believed' = {} /\ forgot' = FALSE
ReadNothing == /\ entries' = {} /\ cursors' = NoCursors
               /\ believed' = {} /\ forgot' = TRUE

\* The first sync of a process loads; later ones have the ledger in memory.
Load(failed) ==
  /\ loaded' = TRUE
  /\ IF loaded \/ ~haveFile THEN ~failed /\ UNCHANGED <<entries, cursors, believed, forgot>>
     ELSE IF failed THEN ReadEntries \/ ReadNothing ELSE ReadBoth

\* A directory that cannot be read hides its files from the walk.
Faults(failed, L) == (IF failed THEN 1 ELSE 0) + (IF L = Present THEN 0 ELSE 1)

List ==
  /\ pc = "idle" /\ pc' = "listed"
  /\ \E failed \in BOOLEAN, L \in SUBSET Present :
       /\ Load(failed)
       /\ faults' = faults + Faults(failed, L) /\ faults' <= MaxFaults
       /\ job' = [Idle EXCEPT !.cursors = cursors', !.listed = L]
  /\ UNCHANGED <<agent, synced, dirty, disk, query, restarts, orphans>>

\* Changed(c, f): the file is there and not as the cursor c has it.
Changed(c, f) == f \in Present /\ c[f] # ver[f]

Stat ==
  /\ pc = "listed" /\ pc' = "stated"
  /\ job' = [job EXCEPT !.todo = [f \in Files |->
       IF f \in job.listed /\ Changed(job.cursors, f) THEN ver[f] ELSE NoCursor]]
  /\ UNCHANGED <<agent, memory, disk, query, bounds, history>>

Stale == {f \in Files : job.cursors[f] # NoCursor /\ f \notin job.listed}
Todo  == {f \in Files : job.todo[f] # NoCursor}

\* Nothing changed on disk: only what an earlier write failed to save is left.
NothingNew_Dirty ==
  /\ pc = "stated" /\ Todo = {} /\ Stale = {}
  /\ synced' = TRUE /\ job' = Idle
  /\ pc' = IF dirty THEN "entries" ELSE "idle"
  /\ UNCHANGED <<agent, entries, cursors, loaded, dirty, disk, query, bounds, history>>
NothingNew ==
  /\ pc = "stated" /\ Todo = {} /\ Stale = {}
  /\ synced' = TRUE /\ job' = Idle
  /\ pc' = IF dirty THEN "entries" ELSE "idle"
  /\ dirty' = FALSE
  /\ UNCHANGED <<agent, entries, cursors, loaded, disk, query, bounds, history>>

Scan ==
  /\ pc = "stated" /\ Todo \cup Stale # {}
  /\ job' = [job EXCEPT !.found = UNION {Scanned(f) : f \in Todo}]
  /\ pc' = "scanned"
  /\ UNCHANGED <<agent, memory, disk, query, bounds, history>>

\* Entries of files that are gone stay.
Merged == {x \in entries : x.key \notin {y.key : y \in job.found}} \cup job.found

\* The cursor of a scanned file: the one stat gave before the scan.
CursorOf_Now(f) == ver[f]
CursorOf(f) == job.todo[f]

\* A file without an event, or one that was gone, keeps its old cursor.
Merge ==
  LET advanced == {x.file : x \in job.found} IN
  /\ pc = "scanned"
  /\ entries' = Merged
  /\ cursors' = [f \in Files |-> IF f \in advanced THEN CursorOf(f)
                                 ELSE IF f \in Stale THEN NoCursor ELSE cursors[f]]
  /\ synced' = TRUE
  /\ pc' = IF dirty \/ advanced # {} \/ Stale # {} THEN "entries" ELSE "idle"
  /\ dirty' = FALSE /\ job' = Idle
  /\ believed' = believed \ advanced
  /\ UNCHANGED <<agent, loaded, disk, query, bounds, orphans, forgot>>

SavedForm == {<<x.file, x.turn>> : x \in entries}

\* writeFileAtomic of the entries, then of the cursors.  The new entries are what the
\* cursor of a file that is lost or written over says if its session file was scanned since.
WriteEntries ==
  /\ pc = "entries" /\ pc' = "meta" /\ haveFile' = TRUE /\ saved' = SavedForm
  /\ orphans' = {f \in IF forgot THEN Files ELSE orphans : f \in believed \/ cursors[f] = NoCursor}
  /\ forgot' = FALSE
  /\ UNCHANGED <<agent, memory, savedCursors, job, query, bounds, believed>>
WriteMeta ==
  /\ pc = "meta" /\ pc' = "idle" /\ savedCursors' = cursors /\ orphans' = believed
  /\ UNCHANGED <<agent, memory, haveFile, saved, job, query, bounds, believed, forgot>>

WriteFails_Quiet ==
  /\ pc \in {"entries", "meta"} /\ faults < MaxFaults
  /\ faults' = faults + 1 /\ pc' = "idle"
  /\ UNCHANGED <<agent, memory, disk, job, query, restarts, history>>
WriteFails ==
  /\ pc \in {"entries", "meta"} /\ faults < MaxFaults
  /\ faults' = faults + 1 /\ dirty' = TRUE /\ pc' = "idle"
  /\ UNCHANGED <<agent, entries, cursors, loaded, synced, disk, job, query, restarts, history>>

\* The host dies and comes back, perhaps without its ledger file.
Restart ==
  /\ restarts < MaxRestarts /\ restarts' = restarts + 1
  /\ entries' = {} /\ cursors' = NoCursors
  /\ loaded' = FALSE /\ synced' = FALSE /\ dirty' = FALSE
  /\ \/ UNCHANGED <<haveFile, saved, faults, orphans>>
     \/ /\ faults < MaxFaults /\ faults' = faults + 1
        /\ haveFile /\ haveFile' = FALSE /\ saved' = {} /\ orphans' = Files
  /\ pc' = "idle" /\ job' = Idle /\ query' = NoQuery
  /\ believed' = {} /\ forgot' = FALSE
  /\ UNCHANGED <<agent, savedCursors>>

-----------------------------------------------------------------------------
(* UsageReport *)

world == <<agent, memory, disk, sync, bounds, history>>

\* The turns that are in a session file or in the ledger, in memory or in a file
\* that the process has read or is still to read.
Known ==
  (UNION {Range(lines[f]) : f \in Present}) \cup TurnsOf(entries)
    \cup IF forgot THEN {} ELSE {p[2] : p \in saved}

QueryList ==
  /\ query.at = "none"
  /\ query' = [NoQuery EXCEPT !.at = "listed", !.paths = Present,
                 !.owed = Known]
  /\ UNCHANGED world

\* ensureUsageLedger has synced, or its sync failed after the load and every path is
\* scanned.
QueryCopy ==
  /\ query.at = "listed"
  /\ \/ synced /\ query' = [query EXCEPT !.at = "copied", !.cursors = cursors]
     \/ loaded /\ faults > 0 /\ query' = [query EXCEPT !.at = "stated"]
  /\ UNCHANGED world

\* filterUnindexedPaths
QueryStat ==
  /\ query.at = "copied"
  /\ query' = [query EXCEPT !.at = "stated", !.paths = {f \in @ : Changed(query.cursors, f)}]
  /\ UNCHANGED world

QueryScan ==
  /\ query.at = "stated"
  /\ query' = [query EXCEPT !.at = "scanned", !.direct = UNION {Scanned(f) : f \in query.paths}]
  /\ UNCHANGED world

\* Turns counted from the files, and from the ledger under keys not seen there.
FromLedger_All(E) == entries
FromLedger(E) == {x \in entries : x.key \notin {y.key : y \in E}}

\* How often the report counts a turn.
Report == [e \in Turns |-> Cardinality({x \in query.direct : x.turn = e})
                          + Cardinality({x \in FromLedger(query.direct) : x.turn = e})]

\* The row of a model: what the scan added, and what the ledger's entries did.
ByModel(model) ==
  LET row(x) == LET e == Filled(Usage[x.turn]) IN
        Share(e.models, model) + IF model = Unknown THEN e.residual ELSE 0
  IN MapThenSumSet(LAMBDA x : Accumulated(Usage[x.turn], model), query.direct)
     + MapThenSumSet(row, FromLedger(query.direct))

QueryReport == query.at = "scanned" /\ query' = NoQuery /\ UNCHANGED world

-----------------------------------------------------------------------------
Agent == \E f \in Files : AppendTurn(f) \/ Rewind(f) \/ CleanUp(f)
Sync  == List \/ Stat \/ NothingNew \/ Scan \/ Merge \/ WriteEntries \/ WriteMeta
Query == QueryList \/ QueryCopy \/ QueryStat \/ QueryScan \/ QueryReport

Next == Agent \/ Sync \/ WriteFails \/ Restart \/ Query

Spec == Init /\ [][Next]_vars
\* The ticker syncs for ever, and a sync ends.
FairSpec == Spec /\ WF_vars(Sync)

-----------------------------------------------------------------------------
(* properties *)

\* A cursor on disk never runs ahead of the entries: a file the next process
\* would skip has all its turns in the ledger file, or nothing would ever fill
\* the gap.  Except a cursor that outlives its ledger file, lost or written over unread,
\* when the next one is made without the session file in question, and until that is
\* scanned.
MetaNotAhead ==
  haveFile =>
    \A f \in Present \ orphans :
      savedCursors[f] = ver[f] => \A e \in Range(lines[f]) : <<f, e>> \in saved

\* What the ledger file holds stays there, whatever becomes of the session files
\* and of the host, until the file itself is lost, or a process that could not read
\* it writes over it.
HistoryStays == [][~haveFile' \/ forgot \/ saved \subseteq saved']_vars

\* Each turn is counted once, whichever of the two sources has it, and none is
\* missed that was there when the report began and is there when it ends, unless
\* it is in a file the host skips for such a cursor.
EachOnce ==
  \A e \in Turns :
    /\ Report[e] <= 1
    /\ e \in query.owed \cap Known => Report[e] = 1 \/ \E f \in believed : e \in Range(lines[f])

\* The rows by model add up to the tokens of the turns counted, named or not, when
\* no turn gives its models more than its total.
RowsAddUp ==
  (\A e \in Turns : Sum(Usage[e].by) <= Usage[e].tokens) =>
    MapThenSumSet(ByModel, Models \cup {Unknown})
      = MapThenSumSet(LAMBDA e : Report[e] * Usage[e].tokens, Turns)

\* A report made while turns are written, rewound, removed and synced is right: its
\* two sources neither overlap nor leave a gap, and do their sums alike.
CountedOnce == query.at = "scanned" => EachOnce /\ RowsAddUp

\* Again and again every turn that is in a session file is in the ledger file
\* too: no failed write and no lost file holds one back for ever, and of cursors none
\* but such a one.
CatchesUp == []<>(\A f \in Files \ believed : \A e \in Range(lines[f]) : <<f, e>> \in saved)

\* The ledger file loses nothing but unread, and misses nothing for ever.
LedgerLasts == HistoryStays /\ CatchesUp
=============================================================================
