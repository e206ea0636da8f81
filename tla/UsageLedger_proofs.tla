------------------------- MODULE UsageLedger_proofs -------------------------
(***************************************************************************)
(* Proofs about UsageLedger, for every set of session files, every number  *)
(* of turns, rewinds, faults and restarts.  Of turns without a prompt_id   *)
(* they claim their types, and that a report's rows add up, but no more:   *)
(* Reload loses such turns.                                                *)
(***************************************************************************)
EXTENDS UsageLedger, TLAPS, FiniteSetTheorems

-----------------------------------------------------------------------------
(* The inductive invariant: types *)

Job   == [cursors : Cursors, listed : SUBSET Files, todo : Cursors, found : SUBSET Entries]
Query0 == [at : {"none", "listed", "copied", "stated", "scanned"}, paths : SUBSET Files,
           cursors : Cursors, direct : SUBSET Entries, owed : SUBSET Turns]

AgentType ==
  /\ lines \in [Files -> Seq(Turns)] /\ ver \in Cursors /\ gone \subseteq Files
  /\ turns \in 0..MaxTurns /\ \A f \in Files : Len(lines[f]) <= turns
  /\ \A f \in Files \ Present : lines[f] = <<>>

LedgerType ==
  /\ entries \subseteq Entries /\ cursors \in Cursors
  /\ loaded \in BOOLEAN /\ synced \in BOOLEAN /\ dirty \in BOOLEAN
  /\ haveFile \in BOOLEAN /\ saved \subseteq Files \X Turns /\ savedCursors \in Cursors
  /\ orphans \subseteq Files /\ believed \subseteq Files /\ forgot \in BOOLEAN

SyncType ==
  /\ pc \in {"idle", "listed", "stated", "scanned", "entries", "meta"} /\ job \in Job
  /\ pc \in {"idle", "entries", "meta"} => job = Idle
  /\ pc \in {"entries", "meta"} => ~dirty

QueryType == query \in Query0
CountType == faults \in 0..MaxFaults /\ restarts \in 0..MaxRestarts

TypeInv == AgentType /\ LedgerType /\ SyncType /\ QueryType /\ CountType

-----------------------------------------------------------------------------
(* The inductive invariant: what tells of a turn *)

\* A turn that carries a prompt_id is filed under it, another under no turn's number.
Filed(x) == x.key[1] = x.file /\ IF x.turn \in Named THEN x.key[2] = x.turn ELSE x.key[2] <= 0

Told == entries \cup job.found \cup query.direct

\* Something on disk or in memory says that the turn e is of the file f.
TellsOf(f, e) ==
  \/ e \in Range(lines[f]) \/ <<f, e>> \in saved
  \/ \E x \in Told : x.file = f /\ x.turn = e

\* Turns are told of by one file, and only once they were written.
TurnInv ==
  /\ \A x \in Told : Filed(x)
  /\ \A f \in Files, e \in Turns : TellsOf(f, e) => e <= turns
  /\ \A f, g \in Files, e \in Turns : TellsOf(f, e) /\ TellsOf(g, e) => f = g
  /\ \A e \in query.owed : e <= turns

-----------------------------------------------------------------------------
(* The inductive invariant: cursors and what they stand for *)

\* The entry of a turn that carries a prompt_id.
EntryOf(f, e) == [key |-> <<f, e>>, file |-> f, turn |-> e]

\* The turns of f that carry one are all in E, or in the ledger file.
Kept(f, E)    == \A e \in Range(lines[f]) \cap Named : EntryOf(f, e) \in E
KeptOnDisk(f) == \A e \in Range(lines[f]) \cap Named : <<f, e>> \in saved

\* Cursors are of versions the file has had.
CursorInv ==
  \A f \in Files :
    /\ cursors[f] <= ver[f] /\ savedCursors[f] <= ver[f]
    /\ job.cursors[f] <= ver[f] /\ job.todo[f] <= ver[f] /\ query.cursors[f] <= ver[f]

\* What a cursor says has been read is in the ledger, in memory and on disk.
MemInv  == \A f \in Present \ believed : cursors[f] = ver[f] => Kept(f, entries)
DiskInv == haveFile => \A f \in Present \ orphans : savedCursors[f] = ver[f] => KeptOnDisk(f)

\* A process that has read the ledger file forgets nothing of it, and one that could not
\* knows nothing of it; between the two writes the file is what is in memory.
LoadInv ==
  /\ ~loaded => /\ entries = {} /\ cursors = NoCursors /\ believed = {}
                /\ ~forgot /\ ~synced /\ pc = "idle"
  /\ ~haveFile => saved = {} /\ (orphans = Files \/ \A f \in Files : savedCursors[f] = NoCursor)
  /\ loaded /\ haveFile /\ ~forgot =>
       \A f \in Files, e \in Named : <<f, e>> \in saved => EntryOf(f, e) \in entries
  /\ pc = "meta" => haveFile /\ saved = SavedForm

\* A sync works on the cursors there are, scans what has changed since, and what a scan
\* found is all there is unless the file changed again.  The cursors on disk are not
\* newer, whichever ledger file they are of.
SyncInv ==
  /\ pc \in {"listed", "stated", "scanned"} => job.cursors = cursors
  /\ pc = "listed" => Todo = {}
  /\ \A f \in Todo : job.cursors[f] < job.todo[f] /\ savedCursors[f] <= job.todo[f]
  /\ loaded => \A f \in Files : cursors[f] = NoCursor \/ savedCursors[f] <= cursors[f]
  /\ pc = "scanned" =>
       /\ \A x \in job.found : x.file \in Todo
       /\ \A f \in Todo \cap Present : job.todo[f] = ver[f] => Kept(f, job.found)

-----------------------------------------------------------------------------
(* The inductive invariant: where a report will find a turn *)

\* The file is skipped for a cursor that outlived its ledger, and if a sync has scanned it
\* that sync found the turn.
Skipped(f, e) == f \in believed /\ (pc = "scanned" /\ f \in Todo => EntryOf(f, e) \in job.found)

Found(f, e) ==
  \/ EntryOf(f, e) \in entries
  \/ query.at \in {"listed", "copied", "stated"} /\ f \in query.paths
  \/ query.at \in {"stated", "scanned"} /\ Skipped(f, e)
  \/ query.at = "scanned" /\ EntryOf(f, e) \in query.direct

QueryInv ==
  /\ query.at \in {"copied", "stated", "scanned"} => loaded
  /\ query.at = "copied" =>
       \A f \in Present : query.cursors[f] = ver[f] =>
         (f \in believed \/ Kept(f, entries)) /\ (f \in Todo => job.todo[f] = ver[f])
  /\ query.at # "none" =>
       \A f \in Present : \A e \in Range(lines[f]) \cap Named \cap query.owed : Found(f, e)

IInv == TypeInv /\ TurnInv /\ CursorInv /\ MemInv /\ DiskInv /\ LoadInv /\ SyncInv /\ QueryInv

-----------------------------------------------------------------------------
(* What the operators return *)

LEMMA IdleFacts ==
  /\ Idle \in Job /\ NoQuery \in Query0 /\ NoCursors \in Cursors
  /\ MaxTurns \in Nat \ {0} /\ MaxVersion \in Nat \ {0} /\ MaxFaults \in Nat /\ MaxRestarts \in Nat
  /\ Named \subseteq Turns /\ Turns \subseteq Nat \ {0}
  <1>1. NoCursors \in Cursors
    BY LedgerAssumption DEF Cursors, NoCursors, NoCursor
  <1> QED BY <1>1, LedgerAssumption DEF Idle, NoQuery, Job, Query0, Turns

LEMMA NoCursorFacts == \A f \in Files : NoCursors[f] = NoCursor
  BY DEF NoCursors

\* The entries a scan makes of a file, and the ones a fresh process makes of the ledger
\* file, are entries, filed as they should be.
LEMMA EntryFacts ==
  ASSUME NEW f \in Files, NEW e \in Turns, NEW o \in 0..MaxTurns
  PROVE  /\ Entry(f, e, o) \in Entries /\ Filed(Entry(f, e, o))
         /\ Entry(f, e, o).file = f /\ Entry(f, e, o).turn = e
         /\ e \in Named => Entry(f, e, o) = EntryOf(f, e)
  BY IdleFacts DEF Entry, EventKey, Entries, Filed, EntryOf, Turns

LEMMA ScanFacts ==
  ASSUME AgentType, NEW f \in Files
  PROVE  /\ Scanned(f) \subseteq Entries
         /\ \A x \in Scanned(f) : Filed(x) /\ x.file = f /\ x.turn \in Range(lines[f])
         /\ \A e \in Range(lines[f]) \cap Named : EntryOf(f, e) \in Scanned(f)
         /\ Range(lines[f]) \subseteq Turns
  <1>1. \A i \in DOMAIN lines[f] : lines[f][i] \in Turns /\ i - 1 \in 0..MaxTurns
    BY IdleFacts DEF AgentType
  <1>2. \A i \in DOMAIN lines[f] : lines[f][i] \in Range(lines[f])
    BY DEF Range
  <1>3. ASSUME NEW x \in Scanned(f)
        PROVE  x \in Entries /\ Filed(x) /\ x.file = f /\ x.turn \in Range(lines[f])
    <2>1. PICK i \in DOMAIN lines[f] : x = Entry(f, lines[f][i], i - 1)
      BY DEF Scanned
    <2> QED BY <1>1, <1>2, <2>1, EntryFacts
  <1>4. ASSUME NEW e \in Range(lines[f]) \cap Named PROVE EntryOf(f, e) \in Scanned(f)
    <2>1. PICK i \in DOMAIN lines[f] : e = lines[f][i]
      BY DEF Range
    <2>2. EntryOf(f, e) = Entry(f, lines[f][i], i - 1)
      BY <1>1, <2>1, EntryFacts
    <2> QED BY <2>2 DEF Scanned
  <1>5. Range(lines[f]) \subseteq Turns
    BY <1>1 DEF Range
  <1> QED BY <1>3, <1>4, <1>5

\* Two entries under one key are one, if the turn of either carries a prompt_id.
LEMMA OneKey ==
  ASSUME NEW x \in Entries, NEW y \in Entries, Filed(x), Filed(y), x.turn \in Named, x.key = y.key
  PROVE  x = EntryOf(x.file, x.turn) /\ y = x
  <1>1. /\ x.key \in Files \X ((-MaxTurns)..MaxTurns) /\ y.key \in Files \X ((-MaxTurns)..MaxTurns)
        /\ x.file \in Files /\ x.turn \in Turns /\ y.turn \in Turns
        /\ x = [key |-> x.key, file |-> x.file, turn |-> x.turn]
        /\ y = [key |-> y.key, file |-> y.file, turn |-> y.turn]
    BY DEF Entries
  <1>2. x.key[1] = x.file /\ y.key[1] = y.file /\ x.key[2] = x.turn
    BY DEF Filed
  <1>3. x.turn > 0 /\ x.turn \in Nat
    BY <1>1, IdleFacts
  <1>4. y.turn \in Named /\ y.key[2] = y.turn
    BY <1>2, <1>3 DEF Filed
  <1>5. x.key = <<x.file, x.turn>>
    BY <1>1, <1>2
  <1>6. y.file = x.file /\ y.turn = x.turn
    BY <1>2, <1>4
  <1> QED BY <1>1, <1>5, <1>6 DEF EntryOf

LEMMA EntryOfFacts ==
  ASSUME NEW f \in Files, NEW e \in Named
  PROVE  /\ EntryOf(f, e) \in Entries /\ Filed(EntryOf(f, e))
         /\ EntryOf(f, e).file = f /\ EntryOf(f, e).turn = e
  <1>1. e \in Turns /\ e \in (-MaxTurns)..MaxTurns
    BY IdleFacts DEF Turns
  <1> QED BY <1>1 DEF EntryOf, Entries, Filed

LEMMA ReloadFacts ==
  ASSUME NEW S \in SUBSET (Files \X Turns)
  PROVE  /\ Reload(S) \subseteq Entries
         /\ \A x \in Reload(S) : Filed(x) /\ <<x.file, x.turn>> \in S
         /\ \A f \in Files, e \in Named : <<f, e>> \in S => EntryOf(f, e) \in Reload(S)
  <1> DEFINE E == {Entry(p[1], p[2], 0) : p \in S}
  <1>1. ASSUME NEW x \in E PROVE x \in Entries /\ Filed(x) /\ <<x.file, x.turn>> \in S
    <2>1. PICK p \in S : x = Entry(p[1], p[2], 0)
      OBVIOUS
    <2>2. p[1] \in Files /\ p[2] \in Turns /\ p = <<p[1], p[2]>> /\ 0 \in 0..MaxTurns
      BY IdleFacts
    <2> QED BY <2>1, <2>2, EntryFacts
  <1>2. ASSUME NEW f \in Files, NEW e \in Named, <<f, e>> \in S PROVE EntryOf(f, e) \in Reload(S)
    <2>1. EntryOf(f, e) = Entry(f, e, 0)
      BY IdleFacts, EntryFacts
    <2>2. EntryOf(f, e) \in E
      BY <1>2, <2>1
    <2>3. ASSUME NEW y \in E, y.key = EntryOf(f, e).key PROVE y = EntryOf(f, e)
      <3> DEFINE x == EntryOf(f, e)
      <3>1. x \in Entries /\ Filed(x) /\ x.turn \in Named /\ y \in Entries /\ Filed(y)
        BY <1>1, EntryOfFacts
      <3> HIDE DEF x
      <3>2. y = x
        BY <2>3, <3>1, OneKey DEF x
      <3> QED BY <3>2 DEF x
    <2>4. e <= e
      BY IdleFacts
    <2>5. \A y \in E : y.key = EntryOf(f, e).key => y.turn <= EntryOf(f, e).turn
      BY <2>3, <2>4, EntryOfFacts
    <2> QED BY <2>2, <2>5 DEF Reload
  <1> QED BY <1>1, <1>2 DEF Reload

\* A merge forgets no turn that carries a prompt_id.
LEMMA MergeFacts ==
  ASSUME TypeInv, TurnInv
  PROVE  /\ Merged \subseteq Entries /\ job.found \subseteq Merged /\ Merged \subseteq entries \cup job.found
         /\ \A x \in entries : x.turn \in Named => x \in Merged
  <1>1. \A x \in entries, y \in job.found : x.turn \in Named /\ x.key = y.key => y = x
    BY OneKey DEF TypeInv, LedgerType, SyncType, Job, TurnInv, Told
  <1> QED BY <1>1 DEF Merged, TypeInv, LedgerType, SyncType, Job

-----------------------------------------------------------------------------
(* Types *)

LEMMA TypeInit == Init => TypeInv
  <1> SUFFICES ASSUME Init PROVE TypeInv
    OBVIOUS
  <1> USE IdleFacts DEF Init
  <1>1. AgentType
    <2>1. lines \in [Files -> Seq(Turns)] /\ \A f \in Files : lines[f] = <<>>
      OBVIOUS
    <2> QED BY <2>1 DEF AgentType, Cursors, NoCursor
  <1>2. LedgerType
    BY DEF LedgerType
  <1>3. SyncType /\ QueryType /\ CountType
    BY DEF SyncType, QueryType, CountType
  <1> QED BY <1>1, <1>2, <1>3 DEF TypeInv

LEMMA NextCases ==
  ASSUME Next
  PROVE  \/ (\E f \in Files : AppendTurn(f) \/ Rewind(f) \/ CleanUp(f))
         \/ List \/ Stat \/ NothingNew \/ Scan \/ Merge \/ WriteEntries \/ WriteMeta \/ WriteFails
         \/ Restart \/ QueryList \/ QueryCopy \/ QueryStat \/ QueryScan \/ QueryReport
  BY DEF Next, Agent, Sync, Query

\* The agent's steps: what a file holds only grows at its end or shrinks.
LEMMA AgentFacts ==
  ASSUME TypeInv, NEW f \in Files, AppendTurn(f) \/ Rewind(f) \/ CleanUp(f)
  PROVE  /\ AgentType' /\ turns <= turns' /\ Present' \subseteq Present \cup {f}
         /\ \A g \in Files : ver[g] <= ver'[g]
         /\ \A g \in Files : Range(lines'[g]) \subseteq Range(lines[g]) \cup (IF g = f THEN {turns'} \ 1..turns ELSE {})
         /\ \A g \in Present' : ver'[g] = ver[g] => lines'[g] = lines[g] /\ g \in Present
  <1> USE IdleFacts DEF TypeInv, AgentType, Cursors, Present
  <1>1. CASE AppendTurn(f)
    <2>1. turns' = turns + 1 /\ turns' \in Turns /\ gone' = gone /\ f \notin gone
      BY <1>1 DEF AppendTurn, Turns
    <2>2. /\ lines' \in [Files -> Seq(Turns)] /\ lines'[f] = Append(lines[f], turns')
          /\ \A g \in Files \ {f} : lines'[g] = lines[g]
      BY <1>1, <2>1 DEF AppendTurn
    <2>3. /\ ver' \in [Files -> 0..MaxVersion] /\ ver'[f] = ver[f] + 1
          /\ \A g \in Files \ {f} : ver'[g] = ver[g]
      BY <1>1 DEF AppendTurn
    <2>4. /\ Len(lines'[f]) = Len(lines[f]) + 1
          /\ \A i \in 1..Len(lines'[f]) : lines'[f][i] = turns' \/ (i \in 1..Len(lines[f]) /\ lines'[f][i] = lines[f][i])
      BY <2>1, <2>2
    <2>5. Range(lines'[f]) \subseteq Range(lines[f]) \cup {turns'}
      BY <2>2, <2>4 DEF Range
    <2>6. turns' \notin 1..turns
      BY <2>1
    <2>7. AgentType'
      <3>1. \A g \in Files : Len(lines'[g]) <= turns'
        <4>1. \A g \in Files : lines[g] \in Seq(Turns) /\ Len(lines[g]) \in Nat /\ Len(lines[g]) <= turns
          OBVIOUS
        <4>2. turns \in Nat /\ Len(lines'[f]) <= turns'
          BY <2>1, <2>4, <4>1
        <4>3. \A g \in Files \ {f} : lines'[g] = lines[g] /\ Len(lines[g]) <= turns'
          BY <2>1, <2>2, <4>1, <4>2
        <4> QED BY <4>2, <4>3
      <3>2. turns' \in 0..MaxTurns /\ gone' \subseteq Files
        BY <2>1 DEF Turns
      <3>3. f \in Present'
        <4>1. ver[f] \in Nat /\ ver'[f] > 0
          BY <2>3
        <4> QED BY <2>1, <4>1
      <3>4. \A g \in Files \ Present' : g \in Files \ Present /\ lines'[g] = lines[g]
        BY <2>1, <2>2, <2>3, <3>3
      <3>5. \A g \in Files \ Present' : lines'[g] = <<>>
        BY <3>4
      <3> QED BY <2>2, <2>3, <3>1, <3>2, <3>5
    <2>8. \A g \in Files : Range(lines'[g]) \subseteq Range(lines[g]) \cup (IF g = f THEN {turns'} \ 1..turns ELSE {})
      BY <2>2, <2>5, <2>6
    <2>9. \A g \in Files : ver[g] <= ver'[g] /\ (ver'[g] = ver[g] => g # f)
      BY <2>3
    <2> QED BY <2>1, <2>2, <2>3, <2>7, <2>8, <2>9
  <1>2. CASE Rewind(f)
    <2>1. PICK k \in 0..Len(lines[f])-1 : lines' = [lines EXCEPT ![f] = SubSeq(@, 1, k)]
      BY <1>2 DEF Rewind
    <2>2. /\ Len(SubSeq(lines[f], 1, k)) = k /\ SubSeq(lines[f], 1, k) \in Seq(Turns) /\ k \in Nat
          /\ k <= Len(lines[f]) /\ \A i \in 1..k : SubSeq(lines[f], 1, k)[i] = lines[f][i] /\ i \in 1..Len(lines[f])
      BY <2>1
    <2>3. /\ lines' \in [Files -> Seq(Turns)] /\ lines'[f] = SubSeq(lines[f], 1, k)
          /\ \A g \in Files \ {f} : lines'[g] = lines[g]
      BY <2>1, <2>2
    <2>4. /\ ver' \in [Files -> 0..MaxVersion] /\ ver'[f] = ver[f] + 1 /\ gone' = gone /\ turns' = turns
          /\ \A g \in Files \ {f} : ver'[g] = ver[g]
      BY <1>2 DEF Rewind
    <2>5. Range(lines'[f]) \subseteq Range(lines[f])
      BY <2>2, <2>3 DEF Range
    <2>6. AgentType'
      <3>1. \A g \in Files : Len(lines'[g]) <= turns'
        <4>1. turns \in Nat /\ \A g \in Files : Len(lines[g]) \in Nat /\ Len(lines[g]) <= turns
          OBVIOUS
        <4>2. Len(lines'[f]) = k
          BY <2>2, <2>3
        <4>3. \A g \in Files \ {f} : Len(lines'[g]) <= turns'
          BY <2>3, <2>4, <4>1
        <4>4. k <= turns'
          BY <2>2, <2>4, <4>1
        <4> QED BY <4>2, <4>3, <4>4
      <3>2. turns' \in 0..MaxTurns /\ gone' \subseteq Files
        BY <2>4
      <3>3. ver[f] \in Nat /\ ver'[f] > 0 /\ f \in Files \ gone
        BY <1>2, <2>4 DEF Rewind
      <3>4. \A g \in Files \ Present' : g \in Files \ Present /\ lines'[g] = lines[g]
        BY <2>3, <2>4, <3>3
      <3> QED BY <2>3, <2>4, <3>1, <3>2, <3>4
    <2>7. \A g \in Files : ver[g] <= ver'[g] /\ (ver'[g] = ver[g] => g # f)
      BY <2>4
    <2>8. Present' \subseteq Present \cup {f} /\ \A g \in Present' : g # f => g \in Present
      BY <2>4
    <2>9. turns <= turns'
      BY <2>4
    <2>10. \A g \in Files : Range(lines'[g]) \subseteq Range(lines[g])
      BY <2>3, <2>5
    <2>11. \A g \in Present' : g \in Files
      OBVIOUS
    <2>12. \A g \in Present' : ver'[g] = ver[g] => lines'[g] = lines[g] /\ g \in Present
      BY <2>3, <2>7, <2>8, <2>11
    <2> QED BY <2>6, <2>7, <2>8, <2>9, <2>10, <2>12
  <1>3. CASE CleanUp(f)
    <2>1. /\ lines' \in [Files -> Seq(Turns)] /\ lines'[f] = <<>> /\ gone' = gone \cup {f}
          /\ \A g \in Files \ {f} : lines'[g] = lines[g]
          /\ ver' = ver /\ turns' = turns
      BY <1>3 DEF CleanUp
    <2>2. Range(lines'[f]) = {}
      BY <2>1 DEF Range
    <2>3. AgentType'
      <3>1. \A g \in Files : Len(lines'[g]) <= turns'
        <4>1. turns \in Nat /\ Len(lines'[f]) = 0
          BY <2>1
        <4> QED BY <2>1, <4>1
      <3>2. \A g \in Files \ Present' : lines'[g] = <<>>
        BY <2>1
      <3> QED BY <2>1, <3>1, <3>2
    <2> QED BY <2>1, <2>2, <2>3
  <1> QED BY <1>1, <1>2, <1>3

\* The steps of the agent leave the host alone.
LEMMA HostIsLeft ==
  ASSUME NEW f, AppendTurn(f) \/ Rewind(f) \/ CleanUp(f)
  PROVE  UNCHANGED host
  BY DEF AppendTurn, Rewind, CleanUp

\* The steps of the host leave the agent alone.
LEMMA AgentIsLeft ==
  ASSUME \/ List \/ Stat \/ NothingNew \/ Scan \/ Merge \/ WriteEntries \/ WriteMeta \/ WriteFails
         \/ Restart \/ QueryList \/ QueryCopy \/ QueryStat \/ QueryScan \/ QueryReport
  PROVE  UNCHANGED agent /\ Present' = Present
  BY DEF List, Stat, NothingNew, Scan, Merge, WriteEntries, WriteMeta, WriteFails, Restart, QueryList,
         QueryCopy, QueryStat, QueryScan, QueryReport, agent, world, Present

LEMMA FoundType ==
  ASSUME TypeInv, NEW S \in SUBSET Files
  PROVE  UNION {Scanned(f) : f \in S} \subseteq Entries
  BY ScanFacts DEF TypeInv

LEMMA SyncTypes ==
  ASSUME TypeInv, TurnInv, List \/ Stat \/ NothingNew \/ Scan \/ Merge
  PROVE  LedgerType' /\ SyncType' /\ UNCHANGED query /\ CountType'
  <1> USE IdleFacts DEF TypeInv, LedgerType, SyncType, CountType
  <1>1. Present \subseteq Files /\ \A f \in Files : ver[f] \in 0..MaxVersion
    BY DEF Present, AgentType, Cursors
  <1>2. CASE List
    <2>1. PICK failed \in BOOLEAN, L \in SUBSET Present :
            /\ Load(failed) /\ faults' = faults + Faults(failed, L) /\ faults' <= MaxFaults
            /\ job' = [Idle EXCEPT !.cursors = cursors', !.listed = L]
      BY <1>2 DEF List
    <2>2. Reload(saved) \subseteq Entries
      BY ReloadFacts
    <2>3. /\ entries' \subseteq Entries /\ cursors' \in Cursors /\ believed' \subseteq Files
          /\ forgot' \in BOOLEAN /\ loaded' = TRUE
      BY <2>1, <2>2 DEF Load, ReadBoth, ReadEntries, ReadNothing
    <2>4. job' \in Job
      BY <1>1, <2>1, <2>3 DEF Job, Idle
    <2>5. faults' \in 0..MaxFaults
      <3>1. Faults(failed, L) \in Nat /\ faults \in Nat
        BY DEF Faults
      <3> QED BY <2>1, <3>1
    <2> QED BY <1>2, <2>3, <2>4, <2>5 DEF List, disk
  <1>3. CASE Stat
    <2>1. job' \in Job
      <3>1. [f \in Files |-> IF f \in job.listed /\ Changed(job.cursors, f) THEN ver[f] ELSE NoCursor] \in Cursors
        BY <1>1 DEF Cursors, NoCursor
      <3> QED BY <1>3, <3>1 DEF Stat, Job
    <2> QED BY <1>3, <2>1 DEF Stat, memory, disk, bounds, history
  <1>4. CASE NothingNew
    BY <1>4 DEF NothingNew, disk, bounds, history
  <1>5. CASE Scan
    <2>1. job' \in Job
      <3>1. UNION {Scanned(f) : f \in Todo} \subseteq Entries
        BY FoundType DEF Todo
      <3> QED BY <1>5, <3>1 DEF Scan, Job
    <2> QED BY <1>5, <2>1 DEF Scan, memory, disk, bounds, history
  <1>6. CASE Merge
    <2> DEFINE advanced == {x.file : x \in job.found}
    <2>1. entries' \subseteq Entries
      BY <1>6, MergeFacts DEF Merge
    <2>2. cursors' \in Cursors
      <3>1. \A f \in Files : CursorOf(f) \in 0..MaxVersion /\ cursors[f] \in 0..MaxVersion /\ NoCursor \in 0..MaxVersion
        BY DEF CursorOf, Job, Cursors, NoCursor
      <3> QED BY <1>6, <3>1 DEF Merge, Cursors
    <2>3. believed' \subseteq Files
      BY <1>6 DEF Merge
    <2> QED BY <1>6, <2>1, <2>2, <2>3 DEF Merge, disk, bounds
  <1> QED BY <1>2, <1>3, <1>4, <1>5, <1>6

LEMMA WriteTypes ==
  ASSUME TypeInv, WriteEntries \/ WriteMeta \/ WriteFails \/ Restart
  PROVE  LedgerType' /\ SyncType' /\ QueryType' /\ CountType'
  <1> USE IdleFacts DEF TypeInv, LedgerType, SyncType, QueryType, CountType
  <1>1. CASE WriteEntries
    <2>1. SavedForm \subseteq Files \X Turns
      BY DEF SavedForm, Entries
    <2> QED BY <1>1, <2>1 DEF WriteEntries, memory, bounds, history
  <1>2. CASE WriteMeta
    BY <1>2 DEF WriteMeta, memory, bounds
  <1>3. CASE WriteFails
    BY <1>3 DEF WriteFails, disk, history
  <1>4. CASE Restart
    <2>1. /\ entries' = {} /\ cursors' = NoCursors /\ ~loaded' /\ ~synced' /\ ~dirty' /\ forgot' = FALSE
          /\ loaded' \in BOOLEAN /\ synced' \in BOOLEAN /\ dirty' \in BOOLEAN
          /\ pc' = "idle" /\ job' = Idle /\ query' = NoQuery /\ believed' = {} /\ savedCursors' = savedCursors
      BY <1>4 DEF Restart
    <2>2. restarts' \in 0..MaxRestarts /\ faults' \in 0..MaxFaults
      BY <1>4 DEF Restart
    <2>3. haveFile' \in BOOLEAN /\ saved' \subseteq Files \X Turns /\ orphans' \subseteq Files
      BY <1>4 DEF Restart
    <2> QED BY <2>1, <2>2, <2>3
  <1> QED BY <1>1, <1>2, <1>3, <1>4

LEMMA QueryTypes ==
  ASSUME TypeInv, QueryList \/ QueryCopy \/ QueryStat \/ QueryScan \/ QueryReport
  PROVE  QueryType' /\ UNCHANGED <<memory, disk, sync, bounds, history>>
  <1> USE IdleFacts DEF TypeInv, QueryType, Query0
  <1>1. UNCHANGED <<memory, disk, sync, bounds, history>>
    BY DEF QueryList, QueryCopy, QueryStat, QueryScan, QueryReport, world
  <1>2. CASE QueryList
    <2>1. Present \subseteq Files
      BY DEF Present
    <2>2. Known \subseteq Turns
      <3>1. \A f \in Present : Range(lines[f]) \subseteq Turns
        <4>1. AgentType
          OBVIOUS
        <4> QED BY <2>1, <4>1, ScanFacts
      <3>2. TurnsOf(entries) \subseteq Turns
        BY DEF TurnsOf, LedgerType, Entries
      <3>3. {p[2] : p \in saved} \subseteq Turns
        BY DEF LedgerType
      <3> QED BY <3>1, <3>2, <3>3 DEF Known
    <2> QED BY <1>1, <1>2, <2>1, <2>2 DEF QueryList
  <1>3. CASE QueryCopy
    BY <1>1, <1>3 DEF QueryCopy, LedgerType
  <1>4. CASE QueryStat
    BY <1>1, <1>4 DEF QueryStat
  <1>5. CASE QueryScan
    <2>1. UNION {Scanned(f) : f \in query.paths} \subseteq Entries
      BY FoundType
    <2> QED BY <1>1, <1>5, <2>1 DEF QueryScan
  <1>6. CASE QueryReport
    BY <1>1, <1>6 DEF QueryReport
  <1> QED BY <1>1, <1>2, <1>3, <1>4, <1>5, <1>6

LEMMA TypeStep ==
  ASSUME TypeInv, TurnInv, [Next]_vars
  PROVE  TypeInv'
  <1>1. ASSUME NEW f \in Files, AppendTurn(f) \/ Rewind(f) \/ CleanUp(f) PROVE TypeInv'
    <2>1. UNCHANGED host
      BY <1>1, HostIsLeft
    <2>2. LedgerType' /\ SyncType' /\ QueryType' /\ CountType'
      BY <2>1 DEF TypeInv, LedgerType, SyncType, QueryType, CountType, host, memory, disk, sync, bounds, history
    <2> QED BY <1>1, <2>2, AgentFacts DEF TypeInv
  <1>2. UNCHANGED agent => AgentType'
    BY DEF TypeInv, AgentType, agent, Present
  <1>3. CASE List \/ Stat \/ NothingNew \/ Scan \/ Merge
    <2>1. QueryType'
      BY <1>3, SyncTypes DEF TypeInv, QueryType
    <2> QED BY <1>2, <1>3, <2>1, SyncTypes, AgentIsLeft DEF TypeInv
  <1>4. CASE WriteEntries \/ WriteMeta \/ WriteFails \/ Restart
    BY <1>2, <1>4, WriteTypes, AgentIsLeft DEF TypeInv
  <1>5. CASE QueryList \/ QueryCopy \/ QueryStat \/ QueryScan \/ QueryReport
    <2>1. LedgerType' /\ SyncType' /\ CountType'
      BY <1>5, QueryTypes DEF TypeInv, LedgerType, SyncType, CountType, memory, disk, sync, bounds, history
    <2> QED BY <1>2, <1>5, <2>1, QueryTypes, AgentIsLeft DEF TypeInv
  <1>6. CASE UNCHANGED vars
    <2>1. LedgerType' /\ SyncType' /\ QueryType' /\ CountType'
      BY <1>6 DEF TypeInv, LedgerType, SyncType, QueryType, CountType, vars, memory, disk, sync, bounds, history
    <2> QED BY <1>2, <1>6, <2>1 DEF TypeInv, vars
  <1> QED BY <1>1, <1>3, <1>4, <1>5, <1>6, NextCases

-----------------------------------------------------------------------------
(* What tells of a turn *)

Scans == UNION {Scanned(f) : f \in Files}

LEMMA ScansFacts ==
  ASSUME TypeInv, NEW x \in Scans
  PROVE  x \in Entries /\ Filed(x) /\ x.file \in Files /\ x.turn \in Range(lines[x.file])
  <1>1. PICK f \in Files : x \in Scanned(f)
    BY DEF Scans
  <1> QED BY <1>1, ScanFacts DEF TypeInv

\* Nothing the host does tells of a turn that was not told of.
LEMMA ToldSources ==
  ASSUME TypeInv, TurnInv,
         \/ List \/ Stat \/ NothingNew \/ Scan \/ Merge \/ WriteEntries \/ WriteMeta \/ WriteFails
         \/ Restart \/ QueryList \/ QueryCopy \/ QueryStat \/ QueryScan \/ QueryReport
  PROVE  /\ Told' \subseteq Told \cup Reload(saved) \cup Scans
         /\ saved' \subseteq saved \cup SavedForm
         /\ query'.owed \subseteq query.owed \cup Known
  <1> USE DEF Told
  <1>1. job \in Job /\ query \in Query0 /\ Idle.found = {} /\ NoQuery.direct = {} /\ NoQuery.owed = {}
    BY DEF TypeInv, SyncType, QueryType, Idle, NoQuery
  <1>2. CASE List
    <2>1. job'.found = {}
      BY <1>2 DEF List, Idle
    <2>2. entries' \subseteq entries \cup Reload(saved)
      BY <1>2 DEF List, Load, ReadBoth, ReadEntries, ReadNothing
    <2> QED BY <1>2, <2>1, <2>2 DEF List, disk
  <1>3. CASE Stat
    BY <1>1, <1>3 DEF Stat, memory, disk, Job
  <1>4. CASE NothingNew
    BY <1>1, <1>4 DEF NothingNew, disk
  <1>5. CASE Scan
    <2>1. job'.found = UNION {Scanned(f) : f \in Todo}
      BY <1>1, <1>5 DEF Scan, Job
    <2>2. job'.found \subseteq Scans
      BY <2>1 DEF Scans, Todo
    <2> QED BY <1>5, <2>2 DEF Scan, memory, disk
  <1>6. CASE Merge
    BY <1>1, <1>6, MergeFacts DEF Merge, disk
  <1>7. CASE WriteEntries \/ WriteMeta \/ WriteFails
    BY <1>7 DEF WriteEntries, WriteMeta, WriteFails, memory, disk
  <1>8. CASE Restart
    BY <1>1, <1>8 DEF Restart
  <1>9. CASE QueryList
    BY <1>1, <1>9 DEF QueryList, NoQuery, world, memory, disk, sync
  <1>10. CASE QueryCopy \/ QueryStat
    BY <1>1, <1>10 DEF QueryCopy, QueryStat, Query0, world, memory, disk, sync
  <1>11. CASE QueryScan
    <2>1. query'.direct = UNION {Scanned(f) : f \in query.paths} /\ query'.owed = query.owed
      BY <1>1, <1>11 DEF QueryScan, Query0
    <2>2. query'.direct \subseteq Scans
      BY <1>1, <2>1 DEF Scans, Query0
    <2> QED BY <1>11, <2>1, <2>2 DEF QueryScan, world, memory, disk, sync
  <1>12. CASE QueryReport
    BY <1>1, <1>12 DEF QueryReport, world, memory, disk, sync
  <1> QED BY <1>2, <1>3, <1>4, <1>5, <1>6, <1>7, <1>8, <1>9, <1>10, <1>11, <1>12

LEMMA TurnInit == Init => TurnInv
  <1> SUFFICES ASSUME Init PROVE TurnInv
    OBVIOUS
  <1>1. Told = {} /\ saved = {} /\ query.owed = {} /\ \A f \in Files : Range(lines[f]) = {}
    BY DEF Init, Told, Idle, NoQuery, Range
  <1> QED BY <1>1 DEF TurnInv, TellsOf

LEMMA TurnStep ==
  ASSUME TypeInv, TurnInv, [Next]_vars
  PROVE  TurnInv'
  <1> USE IdleFacts
  <1>1. ASSUME NEW f \in Files, AppendTurn(f) \/ Rewind(f) \/ CleanUp(f) PROVE TurnInv'
    <2>1. Told' = Told /\ saved' = saved /\ query' = query
      BY <1>1, HostIsLeft DEF host, memory, disk, sync, Told
    <2>2. turns \in Nat /\ turns' \in Nat /\ turns <= turns'
      BY <1>1, AgentFacts DEF TypeInv, AgentType
    <2>3. \A g \in Files, e \in Turns :
            TellsOf(g, e)' => TellsOf(g, e) \/ (g = f /\ e = turns' /\ turns < e)
      <3> SUFFICES ASSUME NEW g \in Files, NEW e \in Turns, TellsOf(g, e)', ~TellsOf(g, e)
                   PROVE  g = f /\ e = turns' /\ turns < e
        OBVIOUS
      <3>1. e \in Range(lines'[g]) /\ e \notin Range(lines[g])
        BY <2>1 DEF TellsOf
      <3>2. g = f /\ e \in {turns'} \ 1..turns
        BY <1>1, <3>1, AgentFacts
      <3>3. e \in Nat \ {0}
        OBVIOUS
      <3> QED BY <2>2, <3>2, <3>3
    <2>4. \A g \in Files, e \in Turns : TellsOf(g, e)' => e <= turns'
      <3> SUFFICES ASSUME NEW g \in Files, NEW e \in Turns, TellsOf(g, e)' PROVE e <= turns'
        OBVIOUS
      <3>1. e \in Nat /\ (e = turns' \/ TellsOf(g, e))
        BY <2>3
      <3>2. TellsOf(g, e) => e <= turns
        BY DEF TurnInv
      <3> QED BY <2>2, <3>1, <3>2
    <2>5. \A g, h \in Files, e \in Turns : TellsOf(g, e)' /\ TellsOf(h, e)' => g = h
      <3> SUFFICES ASSUME NEW g \in Files, NEW h \in Files, NEW e \in Turns, TellsOf(g, e)', TellsOf(h, e)'
                   PROVE  g = h
        OBVIOUS
      <3>1. e \in Nat
        OBVIOUS
      <3>2. (TellsOf(g, e) => e <= turns) /\ (TellsOf(h, e) => e <= turns)
            /\ (TellsOf(g, e) /\ TellsOf(h, e) => g = h)
        BY DEF TurnInv
      <3>3. TellsOf(g, e) \/ (g = f /\ turns < e)
        BY <2>3
      <3>4. TellsOf(h, e) \/ (h = f /\ turns < e)
        BY <2>3
      <3> QED BY <2>2, <3>1, <3>2, <3>3, <3>4
    <2>6. \A e \in query'.owed : e <= turns'
      <3>1. query.owed \subseteq Nat
        BY DEF TypeInv, QueryType, Query0
      <3> QED BY <2>1, <2>2, <3>1 DEF TurnInv
    <2> QED BY <2>1, <2>4, <2>5, <2>6 DEF TurnInv, Filed
  <1>2. CASE \/ List \/ Stat \/ NothingNew \/ Scan \/ Merge \/ WriteEntries \/ WriteMeta \/ WriteFails
             \/ Restart \/ QueryList \/ QueryCopy \/ QueryStat \/ QueryScan \/ QueryReport
    <2>1. lines' = lines /\ turns' = turns
      BY <1>2, AgentIsLeft DEF agent
    <2>2. \A x \in Told : x.file \in Files /\ x.turn \in Turns /\ TellsOf(x.file, x.turn)
      BY DEF TellsOf, Told, TypeInv, LedgerType, SyncType, Job, QueryType, Query0, Entries
    <2>3. \A x \in Told' : Filed(x) /\ x.file \in Files /\ TellsOf(x.file, x.turn)
      <3> SUFFICES ASSUME NEW x \in Told' PROVE Filed(x) /\ x.file \in Files /\ TellsOf(x.file, x.turn)
        OBVIOUS
      <3>1. CASE x \in Told
        BY <2>2, <3>1 DEF TurnInv
      <3>2. CASE x \in Reload(saved)
        <4>1. saved \in SUBSET (Files \X Turns)
          BY DEF TypeInv, LedgerType
        <4> QED BY <3>2, <4>1, ReloadFacts DEF TellsOf
      <3>3. CASE x \in Scans
        BY <3>3, ScansFacts DEF TellsOf
      <3> QED BY <1>2, <3>1, <3>2, <3>3, ToldSources
    <2>4. \A f \in Files, e \in Turns : <<f, e>> \in saved' => TellsOf(f, e)
      <3> SUFFICES ASSUME NEW f \in Files, NEW e \in Turns, <<f, e>> \in SavedForm PROVE TellsOf(f, e)
        BY <1>2, ToldSources DEF TellsOf
      <3>1. PICK x \in entries : <<f, e>> = <<x.file, x.turn>>
        BY DEF SavedForm
      <3> QED BY <3>1 DEF TellsOf, Told
    <2>5. \A f \in Files, e \in Turns : TellsOf(f, e)' => TellsOf(f, e)
      <3> SUFFICES ASSUME NEW f \in Files, NEW e \in Turns, TellsOf(f, e)' PROVE TellsOf(f, e)
        OBVIOUS
      <3>1. CASE e \in Range(lines[f])
        BY <3>1 DEF TellsOf
      <3>2. CASE \E x \in Told' : x.file = f /\ x.turn = e
        BY <2>3, <3>2
      <3> QED BY <2>1, <2>4, <3>1, <3>2 DEF TellsOf
    <2>6. \A e \in Known : e <= turns
      <3> SUFFICES ASSUME NEW e \in Known PROVE e <= turns
        OBVIOUS
      <3>1. CASE e \in TurnsOf(entries)
        BY <2>2, <3>1 DEF TurnsOf, Told, TurnInv
      <3>2. ASSUME NEW f \in Present, e \in Range(lines[f]) PROVE e <= turns
        <4>1. f \in Files /\ e \in Turns
          BY <3>2, ScanFacts DEF Present, TypeInv
        <4> QED BY <3>2, <4>1 DEF TellsOf, TurnInv
      <3>3. ASSUME NEW p \in saved, e = p[2] PROVE e <= turns
        <4>1. p[1] \in Files /\ e \in Turns /\ <<p[1], e>> \in saved
          BY <3>3 DEF TypeInv, LedgerType
        <4> QED BY <4>1 DEF TellsOf, TurnInv
      <3> QED BY <3>1, <3>2, <3>3 DEF Known
    <2> QED BY <1>2, <2>1, <2>3, <2>5, <2>6, ToldSources DEF TurnInv
  <1>3. CASE UNCHANGED vars
    BY <1>3 DEF TurnInv, TellsOf, Told, Filed, vars, agent, memory, disk, sync
  <1> QED BY <1>1, <1>2, <1>3, NextCases

-----------------------------------------------------------------------------
(* The steps of the agent *)

Rests == CursorInv /\ MemInv /\ DiskInv /\ LoadInv /\ SyncInv

LEMMA IInvInit == Init => IInv
  <1> SUFFICES ASSUME Init PROVE IInv
    OBVIOUS
  <1>1. TypeInv /\ TurnInv
    BY TypeInit, TurnInit
  <1>2. Present = {} /\ Todo = {}
    BY DEF Init, Present, Todo, Idle, NoCursor, NoCursors
  <1>3. CursorInv
    BY DEF Init, CursorInv, Idle, NoQuery, NoCursor, NoCursors
  <1>4. MemInv /\ DiskInv /\ LoadInv /\ SyncInv /\ QueryInv
    BY <1>2 DEF Init, MemInv, DiskInv, LoadInv, SyncInv, QueryInv, NoQuery, NoCursors
  <1> QED BY <1>1, <1>3, <1>4 DEF IInv

LEMMA CursorTypes ==
  ASSUME TypeInv, NEW f \in Files
  PROVE  /\ ver[f] \in Nat /\ cursors[f] \in Nat /\ savedCursors[f] \in Nat /\ job.cursors[f] \in Nat
         /\ job.todo[f] \in Nat /\ query.cursors[f] \in Nat
  BY IdleFacts DEF TypeInv, AgentType, LedgerType, SyncType, QueryType, Job, Query0, Cursors

\* A file that still is of the version of a cursor is still what it was.
LEMMA AgentStep ==
  ASSUME IInv, NEW f \in Files, AppendTurn(f) \/ Rewind(f) \/ CleanUp(f)
  PROVE  Rests' /\ QueryInv'
  <1>1. /\ UNCHANGED <<memory, disk, sync, query, history>> /\ SavedForm' = SavedForm /\ Todo' = Todo
        /\ UNCHANGED <<entries, cursors, believed, orphans, forgot, haveFile, saved, savedCursors, job, pc, loaded, synced>>
    BY HostIsLeft DEF host, memory, disk, sync, history, SavedForm, Todo
  <1>2. \A g \in Files : ver[g] \in Nat /\ ver'[g] \in Nat /\ ver[g] <= ver'[g]
    <2>1. TypeInv /\ AgentType'
      BY AgentFacts DEF IInv
    <2>2. \A g \in Files : ver'[g] \in Nat
      BY <2>1, IdleFacts DEF AgentType, Cursors
    <2> QED BY <2>1, <2>2, CursorTypes, AgentFacts
  <1>3. ASSUME NEW g \in Present', NEW c \in Nat, c <= ver[g], c = ver'[g]
        PROVE  g \in Present /\ lines'[g] = lines[g] /\ c = ver[g]
    <2>1. g \in Files
      BY DEF Present
    <2> QED BY <1>2, <1>3, <2>1, AgentFacts DEF IInv
  <1>4. \A g \in Present' : g \in Files
    BY DEF Present
  <1>5. CursorInv'
    <2> SUFFICES ASSUME NEW g \in Files
                 PROVE  /\ cursors[g] <= ver'[g] /\ savedCursors[g] <= ver'[g]
                        /\ job.cursors[g] <= ver'[g] /\ job.todo[g] <= ver'[g] /\ query.cursors[g] <= ver'[g]
      BY <1>1 DEF CursorInv
    <2>1. TypeInv /\ CursorInv
      BY DEF IInv
    <2> QED BY <1>2, <2>1, CursorTypes DEF CursorInv
  <1>6. MemInv' /\ DiskInv'
    <2>1. ASSUME NEW g \in Present' \ believed', cursors'[g] = ver'[g] PROVE Kept(g, entries)'
      <3>1. g \in Present \ believed /\ lines'[g] = lines[g] /\ cursors[g] = ver[g]
        BY <1>1, <1>3, <1>4, <2>1, CursorTypes DEF IInv, CursorInv
      <3> QED BY <1>1, <3>1 DEF IInv, MemInv, Kept
    <2>2. ASSUME haveFile, NEW g \in Present' \ orphans', savedCursors'[g] = ver'[g] PROVE KeptOnDisk(g)'
      <3>1. g \in Present \ orphans /\ lines'[g] = lines[g] /\ savedCursors[g] = ver[g]
        BY <1>1, <1>3, <1>4, <2>2, CursorTypes DEF IInv, CursorInv
      <3> QED BY <1>1, <2>2, <3>1 DEF IInv, DiskInv, KeptOnDisk
    <2> QED BY <1>1, <2>1, <2>2 DEF MemInv, DiskInv
  <1>7. LoadInv'
    BY <1>1 DEF IInv, LoadInv
  <1>8. SyncInv'
    <2>1. ASSUME pc = "scanned", NEW g \in Todo \cap Present', job.todo[g] = ver'[g] PROVE Kept(g, job.found)'
      <3>1. g \in Present /\ lines'[g] = lines[g] /\ job.todo[g] = ver[g]
        BY <1>1, <1>3, <1>4, <2>1, CursorTypes DEF IInv, CursorInv
      <3> QED BY <1>1, <2>1, <3>1 DEF IInv, SyncInv, Kept
    <2> QED BY <1>1, <2>1 DEF IInv, SyncInv
  <1>9. QueryInv'
    <2>1. ASSUME query.at = "copied", NEW g \in Present', query.cursors[g] = ver'[g]
          PROVE  (g \in believed \/ Kept(g, entries)') /\ (g \in Todo => job.todo[g] = ver'[g])
      <3>1. g \in Present /\ lines'[g] = lines[g] /\ query.cursors[g] = ver[g]
        BY <1>1, <1>3, <1>4, <2>1, CursorTypes DEF IInv, CursorInv
      <3>2. (g \in believed \/ Kept(g, entries)) /\ (g \in Todo => job.todo[g] = ver[g])
        BY <2>1, <3>1 DEF IInv, QueryInv
      <3> QED BY <1>1, <2>1, <3>1, <3>2 DEF Kept
    <2>2. ASSUME query.at # "none", NEW g \in Present', NEW e \in Range(lines'[g]) \cap Named \cap query.owed
          PROVE  Found(g, e)'
      <3>1. g \in Files
        BY <1>4
      <3>2. e \in 1..turns
        <4>1. e <= turns
          BY <2>2 DEF IInv, TurnInv
        <4>2. e \in Named
          BY <2>2
        <4>3. e \in Nat \ {0}
          BY <4>2, IdleFacts
        <4>4. turns \in Nat
          BY IdleFacts DEF IInv, TypeInv, AgentType
        <4> QED BY <4>1, <4>3, <4>4
      <3>3. e \in Range(lines[g])
        <4>1. Range(lines'[g]) \subseteq Range(lines[g]) \cup ({turns'} \ 1..turns)
          BY <1>4, AgentFacts DEF IInv
        <4> QED BY <3>2, <4>1
      <3>4. g \in Present
        BY <3>1, <3>3 DEF IInv, TypeInv, AgentType, Range
      <3>5. Found(g, e)
        BY <2>2, <3>3, <3>4 DEF IInv, QueryInv
      <3> QED BY <1>1, <3>5 DEF Found, Skipped
    <2>3. query.at \in {"copied", "stated", "scanned"} => loaded
      BY DEF IInv, QueryInv
    <2> QED BY <1>1, <2>1, <2>2, <2>3 DEF QueryInv
  <1> QED BY <1>5, <1>6, <1>7, <1>8, <1>9 DEF Rests
-----------------------------------------------------------------------------
(* The steps of a sync *)

\* What is left alone in every step of the host, with the types the arithmetic needs.
LEMMA HostFacts ==
  ASSUME IInv,
         \/ List \/ Stat \/ NothingNew \/ Scan \/ Merge \/ WriteEntries \/ WriteMeta \/ WriteFails
         \/ Restart \/ QueryList \/ QueryCopy \/ QueryStat \/ QueryScan \/ QueryReport
  PROVE  /\ lines' = lines /\ ver' = ver /\ Present' = Present /\ Present \subseteq Files
         /\ \A f \in Files : /\ ver[f] \in Nat /\ cursors[f] \in Nat /\ savedCursors[f] \in Nat
                             /\ job.cursors[f] \in Nat /\ job.todo[f] \in Nat /\ query.cursors[f] \in Nat
         /\ \A f \in Present : ver[f] > 0
         /\ TypeInv /\ TurnInv /\ CursorInv /\ MemInv /\ DiskInv /\ LoadInv /\ SyncInv /\ QueryInv
         /\ job \in Job /\ query \in Query0 /\ saved \in SUBSET (Files \X Turns)
  <1>1. lines' = lines /\ ver' = ver /\ Present' = Present
    BY AgentIsLeft DEF agent
  <1>2. TypeInv /\ TurnInv /\ CursorInv /\ MemInv /\ DiskInv /\ LoadInv /\ SyncInv /\ QueryInv
    BY DEF IInv
  <1>3. job \in Job /\ query \in Query0 /\ saved \in SUBSET (Files \X Turns)
    BY <1>2 DEF TypeInv, LedgerType, SyncType, QueryType
  <1>4. Present \subseteq Files /\ \A f \in Present : ver[f] > 0
    BY DEF Present
  <1>5. \A f \in Files : /\ ver[f] \in Nat /\ cursors[f] \in Nat /\ savedCursors[f] \in Nat
                         /\ job.cursors[f] \in Nat /\ job.todo[f] \in Nat /\ query.cursors[f] \in Nat
    BY <1>2, CursorTypes
  <1> QED BY <1>1, <1>2, <1>3, <1>4, <1>5

\* A load reads the ledger file and its cursors, the file alone, or neither, or there is
\* nothing to load.
LEMMA ListStep ==
  ASSUME IInv, List
  PROVE  Rests' /\ QueryInv'
  <1> USE HostFacts
  <1>1. /\ loaded' = TRUE /\ pc = "idle" /\ pc' = "listed"
        /\ UNCHANGED <<synced, haveFile, saved, savedCursors, query, orphans>>
    BY DEF List, Load, disk
  <1>2. job'.cursors = cursors' /\ job'.todo = NoCursors /\ job'.found = {} /\ Todo' = {}
    <2>1. PICK L \in SUBSET Present : job' = [Idle EXCEPT !.cursors = cursors', !.listed = L]
      BY DEF List
    <2> QED BY <2>1, NoCursorFacts DEF Idle, Todo
  <1>3. \/ loaded /\ UNCHANGED <<entries, cursors, believed, forgot>>
        \/ ~loaded /\ ~haveFile /\ UNCHANGED <<entries, cursors, believed, forgot>>
        \/ ~loaded /\ haveFile /\ (ReadBoth \/ ReadEntries \/ ReadNothing)
    BY DEF List, Load
  <1>4. ~loaded => entries = {} /\ cursors = NoCursors /\ believed = {}
    BY DEF LoadInv
  <1>5. \A f \in Files, e \in Named : <<f, e>> \in saved => EntryOf(f, e) \in Reload(saved)
    BY ReloadFacts
  <1>6. CursorInv'
    <2>1. \A f \in Files : cursors'[f] <= ver[f] /\ NoCursor <= ver[f]
      BY <1>3, NoCursorFacts DEF ReadBoth, ReadEntries, ReadNothing, CursorInv, NoCursor
    <2> QED BY <1>1, <1>2, <2>1, NoCursorFacts DEF CursorInv
  <1>7. MemInv'
    <2> SUFFICES ASSUME NEW f \in Present, f \notin believed', cursors'[f] = ver[f] PROVE Kept(f, entries)'
      BY DEF MemInv
    <2>1. CASE loaded
      BY <1>3, <2>1 DEF MemInv, Kept
    <2>2. CASE ~loaded /\ haveFile
      <3>1. ReadBoth
        BY <1>3, <2>2, NoCursorFacts DEF ReadEntries, ReadNothing, NoCursor
      <3> QED BY <1>5, <2>2, <3>1 DEF ReadBoth, DiskInv, Kept, KeptOnDisk
    <2>3. CASE ~loaded /\ ~haveFile
      BY <1>3, <1>4, <2>3, NoCursorFacts DEF NoCursor
    <2> QED BY <2>1, <2>2, <2>3
  <1>8. DiskInv'
    BY <1>1 DEF DiskInv, KeptOnDisk
  <1>9. LoadInv'
    BY <1>1, <1>3, <1>5 DEF LoadInv, ReadBoth, ReadEntries, ReadNothing
  <1>10. SyncInv'
    <2>1. \A f \in Files : cursors'[f] = NoCursor \/ savedCursors[f] <= cursors'[f]
      BY <1>3, <1>4, NoCursorFacts DEF ReadBoth, ReadEntries, ReadNothing, SyncInv
    <2> QED BY <1>1, <1>2, <2>1 DEF SyncInv, Todo
  <1>11. QueryInv'
    <2>1. ASSUME query.at \in {"copied", "stated", "scanned"}
          PROVE  loaded /\ entries' = entries /\ believed' = believed
      BY <1>3, <2>1 DEF QueryInv
    <2>2. ASSUME NEW f \in Present, NEW e \in Range(lines[f]), Found(f, e), query.at # "none"
          PROVE  Found(f, e)'
      <3>1. ~loaded => entries = {} /\ query.at = "listed"
        BY <1>4, <2>1, <2>2 DEF TypeInv, QueryType, Query0
      <3> QED BY <1>1, <1>3, <2>2, <3>1 DEF Found, Skipped
    <2> QED BY <1>1, <1>2, <2>1, <2>2 DEF QueryInv, Kept
  <1> QED BY <1>6, <1>7, <1>8, <1>9, <1>10, <1>11 DEF Rests

LEMMA StatStep ==
  ASSUME IInv, Stat
  PROVE  Rests' /\ QueryInv'
  <1> USE HostFacts
  <1>1. /\ pc = "listed" /\ pc' = "stated"
        /\ UNCHANGED <<entries, cursors, loaded, synced, haveFile, saved, savedCursors, query, orphans, believed, forgot>>
    BY DEF Stat, memory, disk, history
  <1>2. /\ job'.cursors = job.cursors
        /\ \A f \in Files : \/ job'.todo[f] = NoCursor
                            \/ f \in Present /\ job.cursors[f] # ver[f] /\ job'.todo[f] = ver[f]
    BY DEF Stat, Job, Changed
  <1>3. \A f \in Todo' : f \in Files /\ job'.todo[f] = ver[f] /\ job.cursors[f] # ver[f]
    BY <1>2 DEF Todo
  <1>4. loaded /\ job.cursors = cursors
    BY <1>1 DEF LoadInv, SyncInv
  <1>5. CursorInv'
    <2>1. \A f \in Files : job'.todo[f] <= ver[f]
      BY <1>2 DEF NoCursor
    <2> QED BY <1>1, <1>2, <2>1 DEF CursorInv
  <1>6. MemInv' /\ DiskInv' /\ LoadInv'
    BY <1>1, <1>4 DEF MemInv, DiskInv, LoadInv, Kept, KeptOnDisk
  <1>7. SyncInv'
    <2>1. \A f \in Todo' : job'.cursors[f] < job'.todo[f] /\ savedCursors[f] <= job'.todo[f]
      BY <1>2, <1>3 DEF CursorInv
    <2> QED BY <1>1, <1>2, <1>4, <2>1 DEF SyncInv
  <1>8. QueryInv'
    <2>1. ASSUME NEW f \in Present, NEW e \in Range(lines[f]), Found(f, e) PROVE Found(f, e)'
      BY <1>1, <2>1 DEF Found, Skipped
    <2> QED BY <1>1, <1>3, <1>4, <2>1 DEF QueryInv, Kept
  <1> QED BY <1>5, <1>6, <1>7, <1>8 DEF Rests

LEMMA NothingNewStep ==
  ASSUME IInv, NothingNew
  PROVE  Rests' /\ QueryInv'
  <1> USE HostFacts
  <1>1. /\ pc = "stated" /\ pc' \in {"entries", "idle"} /\ job' = Idle
        /\ UNCHANGED <<entries, cursors, loaded, haveFile, saved, savedCursors, query, orphans, believed, forgot>>
    BY DEF NothingNew, disk, history
  <1>2. job'.cursors = NoCursors /\ job'.todo = NoCursors /\ Todo' = {}
    BY <1>1 DEF Idle, Todo, NoCursors
  <1>3. loaded
    BY <1>1 DEF LoadInv
  <1>4. CursorInv'
    BY <1>1, <1>2 DEF CursorInv, NoCursor, NoCursors
  <1>5. MemInv' /\ DiskInv' /\ LoadInv' /\ SyncInv'
    BY <1>1, <1>2, <1>3 DEF MemInv, DiskInv, LoadInv, SyncInv, Kept, KeptOnDisk
  <1>6. QueryInv'
    <2>1. ASSUME NEW f \in Present, NEW e \in Range(lines[f]), Found(f, e) PROVE Found(f, e)'
      BY <1>1, <2>1 DEF Found, Skipped
    <2> QED BY <1>1, <1>2, <1>3, <2>1 DEF QueryInv, Kept
  <1> QED BY <1>4, <1>5, <1>6 DEF Rests
LEMMA ScanStep ==
  ASSUME IInv, Scan
  PROVE  Rests' /\ QueryInv'
  <1> USE HostFacts
  <1>1. /\ pc = "stated" /\ pc' = "scanned"
        /\ UNCHANGED <<entries, cursors, loaded, synced, haveFile, saved, savedCursors, query, orphans, believed, forgot>>
    BY DEF Scan, memory, disk, history
  <1>2. /\ job'.cursors = job.cursors /\ job'.todo = job.todo /\ Todo' = Todo
        /\ job'.found = UNION {Scanned(f) : f \in Todo} /\ Todo \subseteq Files
    BY DEF Scan, Job, Todo
  <1>3. /\ \A x \in job'.found : x.file \in Todo
        /\ \A f \in Todo, e \in Named : e \in Range(lines[f]) => EntryOf(f, e) \in job'.found
    BY <1>2, ScanFacts DEF TypeInv
  <1>4. loaded
    BY <1>1 DEF LoadInv
  <1>5. CursorInv' /\ MemInv' /\ DiskInv' /\ LoadInv'
    BY <1>1, <1>2, <1>4 DEF CursorInv, MemInv, DiskInv, LoadInv, Kept, KeptOnDisk
  <1>6. SyncInv'
    BY <1>1, <1>2, <1>3 DEF SyncInv, Kept
  <1>7. QueryInv'
    <2>1. ASSUME NEW f \in Present, NEW e \in Range(lines[f]) \cap Named, Found(f, e) PROVE Found(f, e)'
      BY <1>1, <1>2, <1>3, <2>1 DEF Found, Skipped
    <2> QED BY <1>1, <1>2, <2>1 DEF QueryInv, Kept
  <1> QED BY <1>5, <1>6, <1>7 DEF Rests

\* A file whose cursor moves was scanned as it was when it was stated.
LEMMA MergeStep ==
  ASSUME IInv, Merge
  PROVE  Rests' /\ QueryInv'
  <1> USE HostFacts
  <1> DEFINE advanced == {x.file : x \in job.found}
  <1>1. /\ pc = "scanned" /\ pc' \in {"entries", "idle"} /\ job' = Idle /\ entries' = Merged
        /\ believed' = believed \ advanced
        /\ \A f \in Files : cursors'[f] = IF f \in advanced THEN job.todo[f]
                                          ELSE IF f \in Stale THEN NoCursor ELSE cursors[f]
        /\ UNCHANGED <<loaded, haveFile, saved, savedCursors, query, orphans, forgot>>
    BY DEF Merge, disk, CursorOf
  <1>2. job'.cursors = NoCursors /\ job'.todo = NoCursors /\ Todo' = {}
    BY <1>1 DEF Idle, Todo, NoCursors
  <1>3. loaded
    BY <1>1 DEF LoadInv
  <1>4. advanced \subseteq Todo
    BY <1>1 DEF SyncInv
  <1>5. \A f \in Files, e \in Named : EntryOf(f, e) \in entries \cup job.found => EntryOf(f, e) \in Merged
    BY MergeFacts, EntryOfFacts
  <1>6. \A f \in Present \cap Todo : job.todo[f] = ver[f] => Kept(f, job.found)
    BY <1>1 DEF SyncInv
  <1>7. CursorInv'
    <2>1. \A f \in Files : cursors'[f] <= ver[f]
      BY <1>1 DEF CursorInv, NoCursor
    <2> QED BY <1>1, <1>2, <2>1 DEF CursorInv, NoCursor, NoCursors
  <1>8. MemInv'
    <2> SUFFICES ASSUME NEW f \in Present, f \notin believed', cursors'[f] = ver[f] PROVE Kept(f, Merged)
      BY <1>1 DEF MemInv, Kept
    <2>1. CASE f \in advanced
      BY <1>1, <1>4, <1>5, <1>6, <2>1 DEF Kept
    <2>2. CASE f \notin advanced
      <3>1. f \notin Stale /\ f \notin believed /\ cursors[f] = ver[f]
        BY <1>1, <2>2 DEF NoCursor
      <3> QED BY <1>5, <3>1 DEF MemInv, Kept
    <2> QED BY <2>1, <2>2
  <1>9. DiskInv' /\ SyncInv'
    BY <1>1, <1>2 DEF DiskInv, SyncInv, KeptOnDisk
  <1>10. LoadInv'
    BY <1>1, <1>3, <1>5 DEF LoadInv
  <1>11. QueryInv'
    <2>1. ASSUME NEW f \in Present, NEW e \in Range(lines[f]) \cap Named, Found(f, e) PROVE Found(f, e)'
      <3>1. Skipped(f, e) => EntryOf(f, e) \in Merged \/ f \in believed'
        BY <1>1, <1>4, <1>5 DEF Skipped
      <3> QED BY <1>1, <1>5, <2>1, <3>1 DEF Found, Skipped
    <2>2. ASSUME query.at = "copied", NEW f \in Present, query.cursors[f] = ver[f]
          PROVE  f \in believed' \/ Kept(f, Merged)
      <3>1. (f \in believed \/ Kept(f, entries)) /\ (f \in Todo => job.todo[f] = ver[f])
        BY <2>2 DEF QueryInv
      <3>2. CASE f \in advanced
        BY <1>4, <1>5, <1>6, <3>1, <3>2 DEF Kept
      <3>3. CASE f \notin advanced
        BY <1>1, <1>5, <3>1, <3>3 DEF Kept
      <3> QED BY <3>2, <3>3
    <2> QED BY <1>1, <1>2, <1>3, <2>1, <2>2 DEF QueryInv, Kept
  <1> QED BY <1>7, <1>8, <1>9, <1>10, <1>11 DEF Rests

-----------------------------------------------------------------------------
(* The writes and the restart *)

\* What the ledger in memory has of a turn goes to disk, and comes from what it has.
LEMMA SavedFacts ==
  ASSUME TypeInv, TurnInv, NEW f \in Files, NEW e \in Named
  PROVE  <<f, e>> \in SavedForm <=> EntryOf(f, e) \in entries
  <1>1. ASSUME <<f, e>> \in SavedForm PROVE EntryOf(f, e) \in entries
    <2>1. PICK x \in entries : x.file = f /\ x.turn = e
      BY <1>1 DEF SavedForm
    <2>2. x \in Entries /\ Filed(x)
      BY DEF TypeInv, LedgerType, TurnInv, Told
    <2> QED BY <2>1, <2>2, OneKey
  <1>2. ASSUME EntryOf(f, e) \in entries PROVE <<f, e>> \in SavedForm
    BY <1>2, EntryOfFacts DEF SavedForm
  <1> QED BY <1>1, <1>2

LEMMA WriteEntriesStep ==
  ASSUME IInv, WriteEntries
  PROVE  Rests' /\ QueryInv'
  <1> USE HostFacts
  <1>1. /\ pc = "entries" /\ pc' = "meta" /\ haveFile' = TRUE /\ saved' = SavedForm /\ SavedForm' = SavedForm
        /\ orphans' = {f \in IF forgot THEN Files ELSE orphans : f \in believed \/ cursors[f] = NoCursor}
        /\ forgot' = FALSE
        /\ UNCHANGED <<entries, cursors, loaded, synced, savedCursors, job, query, believed, Todo>>
    BY DEF WriteEntries, memory, SavedForm, Todo
  <1>2. loaded
    BY <1>1 DEF LoadInv
  <1>3. CursorInv' /\ MemInv' /\ SyncInv' /\ QueryInv'
    BY <1>1, <1>2 DEF CursorInv, MemInv, SyncInv, QueryInv, Kept, Found, Skipped
  <1>4. LoadInv'
    BY <1>1, <1>2, SavedFacts DEF LoadInv
  <1>5. DiskInv'
    <2> SUFFICES ASSUME NEW f \in Present \ orphans', savedCursors[f] = ver[f],
                        NEW e \in Range(lines[f]) \cap Named
                 PROVE  EntryOf(f, e) \in entries
      BY <1>1, SavedFacts DEF DiskInv, KeptOnDisk
    <2>1. CASE f \in orphans \/ forgot
      <3>1. f \notin believed /\ cursors[f] # NoCursor
        BY <1>1, <2>1
      <3>2. savedCursors[f] <= cursors[f] /\ cursors[f] <= ver[f]
        BY <1>2, <3>1 DEF SyncInv, CursorInv
      <3>3. cursors[f] = ver[f]
        BY <3>2
      <3> QED BY <3>1, <3>3 DEF MemInv, Kept
    <2>2. CASE f \notin orphans /\ ~forgot
      <3>1. haveFile
        BY <2>2 DEF LoadInv, NoCursor
      <3>2. <<f, e>> \in saved
        BY <2>2, <3>1 DEF DiskInv, KeptOnDisk
      <3> QED BY <1>2, <2>2, <3>1, <3>2 DEF LoadInv
    <2> QED BY <2>1, <2>2
  <1> QED BY <1>3, <1>4, <1>5 DEF Rests

LEMMA WriteMetaStep ==
  ASSUME IInv, WriteMeta
  PROVE  Rests' /\ QueryInv'
  <1> USE HostFacts
  <1>1. /\ pc = "meta" /\ pc' = "idle" /\ savedCursors' = cursors /\ orphans' = believed /\ SavedForm' = SavedForm
        /\ UNCHANGED <<entries, cursors, loaded, synced, haveFile, saved, job, query, believed, forgot, Todo>>
    BY DEF WriteMeta, memory, SavedForm, Todo
  <1>2. loaded /\ haveFile /\ saved = SavedForm
    BY <1>1 DEF LoadInv
  <1>3. CursorInv' /\ MemInv' /\ QueryInv' /\ LoadInv'
    BY <1>1, <1>2 DEF CursorInv, MemInv, QueryInv, LoadInv, Kept, Found, Skipped
  <1>4. SyncInv'
    <2>1. Todo = {} /\ \A f \in Files : cursors[f] <= cursors[f]
      BY <1>1 DEF TypeInv, SyncType, Idle, Todo, NoCursors
    <2> QED BY <1>1, <2>1 DEF SyncInv
  <1>5. DiskInv'
    BY <1>1, <1>2, SavedFacts DEF DiskInv, MemInv, Kept, KeptOnDisk
  <1> QED BY <1>3, <1>4, <1>5 DEF Rests

LEMMA WriteFailsStep ==
  ASSUME IInv, WriteFails
  PROVE  Rests' /\ QueryInv'
  <1> USE HostFacts
  <1>1. /\ pc \in {"entries", "meta"} /\ pc' = "idle" /\ SavedForm' = SavedForm
        /\ UNCHANGED <<entries, cursors, loaded, synced, haveFile, saved, savedCursors, job, query, orphans,
                       believed, forgot, Todo>>
    BY DEF WriteFails, disk, history, SavedForm, Todo
  <1>2. /\ CursorInv' /\ MemInv' /\ SyncInv' /\ QueryInv' /\ LoadInv' /\ DiskInv'
    BY <1>1 DEF CursorInv, MemInv, SyncInv, QueryInv, LoadInv, DiskInv, Kept, KeptOnDisk, Found, Skipped
  <1> QED BY <1>2 DEF Rests

LEMMA RestartStep ==
  ASSUME IInv, Restart
  PROVE  Rests' /\ QueryInv'
  <1> USE HostFacts
  <1>1. /\ entries' = {} /\ cursors' = NoCursors /\ ~loaded' /\ ~synced' /\ pc' = "idle"
        /\ job' = Idle /\ query' = NoQuery /\ believed' = {} /\ savedCursors' = savedCursors
        /\ forgot' = FALSE
        /\ \/ UNCHANGED <<haveFile, saved, orphans>>
           \/ ~haveFile' /\ saved' = {} /\ orphans' = Files
    BY DEF Restart
  <1>2. /\ job'.cursors = NoCursors /\ job'.todo = NoCursors /\ Todo' = {}
        /\ query'.cursors = NoCursors /\ query'.at = "none"
    BY <1>1 DEF Idle, NoQuery, Todo, NoCursors
  <1>3. CursorInv'
    BY <1>1, <1>2 DEF CursorInv, NoCursor, NoCursors
  <1>4. MemInv'
    BY <1>1 DEF MemInv, NoCursor, NoCursors
  <1>5. DiskInv' /\ LoadInv' /\ SyncInv' /\ QueryInv'
    BY <1>1, <1>2 DEF DiskInv, LoadInv, SyncInv, QueryInv, KeptOnDisk
  <1> QED BY <1>3, <1>4, <1>5 DEF Rests
-----------------------------------------------------------------------------
(* The steps of a report *)

LEMMA QueryFrame ==
  ASSUME IInv, QueryList \/ QueryCopy \/ QueryStat \/ QueryScan \/ QueryReport,
         \A f \in Files : query'.cursors[f] <= ver[f]
  PROVE  Rests'
  <1> USE HostFacts
  <1>1. /\ SavedForm' = SavedForm /\ Todo' = Todo
        /\ UNCHANGED <<entries, cursors, loaded, synced, haveFile, saved, savedCursors, job, pc, orphans, believed, forgot>>
    BY QueryTypes DEF memory, disk, sync, history, SavedForm, Todo
  <1>2. CursorInv'
    BY <1>1 DEF CursorInv
  <1> QED BY <1>1, <1>2 DEF Rests, MemInv, DiskInv, LoadInv, SyncInv, Kept, KeptOnDisk

LEMMA QueryStep ==
  ASSUME IInv, QueryList \/ QueryCopy \/ QueryStat \/ QueryScan \/ QueryReport
  PROVE  Rests' /\ QueryInv'
  <1> USE HostFacts
  <1>1. /\ Todo' = Todo
        /\ UNCHANGED <<entries, cursors, loaded, synced, haveFile, saved, savedCursors, job, pc, orphans, believed, forgot>>
    BY QueryTypes DEF memory, disk, sync, history, Todo
  <1>2. NoQuery.cursors = NoCursors /\ NoQuery.at = "none" /\ \A f \in Files : NoCursor <= ver[f]
    BY DEF NoQuery, NoCursor
  <1>3. CASE QueryList
    <2>1. query'.at = "listed" /\ query'.paths = Present /\ query'.cursors = NoCursors
      BY <1>3 DEF QueryList, NoQuery
    <2>2. Rests'
      BY <1>2, <1>3, <2>1, QueryFrame, NoCursorFacts
    <2> QED BY <2>1, <2>2 DEF QueryInv, Found
  <1>4. CASE QueryCopy
    <2>1. /\ query.at = "listed" /\ query'.paths = query.paths /\ query'.owed = query.owed
          /\ \/ synced /\ query'.at = "copied" /\ query'.cursors = cursors
             \/ loaded /\ query'.at = "stated" /\ query'.cursors = query.cursors
      BY <1>4 DEF QueryCopy, Query0
    <2>2. Rests'
      BY <1>4, <2>1, QueryFrame DEF CursorInv
    <2>3. ASSUME NEW f \in Present, NEW e \in Range(lines[f]), Found(f, e) PROVE Found(f, e)'
      BY <1>1, <2>1, <2>3 DEF Found, Skipped
    <2>4. ASSUME query'.at = "copied", NEW f \in Present, cursors[f] = ver[f]
          PROVE  loaded /\ (f \in believed \/ Kept(f, entries)) /\ f \notin Todo
      <3>1. loaded
        BY <2>1, <2>4 DEF LoadInv
      <3>2. f \in believed \/ Kept(f, entries)
        BY <2>4 DEF MemInv
      <3>3. pc \in {"idle", "entries", "meta"} => Todo = {}
        BY DEF TypeInv, SyncType, Idle, Todo, NoCursors
      <3>4. job.cursors = cursors \/ Todo = {}
        BY <3>3 DEF TypeInv, SyncType, SyncInv
      <3>5. f \in Todo => cursors[f] < ver[f]
        BY <3>4 DEF SyncInv, CursorInv
      <3> QED BY <2>4, <3>1, <3>2, <3>5
    <2>5. loaded
      BY <2>1 DEF LoadInv
    <2> QED BY <1>1, <2>1, <2>2, <2>3, <2>4, <2>5 DEF QueryInv, Kept
  <1>5. CASE QueryStat
    <2>1. /\ query.at = "copied" /\ query'.at = "stated" /\ query'.cursors = query.cursors
          /\ query'.owed = query.owed /\ query'.paths = {f \in query.paths : Changed(query.cursors, f)}
      BY <1>5 DEF QueryStat, Query0
    <2>2. Rests'
      BY <1>5, <2>1, QueryFrame DEF CursorInv
    <2>3. ASSUME NEW f \in Present, NEW e \in Range(lines[f]) \cap Named, Found(f, e) PROVE Found(f, e)'
      <3>1. CASE EntryOf(f, e) \in entries
        BY <1>1, <3>1 DEF Found
      <3>2. CASE f \in query.paths /\ query.cursors[f] # ver[f]
        BY <2>1, <3>2 DEF Found, Changed
      <3>3. CASE query.cursors[f] = ver[f]
        <4>1. (f \in believed \/ Kept(f, entries)) /\ (f \in Todo => job.todo[f] = ver[f])
          BY <2>1, <3>3 DEF QueryInv
        <4>2. pc = "scanned" /\ f \in Todo => EntryOf(f, e) \in job.found
          BY <4>1 DEF SyncInv, Kept
        <4> QED BY <1>1, <2>1, <4>1, <4>2 DEF Found, Skipped, Kept
      <3> QED BY <2>1, <2>3, <3>1, <3>2, <3>3 DEF Found
    <2> QED BY <1>1, <2>1, <2>2, <2>3 DEF QueryInv
  <1>6. CASE QueryScan
    <2>1. /\ query.at = "stated" /\ query'.at = "scanned" /\ query'.cursors = query.cursors
          /\ query'.owed = query.owed /\ query'.direct = UNION {Scanned(f) : f \in query.paths}
      BY <1>6 DEF QueryScan, Query0
    <2>2. Rests'
      BY <1>6, <2>1, QueryFrame DEF CursorInv
    <2>3. ASSUME NEW f \in Present, NEW e \in Range(lines[f]) \cap Named, Found(f, e) PROVE Found(f, e)'
      <3>1. f \in query.paths => EntryOf(f, e) \in query'.direct
        BY <2>1, ScanFacts DEF TypeInv
      <3> QED BY <1>1, <2>1, <2>3, <3>1 DEF Found, Skipped
    <2> QED BY <1>1, <2>1, <2>2, <2>3 DEF QueryInv
  <1>7. CASE QueryReport
    <2>1. query'.at = "none" /\ query'.cursors = NoCursors
      BY <1>2, <1>7 DEF QueryReport
    <2> QED BY <1>2, <1>7, <2>1, QueryFrame, NoCursorFacts DEF QueryInv
  <1> QED BY <1>3, <1>4, <1>5, <1>6, <1>7

LEMMA StutterStep ==
  ASSUME IInv, UNCHANGED vars
  PROVE  Rests' /\ QueryInv'
  <1>1. /\ SavedForm' = SavedForm /\ Todo' = Todo /\ Present' = Present
        /\ UNCHANGED <<lines, ver, entries, cursors, loaded, synced, haveFile, saved, savedCursors, job, pc, query,
                       orphans, believed, forgot>>
    BY DEF vars, agent, memory, disk, sync, history, SavedForm, Todo, Present
  <1>2. CursorInv' /\ MemInv' /\ DiskInv'
    BY <1>1 DEF IInv, CursorInv, MemInv, DiskInv, Kept, KeptOnDisk
  <1>3. LoadInv' /\ SyncInv'
    BY <1>1 DEF IInv, LoadInv, SyncInv, Kept
  <1>4. QueryInv'
    BY <1>1 DEF IInv, QueryInv, Kept, Found, Skipped
  <1> QED BY <1>2, <1>3, <1>4 DEF Rests

LEMMA IInvStep ==
  ASSUME IInv, [Next]_vars
  PROVE  IInv'
  <1>1. TypeInv' /\ TurnInv'
    BY TypeStep, TurnStep DEF IInv
  <1>2. Rests' /\ QueryInv'
    BY NextCases, AgentStep, ListStep, StatStep, NothingNewStep, ScanStep, MergeStep, WriteEntriesStep, WriteMetaStep,
       WriteFailsStep, RestartStep, QueryStep, StutterStep
  <1> QED BY <1>1, <1>2 DEF IInv, Rests

-----------------------------------------------------------------------------
(* The theorems *)

\* The inductive invariant holds in every state: what it says of cursors, entries and
\* reports is true of the turns that carry a prompt_id, whatever the others do.
THEOREM InvariantHolds == Spec => []IInv
  <1> QED BY IInvInit, IInvStep, PTL DEF Spec

\* Every variable keeps its type, and no scan carries work when no sync runs.
THEOREM TypeCorrect == Spec => []TypeOK
  <1>1. IInv => TypeOK
    BY DEF IInv, TypeInv, AgentType, LedgerType, SyncType, QueryType, CountType, Job, Query0, TypeOK
  <1> QED BY <1>1, InvariantHolds, PTL

\* With a prompt_id on every turn, no cursor on disk runs ahead of the entries there:
\* not when the process dies between the two renames of a sync, not when a write fails,
\* not when the agent changes files between stat, scan and merge.
THEOREM CursorsNotAhead ==
  ASSUME Turns \subseteq Named
  PROVE  Spec => []MetaNotAhead
  <1>1. ASSUME IInv PROVE MetaNotAhead
    <2> SUFFICES ASSUME haveFile, NEW f \in Present \ orphans, savedCursors[f] = ver[f], NEW e \in Range(lines[f])
                 PROVE  <<f, e>> \in saved
      BY DEF MetaNotAhead
    <2>1. f \in Files
      BY DEF Present
    <2>2. e \in Turns
      BY <1>1, <2>1, ScanFacts DEF IInv, TypeInv
    <2> QED BY <1>1, <2>2 DEF IInv, DiskInv, KeptOnDisk
  <1> QED BY <1>1, InvariantHolds, PTL

\* And what the ledger file holds stays there until the file is lost, or a process that
\* could not read it writes over it: no rewind, no clean-up of session files and no
\* restart takes a turn back, nor does a process that could not read the cursors.
THEOREM HistoryKept ==
  ASSUME Turns \subseteq Named
  PROVE  Spec => HistoryStays
  <1>1. ASSUME IInv, [Next]_vars PROVE ~haveFile' \/ forgot \/ saved \subseteq saved'
    <2>1. CASE WriteEntries
      <3> SUFFICES ASSUME ~forgot, NEW p \in saved PROVE p \in SavedForm
        BY <2>1 DEF WriteEntries
      <3>1. LoadInv /\ TypeInv /\ TurnInv /\ loaded
        BY <1>1, <2>1 DEF IInv, LoadInv, WriteEntries
      <3>2. p[1] \in Files /\ p[2] \in Named /\ p = <<p[1], p[2]>>
        BY <3>1 DEF TypeInv, LedgerType
      <3>3. haveFile
        BY <3>1 DEF LoadInv
      <3>4. EntryOf(p[1], p[2]) \in entries
        BY <3>1, <3>2, <3>3 DEF LoadInv
      <3>5. <<p[1], p[2]>> \in SavedForm
        BY <3>1, <3>2, <3>4, SavedFacts
      <3> QED BY <3>2, <3>5
    <2>2. CASE Restart
      BY <2>2 DEF Restart
    <2>3. ASSUME NEW f \in Files, AppendTurn(f) \/ Rewind(f) \/ CleanUp(f) PROVE saved' = saved
      BY <2>3, HostIsLeft DEF host, disk
    <2>4. CASE \/ List \/ Stat \/ NothingNew \/ Scan \/ Merge \/ WriteMeta \/ WriteFails
               \/ QueryList \/ QueryCopy \/ QueryStat \/ QueryScan \/ QueryReport
      BY <2>4 DEF List, Stat, NothingNew, Scan, Merge, WriteMeta, WriteFails, QueryList, QueryCopy, QueryStat,
                  QueryScan, QueryReport, world, disk
    <2>5. CASE UNCHANGED vars
      BY <2>5 DEF vars, disk
    <2> QED BY <1>1, <2>1, <2>2, <2>3, <2>4, <2>5, NextCases
  <1> QED BY <1>1, InvariantHolds, PTL DEF Spec, HistoryStays

-----------------------------------------------------------------------------
(* Sums over finite sets.  Induction goes by the smallest counterexample, whose *)
(* existence is what well-foundedness says.                                     *)

\* A property of sets that holds of each subset of S when it holds of what is left of it
\* without an element holds of all of them.
LEMMA SubsetInduction ==
  ASSUME NEW S, IsFiniteSet(S), NEW Good,
         \A T \in SUBSET S : (\A x \in T : T \ {x} \in Good) => T \in Good
  PROVE  SUBSET S \subseteq Good
  <1> DEFINE Bad == (SUBSET S) \ Good
  <1>1. ASSUME Bad # {} PROVE FALSE
    <2>1. IsWellFoundedOn(StrictSubsetOrdering(S), SUBSET S)
      BY FS_StrictSubsetOrderingWellFounded, FS_FiniteSubsetsOfFinite
    <2>2. \E T \in Bad : \A U \in Bad : ~(<<U, T>> \in StrictSubsetOrdering(S))
      <3> HIDE DEF Bad
      <3>1. Bad \subseteq SUBSET S
        BY DEF Bad
      <3> QED BY <1>1, <2>1, <3>1, WFMin
    <2>3. PICK T \in Bad : \A U \in Bad : ~(<<U, T>> \in StrictSubsetOrdering(S))
      BY <2>2
    <2>4. ASSUME NEW x \in T PROVE T \ {x} \in Good
      <3>1. T \ {x} \in SUBSET S /\ T \ {x} # T
        BY <2>3, <2>4
      <3>2. <<T \ {x}, T>> \in StrictSubsetOrdering(S)
        BY <2>3, <3>1 DEF StrictSubsetOrdering
      <3> QED BY <2>3, <3>1, <3>2
    <2>5. T \in SUBSET S /\ T \notin Good
      BY <2>3
    <2> HIDE DEF Bad
    <2> QED BY <2>4, <2>5
  <1> QED BY <1>1

LEMMA NatInductionSet ==
  ASSUME NEW Good, 0 \in Good, \A n \in Nat : n \in Good => n + 1 \in Good
  PROVE  Nat \subseteq Good
  <1> SUFFICES ASSUME NEW k \in Nat PROVE k \in Good
    OBVIOUS
  <1> DEFINE Fit == {T \in SUBSET (1..k) : Cardinality(T) \in Good}
  <1>1. IsFiniteSet(1..k) /\ Cardinality(1..k) = k
    BY FS_Interval
  <1>2. ASSUME NEW T \in SUBSET (1..k), \A x \in T : T \ {x} \in Fit
        PROVE  T \in Fit
    <2>1. IsFiniteSet(T) /\ Cardinality(T) \in Nat
      BY <1>1, FS_Subset, FS_CardinalityType
    <2>2. CASE T = {}
      BY <2>2, FS_EmptySet
    <2>3. CASE T # {}
      <3>1. PICK x : x \in T
        BY <2>3
      <3>2. Cardinality(T \ {x}) = Cardinality(T) - 1 /\ Cardinality(T) # 0
        BY <2>1, <3>1, FS_RemoveElement, FS_EmptySet
      <3>3. Cardinality(T) - 1 \in Nat /\ Cardinality(T) - 1 \in Good
        BY <1>2, <2>1, <3>1, <3>2
      <3>4. (Cardinality(T) - 1) + 1 = Cardinality(T)
        BY <2>1
      <3> QED BY <3>3, <3>4
    <2> QED BY <2>2, <2>3
  <1>3. SUBSET (1..k) \subseteq Fit
    <2> HIDE DEF Fit
    <2> QED BY <1>1, <1>2, SubsetInduction
  <1> QED BY <1>1, <1>3

\* The folds of FiniteSetsExt take the elements of a set in the order of Pick.
Pick(T) == CHOOSE x \in T : TRUE
Folded(g, it, T) == IF T = {} THEN 0 ELSE g[Pick(T)] + it[T \ {Pick(T)}]
IsFold(g, S, it) == it = [T \in SUBSET S |-> IF T = {} THEN 0 ELSE g[Pick(T)] + it[T \ {Pick(T)}]]

LEMMA PickFacts == \A T : T # {} => Pick(T) \in T
  BY DEF Pick

LEMMA FoldExists ==
  ASSUME NEW S, IsFiniteSet(S), NEW g \in [S -> Nat]
  PROVE  \E it \in [SUBSET S -> Nat] : IsFold(g, S, it)
  <1> DEFINE Good == {n \in Nat : \E it \in [SUBSET S -> Nat] :
                        \A T \in SUBSET S : Cardinality(T) <= n => it[T] = Folded(g, it, T)}
  <1>1. \A T \in SUBSET S : IsFiniteSet(T) /\ Cardinality(T) \in Nat /\ Cardinality(T) <= Cardinality(S)
    BY FS_Subset, FS_CardinalityType
  <1>2. \A T \in SUBSET S : T # {} =>
          /\ Pick(T) \in T /\ T \ {Pick(T)} \in SUBSET S /\ g[Pick(T)] \in Nat
          /\ Cardinality(T) # 0 /\ Cardinality(T \ {Pick(T)}) = Cardinality(T) - 1
    BY <1>1, PickFacts, FS_RemoveElement, FS_EmptySet
  <1>3. 0 \in Good
    <2> DEFINE it == [T \in SUBSET S |-> 0]
    <2>1. it \in [SUBSET S -> Nat]
      OBVIOUS
    <2>2. ASSUME NEW T \in SUBSET S, Cardinality(T) <= 0 PROVE T = {}
      BY <1>1, <2>2, FS_EmptySet
    <2>3. ASSUME NEW T \in SUBSET S, Cardinality(T) <= 0 PROVE it[T] = Folded(g, it, T)
      BY <2>2, <2>3 DEF Folded
    <2> QED BY <2>1, <2>3
  <1>4. ASSUME NEW n \in Nat, n \in Good PROVE n + 1 \in Good
    <2>1. PICK it \in [SUBSET S -> Nat] :
            \A T \in SUBSET S : Cardinality(T) <= n => it[T] = Folded(g, it, T)
      BY <1>4
    <2> DEFINE jt == [T \in SUBSET S |-> Folded(g, it, T)]
    <2>2. jt \in [SUBSET S -> Nat]
      <3>1. ASSUME NEW T \in SUBSET S PROVE Folded(g, it, T) \in Nat
        <4>1. CASE T = {}
          BY <4>1 DEF Folded
        <4>2. CASE T # {}
          <5>1. g[Pick(T)] \in Nat /\ it[T \ {Pick(T)}] \in Nat
            BY <1>2, <4>2
          <5> QED BY <4>2, <5>1 DEF Folded
        <4> QED BY <4>1, <4>2
      <3> QED BY <3>1
    <2>3. ASSUME NEW T \in SUBSET S, Cardinality(T) <= n + 1
          PROVE  jt[T] = Folded(g, jt, T)
      <3>1. CASE T = {}
        BY <3>1 DEF Folded
      <3>2. CASE T # {}
        <4>1. T \ {Pick(T)} \in SUBSET S /\ Cardinality(T \ {Pick(T)}) <= n
          BY <1>1, <1>2, <2>3, <3>2
        <4>2. jt[T \ {Pick(T)}] = it[T \ {Pick(T)}]
          BY <2>1, <4>1
        <4> QED BY <3>2, <4>2 DEF Folded
      <3> QED BY <3>1, <3>2
    <2> HIDE DEF jt
    <2> QED BY <2>2, <2>3
  <1>5. Cardinality(S) \in Good
    <2> HIDE DEF Good
    <2> QED BY <1>1, <1>3, <1>4, NatInductionSet
  <1>6. PICK it \in [SUBSET S -> Nat] : \A T \in SUBSET S : it[T] = Folded(g, it, T)
    BY <1>1, <1>5
  <1>7. it = [T \in SUBSET S |-> it[T]]
    OBVIOUS
  <1> QED BY <1>6, <1>7 DEF IsFold, Folded

LEMMA FoldUnique ==
  ASSUME NEW S, IsFiniteSet(S), NEW g, NEW it, IsFold(g, S, it), NEW jt, IsFold(g, S, jt)
  PROVE  it = jt
  <1> DEFINE Good == {T \in SUBSET S : it[T] = jt[T]}
  <1>0. /\ \A T \in SUBSET S : it[T] = Folded(g, it, T) /\ jt[T] = Folded(g, jt, T)
        /\ DOMAIN it = SUBSET S /\ DOMAIN jt = SUBSET S
        /\ it = [T \in SUBSET S |-> it[T]] /\ jt = [T \in SUBSET S |-> jt[T]]
    BY DEF IsFold, Folded
  <1>1. ASSUME NEW T \in SUBSET S, \A x \in T : T \ {x} \in Good
        PROVE  T \in Good
    BY <1>0, <1>1, PickFacts DEF Folded
  <1>2. SUBSET S \subseteq Good
    <2> HIDE DEF Good
    <2> QED BY <1>1, SubsetInduction
  <1> QED BY <1>0, <1>2

\* The sum of a function over a part of its domain.
Over(g, T) == (CHOOSE it : IsFold(g, DOMAIN g, it))[T]

LEMMA OverFacts ==
  ASSUME NEW S, IsFiniteSet(S), NEW g \in [S -> Nat]
  PROVE  /\ IsFold(g, S, CHOOSE it : IsFold(g, DOMAIN g, it))
         /\ \A T \in SUBSET S :
              /\ Over(g, T) \in Nat
              /\ Over(g, T) = IF T = {} THEN 0 ELSE g[Pick(T)] + Over(g, T \ {Pick(T)})
  <1> SUFFICES ASSUME NEW f, f = (CHOOSE it : IsFold(g, S, it))
               PROVE  /\ IsFold(g, S, f)
                      /\ \A T \in SUBSET S :
                           f[T] \in Nat /\ f[T] = IF T = {} THEN 0 ELSE g[Pick(T)] + f[T \ {Pick(T)}]
    BY DEF Over
  <1>1. PICK it \in [SUBSET S -> Nat] : IsFold(g, S, it)
    BY FoldExists
  <1>2. IsFold(g, S, f)
    BY <1>1
  <1>3. f = it
    BY <1>1, <1>2, FoldUnique
  <1> QED BY <1>2, <1>3 DEF IsFold

LEMMA OverRemove ==
  ASSUME NEW S, IsFiniteSet(S), NEW g \in [S -> Nat], NEW U \in SUBSET S, NEW y \in U
  PROVE  Over(g, U) = g[y] + Over(g, U \ {y})
  <1> DEFINE Good == {T \in SUBSET S : \A x \in T : Over(g, T) = g[x] + Over(g, T \ {x})}
  <1>0. /\ \A T \in SUBSET S : Over(g, T) \in Nat
        /\ \A T \in SUBSET S : T # {} => Pick(T) \in T /\ Over(g, T) = g[Pick(T)] + Over(g, T \ {Pick(T)})
        /\ \A x \in S : g[x] \in Nat
    BY OverFacts, PickFacts
  <1>1. ASSUME NEW T \in SUBSET S, \A x \in T : T \ {x} \in Good
        PROVE  T \in Good
    <2> SUFFICES ASSUME NEW x \in T PROVE Over(g, T) = g[x] + Over(g, T \ {x})
      OBVIOUS
    <2> DEFINE p == Pick(T)
    <2>1. p \in T /\ Over(g, T) = g[p] + Over(g, T \ {p})
      BY <1>0
    <2>2. CASE x = p
      BY <2>1, <2>2
    <2>3. CASE x # p
      <3>1. /\ x \in T \ {p} /\ p \in T \ {x}
            /\ (T \ {p}) \ {x} = (T \ {x}) \ {p} /\ (T \ {x}) \ {p} \in SUBSET S
        BY <2>1, <2>3
      <3>2. /\ Over(g, T \ {p}) = g[x] + Over(g, (T \ {p}) \ {x})
            /\ Over(g, T \ {x}) = g[p] + Over(g, (T \ {x}) \ {p})
        BY <1>1, <2>1, <3>1
      <3>3. g[x] \in Nat /\ g[p] \in Nat /\ Over(g, (T \ {x}) \ {p}) \in Nat
        BY <1>0, <2>1, <3>1
      <3> HIDE DEF p
      <3>4. Over(g, T) = g[p] + (g[x] + Over(g, (T \ {x}) \ {p}))
        BY <2>1, <3>1, <3>2, Zenon
      <3>5. g[x] + Over(g, T \ {x}) = g[x] + (g[p] + Over(g, (T \ {x}) \ {p}))
        BY <3>2, Zenon
      <3> QED BY <3>3, <3>4, <3>5
    <2> QED BY <2>2, <2>3
  <1>2. SUBSET S \subseteq Good
    <2> HIDE DEF Good
    <2> QED BY <1>1, SubsetInduction
  <1> QED BY <1>2

LEMMA OverEmpty ==
  ASSUME NEW S, IsFiniteSet(S), NEW g \in [S -> Nat]
  PROVE  Over(g, {}) = 0 /\ \A T \in SUBSET S : Over(g, T) \in Nat
  BY OverFacts

LEMMA OverAgree ==
  ASSUME NEW S, IsFiniteSet(S), NEW g \in [S -> Nat], NEW R, IsFiniteSet(R), NEW h \in [R -> Nat],
         NEW V \in SUBSET S, V \in SUBSET R, \A x \in V : g[x] = h[x]
  PROVE  Over(g, V) = Over(h, V)
  <1> DEFINE Good == {T \in SUBSET V : Over(g, T) = Over(h, T)}
  <1>1. ASSUME NEW T \in SUBSET V, \A x \in T : T \ {x} \in Good
        PROVE  T \in Good
    <2>1. CASE T = {}
      BY <2>1, OverEmpty
    <2>2. CASE T # {}
      <3>1. PICK x : x \in T
        BY <2>2
      <3>2. T \in SUBSET S /\ T \in SUBSET R
        OBVIOUS
      <3>3. Over(g, T) = g[x] + Over(g, T \ {x}) /\ Over(h, T) = h[x] + Over(h, T \ {x})
        BY <3>1, <3>2, OverRemove
      <3>4. g[x] = h[x] /\ Over(g, T \ {x}) = Over(h, T \ {x})
        BY <1>1, <3>1
      <3> QED BY <3>3, <3>4
    <2> QED BY <2>1, <2>2
  <1>2. IsFiniteSet(V)
    BY FS_Subset
  <1>3. SUBSET V \subseteq Good
    <2> HIDE DEF Good
    <2> QED BY <1>1, <1>2, SubsetInduction
  <1> QED BY <1>3

LEMMA OverAdd ==
  ASSUME NEW S, IsFiniteSet(S), NEW g \in [S -> Nat], NEW h \in [S -> Nat], NEW k \in [S -> Nat],
         \A x \in S : k[x] = g[x] + h[x]
  PROVE  Over(k, S) = Over(g, S) + Over(h, S)
  <1> DEFINE Good == {T \in SUBSET S : Over(k, T) = Over(g, T) + Over(h, T)}
  <1>1. ASSUME NEW T \in SUBSET S, \A x \in T : T \ {x} \in Good
        PROVE  T \in Good
    <2>1. CASE T = {}
      BY <2>1, OverEmpty
    <2>2. CASE T # {}
      <3>1. PICK x : x \in T
        BY <2>2
      <3>2. /\ Over(g, T) = g[x] + Over(g, T \ {x}) /\ Over(h, T) = h[x] + Over(h, T \ {x})
            /\ Over(k, T) = k[x] + Over(k, T \ {x})
        BY <3>1, OverRemove
      <3>3. k[x] = g[x] + h[x] /\ Over(k, T \ {x}) = Over(g, T \ {x}) + Over(h, T \ {x})
        BY <1>1, <3>1
      <3>4. /\ g[x] \in Nat /\ h[x] \in Nat
            /\ Over(g, T \ {x}) \in Nat /\ Over(h, T \ {x}) \in Nat
        BY <3>1, OverEmpty
      <3> QED BY <3>2, <3>3, <3>4
    <2> QED BY <2>1, <2>2
  <1>2. SUBSET S \subseteq Good
    <2> HIDE DEF Good
    <2> QED BY <1>1, SubsetInduction
  <1> QED BY <1>2

\* What is nothing outside of R sums up as over R.
LEMMA OverPart ==
  ASSUME NEW S, IsFiniteSet(S), NEW h \in [S -> Nat], NEW R \in SUBSET S, NEW g \in [R -> Nat],
         \A x \in S : h[x] = IF x \in R THEN g[x] ELSE 0
  PROVE  Over(h, S) = Over(g, R)
  <1> DEFINE Good == {T \in SUBSET S : Over(h, T) = Over(g, T \cap R)}
  <1>0. IsFiniteSet(R)
    BY FS_Subset
  <1>1. ASSUME NEW T \in SUBSET S, \A x \in T : T \ {x} \in Good
        PROVE  T \in Good
    <2>1. CASE T = {}
      <3>1. T \cap R = {}
        BY <2>1
      <3> QED BY <1>0, <2>1, <3>1, OverEmpty
    <2>2. CASE T # {}
      <3>1. PICK x : x \in T
        BY <2>2
      <3>2. Over(h, T) = h[x] + Over(h, T \ {x}) /\ Over(h, T \ {x}) = Over(g, (T \ {x}) \cap R)
        BY <1>1, <3>1, OverRemove
      <3>3. (T \ {x}) \cap R \in SUBSET R /\ Over(g, (T \ {x}) \cap R) \in Nat
        BY <1>0, OverEmpty
      <3>4. CASE x \in R
        <4>1. (T \cap R) \ {x} = (T \ {x}) \cap R /\ x \in T \cap R /\ T \cap R \in SUBSET R
          BY <3>1, <3>4
        <4>2. Over(g, T \cap R) = g[x] + Over(g, (T \cap R) \ {x})
          BY <1>0, <4>1, OverRemove
        <4> QED BY <3>1, <3>2, <3>4, <4>1, <4>2
      <3>5. CASE x \notin R
        <4>1. T \cap R = (T \ {x}) \cap R
          BY <3>5
        <4>2. h[x] = 0
          BY <3>1, <3>5
        <4> QED BY <3>2, <3>3, <4>1, <4>2
      <3> QED BY <3>4, <3>5
    <2> QED BY <2>1, <2>2
  <1>2. SUBSET S \subseteq Good
    <2> HIDE DEF Good
    <2> QED BY <1>1, SubsetInduction
  <1>3. S \in Good /\ S \cap R = R
    BY <1>2
  <1> QED BY <1>3

LEMMA OverNothing == ASSUME NEW S, IsFiniteSet(S) PROVE Over([x \in S |-> 0], S) = 0
  <1> DEFINE zero == [x \in S |-> 0]
             Good == {T \in SUBSET S : Over(zero, T) = 0}
  <1>1. zero \in [S -> Nat] /\ \A x \in S : zero[x] = 0
    OBVIOUS
  <1>2. ASSUME NEW T \in SUBSET S, \A x \in T : T \ {x} \in Good
        PROVE  T \in Good
    <2> HIDE DEF zero
    <2>1. ASSUME NEW x \in T PROVE Over(zero, T) = zero[x] + Over(zero, T \ {x})
      BY <1>1, <2>1, OverRemove
    <2>2. Over(zero, {}) = 0
      BY <1>1, OverEmpty
    <2>3. CASE T = {}
      BY <2>2, <2>3
    <2>4. CASE T # {}
      <3>1. PICK x : x \in T
        BY <2>4
      <3>2. zero[x] = 0 /\ Over(zero, T \ {x}) = 0
        BY <1>1, <1>2, <3>1
      <3> QED BY <2>1, <3>1, <3>2
    <2> QED BY <2>3, <2>4
  <1>3. SUBSET S \subseteq Good
    <2> HIDE DEF Good
    <2> QED BY <1>2, SubsetInduction
  <1> QED BY <1>3

\* Adding to one value adds to the sum.
LEMMA OverBump ==
  ASSUME NEW S, IsFiniteSet(S), NEW g \in [S -> Nat], NEW h \in [S -> Nat], NEW a \in S, NEW n \in Nat,
         \A x \in S : h[x] = IF x = a THEN g[x] + n ELSE g[x]
  PROVE  Over(h, S) = Over(g, S) + n
  <1>1. /\ Over(h, S) = h[a] + Over(h, S \ {a}) /\ Over(g, S) = g[a] + Over(g, S \ {a})
    BY OverRemove
  <1>2. Over(h, S \ {a}) = Over(g, S \ {a})
    <2>1. S \ {a} \in SUBSET S /\ \A x \in S \ {a} : h[x] = g[x]
      OBVIOUS
    <2> QED BY <2>1, OverAgree
  <1>3. h[a] = g[a] + n /\ g[a] \in Nat /\ Over(g, S \ {a}) \in Nat
    BY OverEmpty
  <1> QED BY <1>1, <1>2, <1>3

\* The same, of all such functions at once.
LEMMA OverBumps ==
  \A S : IsFiniteSet(S) =>
    \A g, h \in [S -> Nat], a \in S, n \in Nat :
      (\A x \in S : h[x] = IF x = a THEN g[x] + n ELSE g[x]) => Over(h, S) = Over(g, S) + n
  BY OverBump

\* A table adds up to the same by rows as by columns.
LEMMA OverSwap ==
  ASSUME NEW S, IsFiniteSet(S), NEW M, IsFiniteSet(M), NEW F \in [S -> [M -> Nat]]
  PROVE  Over([m \in M |-> Over([x \in S |-> F[x][m]], S)], M) = Over([x \in S |-> Over(F[x], M)], S)
  <1> DEFINE Column(m)  == [x \in S |-> F[x][m]]
             Columns(T) == [m \in M |-> Over(Column(m), T)]
             Rows       == [x \in S |-> Over(F[x], M)]
             Good == {T \in SUBSET S : Over(Columns(T), M) = Over(Rows, T)}
  <1>0. /\ \A m \in M : Column(m) \in [S -> Nat]
        /\ \A x \in S : F[x] \in [M -> Nat]
        /\ M \in SUBSET M
    OBVIOUS
  <1>1. \A m \in M : \A T \in SUBSET S : Over(Column(m), T) \in Nat
    <2> HIDE DEF Column
    <2> QED BY <1>0, OverEmpty
  <1>2. \A T \in SUBSET S : Columns(T) \in [M -> Nat]
    BY <1>1
  <1>3. Rows \in [S -> Nat]
    BY <1>0, OverEmpty
  <1>4. ASSUME NEW T \in SUBSET S, \A x \in T : T \ {x} \in Good
        PROVE  T \in Good
    <2>1. CASE T = {}
      <3>1. \A m \in M : Over(Column(m), T) = 0
        <4> HIDE DEF Column
        <4> QED BY <1>0, <2>1, OverEmpty
      <3>2. Columns(T) = [m \in M |-> 0]
        BY <3>1
      <3>3. Over(Columns(T), M) = 0
        BY <3>2, OverNothing
      <3>4. Over(Rows, T) = 0
        <4> HIDE DEF Rows
        <4> QED BY <1>3, <2>1, OverEmpty
      <3> QED BY <3>3, <3>4
    <2>2. CASE T # {}
      <3>1. PICK x : x \in T
        BY <2>2
      <3>2. \A m \in M : Over(Column(m), T) = Column(m)[x] + Over(Column(m), T \ {x})
        <4> HIDE DEF Column
        <4> QED BY <1>0, <3>1, OverRemove
      <3>3. \A m \in M : Columns(T)[m] = F[x][m] + Columns(T \ {x})[m]
        BY <3>1, <3>2
      <3>4. Columns(T) \in [M -> Nat] /\ Columns(T \ {x}) \in [M -> Nat] /\ F[x] \in [M -> Nat]
        BY <1>0, <1>2, <3>1
      <3>5. Over(Columns(T), M) = Over(F[x], M) + Over(Columns(T \ {x}), M)
        <4> DEFINE all == Columns(T)
                   rest == Columns(T \ {x})
        <4>1. \A m \in M : all[m] = F[x][m] + rest[m]
          BY <3>3
        <4>2. all \in [M -> Nat] /\ rest \in [M -> Nat]
          BY <3>4
        <4>3. Over(all, M) = Over(F[x], M) + Over(rest, M)
          <5> HIDE DEF all, rest
          <5> QED BY <3>4, <4>1, <4>2, OverAdd
        <4> QED BY <4>3
      <3>6. Over(Columns(T \ {x}), M) = Over(Rows, T \ {x})
        BY <1>4, <3>1
      <3>7. Over(Rows, T) = Rows[x] + Over(Rows, T \ {x}) /\ Rows[x] = Over(F[x], M)
        <4>1. Rows[x] = Over(F[x], M)
          BY <3>1
        <4> HIDE DEF Rows
        <4> QED BY <1>3, <3>1, <4>1, OverRemove
      <3> HIDE DEF Columns, Rows
      <3> QED BY <3>5, <3>6, <3>7
    <2> QED BY <2>1, <2>2
  <1>5. SUBSET S \subseteq Good
    <2> HIDE DEF Good
    <2> QED BY <1>4, SubsetInduction
  <1> QED BY <1>5

\* What each element of D adds, by what it is of.
LEMMA OverCount ==
  ASSUME NEW D, IsFiniteSet(D), NEW E, IsFiniteSet(E), NEW of \in [D -> E], NEW w \in [E -> Nat]
  PROVE  Over([x \in D |-> w[of[x]]], D) = Over([e \in E |-> Cardinality({x \in D : of[x] = e}) * w[e]], E)
  <1> DEFINE Those(T, e) == {x \in T : of[x] = e}
             Each == [x \in D |-> w[of[x]]]
             ByOf(T) == [e \in E |-> Cardinality(Those(T, e)) * w[e]]
             Good == {T \in SUBSET D : Over(Each, T) = Over(ByOf(T), E)}
  <1>0. \A T \in SUBSET D, e \in E : IsFiniteSet(Those(T, e)) /\ Cardinality(Those(T, e)) \in Nat
    BY FS_Subset, FS_CardinalityType
  <1>1. Each \in [D -> Nat] /\ \A x \in D : of[x] \in E /\ w[of[x]] \in Nat /\ Each[x] = w[of[x]]
    OBVIOUS
  <1>2. \A T \in SUBSET D : ByOf(T) \in [E -> Nat]
    <2>1. \A n \in Nat, e \in E : n * w[e] \in Nat
      OBVIOUS
    <2> HIDE DEF Those
    <2> QED BY <1>0, <2>1
  <1>3. ASSUME NEW T \in SUBSET D, \A x \in T : T \ {x} \in Good
        PROVE  T \in Good
    <2>1. CASE T = {}
      <3>1. \A e \in E : Cardinality(Those(T, e)) * w[e] = 0
        <4> TAKE e \in E
        <4>1. Those(T, e) = {} /\ w[e] \in Nat
          BY <2>1
        <4>2. Cardinality(Those(T, e)) = 0
          BY <4>1, FS_EmptySet
        <4> QED BY <4>1, <4>2
      <3>2. ByOf(T) = [e \in E |-> 0]
        <4> HIDE DEF Those
        <4> QED BY <3>1
      <3>3. Over(ByOf(T), E) = 0
        BY <3>2, OverNothing
      <3>4. Over(Each, T) = 0
        <4> HIDE DEF Each
        <4> QED BY <1>1, <2>1, OverEmpty
      <3> QED BY <3>3, <3>4
    <2>2. CASE T # {}
      <3>1. PICK x : x \in T
        BY <2>2
      <3>2. ASSUME NEW e \in E
            PROVE  Cardinality(Those(T, e))
                     = IF e = of[x] THEN Cardinality(Those(T \ {x}, e)) + 1 ELSE Cardinality(Those(T \ {x}, e))
        <4>1. CASE e = of[x]
          <5>1. Those(T \ {x}, e) = Those(T, e) \ {x} /\ x \in Those(T, e)
            BY <3>1, <4>1
          <5>2. IsFiniteSet(Those(T, e)) /\ Cardinality(Those(T, e)) \in Nat
            BY <1>0
          <5>3. Cardinality(Those(T, e) \ {x}) = Cardinality(Those(T, e)) - 1
            <6> HIDE DEF Those
            <6> QED BY <5>1, <5>2, FS_RemoveElement
          <5> HIDE DEF Those
          <5> QED BY <4>1, <5>1, <5>2, <5>3
        <4>2. CASE e # of[x]
          <5>1. Those(T \ {x}, e) = Those(T, e)
            BY <3>1, <4>2
          <5> HIDE DEF Those
          <5> QED BY <4>2, <5>1
        <4> QED BY <4>1, <4>2
      <3>3. \A e \in E : ByOf(T)[e] = IF e = of[x] THEN ByOf(T \ {x})[e] + w[of[x]] ELSE ByOf(T \ {x})[e]
        <4>1. \A n \in Nat, e \in E : (n + 1) * w[e] = n * w[e] + w[e]
          <5>1. \A n, k \in Nat : (n + 1) * k = n * k + k
            OBVIOUS
          <5> QED BY <5>1
        <4>2. \A e \in E : Cardinality(Those(T \ {x}, e)) \in Nat
          BY <1>0
        <4> HIDE DEF Those
        <4> QED BY <3>2, <4>1, <4>2
      <3>4. Over(ByOf(T), E) = Over(ByOf(T \ {x}), E) + w[of[x]]
        <4>1. ByOf(T) \in [E -> Nat] /\ ByOf(T \ {x}) \in [E -> Nat] /\ of[x] \in E /\ w[of[x]] \in Nat
          BY <1>1, <1>2, <3>1
        <4> DEFINE g == ByOf(T \ {x})
                   h == ByOf(T)
                   a == of[x]
                   n == w[of[x]]
        <4>2. /\ g \in [E -> Nat] /\ h \in [E -> Nat] /\ a \in E /\ n \in Nat
              /\ \A e \in E : h[e] = IF e = a THEN g[e] + n ELSE g[e]
          <5> HIDE DEF ByOf
          <5> QED BY <3>3, <4>1
        <4>3. Over(h, E) = Over(g, E) + n
          <5>1. \A p, q \in [E -> Nat], b \in E, k \in Nat :
                  (\A e \in E : q[e] = IF e = b THEN p[e] + k ELSE p[e]) => Over(q, E) = Over(p, E) + k
            BY OverBumps, Zenon
          <5> HIDE DEF g, h, a, n
          <5> QED BY <4>2, <5>1
        <4> QED BY <4>3
      <3>5. Over(ByOf(T \ {x}), E) = Over(Each, T \ {x})
        BY <1>3, <3>1
      <3>6. Over(Each, T) = Each[x] + Over(Each, T \ {x}) /\ Each[x] = w[of[x]]
        <4> HIDE DEF Each
        <4> QED BY <1>1, <3>1, OverRemove
      <3>7. Each[x] \in Nat /\ Over(Each, T \ {x}) \in Nat
        <4> HIDE DEF Each
        <4> QED BY <1>1, <3>1, OverEmpty
      <3> HIDE DEF ByOf, Each
      <3> QED BY <3>4, <3>5, <3>6, <3>7
    <2> QED BY <2>1, <2>2
  <1>4. SUBSET D \subseteq Good
    <2> HIDE DEF Good
    <2> QED BY <1>3, SubsetInduction
  <1> QED BY <1>4

\* Whatever solves the equation of a fold is the sum.
LEMMA FoldIsOver ==
  ASSUME NEW S, IsFiniteSet(S), NEW g \in [S -> Nat], NEW it, IsFold(g, S, it)
  PROVE  it[S] = Over(g, S)
  <1>1. it = (CHOOSE jt : IsFold(g, DOMAIN g, jt))
    BY OverFacts, FoldUnique
  <1> QED BY <1>1 DEF Over

LEMMA SumIsOver ==
  ASSUME NEW S, IsFiniteSet(S), NEW g \in [S -> Nat]
  PROVE  Sum(g) = Over(g, S)
  <1>1. Sum(g) = (CHOOSE it : IsFold(g, DOMAIN g, it))[DOMAIN g]
    BY Zenon DEF Sum, MapThenSumSet, MapThenFoldSet, IsFold, Pick
  <1> QED BY <1>1 DEF Over

-----------------------------------------------------------------------------
(* The rows of a report *)

Rows == Models \cup {Unknown}
Left(u) == IF u.by = <<>> THEN u.tokens ELSE Rest(u)
Cell(e, m) == Share(Usage[e].by, m) + IF m = Unknown THEN Left(Usage[e]) ELSE 0
RowOf(e, m) == Share(Filled(Usage[e]).models, m) + IF m = Unknown THEN Filled(Usage[e]).residual ELSE 0

LEMMA RowsFinite == IsFiniteSet(Rows) /\ IsFiniteSet(Turns)
  <1>1. IsFiniteSet(Models) /\ 1 \in Int /\ MaxTurns \in Int
    BY LedgerAssumption
  <1>2. IsFiniteSet(1..MaxTurns)
    BY <1>1, FS_Interval
  <1> QED BY <1>1, <1>2, FS_AddElement DEF Rows, Turns

\* A turn goes into the rows alike, straight from a scan or through the ledger.
LEMMA CellFacts ==
  ASSUME NEW e \in Turns
  PROVE  /\ DOMAIN Usage[e].by \in SUBSET Rows /\ IsFiniteSet(DOMAIN Usage[e].by)
         /\ Usage[e].by \in [DOMAIN Usage[e].by -> Nat] /\ Usage[e].tokens \in Nat
         /\ Left(Usage[e]) \in Nat
         /\ \A m : Share(Usage[e].by, m) \in Nat /\ Cell(e, m) \in Nat
         /\ \A m : Accumulated(Usage[e], m) = Cell(e, m) /\ RowOf(e, m) = Cell(e, m)
  <1> DEFINE u == Usage[e]
             K == DOMAIN u.by
  <1>1. u.tokens \in Nat /\ K \in SUBSET Rows /\ K \in SUBSET Models /\ u.by \in [K -> Nat]
    BY LedgerAssumption DEF Rows
  <1>2. IsFiniteSet(K)
    BY <1>1, LedgerAssumption, FS_Subset
  <1>3. Sum(u.by) \in Nat
    <2>1. K \in SUBSET K
      OBVIOUS
    <2> HIDE DEF K
    <2> QED BY <1>1, <1>2, <2>1, SumIsOver, OverEmpty
  <1>4. Left(u) \in Nat
    BY <1>1, <1>3 DEF Left, Rest
  <1>5. \A m : Share(u.by, m) \in Nat
    BY <1>1 DEF Share
  <1>6. \A m : Cell(e, m) \in Nat
    BY <1>4, <1>5 DEF Cell
  <1>7. \A m : Accumulated(u, m) = Cell(e, m)
    BY DEF Accumulated, Cell, Left
  <1>8. ASSUME NEW m PROVE RowOf(e, m) = Cell(e, m)
    <2>1. CASE u.by = <<>>
      <3>1. K = {} /\ Share(u.by, m) = 0
        BY <2>1 DEF Share
      <3>2. Filled(u) = [models |-> [k \in {Unknown} |-> u.tokens], residual |-> 0]
        BY <2>1 DEF Filled
      <3>3. Share([k \in {Unknown} |-> u.tokens], m) = IF m = Unknown THEN u.tokens ELSE 0
        BY DEF Share
      <3> QED BY <1>1, <2>1, <3>1, <3>2, <3>3 DEF RowOf, Cell, Left
    <2>2. CASE u.by # <<>>
      BY <2>2 DEF RowOf, Cell, Left, Filled
    <2> QED BY <2>1, <2>2
  <1> QED BY <1>1, <1>2, <1>4, <1>5, <1>6, <1>7, <1>8

\* It is all there: what its models do not account for is in the row unknown.
LEMMA CellsAddUp ==
  ASSUME NEW e \in Turns, Sum(Usage[e].by) <= Usage[e].tokens
  PROVE  Over([m \in Rows |-> Cell(e, m)], Rows) = Usage[e].tokens
  <1> DEFINE u == Usage[e]
             K == DOMAIN u.by
             named == [m \in Rows |-> Share(u.by, m)]
             cells == [m \in Rows |-> Cell(e, m)]
  <1>1. /\ K \in SUBSET Rows /\ IsFiniteSet(K) /\ u.by \in [K -> Nat] /\ u.tokens \in Nat /\ Left(u) \in Nat
        /\ named \in [Rows -> Nat] /\ cells \in [Rows -> Nat] /\ Unknown \in Rows /\ IsFiniteSet(Rows)
    BY CellFacts, RowsFinite DEF Rows
  <1>2. \A m \in Rows : named[m] = IF m \in K THEN u.by[m] ELSE 0
    BY DEF Share
  <1>3. Over(named, Rows) = Over(u.by, K)
    <2> HIDE DEF K, named
    <2> QED BY <1>1, <1>2, OverPart
  <1>4. \A m \in Rows : cells[m] = IF m = Unknown THEN named[m] + Left(u) ELSE named[m]
    <2>1. \A m \in Rows : Share(u.by, m) + 0 = Share(u.by, m)
      BY CellFacts
    <2> QED BY <2>1 DEF Cell
  <1>5. Over(cells, Rows) = Over(named, Rows) + Left(u)
    <2> DEFINE n == Left(u)
    <2> HIDE DEF named, cells, n
    <2>1. n \in Nat /\ \A m \in Rows : cells[m] = IF m = Unknown THEN named[m] + n ELSE named[m]
      BY <1>1, <1>4 DEF n
    <2>2. Over(cells, Rows) = Over(named, Rows) + n
      BY <1>1, <2>1, OverBump, SMTT(30)
    <2> QED BY <2>2 DEF n
  <1>6. Sum(u.by) = Over(u.by, K) /\ Sum(u.by) \in Nat
    <2>1. K \in SUBSET K
      OBVIOUS
    <2> HIDE DEF K
    <2> QED BY <1>1, <2>1, SumIsOver, OverEmpty
  <1>7. Sum(u.by) + Left(u) = u.tokens
    <2>1. CASE u.by = <<>>
      <3>1. K = {}
        BY <2>1
      <3>2. Over(u.by, K) = 0
        <4> HIDE DEF K
        <4> QED BY <1>1, <3>1, OverEmpty
      <3> QED BY <1>1, <1>6, <2>1, <3>2 DEF Left
    <2>2. CASE u.by # <<>>
      BY <1>1, <1>6, <2>2 DEF Left, Rest
    <2> QED BY <2>1, <2>2
  <1> QED BY <1>3, <1>5, <1>6, <1>7

\* The rows that come from a set of entries add up to the tokens of its turns.
LEMMA RowsOfEntries ==
  ASSUME NEW D, IsFiniteSet(D), \A x \in D : x.turn \in Turns,
         \A e \in Turns : Sum(Usage[e].by) <= Usage[e].tokens
  PROVE  Over([m \in Rows |-> Over([x \in D |-> Cell(x.turn, m)], D)], Rows)
           = Over([e \in Turns |-> Cardinality({x \in D : x.turn = e}) * Usage[e].tokens], Turns)
  <1> DEFINE F == [x \in D |-> [m \in Rows |-> Cell(x.turn, m)]]
             of == [x \in D |-> x.turn]
             w == [e \in Turns |-> Usage[e].tokens]
  <1>1. F \in [D -> [Rows -> Nat]] /\ of \in [D -> Turns] /\ w \in [Turns -> Nat]
    BY CellFacts
  <1>2. Over([m \in Rows |-> Over([x \in D |-> F[x][m]], D)], Rows) = Over([x \in D |-> Over(F[x], Rows)], D)
    <2> HIDE DEF F
    <2> QED BY <1>1, RowsFinite, OverSwap
  <1>3. \A m \in Rows : [x \in D |-> F[x][m]] = [x \in D |-> Cell(x.turn, m)]
    OBVIOUS
  <1>4. [m \in Rows |-> Over([x \in D |-> F[x][m]], D)] = [m \in Rows |-> Over([x \in D |-> Cell(x.turn, m)], D)]
    <2> HIDE DEF F
    <2> QED BY <1>3
  <1>5. \A x \in D : Over(F[x], Rows) = w[of[x]]
    BY CellsAddUp
  <1>6. [x \in D |-> Over(F[x], Rows)] = [x \in D |-> w[of[x]]]
    <2> HIDE DEF F, of, w
    <2> QED BY <1>5
  <1>7. Over([x \in D |-> w[of[x]]], D) = Over([e \in Turns |-> Cardinality({x \in D : of[x] = e}) * w[e]], Turns)
    <2> HIDE DEF of, w
    <2> QED BY <1>1, RowsFinite, OverCount
  <1>8. [e \in Turns |-> Cardinality({x \in D : of[x] = e}) * w[e]]
          = [e \in Turns |-> Cardinality({x \in D : x.turn = e}) * Usage[e].tokens]
    <2>1. \A e \in Turns : {x \in D : of[x] = e} = {x \in D : x.turn = e} /\ w[e] = Usage[e].tokens
      OBVIOUS
    <2> HIDE DEF of, w
    <2> QED BY <2>1
  <1> HIDE DEF F, of, w
  <1> QED BY <1>2, <1>4, <1>6, <1>7, <1>8, Zenon

\* The folds of the report, as sums.
LEMMA ScannedRow ==
  ASSUME NEW D, IsFiniteSet(D), \A x \in D : x.turn \in Turns, NEW m
  PROVE  MapThenSumSet(LAMBDA x : Accumulated(Usage[x.turn], m), D) = Over([x \in D |-> Cell(x.turn, m)], D)
  <1> DEFINE g == [x \in D |-> Cell(x.turn, m)]
             c == CHOOSE it : it = [T \in SUBSET D |->
                     IF T = {} THEN 0 ELSE Accumulated(Usage[Pick(T).turn], m) + it[T \ {Pick(T)}]]
  <1>1. MapThenSumSet(LAMBDA x : Accumulated(Usage[x.turn], m), D) = c[D]
    BY DEF MapThenSumSet, MapThenFoldSet, Pick
  <1>2. g \in [D -> Nat]
    BY CellFacts
  <1>3. \A T \in SUBSET D : T # {} => Accumulated(Usage[Pick(T).turn], m) = g[Pick(T)]
    BY PickFacts, CellFacts
  <1>4. ASSUME NEW it
        PROVE  it = [T \in SUBSET D |-> IF T = {} THEN 0 ELSE Accumulated(Usage[Pick(T).turn], m) + it[T \ {Pick(T)}]]
                 <=> IsFold(g, D, it)
    <2> HIDE DEF g
    <2> QED BY <1>3 DEF IsFold
  <1>5. IsFold(g, D, c)
    <2>1. \E it : IsFold(g, D, it)
      <3> HIDE DEF g
      <3> QED BY <1>2, FoldExists
    <2> HIDE DEF g
    <2> QED BY <1>4, <2>1
  <1> HIDE DEF g, c
  <1> QED BY <1>1, <1>2, <1>5, FoldIsOver DEF g

LEMMA LedgerRow ==
  ASSUME NEW D, IsFiniteSet(D), \A x \in D : x.turn \in Turns, NEW m
  PROVE  LET row(x) == LET e == Filled(Usage[x.turn])
                       IN  Share(e.models, m) + IF m = Unknown THEN e.residual ELSE 0
         IN  MapThenSumSet(row, D) = Over([x \in D |-> Cell(x.turn, m)], D)
  <1> DEFINE g == [x \in D |-> Cell(x.turn, m)]
             row(x) == LET e == Filled(Usage[x.turn])
                       IN  Share(e.models, m) + IF m = Unknown THEN e.residual ELSE 0
             c == CHOOSE it : it = [T \in SUBSET D |->
                     IF T = {} THEN 0 ELSE RowOf(Pick(T).turn, m) + it[T \ {Pick(T)}]]
  <1>1. MapThenSumSet(row, D) = c[D]
    BY DEF MapThenSumSet, MapThenFoldSet, Pick, RowOf
  <1>2. g \in [D -> Nat]
    BY CellFacts
  <1>3. \A T \in SUBSET D : T # {} => RowOf(Pick(T).turn, m) = g[Pick(T)]
    BY PickFacts, CellFacts
  <1>4. ASSUME NEW it
        PROVE  it = [T \in SUBSET D |-> IF T = {} THEN 0 ELSE RowOf(Pick(T).turn, m) + it[T \ {Pick(T)}]]
                 <=> IsFold(g, D, it)
    <2> HIDE DEF g
    <2> QED BY <1>3 DEF IsFold
  <1>5. IsFold(g, D, c)
    <2>1. \E it : IsFold(g, D, it)
      <3> HIDE DEF g
      <3> QED BY <1>2, FoldExists
    <2> HIDE DEF g
    <2> QED BY <1>4, <2>1
  <1>6. c[D] = Over(g, D)
    <2> HIDE DEF g, c
    <2> QED BY <1>2, <1>5, FoldIsOver
  <1> QED BY <1>1, <1>6

\* The sum over all rows, and that over all turns.
LEMMA RowSum ==
  ASSUME \A m \in Rows : ByModel(m) \in Nat
  PROVE  MapThenSumSet(ByModel, Rows) = Over([m \in Rows |-> ByModel(m)], Rows)
  <1> DEFINE g == [m \in Rows |-> ByModel(m)]
             c == CHOOSE it : it = [T \in SUBSET Rows |->
                     IF T = {} THEN 0 ELSE ByModel(Pick(T)) + it[T \ {Pick(T)}]]
  <1>1. MapThenSumSet(ByModel, Rows) = c[Rows]
    BY DEF MapThenSumSet, MapThenFoldSet, Pick
  <1>2. g \in [Rows -> Nat]
    OBVIOUS
  <1>3. \A T \in SUBSET Rows : T # {} => ByModel(Pick(T)) = g[Pick(T)]
    BY PickFacts
  <1>4. ASSUME NEW it
        PROVE  it = [T \in SUBSET Rows |-> IF T = {} THEN 0 ELSE ByModel(Pick(T)) + it[T \ {Pick(T)}]]
                 <=> IsFold(g, Rows, it)
    <2> HIDE DEF g
    <2> QED BY <1>3 DEF IsFold
  <1>5. IsFold(g, Rows, c)
    <2>1. \E it : IsFold(g, Rows, it)
      <3> HIDE DEF g
      <3> QED BY <1>2, RowsFinite, FoldExists
    <2> HIDE DEF g
    <2> QED BY <1>4, <2>1
  <1>6. c[Rows] = Over(g, Rows)
    <2> HIDE DEF g, c
    <2> QED BY <1>2, <1>5, RowsFinite, FoldIsOver
  <1> QED BY <1>1, <1>6

LEMMA TurnSum ==
  ASSUME \A e \in Turns : Report[e] \in Nat
  PROVE  MapThenSumSet(LAMBDA e : Report[e] * Usage[e].tokens, Turns)
           = Over([e \in Turns |-> Report[e] * Usage[e].tokens], Turns)
  <1> DEFINE g == [e \in Turns |-> Report[e] * Usage[e].tokens]
             c == CHOOSE it : it = [T \in SUBSET Turns |->
                     IF T = {} THEN 0 ELSE Report[Pick(T)] * Usage[Pick(T)].tokens + it[T \ {Pick(T)}]]
  <1>1. MapThenSumSet(LAMBDA e : Report[e] * Usage[e].tokens, Turns) = c[Turns]
    BY DEF MapThenSumSet, MapThenFoldSet, Pick
  <1>2. g \in [Turns -> Nat]
    <2>1. \A e \in Turns : Usage[e].tokens \in Nat
      BY CellFacts
    <2>2. \A e \in Turns : Report[e] * Usage[e].tokens \in Nat
      BY <2>1
    <2> QED BY <2>2
  <1>3. \A T \in SUBSET Turns : T # {} => Report[Pick(T)] * Usage[Pick(T)].tokens = g[Pick(T)]
    BY PickFacts
  <1>4. ASSUME NEW it
        PROVE  it = [T \in SUBSET Turns |->
                       IF T = {} THEN 0 ELSE Report[Pick(T)] * Usage[Pick(T)].tokens + it[T \ {Pick(T)}]]
                 <=> IsFold(g, Turns, it)
    <2> HIDE DEF g
    <2> QED BY <1>3 DEF IsFold
  <1>5. IsFold(g, Turns, c)
    <2>1. \E it : IsFold(g, Turns, it)
      <3> HIDE DEF g
      <3> QED BY <1>2, RowsFinite, FoldExists
    <2> HIDE DEF g
    <2> QED BY <1>4, <2>1
  <1>6. c[Turns] = Over(g, Turns)
    <2> HIDE DEF g, c
    <2> QED BY <1>2, <1>5, RowsFinite, FoldIsOver
  <1> QED BY <1>1, <1>6

LEMMA EntriesFinite == IsFiniteSet(Entries)
  <1> DEFINE P == (Files \X ((-MaxTurns)..MaxTurns)) \X (Files \X Turns)
             f == [p \in P |-> [key |-> p[1], file |-> p[2][1], turn |-> p[2][2]]]
  <1>1. IsFiniteSet(Files) /\ IsFiniteSet((-MaxTurns)..MaxTurns) /\ IsFiniteSet(Turns)
    <2>1. -MaxTurns \in Int /\ MaxTurns \in Int
      BY LedgerAssumption
    <2> QED BY <2>1, LedgerAssumption, RowsFinite, FS_Interval
  <1>2. IsFiniteSet(P)
    <2>1. IsFiniteSet(Files \X ((-MaxTurns)..MaxTurns)) /\ IsFiniteSet(Files \X Turns)
      BY <1>1, FS_Product
    <2> QED BY <2>1, FS_Product
  <1>3. ASSUME NEW x \in Entries PROVE \E p \in P : f[p] = x
    <2>1. <<x.key, <<x.file, x.turn>>>> \in P
      BY DEF Entries
    <2>2. f[<<x.key, <<x.file, x.turn>>>>] = x
      BY <2>1 DEF Entries
    <2> QED BY <2>1, <2>2
  <1>4. IsFiniteSet({f[p] : p \in P})
    <2> HIDE DEF P
    <2>1. f \in [P -> {f[p] : p \in P}]
      OBVIOUS
    <2> HIDE DEF f
    <2>2. DOMAIN f = P
      BY <2>1
    <2> DEFINE I == {f[p] : p \in P}
    <2>3. f \in Surjection(P, I)
      <3>1. \A y \in I : \E p \in P : f[p] = y
        OBVIOUS
      <3> HIDE DEF I
      <3> QED BY <2>1, <3>1 DEF Surjection, I
    <2> HIDE DEF I
    <2>4. IsFiniteSet(I)
      BY <1>2, <2>3, FS_Surjection
    <2> QED BY <2>4 DEF I
  <1>5. Entries \subseteq {f[p] : p \in P}
    <2> HIDE DEF P, f
    <2> QED BY <1>3
  <1> QED BY <1>4, <1>5, FS_Subset

\* Whatever the report found, its rows are sums.
LEMMA RowsSum ==
  ASSUME query.direct \subseteq Entries, entries \subseteq Entries
  PROVE  RowsAddUp
  <1> SUFFICES ASSUME \A e \in Turns : Sum(Usage[e].by) <= Usage[e].tokens
               PROVE  MapThenSumSet(ByModel, Rows)
                        = MapThenSumSet(LAMBDA e : Report[e] * Usage[e].tokens, Turns)
    BY DEF RowsAddUp, Rows
  <1> DEFINE D == query.direct
             L == FromLedger(query.direct)
             w(e) == Usage[e].tokens
             DRow == [m \in Rows |-> Over([x \in D |-> Cell(x.turn, m)], D)]
             LRow == [m \in Rows |-> Over([x \in L |-> Cell(x.turn, m)], L)]
             All == [m \in Rows |-> ByModel(m)]
             DTurn == [e \in Turns |-> Cardinality({x \in D : x.turn = e}) * Usage[e].tokens]
             LTurn == [e \in Turns |-> Cardinality({x \in L : x.turn = e}) * Usage[e].tokens]
             Each == [e \in Turns |-> Report[e] * Usage[e].tokens]
  <1>1. /\ IsFiniteSet(D) /\ \A x \in D : x.turn \in Turns
        /\ IsFiniteSet(L) /\ \A x \in L : x.turn \in Turns
    <2>1. D \in SUBSET Entries /\ L \in SUBSET Entries
      BY DEF FromLedger
    <2> QED BY <2>1, EntriesFinite, FS_Subset DEF Entries
  <1>2. ASSUME NEW m PROVE ByModel(m) = Over([x \in D |-> Cell(x.turn, m)], D) + Over([x \in L |-> Cell(x.turn, m)], L)
    <2>1. MapThenSumSet(LAMBDA x : Accumulated(Usage[x.turn], m), D) = Over([x \in D |-> Cell(x.turn, m)], D)
      BY <1>1, ScannedRow
    <2>2. LET row(x) == LET e == Filled(Usage[x.turn])
                        IN  Share(e.models, m) + IF m = Unknown THEN e.residual ELSE 0
          IN  MapThenSumSet(row, L) = Over([x \in L |-> Cell(x.turn, m)], L)
      BY <1>1, LedgerRow
    <2> QED BY <2>1, <2>2 DEF ByModel
  <1>3. ASSUME NEW S, IsFiniteSet(S), \A x \in S : x.turn \in Turns, NEW m
        PROVE  Over([x \in S |-> Cell(x.turn, m)], S) \in Nat
    <2>1. [x \in S |-> Cell(x.turn, m)] \in [S -> Nat] /\ S \in SUBSET S
      BY <1>3, CellFacts
    <2> QED BY <1>3, <2>1, OverEmpty
  <1>4. /\ DRow \in [Rows -> Nat] /\ LRow \in [Rows -> Nat] /\ All \in [Rows -> Nat]
        /\ \A m \in Rows : All[m] = DRow[m] + LRow[m] /\ ByModel(m) \in Nat
    <2>1. \A m : Over([x \in D |-> Cell(x.turn, m)], D) \in Nat /\ Over([x \in L |-> Cell(x.turn, m)], L) \in Nat
      BY <1>1, <1>3
    <2>2. ASSUME NEW m PROVE ByModel(m) \in Nat
      <3> DEFINE d == Over([x \in D |-> Cell(x.turn, m)], D)
                 l == Over([x \in L |-> Cell(x.turn, m)], L)
      <3>1. d \in Nat /\ l \in Nat
        BY <2>1
      <3>2. ByModel(m) = d + l
        BY <1>2
      <3> HIDE DEF d, l
      <3> QED BY <3>1, <3>2
    <2> HIDE DEF D, L
    <2> QED BY <1>2, <2>1, <2>2
  <1>5. MapThenSumSet(ByModel, Rows) = Over(DRow, Rows) + Over(LRow, Rows)
    <2>1. MapThenSumSet(ByModel, Rows) = Over(All, Rows)
      BY <1>4, RowSum
    <2>2. Over(All, Rows) = Over(DRow, Rows) + Over(LRow, Rows)
      <3> HIDE DEF All, DRow, LRow
      <3> QED BY <1>4, RowsFinite, OverAdd
    <2> QED BY <2>1, <2>2
  <1>6. Over(DRow, Rows) = Over(DTurn, Turns) /\ Over(LRow, Rows) = Over(LTurn, Turns)
    <2> HIDE DEF D, L
    <2> QED BY <1>1, RowsOfEntries
  <1>7. ASSUME NEW e \in Turns
        PROVE  /\ Cardinality({x \in D : x.turn = e}) \in Nat /\ Cardinality({x \in L : x.turn = e}) \in Nat
               /\ Report[e] = Cardinality({x \in D : x.turn = e}) + Cardinality({x \in L : x.turn = e})
               /\ Usage[e].tokens \in Nat
    <2>1. {x \in D : x.turn = e} \in SUBSET D /\ {x \in L : x.turn = e} \in SUBSET L
      OBVIOUS
    <2> HIDE DEF D, L
    <2>2. IsFiniteSet({x \in D : x.turn = e}) /\ IsFiniteSet({x \in L : x.turn = e})
      BY <1>1, <2>1, FS_Subset
    <2> QED BY <2>2, FS_CardinalityType, CellFacts DEF Report, D, L
  <1>8. /\ DTurn \in [Turns -> Nat] /\ LTurn \in [Turns -> Nat] /\ Each \in [Turns -> Nat]
        /\ \A e \in Turns : Each[e] = DTurn[e] + LTurn[e]
    <2>1. \A a, b, n \in Nat : a * n \in Nat /\ b * n \in Nat /\ (a + b) * n = a * n + b * n /\ (a + b) * n \in Nat
      OBVIOUS
    <2>2. ASSUME NEW e \in Turns
          PROVE  /\ DTurn[e] \in Nat /\ LTurn[e] \in Nat /\ Each[e] \in Nat
                 /\ Each[e] = DTurn[e] + LTurn[e]
      <3> DEFINE a == Cardinality({x \in D : x.turn = e})
                 b == Cardinality({x \in L : x.turn = e})
                 n == Usage[e].tokens
      <3>1. a \in Nat /\ b \in Nat /\ n \in Nat /\ Report[e] = a + b
        BY <1>7
      <3>2. DTurn[e] = a * n /\ LTurn[e] = b * n /\ Each[e] = Report[e] * n
        OBVIOUS
      <3> HIDE DEF a, b, n, DTurn, LTurn, Each
      <3> QED BY <2>1, <3>1, <3>2
    <2>3. /\ DTurn = [e \in Turns |-> DTurn[e]] /\ LTurn = [e \in Turns |-> LTurn[e]]
          /\ Each = [e \in Turns |-> Each[e]]
      OBVIOUS
    <2> HIDE DEF DTurn, LTurn, Each
    <2> QED BY <2>2, <2>3
  <1>9. MapThenSumSet(LAMBDA e : Report[e] * Usage[e].tokens, Turns) = Over(DTurn, Turns) + Over(LTurn, Turns)
    <2>1. MapThenSumSet(LAMBDA e : Report[e] * Usage[e].tokens, Turns) = Over(Each, Turns)
      <3>1. ASSUME NEW e \in Turns PROVE Report[e] \in Nat
        <4> DEFINE a == Cardinality({x \in D : x.turn = e})
                   b == Cardinality({x \in L : x.turn = e})
        <4>1. a \in Nat /\ b \in Nat /\ Report[e] = a + b
          BY <1>7
        <4> HIDE DEF a, b
        <4> QED BY <4>1
      <3> QED BY <3>1, TurnSum
    <2>2. Over(Each, Turns) = Over(DTurn, Turns) + Over(LTurn, Turns)
      <3> HIDE DEF Each, DTurn, LTurn
      <3> QED BY <1>8, RowsFinite, OverAdd
    <2> QED BY <2>1, <2>2
  <1> HIDE DEF D, L, DRow, LRow, DTurn, LTurn
  <1> QED BY <1>5, <1>6, <1>9, Zenon

-----------------------------------------------------------------------------
(* What a report promises *)

\* The rows of a report add up to the tokens of the turns it counts, whatever turns
\* it found and by whichever of its two ways, with or without a prompt_id.
THEOREM RowsAlwaysAddUp == Spec => [](query.at = "scanned" => RowsAddUp)
  <1>1. IInv => RowsAddUp
    <2>1. IInv => query.direct \subseteq Entries /\ entries \subseteq Entries
      BY DEF IInv, TypeInv, LedgerType, QueryType, Query0
    <2> QED BY <2>1, RowsSum
  <1>2. IInv => (query.at = "scanned" => RowsAddUp)
    BY <1>1
  <1> QED BY <1>2, InvariantHolds, PTL

\* What tells of a turn with a prompt_id is its one entry.
LEMMA OneEntryOfATurn ==
  ASSUME IInv, NEW e \in Named, NEW x \in Told, NEW y \in Told, x.turn = e, y.turn = e
  PROVE  x = EntryOf(x.file, e) /\ y = x
  <1>1. Told \subseteq Entries
    BY DEF Told, IInv, TypeInv, LedgerType, SyncType, QueryType, Job, Query0
  <1>2. Filed(x) /\ Filed(y) /\ x.file \in Files /\ y.file \in Files /\ e \in Turns
    BY <1>1, IdleFacts DEF IInv, TurnInv, Entries
  <1>3. x = EntryOf(x.file, e) /\ y = EntryOf(y.file, e)
    BY <1>1, <1>2, OneKey
  <1>4. TellsOf(x.file, e) /\ TellsOf(y.file, e)
    BY DEF TellsOf
  <1>5. x.file = y.file
    BY <1>2, <1>4 DEF IInv, TurnInv
  <1> QED BY <1>3, <1>5

\* With a prompt_id on every turn, no report counts a turn twice, none that was there
\* all along is missed, be it only in a ledger file that was or will be read, except for
\* a cursor of a ledger file lost or written over unread, and the rows add up.
THEOREM CountedOnceWhenNamed ==
  ASSUME Turns \subseteq Named
  PROVE  Spec => []CountedOnce
  <1>1. ASSUME IInv, query.at = "scanned", NEW e \in Turns
        PROVE  /\ Report[e] <= 1
               /\ e \in query.owed \cap Known => Report[e] = 1 \/ \E f \in believed : e \in Range(lines[f])
    <2> DEFINE A == {x \in query.direct : x.turn = e}
               B == {x \in FromLedger(query.direct) : x.turn = e}
    <2>1. Report[e] = Cardinality(A) + Cardinality(B)
      BY DEF Report
    <2>2. A \subseteq Told /\ B \subseteq Told /\ B \subseteq entries /\ e \in Named
      BY DEF Told, FromLedger
    <2>3. \A x, y \in A \cup B : x = y
      BY <1>1, <2>2, OneEntryOfATurn
    <2>4. A = {} \/ B = {}
      BY <2>3 DEF FromLedger
    <2>5. \/ A = {} /\ B = {}
          \/ A = {} /\ \E x \in B : B = {x}
          \/ B = {} /\ \E x \in A : A = {x}
      BY <2>3, <2>4
    <2> HIDE DEF A, B
    <2>6. /\ Cardinality({}) = 0
          /\ \A S : (\E x \in S : S = {x}) => Cardinality(S) = 1
      BY FS_EmptySet, FS_Singleton
    <2>7. Report[e] <= 1 /\ (A \cup B # {} => Report[e] = 1)
      BY <2>1, <2>5, <2>6
    <2>8. ASSUME NEW x \in entries, x.turn = e PROVE A \cup B # {}
      <3>1. CASE \E y \in query.direct : y.key = x.key
        <4>1. PICK y \in query.direct : y.key = x.key
          BY <3>1
        <4>2. /\ x \in Entries /\ y \in Entries /\ Filed(x) /\ Filed(y)
          BY <1>1 DEF IInv, TypeInv, LedgerType, QueryType, Query0, TurnInv, Told
        <4>3. y = x
          BY <2>2, <2>8, <4>1, <4>2, OneKey
        <4> QED BY <2>8, <4>3 DEF A
      <3>2. CASE ~\E y \in query.direct : y.key = x.key
        BY <2>8, <3>2 DEF B, FromLedger
      <3> QED BY <3>1, <3>2
    <2>9. ASSUME NEW f \in Present, e \in Range(lines[f]), e \in query.owed
          PROVE  A \cup B # {} \/ f \in believed
      <3>1. Found(f, e) /\ f \in Files
        BY <1>1, <2>2, <2>9 DEF IInv, QueryInv, Present
      <3>2. EntryOf(f, e).turn = e
        BY <2>2, <3>1, EntryOfFacts
      <3>3. CASE EntryOf(f, e) \in entries
        BY <2>8, <3>2, <3>3
      <3>4. CASE EntryOf(f, e) \in query.direct
        BY <3>2, <3>4 DEF A
      <3>5. CASE Skipped(f, e)
        BY <3>5 DEF Skipped
      <3> QED BY <1>1, <3>1, <3>3, <3>4, <3>5 DEF Found
    <2>10. ASSUME e \in query.owed \cap Known
           PROVE  Report[e] = 1 \/ \E f \in believed : e \in Range(lines[f])
      <3>1. ASSUME ~forgot, NEW p \in saved, e = p[2] PROVE A \cup B # {}
        <4>1. p[1] \in Files /\ p = <<p[1], e>>
          BY <1>1, <3>1 DEF IInv, TypeInv, LedgerType
        <4>2. loaded /\ haveFile
          BY <1>1, <3>1 DEF IInv, QueryInv, LoadInv
        <4>3. EntryOf(p[1], e) \in entries
          BY <1>1, <2>2, <3>1, <4>1, <4>2 DEF IInv, LoadInv
        <4> QED BY <2>2, <2>8, <4>1, <4>3, EntryOfFacts
      <3> QED BY <2>7, <2>8, <2>9, <2>10, <3>1 DEF Known, TurnsOf
    <2> QED BY <2>7, <2>10
  <1>2. IInv => (query.at = "scanned" => EachOnce)
    BY <1>1 DEF EachOnce
  <1>3. (query.at = "scanned" => EachOnce) /\ (query.at = "scanned" => RowsAddUp) => CountedOnce
    BY DEF CountedOnce
  <1> QED BY <1>2, <1>3, InvariantHolds, RowsAlwaysAddUp, PTL

=============================================================================
