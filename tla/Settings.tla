------------------------------ MODULE Settings ------------------------------
(***************************************************************************)
(* The settings of a session: its mode, model and effort, the permission   *)
(* mode of the process, and the models of config.toml                      *)
(* (src/internal/acp/bridge.go, models_config.go; server/http_models.go).  *)
(*                                                                         *)
(* The agent holds the truth; the host keeps a copy for browsers that      *)
(* connect later and broadcasts each change to those there are.  A call    *)
(* asks the agent, and once answered stores the change under b.mu and      *)
(* broadcasts it after; the reader of the agent's pipe does the same with  *)
(* what the agent changes by itself, and nothing orders the two.           *)
(*                                                                         *)
(* One session.  An effort has one spelling.  config.toml has its default  *)
(* model, the custom ones and the disabled ones.  The agent is external:   *)
(* it announces each change of mode, but neither the model and permissions *)
(* it was asked for nor a toggle; it keeps an effort the new model offers, *)
(* and refuses a request it cannot serve whole.                            *)
(***************************************************************************)
EXTENDS Integers, Sequences, FiniteSets

CONSTANTS
  Calls,             \* the calls of browsers, each made once
  Models, Builtin,   \* the models, and those no config.toml has to name
  Offers,            \* the efforts of each model
  MaxMoves           \* changes the agent makes by itself, answers too late, restarts

Reader == "reader"
Host   == "host"
None   == "none"
Unset  == "unset"
Efforts == UNION {Offers[m] : m \in Models}

ASSUME SettingsAssumption ==
  /\ Builtin \subseteq Models /\ Builtin # {}
  /\ \A m \in Models : Offers[m] # {}
  /\ MaxMoves \in Nat
  /\ {None, Unset} \cap (Models \cup Efforts) = {}   \* what stands for no value is none
  /\ {Reader, Host} \cap Calls = {}

VARIABLES
  ag,        \* the session at the agent, and the permission mode of its process
  cat,       \* the models it offers, and the one it would start with
  modern,    \* it knows session/set_config_option
  req, tx,   \* requests on their way to it, answers and notifications back
  row,       \* the host's copy of ag, or NoRow
  permMode,  \* its copy of the permission mode
  pc, call,  \* the calls: where they are, what they ask for
  warned,    \* calls whose effort was refused, or got no answer
  adopted,   \* what of each call the agent took
  note,      \* what a call or the reader has stored and not broadcast yet
  told,      \* the settings as broadcast
  seen,      \* what a browser that connects shows
  missed,    \* settings broadcast to nobody between its two steps
  cfg, table,  \* config.toml, and what a call has read of it
  promoted,  \* a campaign stands in for the default model, and was not dismissed
  excused,   \* what two of them changed at once, see Apart
  moves

external == <<ag, cat, modern, adopted>>
pipes    == <<req, tx>>
screens  == <<told, seen, missed>>
copies   == <<row, permMode, note, screens>>
threads  == <<pc, call, warned, table>>
files    == <<cfg, promoted>>
vars     == <<external, pipes, copies, threads, files, excused, moves>>

NoRow  == [mode |-> None, model |-> None, effort |-> None]
Fields == {"mode", "model", "effort", "perm"}
Nothing == [f \in Fields |-> None]

Modes == {"default", "plan"}
Perms == {"ask", "auto"}
Merge(r, p) == [f \in DOMAIN r |-> IF p[f] = None THEN r[f] ELSE p[f]]

\* What a call may ask for: one setting, a default model, an edit of config.toml, or the
\* stream of events.
Wish == [op |-> None, mode |-> None, perm |-> None, model |-> None, effort |-> None]
SetTo(f, v)     == [Wish EXCEPT !.op = f, ![f] = v]
AskFor(o, m, e) == [Wish EXCEPT !.op = o, !.model = m, !.effort = e]
Wishes ==
  {SetTo("mode", m) : m \in Modes} \cup {SetTo("perm", p) : p \in Perms}
  \cup {SetTo("effort", e) : e \in Efforts} \cup {AskFor(o, None, None) : o \in {"toggle", "hello"}}
  \cup {AskFor(o, m, e) : o \in {"model", "default"}, m \in Models, e \in Efforts \cup {None}}
  \cup {AskFor(o, m, None) : o \in {"upsert", "delete", "disable", "enable"}, m \in Models \ Builtin}

Waiting == {"mode", "option", "effort", "old", "reload"}   \* for an answer
Decided == {"ok", "warning", "error"}
Places  == {"idle", "write", "flip", "tell", "tell option", "fall back", "dismiss",
            "file", "save", "hello", "on"} \cup Waiting \cup Decided
             \cup {"took mode", "took option", "took effort", "took old"}

SettingsTypeOK ==
  /\ ag \in [mode : Modes, model : cat.models, effort : Offers[ag.model], perm : Perms]
  /\ cat.models \subseteq Models /\ cat.current \in cat.models
  /\ row \in [mode : Modes, model : Models, effort : Efforts \cup {Unset}] \cup {NoRow}
  /\ permMode \in Perms /\ modern \in BOOLEAN
  /\ told.mode \in Modes /\ told.model \in Models /\ told.effort \in Efforts \cup {Unset}
  /\ pc \in [Calls -> Places] /\ call \in [Calls -> Wishes \cup {Wish}]
  /\ \A c \in Calls : pc[c] # "idle" <=> call[c] # Wish
  /\ cfg.default \in Models \cup {None} /\ cfg.custom \subseteq Models \ Builtin
  /\ \A c \in Calls : seen[c] # Nothing => call[c].op = "hello"
  /\ missed \subseteq Fields
  /\ excused \subseteq Fields \cup {"perm told"} /\ moves \in 0..MaxMoves

(***************************************************************************)
(* The catalog config.toml gives the agent, and what becomes of a session  *)
(* whose model leaves it.                                                  *)
(***************************************************************************)
First == CHOOSE m \in Builtin : TRUE
DefaultEffort(m) == CHOOSE e \in Offers[m] : TRUE
Catalog(f, campaign) ==
  LET offered == (Builtin \cup f.custom) \ f.disabled
  IN [models |-> offered,
      current |-> IF f.default \in offered /\ ~campaign THEN f.default ELSE First]

Switched(a, m) == [a EXCEPT !.model = m,
                            !.effort = IF @ \in Offers[m] THEN @ ELSE DefaultEffort(m)]
Revalidated(a, k) == IF a.model \in k.models THEN a ELSE Switched(a, k.current)

Loaded == row # NoRow
New == [mode |-> "default", model |-> First, effort |-> DefaultEffort(First), perm |-> "ask"]

Init ==
  /\ cfg = [default |-> None, custom |-> Models \ Builtin, disabled |-> {}]
  /\ promoted \in BOOLEAN
  /\ cat = Catalog(cfg, promoted)
  /\ ag = New
  /\ row = [mode |-> ag.mode, model |-> ag.model, effort |-> ag.effort]
  /\ permMode = "ask" /\ told = ag
  /\ modern \in BOOLEAN
  /\ req = <<>> /\ tx = <<>>
  /\ pc = [c \in Calls |-> "idle"] /\ call = [c \in Calls |-> Wish]
  /\ warned = {} /\ adopted = [c \in Calls |-> {}]
  /\ note = [x \in Calls \cup {Reader} |-> Nothing]
  /\ table = [c \in Calls |-> Nothing]
  /\ seen = [c \in Calls |-> Nothing] /\ missed = {}
  /\ excused = {} /\ moves = 0

(***************************************************************************)
(* Which changes overlap.  One is open from when the agent makes it, or    *)
(* the host writes it without waiting, until it has been broadcast; a      *)
(* change made while another of the same setting is open may be stored or  *)
(* broadcast before it.  Every property about a setting excuses that.      *)
(***************************************************************************)
Touches(c) ==
  CASE call[c].op \in {"mode", "toggle"}             -> {"mode"}
    [] call[c].op = "perm"                           -> {"perm", "perm told"}
    [] call[c].op \in {"model", "default", "effort"} -> {"model", "effort"}
    [] OTHER                                         -> {}
Open(c) ==
  \/ pc[c] \in {"took mode", "took option", "took effort", "took old", "write", "flip", "tell", "tell option"}
  \/ \E i \in DOMAIN tx : tx[i].kind = "answer" /\ tx[i].by = c
  \/ \E i \in DOMAIN req : req[i].by = c /\ req[i].ask \in {"toggle", "perm"}
OpenByAgent ==
  {f \in Fields : \/ note[Reader][f] # None
                  \/ \E i \in DOMAIN tx : tx[i].by = Host /\ tx[i].new[f] # None
                  \/ \E i \in DOMAIN tx : tx[i].kind = "catalog" /\ f \in {"model", "effort"}}

OpenAmong(cs) == OpenByAgent \cup UNION {Touches(c) : c \in {c \in cs : Open(c)}}

\* The settings among fs that something else than c is changing.
Apart(fs, c) == fs \cap OpenAmong(Calls \ {c})

(***************************************************************************)
(* The agent.                                                              *)
(***************************************************************************)
Message == [kind |-> "news", by |-> Host, ask |-> None, ok |-> TRUE, new |-> Nothing, k |-> None]
News(by, new) == [Message EXCEPT !.by = by, !.new = new]
CatalogNews(k) == [Message EXCEPT !.kind = "catalog", !.k = k]
Answer(r, yes) == [Message EXCEPT !.kind = "answer", !.by = r.by, !.ask = r.ask, !.ok = yes]

\* What the agent does with a request: its session and catalog after, the parts of the call
\* it adopted, and what it announces before it answers.
Done(yes, a, parts, news) == [yes |-> yes, ag |-> a, parts |-> parts, news |-> news, cat |-> cat]
Refused == Done(FALSE, ag, {}, <<>>)
Served(r) ==
  LET w == call[r.by] IN
  CASE r.ask = "mode" /\ Loaded ->
         Done(TRUE, [ag EXCEPT !.mode = w.mode], {},
              <<News(r.by, [Nothing EXCEPT !.mode = w.mode])>>)
    [] r.ask = "option" /\ Loaded /\ modern /\ w.model \in cat.models ->
         Done(TRUE, Switched(ag, w.model), {"model"}, <<>>)
    [] r.ask = "effort" /\ Loaded /\ modern /\ w.effort \in Offers[ag.model] ->
         Done(TRUE, [ag EXCEPT !.effort = w.effort], {"effort"}, <<>>)
    [] r.ask = "old" /\ Loaded /\ w.model \in cat.models /\ w.effort = None ->
         Done(TRUE, Switched(ag, w.model), {"model"}, <<>>)
    [] r.ask = "old" /\ Loaded /\ w.model \in cat.models /\ w.effort \in Offers[w.model] ->
         Done(TRUE, [ag EXCEPT !.model = w.model, !.effort = w.effort], {"model", "effort"}, <<>>)
    [] r.ask = "toggle" /\ Loaded ->
         Done(TRUE, [ag EXCEPT !.mode = IF @ = "plan" THEN "default" ELSE "plan"], {}, <<>>)
    [] r.ask = "perm" ->
         Done(TRUE, [ag EXCEPT !.perm = w.perm], {}, <<>>)
    [] r.ask = "reload" ->
         [Done(TRUE, Revalidated(ag, Catalog(cfg, promoted)), {}, <<CatalogNews(Catalog(cfg, promoted))>>)
            EXCEPT !.cat = Catalog(cfg, promoted)]
    [] OTHER -> Refused

AgentServes ==
  /\ req # <<>> /\ req' = Tail(req)
  /\ LET r == Head(req)
         s == Served(r)
         fs == IF r.ask = "reload" THEN {"model", "effort"} ELSE Touches(r.by)
     IN /\ ag' = s.ag /\ cat' = s.cat
        /\ adopted' = [adopted EXCEPT ![r.by] = @ \cup s.parts]
        /\ tx' = tx \o s.news \o (IF r.ask \in Waiting THEN <<Answer(r, s.yes)>> ELSE <<>>)
        /\ excused' = excused \cup (IF s.yes THEN Apart(fs, r.by) ELSE {})
                        \cup {f \in {"effort"} : s.ag.effort # ag.effort /\ r.ask \in {"option", "old"}
                                                   /\ f \notin s.parts}   \* it lapsed, unasked
  /\ UNCHANGED <<modern, copies, threads, files, moves>>

\* The agent changes something by itself, and says so.
AgentMoves ==
  /\ Loaded /\ moves < MaxMoves /\ moves' = moves + 1
  /\ \E new \in {[Nothing EXCEPT !.mode = m] : m \in Modes \ {ag.mode}}
             \cup {[Nothing EXCEPT !.perm = p] : p \in Perms \ {ag.perm}}
             \cup {[Nothing EXCEPT !.model = m, !.effort = Switched(ag, m).effort] :
                     m \in cat.models \ {ag.model}} :
       /\ ag' = Merge(ag, new)
       /\ tx' = Append(tx, News(Host, new))
       /\ excused' = excused \cup Apart({f \in Fields : new[f] # None}, Host)
  /\ UNCHANGED <<cat, modern, adopted, req, copies, threads, files>>

(***************************************************************************)
(* Browsers.  One that connects gets a snapshot, and only then subscribes. *)
(***************************************************************************)
Snapshot == [f \in Fields |-> IF f = "perm" THEN permMode ELSE row[f]]

Broadcast(p) ==
  /\ told' = Merge(told, p)
  /\ seen' = [c \in Calls |-> IF pc[c] = "on" THEN Merge(seen[c], p) ELSE seen[c]]
  /\ missed' = missed \cup {f \in Fields : p[f] # None /\ \E c \in Calls : pc[c] = "hello" /\ seen[c][f] # p[f]}

Subscribes(c) ==
  /\ pc[c] = "hello" /\ pc' = [pc EXCEPT ![c] = "on"]
  /\ UNCHANGED <<external, pipes, copies, call, warned, table, files, excused, moves>>

(***************************************************************************)
(* The calls.                                                              *)
(***************************************************************************)
Request(c, step) == [by |-> c, ask |-> step]
Asks(c, step) ==
  /\ req' = Append(req, Request(c, step))
  /\ pc' = [pc EXCEPT ![c] = IF step \in Waiting THEN step ELSE "flip"]

\* Where a call goes once its settings are done with.
After(c, w) == IF call[c].op = "default" THEN "file" ELSE IF w THEN "warning" ELSE "ok"

Calling(c) ==
  /\ pc[c] = "idle"
  /\ \E w \in Wishes :
       /\ call' = [call EXCEPT ![c] = w]
       /\ seen' = IF w.op = "hello" THEN [seen EXCEPT ![c] = Snapshot] ELSE seen
       /\ \/ w.op \in {"mode", "effort"} /\ Asks(c, w.op) /\ UNCHANGED <<permMode, excused>>
          \/ /\ w.op = "toggle" /\ Asks(c, w.op) /\ UNCHANGED permMode
             /\ excused' = excused \cup Apart({"mode"}, c)
          \/ w.op = "model" /\ Asks(c, "option") /\ UNCHANGED <<permMode, excused>>
          \/ /\ w.op \in {"upsert", "delete", "disable", "enable", "default"}
             /\ pc' = [pc EXCEPT ![c] = IF w.op = "default" THEN "dismiss" ELSE "file"]
             /\ UNCHANGED <<req, permMode, excused>>
          \/ /\ w.op = "hello" /\ pc' = [pc EXCEPT ![c] = "hello"]
             /\ UNCHANGED <<req, permMode, excused>>
          \/ /\ w.op = "perm" /\ permMode' = w.perm
             /\ pc' = [pc EXCEPT ![c] = "write"]
             /\ excused' = excused \cup Apart({"perm", "perm told"}, c)
             /\ UNCHANGED req
  /\ UNCHANGED <<external, tx, row, note, told, missed, warned, table, files, moves>>

\* A default model: campaigns that would stand in for it are dismissed if that can be done,
\* then the session is switched, if the call names one.
Dismisses(c) ==
  /\ pc[c] = "dismiss"
  /\ promoted' \in {promoted, FALSE}
  /\ \/ Asks(c, "option")
     \/ pc' = [pc EXCEPT ![c] = "file"] /\ UNCHANGED req
  /\ UNCHANGED <<external, tx, copies, call, warned, table, cfg, excused, moves>>

WritesPerm(c) ==
  /\ pc[c] = "write" /\ pc' = [pc EXCEPT ![c] = "tell"]
  /\ req' = Append(req, Request(c, "perm"))
  /\ note' = [note EXCEPT ![c].perm = call[c].perm]
  /\ UNCHANGED <<external, tx, row, permMode, screens, call, warned, table, files, excused, moves>>

\* Toggled: nobody answers, the host turns its own copy.
Flips(c) ==
  /\ pc[c] = "flip" /\ pc' = [pc EXCEPT ![c] = "tell"]
  /\ LET mode == IF Loaded /\ row.mode = "plan" THEN "default" ELSE "plan" IN
       /\ row' = IF Loaded THEN [row EXCEPT !.mode = mode] ELSE row
       /\ note' = [note EXCEPT ![c].mode = mode]
  /\ UNCHANGED <<external, pipes, permMode, screens, call, warned, table, files, excused, moves>>

\* What an answered call stores: see patchSessionModels.
Stored(c) ==
  LET w == call[c] IN
  CASE pc[c] = "took mode"   -> [Nothing EXCEPT !.mode = w.mode]
    [] pc[c] = "took option" -> [Nothing EXCEPT !.model = w.model]
    [] pc[c] = "took effort" -> [Nothing EXCEPT !.effort = w.effort]
    [] pc[c] = "took old"    -> [Nothing EXCEPT !.model = w.model, !.effort = w.effort]

Stores(c) ==
  /\ pc[c] \in {"took mode", "took option", "took effort", "took old"}
  /\ row' = IF Loaded THEN Merge(row, Stored(c)) ELSE row
  /\ note' = [note EXCEPT ![c] =
                IF pc[c] = "took mode" THEN Stored(c)
                ELSE IF Loaded THEN [Nothing EXCEPT !.model = row'.model, !.effort = row'.effort]
                ELSE IF pc[c] = "took old" THEN Stored(c) ELSE Nothing]
  /\ pc' = [pc EXCEPT ![c] = IF @ = "took option" THEN "tell option" ELSE "tell"]
  /\ UNCHANGED <<external, pipes, permMode, screens, call, warned, table, files, excused, moves>>

Tells(c) ==
  /\ pc[c] \in {"tell", "tell option"}
  /\ Broadcast(note[c]) /\ note' = [note EXCEPT ![c] = Nothing]
  /\ IF pc[c] = "tell option" /\ call[c].effort # None
       THEN Asks(c, "effort")
       ELSE pc' = [pc EXCEPT ![c] = After(c, c \in warned)] /\ UNCHANGED req
  /\ UNCHANGED <<external, tx, row, permMode, call, warned, table, files, excused, moves>>

\* Not every agent knows session/set_config_option; whatever the error, the old way is tried.
FallsBack(c) ==
  /\ pc[c] = "fall back" /\ Asks(c, "old")
  /\ UNCHANGED <<external, tx, copies, call, warned, table, files, excused, moves>>

\* Where an error takes a call.  An effort refused after its model was taken is a warning,
\* and a catalog not reloaded is no error.
AfterError_Swallowed(c) ==   \* the model was switched, so the call succeeded
  CASE pc[c] = "option" -> "fall back"
    [] pc[c] = "effort" /\ call[c].op # "effort" -> After(c, FALSE)
    [] pc[c] = "reload" -> "ok"
    [] OTHER -> "error"
AfterError(c) ==
  CASE pc[c] = "option" -> "fall back"
    [] pc[c] = "effort" /\ call[c].op # "effort" -> After(c, TRUE)
    [] pc[c] = "reload" -> "ok"
    [] OTHER -> "error"
Warned(c) == IF pc[c] = "effort" THEN {c} ELSE {}

(***************************************************************************)
(* config.toml: read, changed and written back, and the agent is told.     *)
(***************************************************************************)
ReadsConfig(c) ==
  /\ pc[c] = "file" /\ pc' = [pc EXCEPT ![c] = "save"]
  /\ table' = [table EXCEPT ![c] = cfg]
  /\ UNCHANGED <<external, pipes, copies, call, warned, files, excused, moves>>

Filtered(t, w) == [t EXCEPT !.disabled = IF w.op = "disable" THEN {w.model} ELSE {}]
Edited(t, w) ==
  CASE w.op = "default" -> [t EXCEPT !.default = w.model]
    [] w.op = "upsert"  -> [t EXCEPT !.custom = @ \cup {w.model}]
    [] w.op = "delete"  -> [t EXCEPT !.custom = @ \ {w.model},
                                     !.default = IF @ = w.model THEN None ELSE @]
    [] OTHER            -> Filtered(t, w)

SavesConfig(c) ==
  /\ pc[c] = "save" /\ Asks(c, "reload")
  /\ cfg' = Edited(table[c], call[c]) /\ table' = [table EXCEPT ![c] = Nothing]
  /\ UNCHANGED <<external, tx, copies, call, warned, promoted, excused, moves>>

(***************************************************************************)
(* The reader of the agent's pipe.                                         *)
(***************************************************************************)
\* A machine-wide catalog, brought to the session: its model stays if it is still offered,
\* its effort if the model still offers it.
WithCatalog_Verbatim(r, k) ==   \* the machine's model instead of the session's
  [r EXCEPT !.model = k.current, !.effort = IF @ \in Offers[k.current] THEN @ ELSE Unset]
WithCatalog_Dangling(r, k) ==   \* no fallback for a model no longer offered
  [r EXCEPT !.model = IF @ \in k.models THEN @ ELSE None]
WithCatalog(r, k) ==
  LET m == IF r.model \in k.models THEN r.model ELSE k.current
  IN [r EXCEPT !.model = m, !.effort = IF @ \in Offers[m] THEN @ ELSE Unset]

Hears(n) == tx # <<>> /\ Head(tx).kind = n /\ note[Reader] = Nothing /\ tx' = Tail(tx)

\* Where an answer takes a call.
Took == [mode |-> "took mode", option |-> "took option", effort |-> "took effort",
         old |-> "took old", reload |-> "ok"]

HearsAnswer ==
  /\ Hears("answer")
  /\ LET a == Head(tx)
         c == a.by
     IN IF pc[c] # a.ask THEN UNCHANGED <<pc, warned>>   \* nobody waits any more
        ELSE IF a.ok
          THEN /\ pc' = [pc EXCEPT ![c] = Took[@]]
               /\ UNCHANGED warned
          ELSE pc' = [pc EXCEPT ![c] = AfterError(c)] /\ warned' = warned \cup Warned(c)
  /\ UNCHANGED <<external, req, copies, call, table, files, excused, moves>>

HearsCatalog ==
  /\ Hears("catalog")
  /\ row' = IF Loaded THEN WithCatalog(row, Head(tx).k) ELSE row
  /\ note' = [note EXCEPT ![Reader] =
                IF Loaded THEN [Nothing EXCEPT !.model = row'.model, !.effort = row'.effort]
                          ELSE Nothing]
  /\ UNCHANGED <<external, req, permMode, screens, threads, files, excused, moves>>

\* What a piece of news says of the row, and of the process.
ModeNews(n)  == [Nothing EXCEPT !.mode = n.mode]
ModelNews(n) == [Nothing EXCEPT !.model = n.model, !.effort = n.effort]
PermNews(n)  == IF n.perm = None THEN permMode ELSE n.perm

HearsNews ==
  /\ Hears("news")
  /\ LET n == Head(tx).new IN
       /\ row' = IF Loaded THEN Merge(Merge(row, ModeNews(n)), ModelNews(n)) ELSE row
       /\ permMode' = PermNews(n)
       /\ note' = [note EXCEPT ![Reader] = n]
  /\ UNCHANGED <<external, req, screens, threads, files, excused, moves>>

ReaderTells ==
  /\ note[Reader] # Nothing
  /\ Broadcast(note[Reader]) /\ note' = [note EXCEPT ![Reader] = Nothing]
  /\ UNCHANGED <<external, pipes, row, permMode, threads, files, excused, moves>>

(***************************************************************************)
(* An answer that comes too late, a new agent process, and the session     *)
(* loaded into it.                                                         *)
(***************************************************************************)
GivesUp(c) ==
  /\ pc[c] \in Waiting /\ moves < MaxMoves /\ moves' = moves + 1
  /\ pc' = [pc EXCEPT ![c] = AfterError(c)] /\ warned' = warned \cup Warned(c)
  /\ excused' = excused \cup Touches(c)
  /\ UNCHANGED <<external, pipes, copies, call, table, files>>

Restart ==
  /\ moves < MaxMoves /\ moves' = moves + 1
  /\ req' = <<>> /\ tx' = <<>> /\ row' = NoRow /\ permMode' = "ask"
  /\ cat' = Catalog(cfg, promoted) /\ ag' = [Revalidated(ag, cat') EXCEPT !.perm = "ask"]
  /\ pc' = [c \in Calls |-> IF pc[c] \in Waiting THEN AfterError(c) ELSE pc[c]]
  /\ warned' = warned \cup UNION {Warned(c) : c \in Calls}
  /\ excused' = excused \cup OpenAmong(Calls)
                  \cup (IF told.perm # "ask" THEN {"perm told"} ELSE {})   \* nobody is told
  /\ UNCHANGED <<modern, adopted, call, table, note, screens, files>>

Load ==
  /\ ~Loaded
  /\ row' = [mode |-> ag.mode, model |-> ag.model, effort |-> ag.effort]
  /\ Broadcast([ag EXCEPT !.perm = None])
  /\ excused' = excused \cup OpenAmong(Calls)
  /\ UNCHANGED <<external, pipes, permMode, note, threads, files, moves>>

Steps ==
  \/ AgentServes \/ AgentMoves \/ HearsAnswer \/ HearsCatalog \/ HearsNews \/ ReaderTells \/ Load
  \/ \E c \in Calls :
       \/ Calling(c) \/ Dismisses(c) \/ WritesPerm(c) \/ Flips(c) \/ Stores(c) \/ Tells(c) \/ FallsBack(c)
       \/ Subscribes(c) \/ ReadsConfig(c) \/ SavesConfig(c) \/ GivesUp(c)

Next == Steps \/ Restart
Spec == Init /\ [][Next]_vars

(***************************************************************************)
(* Properties.                                                             *)
(***************************************************************************)
Quiet ==
  /\ \A c \in Calls : pc[c] \in {"idle", "hello", "on"} \cup Decided
  /\ req = <<>> /\ tx = <<>> /\ note[Reader] = Nothing

\* Once nothing is under way, the host's copy of each setting and what the browsers were told
\* are what the agent has: a browser that connects later sees what the others see, and the
\* agent runs on it.  Excused are the settings two changed at once, those of a call given up
\* on, and an effort the agent dropped with its model (the code reports none of the three).
SettingsAgree ==
  Quiet /\ Loaded =>
    /\ "mode" \notin excused => row.mode = ag.mode /\ told.mode = ag.mode
    /\ "model" \notin excused => row.model = ag.model /\ told.model = ag.model
    /\ {"model", "effort"} \cap excused = {} => row.effort \in {ag.effort, Unset} /\ told.effort = row.effort
    /\ "perm" \notin excused => permMode = ag.perm
    /\ {"perm", "perm told"} \cap excused = {} => told.perm = ag.perm

\* A call to change the model or effort that reports a clean success had every part of it
\* adopted by the agent, whatever was refused, answered too late or lost on the way
\* (SetModel, "reporting a clean success would let the client caption an effort the agent
\* never adopted").
NoFalseSuccess ==
  \A c \in Calls : pc[c] = "ok" /\ call[c].op \in {"model", "effort"} =>
    {f \in {"model", "effort"} : call[c][f] # None} \subseteq adopted[c]

\* Whoever wrote config.toml last and in whatever order the reloads ran: once nothing is under
\* way the agent offers what the file says, or a custom model saved would not be there until
\* the next start.  (A call that failed after it had dismissed a campaign reloads nothing.)
CatalogFresh ==
  Quiet => LET k == Catalog(cfg, promoted) IN
    /\ cat.models = k.models
    /\ cat.current = k.current \/ \E c \in Calls : call[c].op = "default" /\ pc[c] = "error"

\* A browser that connects at any moment ends up with what the others were told, except
\* for what was broadcast between its snapshot and its subscription: that is lost to it
\* ("restores its badge from the agent's", bridge.go:136, does not hold there).
HelloCatchesUp ==
  Quiet /\ Loaded =>
    \A c \in Calls, f \in Fields : pc[c] = "on" =>
      \/ seen[c][f] = told[f]
      \/ f \in missed \cup excused
      \/ f = "effort" /\ "model" \in excused
      \/ f = "perm" /\ "perm told" \in excused

\* "Broadcast to all connected FE clients so every tab/device converges immediately"
\* (bridge.go:5724, SetPermissionMode): once a permission mode was set, a browser that is
\* connected shows it.
EveryTabConverges ==
  Quiet /\ {"perm", "perm told"} \cap excused = {} =>
    \A c \in Calls : pc[c] = "on" => seen[c].perm = permMode

\* Whatever copies there are of one setting agree once nothing is under way.
CopiesAgree == SettingsAgree /\ CatalogFresh /\ HelloCatchesUp
=============================================================================
