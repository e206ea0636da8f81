------------------------------ MODULE HubLink ------------------------------
(***************************************************************************)
(* Which hub the host talks to, and with which credential:                 *)
(* src/internal/hub/manager.go, control.go and Run in client.go.           *)
(*                                                                         *)
(* The manager's loop runs one client after another, each for the address  *)
(* it was built with.  A client finds its token, keeps a session up, and   *)
(* reconnects.  The calls of the tray and the HTTP API (pair, reuse,       *)
(* disconnect) run beside both: they replace the token of the running      *)
(* client, or move the manager to another address.                         *)
(*                                                                         *)
(* A token is <<url, n>>, the n-th one minted.  The hub is external: it    *)
(* accepts or rejects a code, and may revoke any token.                    *)
(***************************************************************************)
EXTENDS Integers, Sequences, FiniteSets

CONSTANTS
  Urls, NoUrl,      \* hub addresses; the empty one is local mode
  Ops,              \* concurrent calls of the control surface
  MaxOps,           \* calls made
  MaxTok,           \* tokens minted
  MaxClients,       \* clients built
  MaxTries,         \* sessions started
  BootAddrs,        \* what config.json may name at boot
  BootTokens,       \* the hubs HOST_TOKEN may be of at boot, NoUrl if it may be unset
  BootCode,         \* HUB_PAIR_CODE is set
  QuicFailMax       \* quicFailMax (3)

ASSUME LinkAssumption ==
  /\ NoUrl \notin Urls /\ Urls # {}
  /\ {MaxOps, MaxTok, MaxClients, MaxTries, QuicFailMax} \subseteq Nat \ {0}
  /\ BootAddrs \subseteq Urls \cup {NoUrl} /\ BootTokens \subseteq Urls \cup {NoUrl} /\ BootCode \in BOOLEAN

Clients  == 1..MaxClients
NoClient == 0
Tokens   == Urls \X (0..MaxTok)
NoTok    == <<>>
Addrs    == Urls \cup {NoUrl}

VARIABLES
  \* the manager: m.cfg, m.cur, m.retarget, and its loop
  cfg, cur, retarget, mpc, snap,
  \* config.json's hub address, and hub.json
  file, disk,
  \* each client: its configuration, token, flags and session
  conf, tok, force, poke, killed, pc, repaired, err,
  armed,      \* sessCancel: "none", "armed" or "fired"
  sessTok,    \* the token of the last dial
  fails, cooldown,
  realFails,  \* establishment failures since the last success or lapse (history)
  \* each call: where it is, what it wants, what it holds
  opc, want, target, handle, held,
  \* the hub, the bounds, and the address at boot (history)
  valid, minted, nOps, nClients, tries, boot

mgrVars    == <<cfg, cur, retarget, mpc, snap>>
diskVars   == <<file, disk>>
clientVars == <<conf, tok, force, poke, killed, pc, repaired, err, armed, sessTok,
                fails, cooldown, realFails>>
opVars     == <<opc, want, target, handle, held>>
hubVars    == <<valid, minted>>
bounds     == <<nOps, nClients, tries, boot>>
vars       == <<mgrVars, diskVars, clientVars, opVars, hubVars, bounds>>

Config == [url : Addrs, token : Tokens \cup {NoTok}, code : BOOLEAN]

\* hub.json holds a token for this very hub.
Usable_AnyHub(u) == disk # NoTok
Usable(u) == disk # NoTok /\ disk[1] = u

TypeOK ==
  /\ cfg \in Config /\ snap \in Config /\ file \in Addrs
  /\ cur \in Clients \cup {NoClient} /\ retarget \in BOOLEAN
  /\ mpc \in {"top", "local", "build", "run", "gap"}
  /\ disk \in Tokens \cup {NoTok}
  /\ conf \in [Clients -> Config] /\ \A c \in 1..nClients : conf[c].url \in Urls
  /\ tok \in [Clients -> Tokens \cup {NoTok}] /\ sessTok \in [Clients -> Tokens \cup {NoTok}]
  /\ {force, poke, killed, repaired, cooldown} \subseteq [Clients -> BOOLEAN]
  /\ pc \in [Clients -> {"unborn", "ensure", "code", "pairwait", "arm", "quic", "quicUp",
                         "ws", "wsUp", "ended", "swap", "auth", "forget", "reensure",
                         "recode", "backoff", "returned"}]
  /\ err \in [Clients -> {"none", "net", "auth"}]
  /\ armed \in [Clients -> {"none", "armed", "fired"}]
  /\ fails \in [Clients -> 0..MaxTries] /\ realFails \in [Clients -> 0..MaxTries]
  /\ opc \in [Ops -> {"idle", "pair", "store", "force", "poke", "getcancel", "fire",
                      "probe", "save", "check", "point", "persist", "cancel", "nudge"}]
  /\ want \in [Ops -> Addrs] /\ target \in [Ops -> Clients \cup {NoClient}]
  /\ handle \in [Ops -> BOOLEAN] /\ held \in [Ops -> Tokens \cup {NoTok}]
  /\ valid \subseteq Tokens /\ minted \in 0..MaxTok
  /\ nOps \in 0..MaxOps /\ nClients \in 0..MaxClients /\ tries \in 0..MaxTries /\ boot \in Addrs

\* Boot: the address of config.json or the environment; hub.json may hold a
\* token, of this hub or of another one, and so may HOST_TOKEN.
Init ==
  /\ file \in BootAddrs
  /\ disk \in {NoTok} \cup {<<u, 0>> : u \in Urls}
  /\ \E u \in BootTokens :
       cfg = [url |-> file, token |-> IF u = NoUrl THEN NoTok ELSE <<u, 0>>, code |-> BootCode]
  /\ snap = cfg /\ cur = NoClient /\ retarget = FALSE /\ mpc = "top"
  /\ conf = [c \in Clients |-> cfg]
  /\ tok = [c \in Clients |-> NoTok] /\ sessTok = [c \in Clients |-> NoTok]
  /\ force = [c \in Clients |-> FALSE] /\ poke = [c \in Clients |-> FALSE]
  /\ killed = [c \in Clients |-> FALSE] /\ repaired = [c \in Clients |-> FALSE]
  /\ pc = [c \in Clients |-> "unborn"] /\ err = [c \in Clients |-> "none"]
  /\ armed = [c \in Clients |-> "none"]
  /\ fails = [c \in Clients |-> 0] /\ realFails = [c \in Clients |-> 0]
  /\ cooldown = [c \in Clients |-> FALSE]
  /\ opc = [o \in Ops |-> "idle"] /\ want = [o \in Ops |-> NoUrl]
  /\ target = [o \in Ops |-> NoClient] /\ handle = [o \in Ops |-> FALSE]
  /\ held = [o \in Ops |-> NoTok]
  /\ valid = {<<u, 0>> : u \in Urls} /\ minted = 0
  /\ nOps = 0 /\ nClients = 0 /\ tries = 0 /\ boot = file

Step(c, l)  == pc' = [pc EXCEPT ![c] = l]
OpGo(o, l)  == opc' = [opc EXCEPT ![o] = l] /\ UNCHANGED <<want, target, handle, held>>

\* A call returns.
Return(o) ==
  /\ opc' = [opc EXCEPT ![o] = "idle"] /\ want' = [want EXCEPT ![o] = NoUrl]
  /\ target' = [target EXCEPT ![o] = NoClient] /\ handle' = [handle EXCEPT ![o] = FALSE]
  /\ held' = [held EXCEPT ![o] = NoTok]

-----------------------------------------------------------------------------
(* Manager.Run *)

LocalMode_Never == FALSE
LocalMode == cfg.url = NoUrl

\* Read the configuration; without an address wait for one.
MgrTop ==
  /\ mpc = "top"
  /\ snap' = cfg
  /\ mpc' = IF LocalMode THEN "local" ELSE "build"
  /\ UNCHANGED <<cfg, cur, retarget, diskVars, clientVars, opVars, hubVars, bounds>>

\* Build a client for the configuration that was read, publish it, run it.
MgrBuild ==
  /\ mpc = "build" /\ nClients < MaxClients
  /\ nClients' = nClients + 1 /\ cur' = nClients + 1 /\ mpc' = "run"
  /\ conf' = [conf EXCEPT ![nClients + 1] = snap]
  /\ Step(nClients + 1, "ensure")
  /\ UNCHANGED <<cfg, retarget, snap, diskVars, tok, force, poke, killed, repaired, err,
                 armed, sessTok, fails, cooldown, realFails, opVars, hubVars, nOps, tries, boot>>

MgrReturned ==
  /\ mpc = "run" /\ pc[cur] = "returned"
  /\ cur' = NoClient /\ mpc' = "gap"
  /\ UNCHANGED <<cfg, retarget, snap, diskVars, clientVars, opVars, hubVars, bounds>>

MgrWoken ==
  /\ mpc \in {"local", "gap"} /\ retarget
  /\ retarget' = FALSE /\ mpc' = "top"
  /\ UNCHANGED <<cfg, cur, snap, diskVars, clientVars, opVars, hubVars, bounds>>

\* The guard of one second after a client that ended by itself.
MgrTimer ==
  /\ mpc = "gap" /\ mpc' = "top"
  /\ UNCHANGED <<cfg, cur, retarget, snap, diskVars, clientVars, opVars, hubVars, bounds>>

-----------------------------------------------------------------------------
(* Client.Run *)

\* After a token was found, or not.
Found(c)    == IF pc[c] \in {"ensure", "code"} THEN repaired' = repaired
                                               ELSE repaired' = [repaired EXCEPT ![c] = TRUE]
NotFound(c) == Step(c, IF pc[c] \in {"ensure", "code"} THEN "pairwait" ELSE "backoff")

\* ensureToken: HOST_TOKEN, the token on disk for this very address, or the
\* pairing code; stateMu is held through the exchange of the code.
EnsureToken(c) ==
  /\ pc[c] \in {"ensure", "reensure"}
  /\ \/ /\ conf[c].token # NoTok
        /\ tok' = [tok EXCEPT ![c] = conf[c].token] /\ Found(c) /\ Step(c, "arm")
     \/ /\ conf[c].token = NoTok /\ Usable(conf[c].url)
        /\ tok' = [tok EXCEPT ![c] = disk] /\ Found(c) /\ Step(c, "arm")
     \/ /\ conf[c].token = NoTok /\ ~Usable(conf[c].url)
        /\ IF conf[c].code THEN Step(c, IF pc[c] = "ensure" THEN "code" ELSE "recode")
                           ELSE NotFound(c)
        /\ UNCHANGED <<tok, repaired>>
  /\ UNCHANGED <<mgrVars, diskVars, conf, force, poke, killed, err, armed, sessTok, fails,
                 cooldown, realFails, opVars, hubVars, bounds>>

Mint(u) == /\ minted < MaxTok /\ minted' = minted + 1
           /\ valid' = valid \cup {<<u, minted + 1>>}

PairByCode(c) ==
  /\ pc[c] \in {"code", "recode"}
  /\ \/ /\ Mint(conf[c].url)
        /\ tok' = [tok EXCEPT ![c] = <<conf[c].url, minted + 1>>]
        /\ disk' \in {<<conf[c].url, minted + 1>>, disk}   \* a failed write is ignored
        /\ Found(c) /\ Step(c, "arm")
     \/ /\ NotFound(c) /\ UNCHANGED <<tok, disk, repaired, hubVars>>
  /\ UNCHANGED <<mgrVars, file, conf, force, poke, killed, err, armed, sessTok, fails,
                 cooldown, realFails, opVars, bounds>>

\* The waits of Run: for a token before the first session, and between
\* sessions.  A pairing wakes them, the process or a retarget ends them.
Next_(c) == IF pc[c] = "pairwait" THEN "ensure" ELSE "arm"

Woken_Deaf(c) == FALSE
Woken(c) == poke[c]

WaitWoken(c) ==
  /\ pc[c] \in {"pairwait", "backoff"} /\ Woken(c)
  /\ poke' = [poke EXCEPT ![c] = FALSE] /\ force' = [force EXCEPT ![c] = FALSE]
  /\ Step(c, Next_(c))
  /\ UNCHANGED <<mgrVars, diskVars, conf, tok, killed, repaired, err, armed, sessTok, fails,
                 cooldown, realFails, opVars, hubVars, bounds>>

WaitTimer(c) ==
  /\ pc[c] \in {"pairwait", "backoff"}
  /\ Step(c, Next_(c))
  /\ UNCHANGED <<mgrVars, diskVars, conf, tok, force, poke, killed, repaired, err, armed,
                 sessTok, fails, cooldown, realFails, opVars, hubVars, bounds>>

\* Where Run notices that its context is cancelled.
ExitPoints == {"arm", "pairwait", "backoff"}

Exit(c) ==
  /\ killed[c] /\ pc[c] \in ExitPoints
  /\ Step(c, "returned")
  /\ UNCHANGED <<mgrVars, diskVars, conf, tok, force, poke, killed, repaired, err, armed,
                 sessTok, fails, cooldown, realFails, opVars, hubVars, bounds>>

\* The cancel function is published before the token is read.
Armed_Late(c) == "none"
Armed(c) == "armed"

\* pickTransport
Arm(c) ==
  /\ pc[c] = "arm" /\ ~killed[c] /\ tries < MaxTries
  /\ tries' = tries + 1
  /\ armed' = [armed EXCEPT ![c] = Armed(c)]
  /\ handle' = [o \in Ops |-> handle[o] /\ target[o] # c]
  /\ Step(c, IF cooldown[c] THEN "ws" ELSE "quic")
  /\ UNCHANGED <<mgrVars, diskVars, conf, tok, force, poke, killed, repaired, err, sessTok,
                 fails, cooldown, realFails, opc, want, target, held, hubVars, nOps, nClients,
                 boot>>

HostToken(c) == IF tok[c] # NoTok THEN tok[c] ELSE conf[c].token
Cancelled(c) == armed[c] = "fired" \/ killed[c]

\* noteQuicOutcome, which a cancelled session does not reach.
Counts(c) == ~Cancelled(c)

NoteQuicOutcome(c, established) ==
  /\ fails' = [fails EXCEPT ![c] = IF established THEN 0 ELSE @ + 1]
  /\ realFails' = [realFails EXCEPT ![c] =
                     IF established THEN 0 ELSE IF Cancelled(c) THEN @ ELSE @ + 1]
  /\ cooldown' = [cooldown EXCEPT ![c] = @ \/ (~established /\ fails[c] + 1 = QuicFailMax)]

\* A QUIC session that ends goes on with WebSocket, unless it was cancelled.
QuicOver(c, established) ==
  /\ IF Counts(c) THEN NoteQuicOutcome(c, established)
                  ELSE UNCHANGED <<fails, realFails, cooldown>>
  /\ IF Cancelled(c) THEN Step(c, "ended") /\ err' = [err EXCEPT ![c] = "net"]
                     ELSE Step(c, "ws") /\ UNCHANGED err

QuicDial(c) ==
  /\ pc[c] = "quic"
  /\ sessTok' = [sessTok EXCEPT ![c] = HostToken(c)]
  /\ \/ /\ HostToken(c) # NoTok
        /\ Step(c, "quicUp") /\ UNCHANGED <<err, fails, cooldown, realFails>>
     \/ QuicOver(c, FALSE)
  /\ UNCHANGED <<mgrVars, diskVars, conf, tok, force, poke, killed, repaired, armed,
                 opVars, hubVars, bounds>>

QuicEnds(c) ==
  /\ pc[c] = "quicUp"
  /\ QuicOver(c, TRUE)
  /\ UNCHANGED <<mgrVars, diskVars, conf, tok, force, poke, killed, repaired, armed, sessTok,
                 opVars, hubVars, bounds>>

\* The path to the hub fails, or the hub rejects the token (or there is none).
Failed(c) ==
  /\ Step(c, "ended")
  /\ err' \in {[err EXCEPT ![c] = "net"]}
              \cup (IF sessTok'[c] \in valid THEN {} ELSE {[err EXCEPT ![c] = "auth"]})

WsDial(c) ==
  /\ pc[c] = "ws"
  /\ sessTok' = [sessTok EXCEPT ![c] = HostToken(c)]
  /\ \/ HostToken(c) \in valid /\ Step(c, "wsUp") /\ UNCHANGED err
     \/ Failed(c)
  /\ UNCHANGED <<mgrVars, diskVars, conf, tok, force, poke, killed, repaired, armed, fails,
                 cooldown, realFails, opVars, hubVars, bounds>>

WsEnds(c) ==
  /\ pc[c] = "wsUp"
  /\ UNCHANGED sessTok
  /\ Failed(c)
  /\ UNCHANGED <<mgrVars, diskVars, conf, tok, force, poke, killed, repaired, armed, fails,
                 cooldown, realFails, opVars, hubVars, bounds>>

\* The session's context is released; the process' context is looked at.
Ended(c) ==
  /\ pc[c] = "ended"
  /\ armed' = [armed EXCEPT ![c] = "none"]
  /\ Step(c, IF killed[c] THEN "returned" ELSE "swap")
  /\ UNCHANGED <<mgrVars, diskVars, conf, tok, force, poke, killed, repaired, err, sessTok,
                 fails, cooldown, realFails, opVars, hubVars, bounds>>

\* A pairing replaced the credential: reconnect at once.
Swap(c) ==
  /\ pc[c] = "swap"
  /\ IF force[c]
     THEN /\ force' = [force EXCEPT ![c] = FALSE] /\ poke' = [poke EXCEPT ![c] = FALSE]
          /\ repaired' = [repaired EXCEPT ![c] = FALSE]
          /\ Step(c, "arm")
     ELSE Step(c, "auth") /\ UNCHANGED <<force, poke, repaired>>
  /\ UNCHANGED <<mgrVars, diskVars, conf, tok, killed, err, armed, sessTok, fails, cooldown,
                 realFails, opVars, hubVars, bounds>>

\* A rejected token is exchanged once for one of the pairing code.
AuthRetry(c) ==
  /\ pc[c] = "auth"
  /\ Step(c, IF err[c] = "auth" /\ conf[c].code /\ ~repaired[c] THEN "forget" ELSE "backoff")
  /\ UNCHANGED <<mgrVars, diskVars, conf, tok, force, poke, killed, repaired, err, armed,
                 sessTok, fails, cooldown, realFails, opVars, hubVars, bounds>>

\* clearState removes hub.json whatever address it is for.
ClearState(c) ==
  /\ pc[c] = "forget"
  /\ tok' = [tok EXCEPT ![c] = NoTok] /\ disk' = NoTok
  /\ Step(c, "reensure")
  /\ UNCHANGED <<mgrVars, file, conf, force, poke, killed, repaired, err, armed, sessTok,
                 fails, cooldown, realFails, opVars, hubVars, bounds>>

\* Five minutes without QUIC have passed.
CooldownLapses(c) ==
  /\ cooldown[c]
  /\ cooldown' = [cooldown EXCEPT ![c] = FALSE] /\ realFails' = [realFails EXCEPT ![c] = 0]
  /\ UNCHANGED <<mgrVars, diskVars, conf, tok, force, poke, killed, pc, repaired, err, armed,
                 sessTok, fails, opVars, hubVars, bounds>>

-----------------------------------------------------------------------------
(* Pair of a running client, and requestRepair *)

Hold(o, t, l) ==
  /\ held' = [held EXCEPT ![o] = t] /\ opc' = [opc EXCEPT ![o] = l]
  /\ UNCHANGED <<want, target, handle>>

ClientPair(o) ==
  /\ opc[o] = "pair"
  /\ LET u == conf[target[o]].url IN
     \/ Mint(u) /\ Hold(o, <<u, minted + 1>>, "store")
     \/ Return(o) /\ UNCHANGED hubVars
  /\ UNCHANGED <<mgrVars, diskVars, clientVars, bounds>>

\* Under stateMu, which an exchange of the code holds.
StoreToken(o) ==
  /\ opc[o] = "store" /\ pc[target[o]] \notin {"code", "recode"}
  /\ tok' = [tok EXCEPT ![target[o]] = held[o]]
  /\ disk' \in {held[o], disk}                             \* a failed write is ignored
  /\ OpGo(o, "force")
  /\ UNCHANGED <<mgrVars, file, conf, force, poke, killed, pc, repaired, err, armed, sessTok,
                 fails, cooldown, realFails, hubVars, bounds>>

SetForce(o) ==
  /\ opc[o] = "force"
  /\ force' = [force EXCEPT ![target[o]] = TRUE]
  /\ OpGo(o, "poke")
  /\ UNCHANGED <<mgrVars, diskVars, conf, tok, poke, killed, pc, repaired, err, armed, sessTok,
                 fails, cooldown, realFails, hubVars, bounds>>

Poke(o) ==
  /\ opc[o] = "poke"
  /\ poke' = [poke EXCEPT ![target[o]] = TRUE]
  /\ OpGo(o, "getcancel")
  /\ UNCHANGED <<mgrVars, diskVars, conf, tok, force, killed, pc, repaired, err, armed, sessTok,
                 fails, cooldown, realFails, hubVars, bounds>>

\* Read sessCancel under ctlMu, call it after: by then it may be of a session
\* that is over.
GetCancel(o) ==
  /\ opc[o] = "getcancel"
  /\ handle' = [handle EXCEPT ![o] = armed[target[o]] # "none"]
  /\ opc' = [opc EXCEPT ![o] = "fire"]
  /\ UNCHANGED <<mgrVars, diskVars, clientVars, want, target, held, hubVars, bounds>>

Fire(o) ==
  /\ opc[o] = "fire"
  /\ armed' = [armed EXCEPT ![target[o]] = IF handle[o] /\ @ = "armed" THEN "fired" ELSE @]
  /\ Return(o)
  /\ UNCHANGED <<mgrVars, diskVars, conf, tok, force, poke, killed, pc, repaired, err, sessTok,
                 fails, cooldown, realFails, hubVars, bounds>>

-----------------------------------------------------------------------------
(* PairWith, Reuse and Disconnect of the manager *)

\* Each starts by reading m.cur and m.cfg; an empty address keeps the current.
Start(o, u, c, l) ==
  /\ opc[o] = "idle" /\ nOps < MaxOps
  /\ nOps' = nOps + 1
  /\ want' = [want EXCEPT ![o] = u] /\ target' = [target EXCEPT ![o] = c]
  /\ opc' = [opc EXCEPT ![o] = l]
  /\ UNCHANGED <<mgrVars, diskVars, clientVars, handle, held, hubVars, nClients, tries, boot>>

Wanted(u) == IF u = NoUrl THEN cfg.url ELSE u

PairWith(o) ==
  \E u \in Addrs :
    /\ Wanted(u) # NoUrl
    /\ IF Wanted(u) = cfg.url /\ cur # NoClient THEN Start(o, Wanted(u), cur, "pair")
                                                ELSE Start(o, Wanted(u), NoClient, "probe")

Reuse(o) ==
  \E u \in Addrs :
    /\ Wanted(u) # NoUrl
    /\ Start(o, Wanted(u), IF Wanted(u) = cfg.url THEN cur ELSE NoClient, "check")

Disconnect(o) == Start(o, NoUrl, NoClient, "point")

\* A throwaway client pairs with the new hub, then its token goes to disk.
Probe(o) ==
  /\ opc[o] = "probe"
  /\ \/ Mint(want[o]) /\ Hold(o, <<want[o], minted + 1>>, "save")
     \/ Return(o) /\ UNCHANGED hubVars
  /\ UNCHANGED <<mgrVars, diskVars, clientVars, bounds>>

Save(o) ==
  /\ opc[o] = "save"
  /\ \/ disk' = held[o] /\ OpGo(o, "point")
     \/ UNCHANGED disk /\ Return(o)
  /\ UNCHANGED <<mgrVars, file, clientVars, hubVars, bounds>>

\* Reuse needs the credential on disk; a live client already runs on it.
Check(o) ==
  /\ opc[o] = "check"
  /\ IF Usable(want[o]) /\ target[o] = NoClient THEN OpGo(o, "point") ELSE Return(o)
  /\ UNCHANGED <<mgrVars, diskVars, clientVars, hubVars, bounds>>

\* pointAt: move, forget the startup credentials, take the cancel function.
Point(o) ==
  /\ opc[o] = "point"
  /\ cfg' = [url |-> want[o], token |-> NoTok, code |-> FALSE]
  /\ target' = [target EXCEPT ![o] = cur]
  /\ opc' = [opc EXCEPT ![o] = IF cfg.url # want[o] THEN "persist" ELSE "cancel"]
  /\ UNCHANGED <<cur, retarget, mpc, snap, diskVars, clientVars, want, handle, held, hubVars,
                 bounds>>

Persist(o) ==
  /\ opc[o] = "persist"
  /\ file' \in {want[o], file}
  /\ OpGo(o, "cancel")
  /\ UNCHANGED <<mgrVars, disk, clientVars, hubVars, bounds>>

CancelRun(o) ==
  /\ opc[o] = "cancel"
  /\ killed' = [c \in Clients |-> killed[c] \/ c = target[o]]
  /\ OpGo(o, "nudge")
  /\ UNCHANGED <<mgrVars, diskVars, conf, tok, force, poke, pc, repaired, err, armed, sessTok,
                 fails, cooldown, realFails, hubVars, bounds>>

Nudges(o) == TRUE

Nudge(o) ==
  /\ opc[o] = "nudge"
  /\ retarget' = (retarget \/ Nudges(o))
  /\ Return(o)
  /\ UNCHANGED <<cfg, cur, mpc, snap, diskVars, clientVars, hubVars, bounds>>

-----------------------------------------------------------------------------
\* The hub revokes a token.
Revoke ==
  /\ \E t \in valid : valid' = valid \ {t}
  /\ UNCHANGED <<mgrVars, diskVars, clientVars, opVars, minted, bounds>>

Manager == MgrTop \/ MgrBuild \/ MgrReturned \/ MgrWoken

ClientStep(c) ==
  \/ EnsureToken(c) \/ PairByCode(c) \/ WaitWoken(c) \/ Exit(c) \/ Arm(c)
  \/ QuicDial(c) \/ WsDial(c) \/ Ended(c) \/ Swap(c) \/ AuthRetry(c) \/ ClearState(c)

SessionEnds(c) == QuicEnds(c) \/ WsEnds(c)

OpStep(o) ==
  \/ ClientPair(o) \/ StoreToken(o) \/ SetForce(o) \/ Poke(o) \/ GetCancel(o) \/ Fire(o)
  \/ Probe(o) \/ Save(o) \/ Check(o) \/ Point(o) \/ Persist(o) \/ CancelRun(o) \/ Nudge(o)

Call(o) == PairWith(o) \/ Reuse(o) \/ Disconnect(o)

Next ==
  \/ Manager \/ MgrTimer
  \/ \E c \in Clients : ClientStep(c) \/ SessionEnds(c) \/ WaitTimer(c) \/ CooldownLapses(c)
  \/ \E o \in Ops : Call(o) \/ OpStep(o)
  \/ Revoke

Spec == Init /\ [][Next]_vars

\* Loops and calls run on, and a cancelled session ends; no timer need fire.
FairSpec ==
  /\ Spec /\ WF_vars(Manager)
  /\ \A c \in Clients : WF_vars(ClientStep(c)) /\ WF_vars(Cancelled(c) /\ SessionEnds(c))
                        /\ SF_vars(Exit(c)) /\ SF_vars(WaitWoken(c))
  /\ \A o \in Ops : WF_vars(OpStep(o))

-----------------------------------------------------------------------------
(* properties *)

Up(c) == pc[c] \in {"quicUp", "wsUp"}

\* A client only ever shows a hub a token of that very hub, whatever pairings,
\* moves and leftovers of earlier runs there were, or HOST_TOKEN, and that only at the
\* address of the boot (loadState, ensureToken, "any startup-supplied credential is now
\* stale" in pointAt).
OwnHubToken ==
  \A c \in Clients : sessTok[c] # NoTok =>
    \/ sessTok[c][1] = conf[c].url
    \/ sessTok[c] = conf[c].token /\ conf[c].url = boot

\* A call is between storing a client's new token and cancelling its session.
Repairing(c) == \E o \in Ops : target[o] = c /\ opc[o] \in {"force", "poke", "getcancel", "fire"}

\* After Pair has returned, no session of the client lives on with an older
\* token (requestRepair cancels it, and setSessCancel precedes the token's read).
NoStaleSession ==
  \A c \in Clients : Up(c) /\ ~Cancelled(c) /\ ~Repairing(c) => sessTok[c] = HostToken(c)

Pointing == \E o \in Ops : opc[o] \in {"persist", "cancel", "nudge"}

\* A manager waiting in local mode with a hub configured has been, or is about
\* to be, woken ("exiting here would make the tray button silently do nothing").
LocalModeWakes == mpc = "local" /\ cfg.url # NoUrl => retarget \/ Pointing

\* A move whose call found no client to cancel, the loop being about to publish one for
\* the old address, is not forgotten: that client's end takes it up at once (pointAt).
MoveKept == cur # NoClient /\ conf[cur].url # cfg.url => retarget \/ Pointing

\* Only QuicFailMax failures of the path in a row keep QUIC from being tried:
\* "a repair-driven cancel must not be mistaken for a broken UDP path".
CooldownEarned == \A c \in Clients : cooldown[c] => realFails[c] >= QuicFailMax

\* A call may come at any step of the two loops: it leaves no session with an old
\* token, no manager asleep, no move forgotten, and no good path written off.
CallsLand == NoStaleSession /\ LocalModeWakes /\ MoveKept /\ CooldownEarned

\* A token the last dial did not use.
Untried(c) == tok[c] # NoTok /\ sessTok[c] # tok[c] /\ Usable(conf[c].url) /\ ~killed[c]

\* A new token is dialled with no timer's help, wherever Run is waiting: a wait
\* for the code's hub is cut short, a session on the old token is ended.
PairingTried ==
  (cur # NoClient /\ Untried(cur)) ~> (cur = NoClient \/ ~Untried(cur) \/ tries = MaxTries)

\* A client that was retired stops, so that the next one can start.
RetiredStops == (cur # NoClient /\ killed[cur]) ~> (cur = NoClient)

\* What a call asks of the loops they do, wherever each of them waits.
CallsHeard == PairingTried /\ RetiredStops

=============================================================================
