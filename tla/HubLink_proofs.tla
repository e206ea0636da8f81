--------------------------- MODULE HubLink_proofs ---------------------------
(***************************************************************************)
(* Proofs about HubLink, for every set of hubs, every number of concurrent *)
(* calls, clients, tokens and sessions, and every quicFailMax.             *)
(***************************************************************************)
EXTENDS HubLink, TLAPS

-----------------------------------------------------------------------------
(* The inductive invariant *)

\* HOST_TOKEN is kept with the address of the boot only; a client's tokens are of the hub
\* it was built for, or HOST_TOKEN.
OfHub(t, u) == t # NoTok => t[1] = u
AtBoot(k)   == k.token # NoTok => k.url = boot
OfConf(t, k) == OfHub(t, k.url) \/ t = k.token

Owned ==
  /\ AtBoot(cfg) /\ AtBoot(snap)
  /\ \A c \in Clients : AtBoot(conf[c])
  /\ \A c \in Clients : OfConf(tok[c], conf[c]) /\ OfConf(sessTok[c], conf[c])

\* What a client does, is and holds it does, is and holds after it was built.
Born ==
  /\ mpc = "build" => snap.url \in Urls
  /\ cur \in 0..nClients
  /\ \A c \in Clients : pc[c] # "unborn" => c \in 1..nClients
  /\ \A c \in Clients : c \notin 1..nClients => tok[c] = NoTok /\ sessTok[c] = NoTok

\* A call that repairs has a client; what a call holds is of the hub it means.
InRepair == {"pair", "store", "force", "poke", "getcancel", "fire"}

CallInv ==
  \A o \in Ops :
    /\ target[o] \in 0..nClients
    /\ opc[o] \in InRepair => target[o] # NoClient
    /\ opc[o] = "probe" => want[o] \in Urls
    /\ opc[o] = "store" => held[o] # NoTok /\ OfHub(held[o], conf[target[o]].url)

\* A call will yet cancel the client's session: one that has taken the cancel
\* function took it in this session.
Reaching(c) ==
  \E o \in Ops :
    /\ target[o] = c
    /\ opc[o] \in {"force", "poke", "getcancel"} \/ (opc[o] = "fire" /\ handle[o])

\* From Arm to Ended there is a cancel function to take; a session with an older
\* token than the client's is going to be cancelled.
Playing == {"quic", "quicUp", "ws", "wsUp"}

SessionAt(c) ==
  /\ pc[c] \in Playing => armed[c] # "none"
  /\ Up(c) /\ ~Cancelled(c) => sessTok[c] = HostToken(c) \/ Reaching(c)

SessionInv == \A c \in Clients : SessionAt(c)

\* fails overtakes realFails only where a lapse left it, at quicFailMax or beyond:
\* there the equality that arms the cooldown is not met again.
Dialling(c) == IF pc[c] = "quic" THEN 1 ELSE 0

PathAt(c) ==
  /\ fails[c] + Dialling(c) <= tries /\ realFails[c] + Dialling(c) <= tries
  /\ fails[c] <= realFails[c] \/ fails[c] >= QuicFailMax
  /\ cooldown[c] => fails[c] >= QuicFailMax /\ realFails[c] >= QuicFailMax
                    /\ pc[c] \notin {"quic", "quicUp"}

PathInv == \A c \in Clients : PathAt(c)

\* The manager is, or will be, told of an address it has not taken up.
MoveInv ==
  /\ mpc # "run" => cur = NoClient
  /\ mpc = "build" /\ snap.url # cfg.url => retarget \/ Pointing
  /\ MoveKept

Wakes == LocalModeWakes /\ MoveInv

-----------------------------------------------------------------------------
(* Types, by what they are of *)

MgrType ==
  /\ cfg \in Config /\ snap \in Config /\ file \in Addrs
  /\ cur \in Clients \cup {NoClient} /\ mpc \in {"top", "local", "build", "run", "gap"}

TokenType ==
  /\ disk \in Tokens \cup {NoTok} /\ valid \subseteq Tokens
  /\ tok \in [Clients -> Tokens \cup {NoTok}] /\ sessTok \in [Clients -> Tokens \cup {NoTok}]
  /\ held \in [Ops -> Tokens \cup {NoTok}]

ConfType == conf \in [Clients -> Config] /\ \A c \in 1..nClients : conf[c].url \in Urls

FlagType ==
  /\ force \in [Clients -> BOOLEAN] /\ poke \in [Clients -> BOOLEAN]
  /\ killed \in [Clients -> BOOLEAN] /\ repaired \in [Clients -> BOOLEAN]
  /\ cooldown \in [Clients -> BOOLEAN] /\ handle \in [Ops -> BOOLEAN] /\ retarget \in BOOLEAN

RunPCs == {"unborn", "ensure", "code", "pairwait", "arm", "quic", "quicUp", "ws", "wsUp", "ended",
           "swap", "auth", "forget", "reensure", "recode", "backoff", "returned"}

RunType ==
  /\ pc \in [Clients -> RunPCs] /\ err \in [Clients -> {"none", "net", "auth"}]
  /\ armed \in [Clients -> {"none", "armed", "fired"}]

OpPCs == {"idle", "pair", "store", "force", "poke", "getcancel", "fire", "probe", "save", "check",
          "point", "persist", "cancel", "nudge"}

OpType ==
  /\ opc \in [Ops -> OpPCs] /\ want \in [Ops -> Addrs]
  /\ target \in [Ops -> Clients \cup {NoClient}]

CountType ==
  /\ fails \in [Clients -> 0..MaxTries] /\ realFails \in [Clients -> 0..MaxTries]
  /\ minted \in 0..MaxTok /\ nOps \in 0..MaxOps
  /\ nClients \in 0..MaxClients /\ tries \in 0..MaxTries /\ boot \in Addrs

IInv ==
  /\ MgrType /\ TokenType /\ ConfType /\ FlagType /\ RunType /\ OpType /\ CountType
  /\ Owned /\ Born /\ CallInv /\ SessionInv /\ PathInv /\ Wakes

LEMMA TypeParts ==
  TypeOK <=> MgrType /\ TokenType /\ ConfType /\ FlagType /\ RunType /\ OpType /\ CountType
  <1>1. {force, poke, killed, repaired, cooldown} \subseteq [Clients -> BOOLEAN]
          <=> /\ force \in [Clients -> BOOLEAN] /\ poke \in [Clients -> BOOLEAN]
              /\ killed \in [Clients -> BOOLEAN] /\ repaired \in [Clients -> BOOLEAN]
              /\ cooldown \in [Clients -> BOOLEAN]
    BY Zenon
  <1> QED BY <1>1, Zenon DEF TypeOK, MgrType, TokenType, ConfType, FlagType, RunType, RunPCs,
                             OpType, OpPCs, CountType

LEMMA InitInv == Init => IInv
  <1> SUFFICES ASSUME Init PROVE IInv
    OBVIOUS
  <1> USE LinkAssumption DEF Init
  <1>1. MgrType
    <2>1. cfg.token \in Tokens \cup {NoTok}
      BY DEF Tokens, Addrs
    <2>2. file \in Addrs /\ BootCode \in BOOLEAN
      BY DEF Addrs
    <2>3. cfg \in Config
      BY <2>1, <2>2 DEF Config
    <2> QED BY <2>2, <2>3 DEF MgrType
  <1>2. TokenType
    BY DEF Tokens, TokenType
  <1>3. ConfType
    BY <1>1 DEF MgrType, ConfType
  <1>4. FlagType
    <2>1. \A S : [c \in S |-> FALSE] \in [S -> BOOLEAN]
      OBVIOUS
    <2>2. retarget \in BOOLEAN
      BY Zenon
    <2> QED BY <2>1, <2>2 DEF FlagType
  <1>5. RunType /\ OpType
    BY DEF RunType, RunPCs, OpType, OpPCs, Addrs
  <1>6. CountType
    BY DEF CountType, Addrs
  <1>8. Owned
    BY DEF Owned, AtBoot, OfConf, OfHub, NoTok
  <1>9. Born /\ CallInv
    BY DEF Born, CallInv, InRepair, NoClient
  <1>10. SessionInv
    BY DEF SessionInv, SessionAt, Playing, Up
  <1>11. PathInv
    BY DEF PathInv, PathAt, Dialling
  <1>12. Wakes
    BY DEF Wakes, LocalModeWakes, MoveInv, MoveKept
  <1> QED BY <1>1, <1>2, <1>3, <1>4, <1>5, <1>6, <1>8, <1>9, <1>10, <1>11, <1>12 DEF IInv

\* The manager's variables keep their types.
LEMMA MgrTyped ==
  ASSUME IInv, Next
  PROVE  MgrType'
  <1>1. CASE MgrTop
    BY <1>1 DEF
       MgrTop, IInv, MgrType, mgrVars, diskVars
  <1>2. CASE MgrBuild
    BY <1>2, LinkAssumption DEF
       MgrBuild, Step, IInv, MgrType, CountType, Clients, mgrVars, diskVars
  <1>3. CASE MgrReturned
    BY <1>3 DEF
       MgrReturned, IInv, MgrType, mgrVars, diskVars
  <1>4. CASE MgrWoken
    BY <1>4 DEF
       MgrWoken, IInv, MgrType, mgrVars, diskVars
  <1>5. CASE MgrTimer
    BY <1>5 DEF
       MgrTimer, IInv, MgrType, mgrVars, diskVars
  <1>6. ASSUME NEW o \in Ops, Point(o) PROVE MgrType'
    BY <1>6, LinkAssumption DEF
       Point, IInv, MgrType, OpType, Config, mgrVars, diskVars
  <1>7. ASSUME NEW o \in Ops, Persist(o) PROVE MgrType'
    BY <1>7 DEF
       Persist, OpGo, IInv, MgrType, OpType, mgrVars, diskVars
  <1>8. CASE UNCHANGED <<cfg, snap, file, cur, mpc>>
    BY <1>8 DEF IInv, MgrType
  <1>9. Revoke
          => UNCHANGED <<cfg, snap, file, cur, mpc>>
    BY DEF Revoke, mgrVars, diskVars
  <1>10. \A c \in Clients : EnsureToken(c) \/ PairByCode(c) \/ WaitWoken(c) \/ WaitTimer(c) \/
                            Exit(c) \/ Arm(c) \/ QuicDial(c) \/ QuicEnds(c) \/ WsDial(c) \/
                            WsEnds(c) \/ Ended(c) \/ Swap(c) \/ AuthRetry(c) \/
                            ClearState(c) \/ CooldownLapses(c)
          => UNCHANGED <<cfg, snap, file, cur, mpc>>
    BY DEF EnsureToken, PairByCode, WaitWoken, WaitTimer, Exit, Arm, QuicDial, QuicEnds,
            WsDial, WsEnds, Ended, Swap, AuthRetry, ClearState, CooldownLapses, mgrVars,
            diskVars
  <1>11. \A o \in Ops : ClientPair(o) \/ StoreToken(o) \/ SetForce(o) \/ Poke(o) \/
                        GetCancel(o) \/ Fire(o) \/ PairWith(o) \/ Reuse(o) \/ Disconnect(o) \/
                        Probe(o) \/ Save(o) \/ Check(o) \/ CancelRun(o) \/ Nudge(o)
          => UNCHANGED <<cfg, snap, file, cur, mpc>>
    BY DEF ClientPair, StoreToken, SetForce, Poke, GetCancel, Fire, PairWith, Reuse,
            Disconnect, Probe, Save, Check, CancelRun, Nudge, Start, mgrVars, diskVars
  <1> QED BY <1>1, <1>2, <1>3, <1>4, <1>5, <1>6, <1>7, <1>8, <1>9, <1>10, <1>11 DEF Next, Manager,
              ClientStep, SessionEnds, Call, OpStep

\* A token that the hub mints is one the model knows; with the token a client dials
\* it is the only source of tokens.
LEMMA MintFacts ==
  ASSUME IInv, NEW u \in Urls, Mint(u)
  PROVE  /\ <<u, minted + 1>> \in Tokens /\ <<u, minted + 1>> # NoTok
         /\ valid' \subseteq Tokens /\ minted' \in 0..MaxTok
  BY LinkAssumption DEF IInv, Mint, Tokens, TokenType, CountType, NoTok

LEMMA HostTokenFacts ==
  ASSUME IInv, NEW c \in Clients
  PROVE  HostToken(c) \in Tokens \cup {NoTok} /\ OfConf(HostToken(c), conf[c])
  BY DEF IInv, HostToken, TokenType, ConfType, Config, Owned, OfConf

LEMMA BornFacts ==
  ASSUME IInv, NEW c \in Clients, pc[c] # "unborn"
  PROVE  c \in 1..nClients /\ conf[c].url \in Urls
  BY DEF IInv, Born, ConfType

\* A call that repairs works on a client that was built.
LEMMA TargetFacts ==
  ASSUME IInv, NEW o \in Ops, opc[o] \in InRepair
  PROVE  target[o] \in Clients /\ target[o] \in 1..nClients /\ conf[target[o]].url \in Urls
  BY LinkAssumption DEF IInv, CallInv, OpType, CountType, Clients, NoClient, ConfType

\* Tokens only come from the hub and from the startup configuration.
LEMMA TokensTyped ==
  ASSUME IInv, Next
  PROVE  TokenType'
  <1>1. ASSUME NEW c \in Clients, EnsureToken(c) PROVE TokenType'
    BY <1>1 DEF EnsureToken, IInv, TokenType, ConfType, Config, diskVars, opVars, hubVars
  <1>2. ASSUME NEW c \in Clients, PairByCode(c) PROVE TokenType'
    <2>1. conf[c].url \in Urls
      BY <1>2, BornFacts DEF PairByCode
    <2>2. CASE Mint(conf[c].url)
      BY <1>2, <2>1, <2>2, MintFacts DEF PairByCode, IInv, TokenType, opVars
    <2>3. CASE UNCHANGED <<tok, disk, repaired, hubVars>>
      BY <1>2, <2>3 DEF PairByCode, IInv, TokenType, opVars, hubVars
    <2> QED BY <1>2, <2>2, <2>3 DEF PairByCode
  <1>3. ASSUME NEW c \in Clients, QuicDial(c) PROVE TokenType'
    BY <1>3, HostTokenFacts DEF QuicDial, IInv, TokenType, diskVars, opVars, hubVars
  <1>4. ASSUME NEW c \in Clients, WsDial(c) PROVE TokenType'
    BY <1>4, HostTokenFacts DEF WsDial, IInv, TokenType, diskVars, opVars, hubVars
  <1>5. ASSUME NEW c \in Clients, ClearState(c) PROVE TokenType'
    BY <1>5 DEF ClearState, IInv, TokenType, opVars, hubVars
  <1>6. ASSUME NEW o \in Ops, ClientPair(o) PROVE TokenType'
    <2>1. conf[target[o]].url \in Urls
      BY <1>6, TargetFacts DEF ClientPair, InRepair
    <2>2. CASE Mint(conf[target[o]].url) /\ Hold(o, <<conf[target[o]].url, minted + 1>>, "store")
      BY <1>6, <2>1, <2>2, MintFacts DEF ClientPair, Hold, IInv, TokenType, diskVars, clientVars
    <2>3. CASE Return(o) /\ UNCHANGED hubVars
      BY <1>6, <2>3 DEF ClientPair, Return, IInv, TokenType, diskVars, clientVars, hubVars
    <2> QED BY <1>6, <2>2, <2>3 DEF ClientPair
  <1>7. ASSUME NEW o \in Ops, StoreToken(o) PROVE TokenType'
    BY <1>7, TargetFacts DEF StoreToken, OpGo, InRepair, IInv, TokenType, hubVars
  <1>8. ASSUME NEW o \in Ops, Fire(o) PROVE TokenType'
    BY <1>8 DEF Fire, Return, IInv, TokenType, diskVars, clientVars, hubVars
  <1>9. ASSUME NEW o \in Ops, Probe(o) PROVE TokenType'
    <2>1. want[o] \in Urls
      BY <1>9 DEF Probe, IInv, CallInv
    <2>2. CASE Mint(want[o]) /\ Hold(o, <<want[o], minted + 1>>, "save")
      BY <1>9, <2>1, <2>2, MintFacts DEF Probe, Hold, IInv, TokenType, diskVars, clientVars
    <2>3. CASE Return(o) /\ UNCHANGED hubVars
      BY <1>9, <2>3 DEF Probe, Return, IInv, TokenType, diskVars, clientVars, hubVars
    <2> QED BY <1>9, <2>2, <2>3 DEF Probe
  <1>10. ASSUME NEW o \in Ops, Save(o) PROVE TokenType'
    BY <1>10 DEF Save, OpGo, Return, IInv, TokenType, diskVars, clientVars, hubVars
  <1>11. ASSUME NEW o \in Ops, Check(o) PROVE TokenType'
    BY <1>11 DEF Check, OpGo, Return, IInv, TokenType, diskVars, clientVars, hubVars
  <1>12. ASSUME NEW o \in Ops, Nudge(o) PROVE TokenType'
    BY <1>12 DEF Nudge, Return, IInv, TokenType, diskVars, clientVars, hubVars
  <1>13. CASE Revoke
    BY <1>13 DEF Revoke, IInv, TokenType, diskVars, clientVars, opVars
  <1>14. CASE UNCHANGED <<disk, valid, tok, sessTok, held>>
    BY <1>14 DEF IInv, TokenType
  <1>15. MgrTop \/ MgrBuild \/ MgrReturned \/ MgrWoken \/ MgrTimer
          => UNCHANGED <<disk, valid, tok, sessTok, held>>
    BY DEF MgrTop, MgrBuild, MgrReturned, MgrWoken, MgrTimer, diskVars, clientVars, opVars,
            hubVars
  <1>16. \A c \in Clients : WaitWoken(c) \/ WaitTimer(c) \/ Exit(c) \/ Arm(c) \/
                            QuicEnds(c) \/ WsEnds(c) \/ Ended(c) \/ Swap(c) \/ AuthRetry(c) \/
                            CooldownLapses(c)
          => UNCHANGED <<disk, valid, tok, sessTok, held>>
    BY DEF WaitWoken, WaitTimer, Exit, Arm, QuicEnds, WsEnds, Ended, Swap, AuthRetry,
            CooldownLapses, diskVars, clientVars, opVars, hubVars
  <1>17. \A o \in Ops : SetForce(o) \/ Poke(o) \/ GetCancel(o) \/ PairWith(o) \/ Reuse(o) \/
                        Disconnect(o) \/ Point(o) \/ Persist(o) \/ CancelRun(o)
          => UNCHANGED <<disk, valid, tok, sessTok, held>>
    BY DEF SetForce, Poke, GetCancel, PairWith, Reuse, Disconnect, Point, Persist, CancelRun,
            OpGo, Start, diskVars, clientVars, opVars, hubVars
  <1> QED BY <1>1, <1>2, <1>3, <1>4, <1>5, <1>6, <1>7, <1>8, <1>9, <1>10, <1>11, <1>12, <1>13,
           <1>14, <1>15, <1>16, <1>17 DEF Next, Manager,
              ClientStep, SessionEnds, Call, OpStep

\* Clients are only built for an address.
LEMMA ConfTyped ==
  ASSUME IInv, Next
  PROVE  ConfType'
  <1>1. CASE MgrBuild
    <2>1. nClients + 1 \in Clients /\ snap \in Config /\ snap.url \in Urls
      BY <1>1, LinkAssumption DEF MgrBuild, IInv, CountType, MgrType, Born, Clients
    <2> QED BY <1>1, <2>1 DEF MgrBuild, IInv, ConfType, CountType
  <1>2. CASE UNCHANGED <<conf, nClients>>
    BY <1>2 DEF IInv, ConfType
  <1>3. MgrTop \/ MgrReturned \/ MgrWoken \/ MgrTimer \/ Revoke
          => UNCHANGED <<conf, nClients>>
    BY DEF MgrTop, MgrReturned, MgrWoken, MgrTimer, Revoke, clientVars, bounds
  <1>4. \A c \in Clients : EnsureToken(c) \/ PairByCode(c) \/ WaitWoken(c) \/ WaitTimer(c) \/
                           Exit(c) \/ Arm(c) \/ QuicDial(c) \/ QuicEnds(c) \/ WsDial(c) \/
                           WsEnds(c) \/ Ended(c) \/ Swap(c) \/ AuthRetry(c) \/
                           ClearState(c) \/ CooldownLapses(c)
          => UNCHANGED <<conf, nClients>>
    BY DEF EnsureToken, PairByCode, WaitWoken, WaitTimer, Exit, Arm, QuicDial, QuicEnds,
            WsDial, WsEnds, Ended, Swap, AuthRetry, ClearState, CooldownLapses, clientVars,
            bounds
  <1>5. \A o \in Ops : ClientPair(o) \/ StoreToken(o) \/ SetForce(o) \/ Poke(o) \/
                       GetCancel(o) \/ Fire(o) \/ PairWith(o) \/ Reuse(o) \/ Disconnect(o) \/
                       Probe(o) \/ Save(o) \/ Check(o) \/ Point(o) \/ Persist(o) \/
                       CancelRun(o) \/ Nudge(o)
          => UNCHANGED <<conf, nClients>>
    BY DEF ClientPair, StoreToken, SetForce, Poke, GetCancel, Fire, PairWith, Reuse,
            Disconnect, Probe, Save, Check, Point, Persist, CancelRun, Nudge, Start,
            clientVars, bounds
  <1> QED BY <1>1, <1>2, <1>3, <1>4, <1>5 DEF Next, Manager,
              ClientStep, SessionEnds, Call, OpStep

\* Run goes from one of its places to another.
LEMMA RunsTyped ==
  ASSUME IInv, Next
  PROVE  RunType'
  <1>1. CASE MgrBuild
    BY <1>1 DEF MgrBuild, Step, IInv, RunType, RunPCs, CountType, Clients
  <1>2. ASSUME NEW c \in Clients, EnsureToken(c) PROVE RunType'
    BY <1>2 DEF EnsureToken, NotFound, Step, IInv, RunType, RunPCs
  <1>3. ASSUME NEW c \in Clients, PairByCode(c) PROVE RunType'
    BY <1>3 DEF PairByCode, NotFound, Step, IInv, RunType, RunPCs
  <1>4. ASSUME NEW c \in Clients, WaitWoken(c) PROVE RunType'
    BY <1>4 DEF WaitWoken, Step, Next_, IInv, RunType, RunPCs
  <1>5. ASSUME NEW c \in Clients, WaitTimer(c) PROVE RunType'
    BY <1>5 DEF WaitTimer, Step, Next_, IInv, RunType, RunPCs
  <1>6. ASSUME NEW c \in Clients, Exit(c) PROVE RunType'
    BY <1>6 DEF Exit, Step, IInv, RunType, RunPCs
  <1>7. ASSUME NEW c \in Clients, Arm(c) PROVE RunType'
    BY <1>7 DEF Arm, Step, Armed, IInv, RunType, RunPCs
  <1>8. ASSUME NEW c \in Clients, QuicDial(c) PROVE RunType'
    BY <1>8 DEF QuicDial, Step, QuicOver, IInv, RunType, RunPCs
  <1>9. ASSUME NEW c \in Clients, QuicEnds(c) PROVE RunType'
    BY <1>9 DEF QuicEnds, Step, QuicOver, IInv, RunType, RunPCs
  <1>10. ASSUME NEW c \in Clients, WsDial(c) PROVE RunType'
    BY <1>10 DEF WsDial, Step, Failed, IInv, RunType, RunPCs
  <1>11. ASSUME NEW c \in Clients, WsEnds(c) PROVE RunType'
    BY <1>11 DEF WsEnds, Step, Failed, IInv, RunType, RunPCs
  <1>12. ASSUME NEW c \in Clients, Ended(c) PROVE RunType'
    BY <1>12 DEF Ended, Step, IInv, RunType, RunPCs
  <1>13. ASSUME NEW c \in Clients, Swap(c) PROVE RunType'
    BY <1>13 DEF Swap, Step, IInv, RunType, RunPCs
  <1>14. ASSUME NEW c \in Clients, AuthRetry(c) PROVE RunType'
    BY <1>14 DEF AuthRetry, Step, IInv, RunType, RunPCs
  <1>15. ASSUME NEW c \in Clients, ClearState(c) PROVE RunType'
    BY <1>15 DEF ClearState, Step, IInv, RunType, RunPCs
  <1>16. ASSUME NEW o \in Ops, Fire(o) PROVE RunType'
    BY <1>16, TargetFacts DEF Fire, InRepair, IInv, RunType
  <1>17. CASE UNCHANGED <<pc, err, armed>>
    BY <1>17 DEF IInv, RunType
  <1>18. MgrTop \/ MgrReturned \/ MgrWoken \/ MgrTimer \/ Revoke
          => UNCHANGED <<pc, err, armed>>
    BY DEF MgrTop, MgrReturned, MgrWoken, MgrTimer, Revoke, clientVars
  <1>19. \A c \in Clients : CooldownLapses(c)
          => UNCHANGED <<pc, err, armed>>
    BY DEF CooldownLapses, clientVars
  <1>20. \A o \in Ops : ClientPair(o) \/ StoreToken(o) \/ SetForce(o) \/ Poke(o) \/
                        GetCancel(o) \/ PairWith(o) \/ Reuse(o) \/ Disconnect(o) \/
                        Probe(o) \/ Save(o) \/ Check(o) \/ Point(o) \/ Persist(o) \/
                        CancelRun(o) \/ Nudge(o)
          => UNCHANGED <<pc, err, armed>>
    BY DEF ClientPair, StoreToken, SetForce, Poke, GetCancel, PairWith, Reuse, Disconnect,
            Probe, Save, Check, Point, Persist, CancelRun, Nudge, Start, clientVars
  <1> QED BY <1>1, <1>2, <1>3, <1>4, <1>5, <1>6, <1>7, <1>8, <1>9, <1>10, <1>11, <1>12, <1>13,
           <1>14, <1>15, <1>16, <1>17, <1>18, <1>19, <1>20 DEF Next, Manager,
              ClientStep, SessionEnds, Call, OpStep

\* A flag is set or it is not.
LEMMA FlagsTyped ==
  ASSUME IInv, Next
  PROVE  FlagType'
  <1>1. CASE MgrWoken
    BY <1>1 DEF MgrWoken, IInv, FlagType, clientVars, opVars
  <1>2. ASSUME NEW c \in Clients, EnsureToken(c) PROVE FlagType'
    BY <1>2 DEF EnsureToken, Found, IInv, FlagType, mgrVars, opVars
  <1>3. ASSUME NEW c \in Clients, PairByCode(c) PROVE FlagType'
    BY <1>3 DEF PairByCode, Found, IInv, FlagType, mgrVars, opVars
  <1>4. ASSUME NEW c \in Clients, WaitWoken(c) PROVE FlagType'
    BY <1>4 DEF WaitWoken, IInv, FlagType, mgrVars, opVars
  <1>5. ASSUME NEW c \in Clients, Arm(c) PROVE FlagType'
    BY <1>5 DEF Arm, IInv, FlagType, mgrVars, opVars
  <1>6. ASSUME NEW c \in Clients, QuicDial(c) PROVE FlagType'
    BY <1>6 DEF QuicDial, QuicOver, NoteQuicOutcome, IInv, FlagType, mgrVars, opVars
  <1>7. ASSUME NEW c \in Clients, QuicEnds(c) PROVE FlagType'
    BY <1>7 DEF QuicEnds, QuicOver, NoteQuicOutcome, IInv, FlagType, mgrVars, opVars
  <1>8. ASSUME NEW c \in Clients, Swap(c) PROVE FlagType'
    BY <1>8 DEF Swap, IInv, FlagType, mgrVars, opVars
  <1>9. ASSUME NEW c \in Clients, CooldownLapses(c) PROVE FlagType'
    BY <1>9 DEF CooldownLapses, IInv, FlagType, mgrVars, opVars
  <1>10. ASSUME NEW o \in Ops, ClientPair(o) PROVE FlagType'
    BY <1>10 DEF ClientPair, Hold, Return, IInv, FlagType, mgrVars, clientVars
  <1>11. ASSUME NEW o \in Ops, SetForce(o) PROVE FlagType'
    BY <1>11 DEF SetForce, OpGo, IInv, FlagType, mgrVars
  <1>12. ASSUME NEW o \in Ops, Poke(o) PROVE FlagType'
    BY <1>12 DEF Poke, OpGo, IInv, FlagType, mgrVars
  <1>13. ASSUME NEW o \in Ops, GetCancel(o) PROVE FlagType'
    BY <1>13 DEF GetCancel, IInv, FlagType, mgrVars, clientVars
  <1>14. ASSUME NEW o \in Ops, Fire(o) PROVE FlagType'
    BY <1>14 DEF Fire, Return, IInv, FlagType, mgrVars, clientVars
  <1>15. ASSUME NEW o \in Ops, Probe(o) PROVE FlagType'
    BY <1>15 DEF Probe, Hold, Return, IInv, FlagType, mgrVars, clientVars
  <1>16. ASSUME NEW o \in Ops, Save(o) PROVE FlagType'
    BY <1>16 DEF Save, OpGo, Return, IInv, FlagType, mgrVars, clientVars
  <1>17. ASSUME NEW o \in Ops, Check(o) PROVE FlagType'
    BY <1>17 DEF Check, OpGo, Return, IInv, FlagType, mgrVars, clientVars
  <1>18. ASSUME NEW o \in Ops, CancelRun(o) PROVE FlagType'
    BY <1>18 DEF CancelRun, OpGo, IInv, FlagType, mgrVars
  <1>19. ASSUME NEW o \in Ops, Nudge(o) PROVE FlagType'
    BY <1>19 DEF Nudge, Return, IInv, FlagType, mgrVars, clientVars
  <1>20. CASE UNCHANGED <<force, poke, killed, repaired, cooldown, handle, retarget>>
    BY <1>20 DEF IInv, FlagType
  <1>21. MgrTop \/ MgrBuild \/ MgrReturned \/ MgrTimer \/ Revoke
          => UNCHANGED <<force, poke, killed, repaired, cooldown, handle, retarget>>
    BY DEF MgrTop, MgrBuild, MgrReturned, MgrTimer, Revoke, mgrVars, clientVars, opVars
  <1>22. \A c \in Clients : WaitTimer(c) \/ Exit(c) \/ WsDial(c) \/ WsEnds(c) \/ Ended(c) \/
                            AuthRetry(c) \/ ClearState(c)
          => UNCHANGED <<force, poke, killed, repaired, cooldown, handle, retarget>>
    BY DEF WaitTimer, Exit, WsDial, WsEnds, Ended, AuthRetry, ClearState, mgrVars, clientVars,
            opVars
  <1>23. \A o \in Ops : StoreToken(o) \/ PairWith(o) \/ Reuse(o) \/ Disconnect(o) \/
                        Point(o) \/ Persist(o)
          => UNCHANGED <<force, poke, killed, repaired, cooldown, handle, retarget>>
    BY DEF StoreToken, PairWith, Reuse, Disconnect, Point, Persist, OpGo, Start, mgrVars,
            clientVars, opVars
  <1> QED BY <1>1, <1>2, <1>3, <1>4, <1>5, <1>6, <1>7, <1>8, <1>9, <1>10, <1>11, <1>12, <1>13,
           <1>14, <1>15, <1>16, <1>17, <1>18, <1>19, <1>20, <1>21, <1>22, <1>23 DEF Next, Manager,
              ClientStep, SessionEnds, Call, OpStep

\* A call goes from one of its places to another.
LEMMA OpsTyped ==
  ASSUME IInv, Next
  PROVE  OpType'
  <1>1. ASSUME NEW o \in Ops, ClientPair(o) PROVE OpType'
    BY <1>1 DEF ClientPair, Hold, Return, IInv, OpType, OpPCs, Addrs
  <1>2. ASSUME NEW o \in Ops, StoreToken(o) PROVE OpType'
    BY <1>2 DEF StoreToken, OpGo, IInv, OpType, OpPCs
  <1>3. ASSUME NEW o \in Ops, SetForce(o) PROVE OpType'
    BY <1>3 DEF SetForce, OpGo, IInv, OpType, OpPCs
  <1>4. ASSUME NEW o \in Ops, Poke(o) PROVE OpType'
    BY <1>4 DEF Poke, OpGo, IInv, OpType, OpPCs
  <1>5. ASSUME NEW o \in Ops, GetCancel(o) PROVE OpType'
    BY <1>5 DEF GetCancel, IInv, OpType, OpPCs
  <1>6. ASSUME NEW o \in Ops, Fire(o) PROVE OpType'
    BY <1>6 DEF Fire, Return, IInv, OpType, OpPCs, Addrs
  <1>7. ASSUME NEW o \in Ops, PairWith(o) PROVE OpType'
    BY <1>7 DEF PairWith, Start, Wanted, IInv, OpType, OpPCs, Addrs, MgrType, Config
  <1>8. ASSUME NEW o \in Ops, Reuse(o) PROVE OpType'
    BY <1>8 DEF Reuse, Start, Wanted, IInv, OpType, OpPCs, Addrs, MgrType, Config
  <1>9. ASSUME NEW o \in Ops, Disconnect(o) PROVE OpType'
    BY <1>9 DEF Disconnect, Start, IInv, OpType, OpPCs, Addrs
  <1>10. ASSUME NEW o \in Ops, Probe(o) PROVE OpType'
    BY <1>10 DEF Probe, Hold, Return, IInv, OpType, OpPCs, Addrs
  <1>11. ASSUME NEW o \in Ops, Save(o) PROVE OpType'
    BY <1>11 DEF Save, OpGo, Return, IInv, OpType, OpPCs, Addrs
  <1>12. ASSUME NEW o \in Ops, Check(o) PROVE OpType'
    BY <1>12 DEF Check, OpGo, Return, IInv, OpType, OpPCs, Addrs
  <1>13. ASSUME NEW o \in Ops, Point(o) PROVE OpType'
    BY <1>13 DEF Point, IInv, OpType, OpPCs, MgrType
  <1>14. ASSUME NEW o \in Ops, Persist(o) PROVE OpType'
    BY <1>14 DEF Persist, OpGo, IInv, OpType, OpPCs
  <1>15. ASSUME NEW o \in Ops, CancelRun(o) PROVE OpType'
    BY <1>15 DEF CancelRun, OpGo, IInv, OpType, OpPCs
  <1>16. ASSUME NEW o \in Ops, Nudge(o) PROVE OpType'
    BY <1>16 DEF Nudge, Return, IInv, OpType, OpPCs, Addrs
  <1>17. CASE UNCHANGED <<opc, want, target>>
    BY <1>17 DEF IInv, OpType
  <1>18. MgrTop \/ MgrBuild \/ MgrReturned \/ MgrWoken \/ MgrTimer \/ Revoke
          => UNCHANGED <<opc, want, target>>
    BY DEF MgrTop, MgrBuild, MgrReturned, MgrWoken, MgrTimer, Revoke, opVars
  <1>19. \A c \in Clients : EnsureToken(c) \/ PairByCode(c) \/ WaitWoken(c) \/ WaitTimer(c) \/
                            Exit(c) \/ Arm(c) \/ QuicDial(c) \/ QuicEnds(c) \/ WsDial(c) \/
                            WsEnds(c) \/ Ended(c) \/ Swap(c) \/ AuthRetry(c) \/
                            ClearState(c) \/ CooldownLapses(c)
          => UNCHANGED <<opc, want, target>>
    BY DEF EnsureToken, PairByCode, WaitWoken, WaitTimer, Exit, Arm, QuicDial, QuicEnds,
            WsDial, WsEnds, Ended, Swap, AuthRetry, ClearState, CooldownLapses, opVars
  <1> QED BY <1>1, <1>2, <1>3, <1>4, <1>5, <1>6, <1>7, <1>8, <1>9, <1>10, <1>11, <1>12, <1>13,
           <1>14, <1>15, <1>16, <1>17, <1>18, <1>19 DEF Next, Manager,
              ClientStep, SessionEnds, Call, OpStep

\* How a QUIC session's end changes the counters of its own client.
LEMMA OutcomeFacts ==
  ASSUME IInv, NEW c \in Clients, NEW b \in BOOLEAN, QuicOver(c, b)
  PROVE  /\ \A d \in Clients : d # c => fails'[d] = fails[d] /\ realFails'[d] = realFails[d]
                                        /\ (cooldown'[d] <=> cooldown[d]) /\ pc'[d] = pc[d]
         /\ pc'[c] \in {"ended", "ws"}
         /\ \/ /\ fails'[c] = fails[c] /\ realFails'[c] = realFails[c]
               /\ cooldown'[c] <=> cooldown[c]
            \/ /\ b /\ fails'[c] = 0 /\ realFails'[c] = 0 /\ (cooldown'[c] <=> cooldown[c])
            \/ /\ ~b /\ fails'[c] = fails[c] + 1 /\ realFails'[c] = realFails[c] + 1
               /\ cooldown'[c] <=> cooldown[c] \/ fails[c] + 1 = QuicFailMax
         /\ DOMAIN fails' = Clients /\ DOMAIN realFails' = Clients
  <1>1. pc'[c] \in {"ended", "ws"} /\ \A d \in Clients : d # c => pc'[d] = pc[d]
    BY DEF QuicOver, Step, IInv, RunType
  <1>2. CASE ~Counts(c)
    BY <1>1, <1>2 DEF QuicOver, IInv, CountType
  <1>3. CASE Counts(c)
    <2>1. NoteQuicOutcome(c, b) /\ ~Cancelled(c)
      BY <1>3 DEF QuicOver, Counts
    <2>2. /\ fails' = [fails EXCEPT ![c] = IF b THEN 0 ELSE fails[c] + 1]
          /\ realFails' = [realFails EXCEPT ![c] = IF b THEN 0 ELSE realFails[c] + 1]
          /\ cooldown' = [cooldown EXCEPT ![c] = cooldown[c] \/ (~b /\ fails[c] + 1 = QuicFailMax)]
      BY <2>1 DEF NoteQuicOutcome
    <2>3. /\ fails'[c] = IF b THEN 0 ELSE fails[c] + 1
          /\ realFails'[c] = IF b THEN 0 ELSE realFails[c] + 1
          /\ DOMAIN fails' = Clients /\ DOMAIN realFails' = Clients
          /\ \A d \in Clients : d # c => fails'[d] = fails[d] /\ realFails'[d] = realFails[d]
      BY <2>2 DEF IInv, CountType
    <2>4. /\ cooldown'[c] <=> cooldown[c] \/ (~b /\ fails[c] + 1 = QuicFailMax)
          /\ \A d \in Clients : d # c => (cooldown'[d] <=> cooldown[d])
      BY <2>2 DEF IInv, FlagType
    <2> QED BY <1>1, <2>3, <2>4
  <1> QED BY <1>2, <1>3

\* A step that dials nothing keeps the counters as they are.
LEMMA PathFrame ==
  ASSUME IInv, UNCHANGED <<fails, realFails, cooldown, tries>>,
         \A c \in Clients : pc'[c] # pc[c] => pc'[c] \notin {"quic", "quicUp"}
  PROVE  PathInv'
  <1>1. \A c \in Clients : Dialling(c)' <= Dialling(c) /\ Dialling(c) \in 0..1 /\ Dialling(c)' \in 0..1
    BY DEF Dialling
  <1>2. \A c \in Clients : fails[c] \in Nat /\ realFails[c] \in Nat /\ tries \in Nat
    BY LinkAssumption DEF IInv, CountType
  <1> QED BY <1>1, <1>2 DEF IInv, PathInv, PathAt

\* Each session counts one failure at most.
LEMMA CountsTyped ==
  ASSUME IInv, Next
  PROVE  CountType'
  <1>1. CASE MgrBuild
    BY <1>1, LinkAssumption DEF MgrBuild, IInv, CountType, clientVars, hubVars
  <1>2. ASSUME NEW c \in Clients, PairByCode(c) PROVE CountType'
    <2>1. conf[c].url \in Urls
      BY <1>2, BornFacts DEF PairByCode
    <2> QED BY <1>2, <2>1, MintFacts DEF PairByCode, IInv, CountType, hubVars, bounds
  <1>3. ASSUME NEW c \in Clients, Arm(c) PROVE CountType'
    BY <1>3, LinkAssumption DEF Arm, IInv, CountType, hubVars
  <1>4. ASSUME NEW c \in Clients, QuicDial(c) PROVE CountType'
    <2>1. fails[c] + 1 \in 0..MaxTries /\ realFails[c] + 1 \in 0..MaxTries
      BY <1>4, LinkAssumption DEF QuicDial, IInv, CountType, PathInv, PathAt, Dialling
    <2>2. CASE UNCHANGED <<fails, realFails>>
      BY <1>4, <2>2 DEF QuicDial, IInv, CountType, hubVars, bounds
    <2>3. CASE QuicOver(c, FALSE)
      BY <1>4, <2>1, <2>3 DEF QuicDial, QuicOver, NoteQuicOutcome, IInv, CountType, hubVars, bounds
    <2> QED BY <1>4, <2>2, <2>3 DEF QuicDial
  <1>5. ASSUME NEW c \in Clients, QuicEnds(c) PROVE CountType'
    BY <1>5, LinkAssumption DEF QuicEnds, QuicOver, NoteQuicOutcome, IInv, CountType, hubVars,
       bounds
  <1>6. ASSUME NEW c \in Clients, CooldownLapses(c) PROVE CountType'
    BY <1>6, LinkAssumption DEF CooldownLapses, IInv, CountType, hubVars, bounds
  <1>7. ASSUME NEW o \in Ops, ClientPair(o) PROVE CountType'
    <2>1. conf[target[o]].url \in Urls
      BY <1>7, TargetFacts DEF ClientPair, InRepair
    <2> QED BY <1>7, <2>1, MintFacts DEF ClientPair, IInv, CountType, clientVars, hubVars, bounds
  <1>8. ASSUME NEW o \in Ops, PairWith(o) PROVE CountType'
    BY <1>8, LinkAssumption DEF PairWith, Start, IInv, CountType, clientVars, hubVars
  <1>9. ASSUME NEW o \in Ops, Reuse(o) PROVE CountType'
    BY <1>9, LinkAssumption DEF Reuse, Start, IInv, CountType, clientVars, hubVars
  <1>10. ASSUME NEW o \in Ops, Disconnect(o) PROVE CountType'
    BY <1>10, LinkAssumption DEF Disconnect, Start, IInv, CountType, clientVars, hubVars
  <1>11. ASSUME NEW o \in Ops, Probe(o) PROVE CountType'
    <2>1. want[o] \in Urls
      BY <1>11 DEF Probe, IInv, CallInv
    <2> QED BY <1>11, <2>1, MintFacts DEF Probe, IInv, CountType, clientVars, hubVars, bounds
  <1>12. CASE UNCHANGED <<fails, realFails, minted, nOps, nClients, tries, boot>>
    BY <1>12 DEF IInv, CountType
  <1>13. MgrTop \/ MgrReturned \/ MgrWoken \/ MgrTimer \/ Revoke
          => UNCHANGED <<fails, realFails, minted, nOps, nClients, tries, boot>>
    BY DEF MgrTop, MgrReturned, MgrWoken, MgrTimer, Revoke, clientVars, hubVars, bounds
  <1>14. \A c \in Clients : EnsureToken(c) \/ WaitWoken(c) \/ WaitTimer(c) \/ Exit(c) \/
                            WsDial(c) \/ WsEnds(c) \/ Ended(c) \/ Swap(c) \/ AuthRetry(c) \/
                            ClearState(c)
          => UNCHANGED <<fails, realFails, minted, nOps, nClients, tries, boot>>
    BY DEF EnsureToken, WaitWoken, WaitTimer, Exit, WsDial, WsEnds, Ended, Swap, AuthRetry,
            ClearState, clientVars, hubVars, bounds
  <1>15. \A o \in Ops : StoreToken(o) \/ SetForce(o) \/ Poke(o) \/ GetCancel(o) \/ Fire(o) \/
                        Save(o) \/ Check(o) \/ Point(o) \/ Persist(o) \/ CancelRun(o) \/
                        Nudge(o)
          => UNCHANGED <<fails, realFails, minted, nOps, nClients, tries, boot>>
    BY DEF StoreToken, SetForce, Poke, GetCancel, Fire, Save, Check, Point, Persist, CancelRun,
            Nudge, clientVars, hubVars, bounds
  <1> QED BY <1>1, <1>2, <1>3, <1>4, <1>5, <1>6, <1>7, <1>8, <1>9, <1>10, <1>11, <1>12, <1>13,
           <1>14, <1>15 DEF Next, Manager,
              ClientStep, SessionEnds, Call, OpStep

\* The cooldown is armed by failures of the path, in a row.
LEMMA PathKept ==
  ASSUME IInv, Next
  PROVE  PathInv'
  <1>1. CASE MgrBuild
    BY <1>1, PathFrame DEF MgrBuild, Step, IInv, RunType
  <1>2. ASSUME NEW c \in Clients, EnsureToken(c) PROVE PathInv'
    BY <1>2, PathFrame DEF EnsureToken, NotFound, Step, IInv, RunType, bounds
  <1>3. ASSUME NEW c \in Clients, PairByCode(c) PROVE PathInv'
    BY <1>3, PathFrame DEF PairByCode, NotFound, Step, IInv, RunType, bounds
  <1>4. ASSUME NEW c \in Clients, WaitWoken(c) PROVE PathInv'
    BY <1>4, PathFrame DEF WaitWoken, Step, Next_, IInv, RunType, bounds
  <1>5. ASSUME NEW c \in Clients, WaitTimer(c) PROVE PathInv'
    BY <1>5, PathFrame DEF WaitTimer, Step, Next_, IInv, RunType, bounds
  <1>6. ASSUME NEW c \in Clients, Exit(c) PROVE PathInv'
    BY <1>6, PathFrame DEF Exit, Step, IInv, RunType, bounds
  <1>7. ASSUME NEW c \in Clients, Arm(c) PROVE PathInv'
    BY <1>7, LinkAssumption DEF Arm, Step, IInv, PathInv, PathAt, Dialling, RunType, CountType
  <1>8. ASSUME NEW c \in Clients, QuicDial(c) PROVE PathInv'
    <2>1. ~cooldown[c] /\ pc[c] = "quic" /\ tries' = tries
      BY <1>8 DEF QuicDial, IInv, PathInv, PathAt, bounds
    <2>2. CASE Step(c, "quicUp") /\ UNCHANGED <<fails, cooldown, realFails>>
      BY <2>1, <2>2 DEF Step, IInv, PathInv, PathAt, Dialling, RunType, CountType
    <2>3. CASE QuicOver(c, FALSE)
      <3>1. \A d \in Clients : fails[d] \in Nat /\ realFails[d] \in Nat /\ tries \in Nat /\ QuicFailMax \in Nat
        BY LinkAssumption DEF IInv, CountType
      <3>2. PathAt(c)'
        <4>1. PathAt(c) /\ Dialling(c) = 1 /\ (pc'[c] # "quic" => Dialling(c)' = 0)
          BY <2>1 DEF IInv, PathInv, Dialling
        <4>2. pc'[c] \in {"ended", "ws"}
          BY <2>3, OutcomeFacts
        <4>3. \/ /\ fails'[c] = fails[c] /\ realFails'[c] = realFails[c]
                 /\ cooldown'[c] <=> cooldown[c]
              \/ /\ fails'[c] = fails[c] + 1 /\ realFails'[c] = realFails[c] + 1
                 /\ cooldown'[c] <=> cooldown[c] \/ fails[c] + 1 = QuicFailMax
          BY <2>3, OutcomeFacts
        <4> QED BY <2>1, <3>1, <4>1, <4>2, <4>3 DEF PathAt
      <3>3. ASSUME NEW d \in Clients, d # c PROVE PathAt(d)'
        BY <2>1, <2>3, <3>1, <3>3, OutcomeFacts DEF IInv, PathInv, PathAt, Dialling
      <3> QED BY <3>2, <3>3 DEF PathInv
    <2> QED BY <1>8, <2>2, <2>3 DEF QuicDial
  <1>9. ASSUME NEW c \in Clients, QuicEnds(c) PROVE PathInv'
    <2>1. ~cooldown[c] /\ pc[c] = "quicUp" /\ tries' = tries /\ QuicOver(c, TRUE)
      BY <1>9 DEF QuicEnds, IInv, PathInv, PathAt, bounds
    <2>2. \A d \in Clients : fails[d] \in Nat /\ realFails[d] \in Nat /\ tries \in Nat /\ QuicFailMax \in Nat
      BY LinkAssumption DEF IInv, CountType
    <2>3. PathAt(c)'
      <3>1. PathAt(c) /\ Dialling(c) = 0 /\ (pc'[c] # "quic" => Dialling(c)' = 0)
        BY <2>1, <1>9 DEF QuicEnds, IInv, PathInv, Dialling
      <3>2. pc'[c] \in {"ended", "ws"}
        BY <2>1, OutcomeFacts
      <3>3. /\ cooldown'[c] <=> cooldown[c]
            /\ \/ fails'[c] = fails[c] /\ realFails'[c] = realFails[c]
               \/ fails'[c] = 0 /\ realFails'[c] = 0
        BY <2>1, OutcomeFacts
      <3> QED BY <2>1, <2>2, <3>1, <3>2, <3>3 DEF PathAt
    <2>4. ASSUME NEW d \in Clients, d # c PROVE PathAt(d)'
      BY <2>1, <2>2, <2>4, OutcomeFacts DEF IInv, PathInv, PathAt, Dialling
    <2> QED BY <2>3, <2>4 DEF PathInv
  <1>10. ASSUME NEW c \in Clients, WsDial(c) PROVE PathInv'
    BY <1>10, PathFrame DEF WsDial, Step, Failed, IInv, RunType, bounds
  <1>11. ASSUME NEW c \in Clients, WsEnds(c) PROVE PathInv'
    BY <1>11, PathFrame DEF WsEnds, Step, Failed, IInv, RunType, bounds
  <1>12. ASSUME NEW c \in Clients, Ended(c) PROVE PathInv'
    BY <1>12, PathFrame DEF Ended, Step, IInv, RunType, bounds
  <1>13. ASSUME NEW c \in Clients, Swap(c) PROVE PathInv'
    BY <1>13, PathFrame DEF Swap, Step, IInv, RunType, bounds
  <1>14. ASSUME NEW c \in Clients, AuthRetry(c) PROVE PathInv'
    BY <1>14, PathFrame DEF AuthRetry, Step, IInv, RunType, bounds
  <1>15. ASSUME NEW c \in Clients, ClearState(c) PROVE PathInv'
    BY <1>15, PathFrame DEF ClearState, Step, IInv, RunType, bounds
  <1>16. ASSUME NEW c \in Clients, CooldownLapses(c) PROVE PathInv'
    BY <1>16, LinkAssumption DEF CooldownLapses, IInv, PathInv, PathAt, Dialling, CountType,
       FlagType, bounds
  <1>17. CASE UNCHANGED <<fails, realFails, cooldown, pc, tries>>
    BY <1>17 DEF IInv, PathInv, PathAt, Dialling
  <1>18. MgrTop \/ MgrReturned \/ MgrWoken \/ MgrTimer \/ Revoke
          => UNCHANGED <<fails, realFails, cooldown, pc, tries>>
    BY DEF MgrTop, MgrReturned, MgrWoken, MgrTimer, Revoke, clientVars, bounds
  <1>19. \A o \in Ops : ClientPair(o) \/ StoreToken(o) \/ SetForce(o) \/ Poke(o) \/
                        GetCancel(o) \/ Fire(o) \/ PairWith(o) \/ Reuse(o) \/ Disconnect(o) \/
                        Probe(o) \/ Save(o) \/ Check(o) \/ Point(o) \/ Persist(o) \/
                        CancelRun(o) \/ Nudge(o)
          => UNCHANGED <<fails, realFails, cooldown, pc, tries>>
    BY DEF ClientPair, StoreToken, SetForce, Poke, GetCancel, Fire, PairWith, Reuse,
            Disconnect, Probe, Save, Check, Point, Persist, CancelRun, Nudge, Start,
            clientVars, bounds
  <1> QED BY <1>1, <1>2, <1>3, <1>4, <1>5, <1>6, <1>7, <1>8, <1>9, <1>10, <1>11, <1>12, <1>13,
           <1>14, <1>15, <1>16, <1>17, <1>18, <1>19 DEF Next, Manager,
              ClientStep, SessionEnds, Call, OpStep

\* No token ever meets an address it is not of.
LEMMA OwnedKept ==
  ASSUME IInv, Next
  PROVE  Owned'
  <1>1. CASE MgrTop
    BY <1>1 DEF MgrTop, IInv, Owned, AtBoot, OfConf, clientVars, bounds
  <1>2. CASE MgrBuild
    <2>1. /\ nClients + 1 \in Clients /\ nClients + 1 \notin 1..nClients
          /\ conf'[nClients + 1] = snap /\ \A d \in Clients : d # nClients + 1 => conf'[d] = conf[d]
      BY <1>2, LinkAssumption DEF MgrBuild, IInv, CountType, Clients, ConfType
    <2>2. tok[nClients + 1] = NoTok /\ sessTok[nClients + 1] = NoTok
      BY <2>1 DEF IInv, Born
    <2> QED BY <1>2, <2>1, <2>2 DEF MgrBuild, IInv, Owned, AtBoot, OfConf, OfHub
  <1>3. ASSUME NEW c \in Clients, EnsureToken(c) PROVE Owned'
    BY <1>3 DEF EnsureToken, Usable, IInv, Owned, AtBoot, OfConf, OfHub, TokenType, mgrVars, bounds
  <1>4. ASSUME NEW c \in Clients, PairByCode(c) PROVE Owned'
    BY <1>4 DEF PairByCode, IInv, Owned, AtBoot, OfConf, OfHub, TokenType, mgrVars, bounds
  <1>5. ASSUME NEW c \in Clients, QuicDial(c) PROVE Owned'
    BY <1>5, HostTokenFacts DEF QuicDial, IInv, Owned, AtBoot, OfConf, OfHub, TokenType, mgrVars, bounds
  <1>6. ASSUME NEW c \in Clients, WsDial(c) PROVE Owned'
    BY <1>6, HostTokenFacts DEF WsDial, IInv, Owned, AtBoot, OfConf, OfHub, TokenType, mgrVars, bounds
  <1>7. ASSUME NEW c \in Clients, ClearState(c) PROVE Owned'
    BY <1>7 DEF ClearState, IInv, Owned, AtBoot, OfConf, OfHub, TokenType, mgrVars, bounds
  <1>8. ASSUME NEW o \in Ops, StoreToken(o) PROVE Owned'
    BY <1>8, TargetFacts DEF StoreToken, InRepair, IInv, Owned, AtBoot, OfConf, OfHub, CallInv,
                             TokenType, mgrVars, bounds
  <1>9. ASSUME NEW o \in Ops, Point(o) PROVE Owned'
    BY <1>9 DEF Point, IInv, Owned, AtBoot, OfConf, OfHub, clientVars, bounds
  <1>10. CASE UNCHANGED <<cfg, snap, conf, tok, sessTok, boot>>
    BY <1>10 DEF IInv, Owned, AtBoot, OfConf, OfHub
  <1>11. MgrReturned \/ MgrWoken \/ MgrTimer \/ Revoke
          => UNCHANGED <<cfg, snap, conf, tok, sessTok, boot>>
    BY DEF MgrReturned, MgrWoken, MgrTimer, Revoke, mgrVars, bounds, clientVars
  <1>12. \A c \in Clients : WaitWoken(c) \/ WaitTimer(c) \/ Exit(c) \/ Arm(c) \/
                            QuicEnds(c) \/ WsEnds(c) \/ Ended(c) \/ Swap(c) \/ AuthRetry(c) \/
                            CooldownLapses(c)
          => UNCHANGED <<cfg, snap, conf, tok, sessTok, boot>>
    BY DEF WaitWoken, WaitTimer, Exit, Arm, QuicEnds, WsEnds, Ended, Swap, AuthRetry,
            CooldownLapses, mgrVars, bounds, clientVars
  <1>13. \A o \in Ops : ClientPair(o) \/ SetForce(o) \/ Poke(o) \/ GetCancel(o) \/ Fire(o) \/
                        PairWith(o) \/ Reuse(o) \/ Disconnect(o) \/ Probe(o) \/ Save(o) \/
                        Check(o) \/ Persist(o) \/ CancelRun(o) \/ Nudge(o)
          => UNCHANGED <<cfg, snap, conf, tok, sessTok, boot>>
    BY DEF ClientPair, SetForce, Poke, GetCancel, Fire, PairWith, Reuse, Disconnect, Probe,
            Save, Check, Persist, CancelRun, Nudge, Start, mgrVars, bounds, clientVars
  <1> QED BY <1>1, <1>2, <1>3, <1>4, <1>5, <1>6, <1>7, <1>8, <1>9, <1>10, <1>11, <1>12, <1>13
             DEF Next, Manager,
              ClientStep, SessionEnds, Call, OpStep

\* Nothing is done with a client that was not built.
LEMMA BornKept ==
  ASSUME IInv, Next
  PROVE  Born'
  <1>1. CASE MgrTop
    BY <1>1 DEF MgrTop, IInv, Born, LocalMode, MgrType, Config, Addrs, clientVars, bounds
  <1>2. CASE MgrBuild
    BY <1>2, LinkAssumption DEF MgrBuild, Step, IInv, Born, CountType, RunType, Clients
  <1>3. CASE MgrReturned
    BY <1>3, LinkAssumption DEF MgrReturned, IInv, Born, NoClient, CountType, clientVars, bounds
  <1>4. CASE MgrWoken
    BY <1>4 DEF MgrWoken, IInv, Born, clientVars, bounds
  <1>5. CASE MgrTimer
    BY <1>5 DEF MgrTimer, IInv, Born, clientVars, bounds
  <1>6. ASSUME NEW c \in Clients, EnsureToken(c) PROVE Born'
    BY <1>6 DEF EnsureToken, NotFound, Step, IInv, Born, RunType, TokenType, mgrVars, bounds
  <1>7. ASSUME NEW c \in Clients, PairByCode(c) PROVE Born'
    BY <1>7 DEF PairByCode, NotFound, Step, IInv, Born, RunType, TokenType, mgrVars, bounds
  <1>8. ASSUME NEW c \in Clients, WaitWoken(c) PROVE Born'
    BY <1>8 DEF WaitWoken, Step, Next_, IInv, Born, RunType, TokenType, mgrVars, bounds
  <1>9. ASSUME NEW c \in Clients, WaitTimer(c) PROVE Born'
    BY <1>9 DEF WaitTimer, Step, Next_, IInv, Born, RunType, TokenType, mgrVars, bounds
  <1>10. ASSUME NEW c \in Clients, Exit(c) PROVE Born'
    BY <1>10 DEF Exit, Step, ExitPoints, IInv, Born, RunType, TokenType, mgrVars, bounds
  <1>11. ASSUME NEW c \in Clients, Arm(c) PROVE Born'
    BY <1>11 DEF Arm, Step, IInv, Born, RunType, TokenType, mgrVars, bounds
  <1>12. ASSUME NEW c \in Clients, QuicDial(c) PROVE Born'
    BY <1>12 DEF QuicDial, Step, QuicOver, IInv, Born, RunType, TokenType, mgrVars, bounds
  <1>13. ASSUME NEW c \in Clients, QuicEnds(c) PROVE Born'
    BY <1>13 DEF QuicEnds, Step, QuicOver, IInv, Born, RunType, TokenType, mgrVars, bounds
  <1>14. ASSUME NEW c \in Clients, WsDial(c) PROVE Born'
    BY <1>14 DEF WsDial, Step, Failed, IInv, Born, RunType, TokenType, mgrVars, bounds
  <1>15. ASSUME NEW c \in Clients, WsEnds(c) PROVE Born'
    BY <1>15 DEF WsEnds, Step, Failed, IInv, Born, RunType, TokenType, mgrVars, bounds
  <1>16. ASSUME NEW c \in Clients, Ended(c) PROVE Born'
    BY <1>16 DEF Ended, Step, IInv, Born, RunType, TokenType, mgrVars, bounds
  <1>17. ASSUME NEW c \in Clients, Swap(c) PROVE Born'
    BY <1>17 DEF Swap, Step, IInv, Born, RunType, TokenType, mgrVars, bounds
  <1>18. ASSUME NEW c \in Clients, AuthRetry(c) PROVE Born'
    BY <1>18 DEF AuthRetry, Step, IInv, Born, RunType, TokenType, mgrVars, bounds
  <1>19. ASSUME NEW c \in Clients, ClearState(c) PROVE Born'
    BY <1>19 DEF ClearState, Step, IInv, Born, RunType, TokenType, mgrVars, bounds
  <1>20. ASSUME NEW o \in Ops, StoreToken(o) PROVE Born'
    BY <1>20, TargetFacts DEF StoreToken, InRepair, IInv, Born, TokenType, mgrVars, bounds
  <1>21. CASE UNCHANGED <<mpc, snap, cur, pc, tok, sessTok, nClients>>
    BY <1>21 DEF IInv, Born
  <1>22. Revoke
          => UNCHANGED <<mpc, snap, cur, pc, tok, sessTok, nClients>>
    BY DEF Revoke, mgrVars, clientVars, bounds
  <1>23. \A c \in Clients : CooldownLapses(c)
          => UNCHANGED <<mpc, snap, cur, pc, tok, sessTok, nClients>>
    BY DEF CooldownLapses, mgrVars, clientVars, bounds
  <1>24. \A o \in Ops : ClientPair(o) \/ SetForce(o) \/ Poke(o) \/ GetCancel(o) \/ Fire(o) \/
                        PairWith(o) \/ Reuse(o) \/ Disconnect(o) \/ Probe(o) \/ Save(o) \/
                        Check(o) \/ Point(o) \/ Persist(o) \/ CancelRun(o) \/ Nudge(o)
          => UNCHANGED <<mpc, snap, cur, pc, tok, sessTok, nClients>>
    BY DEF ClientPair, SetForce, Poke, GetCancel, Fire, PairWith, Reuse, Disconnect, Probe,
            Save, Check, Point, Persist, CancelRun, Nudge, Start, mgrVars, clientVars, bounds
  <1> QED BY <1>1, <1>2, <1>3, <1>4, <1>5, <1>6, <1>7, <1>8, <1>9, <1>10, <1>11, <1>12, <1>13,
           <1>14, <1>15, <1>16, <1>17, <1>18, <1>19, <1>20, <1>21, <1>22, <1>23, <1>24 DEF Next, Manager,
              ClientStep, SessionEnds, Call, OpStep

\* One call moved: it is where it should be, with what it should hold.
CallAt(o) ==
  /\ target[o] \in 0..nClients
  /\ opc[o] \in InRepair => target[o] # NoClient
  /\ opc[o] = "probe" => want[o] \in Urls
  /\ opc[o] = "store" => held[o] # NoTok /\ OfHub(held[o], conf[target[o]].url)

LEMMA CallFrame ==
  ASSUME IInv, NEW p \in Ops, UNCHANGED <<nClients, conf>>, opc'[p] = opc[p],
         want'[p] = want[p], target'[p] = target[p], held'[p] = held[p]
  PROVE  CallAt(p)'
  BY DEF IInv, CallInv, CallAt

\* A call ends, or starts, as its first action finds the manager.
LEMMA ReturnFacts ==
  ASSUME IInv, NEW o \in Ops, Return(o)
  PROVE  /\ opc'[o] = "idle" /\ target'[o] = NoClient /\ ~handle'[o]
         /\ \A p \in Ops : p # o => /\ opc'[p] = opc[p] /\ want'[p] = want[p]
                                    /\ target'[p] = target[p] /\ held'[p] = held[p]
                                    /\ (handle'[p] <=> handle[p])
  BY DEF Return, IInv, OpType, FlagType, TokenType

LEMMA StartFacts ==
  ASSUME IInv, NEW o \in Ops, NEW u, NEW c, NEW l, Start(o, u, c, l)
  PROVE  /\ opc'[o] = l /\ want'[o] = u /\ target'[o] = c /\ held' = held /\ opc[o] = "idle"
         /\ \A p \in Ops : p # o => /\ opc'[p] = opc[p] /\ want'[p] = want[p]
                                    /\ target'[p] = target[p]
         /\ UNCHANGED <<handle, pc, armed, killed, tok, sessTok, conf, nClients>>
  BY DEF Start, IInv, OpType, clientVars

\* Each call works on what it was given.
LEMMA CallsKept ==
  ASSUME IInv, Next
  PROVE  CallInv'
  <1>1. CASE MgrBuild
    <2>1. \A d \in 1..nClients : conf'[d] = conf[d]
      BY <1>1, LinkAssumption DEF MgrBuild, IInv, ConfType, CountType, Clients
    <2>2. \A o \in Ops : target[o] \in 0..nClients + 1
      BY LinkAssumption DEF IInv, CallInv, CountType
    <2>3. \A o \in Ops : opc[o] = "store" => target[o] \in 1..nClients
      BY TargetFacts DEF InRepair
    <2> QED BY <1>1, <2>1, <2>2, <2>3 DEF MgrBuild, IInv, CallInv, opVars
  <1>2. ASSUME NEW o \in Ops, ClientPair(o) PROVE CallInv'
    <2>1. UNCHANGED <<nClients, conf>>
      BY <1>2 DEF ClientPair, clientVars, bounds
    <2>2. CASE Return(o)
      <3>1. CallAt(o)'
        BY <2>1, <2>2, ReturnFacts, LinkAssumption DEF CallAt, InRepair, NoClient, IInv, CountType
      <3>2. ASSUME NEW p \in Ops, p # o PROVE CallAt(p)'
        BY <2>1, <2>2, <3>2, ReturnFacts, CallFrame
      <3> QED BY <3>1, <3>2 DEF CallInv, CallAt
    <2>3. CASE Mint(conf[target[o]].url) /\ Hold(o, <<conf[target[o]].url, minted + 1>>, "store")
      <3>1. CallAt(o)'
        BY <1>2, <2>1, <2>3 DEF ClientPair, Hold, IInv, CallInv, CallAt, OpType, TokenType,
           InRepair, OfHub, NoTok
      <3>2. ASSUME NEW p \in Ops, p # o PROVE CallAt(p)'
        BY <1>2, <2>1, <2>3, <3>2, CallFrame DEF ClientPair, Hold, IInv, OpType, TokenType
      <3> QED BY <3>1, <3>2 DEF CallInv, CallAt
    <2> QED BY <1>2, <2>2, <2>3 DEF ClientPair
  <1>3. ASSUME NEW o \in Ops, StoreToken(o) PROVE CallInv'
    <2>1. UNCHANGED <<nClients, conf>>
      BY <1>3 DEF StoreToken, clientVars, bounds
    <2>2. CallAt(o)'
      BY <1>3, <2>1 DEF StoreToken, OpGo, IInv, CallInv, CallAt, OpType, InRepair
    <2>3. ASSUME NEW p \in Ops, p # o PROVE CallAt(p)'
      BY <1>3, <2>1, <2>3, CallFrame DEF StoreToken, OpGo, IInv, OpType
    <2> QED BY <2>2, <2>3 DEF CallInv, CallAt
  <1>4. ASSUME NEW o \in Ops, SetForce(o) PROVE CallInv'
    <2>1. UNCHANGED <<nClients, conf>>
      BY <1>4 DEF SetForce, clientVars, bounds
    <2>2. CallAt(o)'
      BY <1>4, <2>1 DEF SetForce, OpGo, IInv, CallInv, CallAt, OpType, InRepair
    <2>3. ASSUME NEW p \in Ops, p # o PROVE CallAt(p)'
      BY <1>4, <2>1, <2>3, CallFrame DEF SetForce, OpGo, IInv, OpType
    <2> QED BY <2>2, <2>3 DEF CallInv, CallAt
  <1>5. ASSUME NEW o \in Ops, Poke(o) PROVE CallInv'
    <2>1. UNCHANGED <<nClients, conf>>
      BY <1>5 DEF Poke, clientVars, bounds
    <2>2. CallAt(o)'
      BY <1>5, <2>1 DEF Poke, OpGo, IInv, CallInv, CallAt, OpType, InRepair
    <2>3. ASSUME NEW p \in Ops, p # o PROVE CallAt(p)'
      BY <1>5, <2>1, <2>3, CallFrame DEF Poke, OpGo, IInv, OpType
    <2> QED BY <2>2, <2>3 DEF CallInv, CallAt
  <1>6. ASSUME NEW o \in Ops, GetCancel(o) PROVE CallInv'
    <2>1. UNCHANGED <<nClients, conf>>
      BY <1>6 DEF GetCancel, clientVars, bounds
    <2>2. CallAt(o)'
      BY <1>6, <2>1 DEF GetCancel, IInv, CallInv, CallAt, OpType, InRepair
    <2>3. ASSUME NEW p \in Ops, p # o PROVE CallAt(p)'
      BY <1>6, <2>1, <2>3, CallFrame DEF GetCancel, IInv, OpType
    <2> QED BY <2>2, <2>3 DEF CallInv, CallAt
  <1>7. ASSUME NEW o \in Ops, Fire(o) PROVE CallInv'
    <2>1. UNCHANGED <<nClients, conf>>
      BY <1>7 DEF Fire, clientVars, bounds
    <2>2. CASE Return(o)
      <3>1. CallAt(o)'
        BY <2>1, <2>2, ReturnFacts, LinkAssumption DEF CallAt, InRepair, NoClient, IInv, CountType
      <3>2. ASSUME NEW p \in Ops, p # o PROVE CallAt(p)'
        BY <2>1, <2>2, <3>2, ReturnFacts, CallFrame
      <3> QED BY <3>1, <3>2 DEF CallInv, CallAt
    <2> QED BY <1>7, <2>2 DEF Fire
  <1>8. ASSUME NEW o \in Ops, PairWith(o) PROVE CallInv'
    <2>1. PICK u \in Addrs, c \in 0..nClients, l \in {"pair", "probe", "check", "point"} :
            /\ Start(o, u, c, l)
            /\ l = "pair" => c # NoClient
            /\ l = "probe" => u # NoUrl
      BY <1>8, LinkAssumption DEF PairWith, Wanted, IInv, Born, MgrType, CountType, Config,
         NoClient, Addrs
    <2>2. CallAt(o)'
      BY <2>1, StartFacts DEF CallAt, InRepair, Addrs
    <2>3. ASSUME NEW p \in Ops, p # o PROVE CallAt(p)'
      BY <2>1, <2>3, StartFacts, CallFrame
    <2> QED BY <2>2, <2>3 DEF CallInv, CallAt
  <1>9. ASSUME NEW o \in Ops, Reuse(o) PROVE CallInv'
    <2>1. PICK u \in Addrs, c \in 0..nClients, l \in {"pair", "probe", "check", "point"} :
            /\ Start(o, u, c, l)
            /\ l = "pair" => c # NoClient
            /\ l = "probe" => u # NoUrl
      BY <1>9, LinkAssumption DEF Reuse, Wanted, IInv, Born, MgrType, CountType, Config,
         NoClient, Addrs
    <2>2. CallAt(o)'
      BY <2>1, StartFacts DEF CallAt, InRepair, Addrs
    <2>3. ASSUME NEW p \in Ops, p # o PROVE CallAt(p)'
      BY <2>1, <2>3, StartFacts, CallFrame
    <2> QED BY <2>2, <2>3 DEF CallInv, CallAt
  <1>10. ASSUME NEW o \in Ops, Disconnect(o) PROVE CallInv'
    <2>1. PICK u \in Addrs, c \in 0..nClients, l \in {"pair", "probe", "check", "point"} :
            /\ Start(o, u, c, l)
            /\ l = "pair" => c # NoClient
            /\ l = "probe" => u # NoUrl
      BY <1>10, LinkAssumption DEF Disconnect, Wanted, IInv, Born, MgrType, CountType, Config,
         NoClient, Addrs
    <2>2. CallAt(o)'
      BY <2>1, StartFacts DEF CallAt, InRepair, Addrs
    <2>3. ASSUME NEW p \in Ops, p # o PROVE CallAt(p)'
      BY <2>1, <2>3, StartFacts, CallFrame
    <2> QED BY <2>2, <2>3 DEF CallInv, CallAt
  <1>11. ASSUME NEW o \in Ops, Probe(o) PROVE CallInv'
    <2>1. UNCHANGED <<nClients, conf>>
      BY <1>11 DEF Probe, clientVars, bounds
    <2>2. CASE Return(o)
      <3>1. CallAt(o)'
        BY <2>1, <2>2, ReturnFacts, LinkAssumption DEF CallAt, InRepair, NoClient, IInv, CountType
      <3>2. ASSUME NEW p \in Ops, p # o PROVE CallAt(p)'
        BY <2>1, <2>2, <3>2, ReturnFacts, CallFrame
      <3> QED BY <3>1, <3>2 DEF CallInv, CallAt
    <2>3. CASE Mint(want[o]) /\ Hold(o, <<want[o], minted + 1>>, "save")
      <3>1. CallAt(o)'
        BY <1>11, <2>1, <2>3 DEF Probe, Hold, IInv, CallInv, CallAt, OpType, TokenType,
           InRepair, OfHub, NoTok
      <3>2. ASSUME NEW p \in Ops, p # o PROVE CallAt(p)'
        BY <1>11, <2>1, <2>3, <3>2, CallFrame DEF Probe, Hold, IInv, OpType, TokenType
      <3> QED BY <3>1, <3>2 DEF CallInv, CallAt
    <2> QED BY <1>11, <2>2, <2>3 DEF Probe
  <1>12. ASSUME NEW o \in Ops, Save(o) PROVE CallInv'
    <2>1. UNCHANGED <<nClients, conf>>
      BY <1>12 DEF Save, clientVars, bounds
    <2>2. CASE Return(o)
      <3>1. CallAt(o)'
        BY <2>1, <2>2, ReturnFacts, LinkAssumption DEF CallAt, InRepair, NoClient, IInv, CountType
      <3>2. ASSUME NEW p \in Ops, p # o PROVE CallAt(p)'
        BY <2>1, <2>2, <3>2, ReturnFacts, CallFrame
      <3> QED BY <3>1, <3>2 DEF CallInv, CallAt
    <2>3. CASE OpGo(o, "point")
      <3>1. CallAt(o)'
        BY <1>12, <2>1, <2>3 DEF OpGo, IInv, CallInv, CallAt, OpType, InRepair
      <3>2. ASSUME NEW p \in Ops, p # o PROVE CallAt(p)'
        BY <1>12, <2>1, <2>3, <3>2, CallFrame DEF OpGo, IInv, OpType
      <3> QED BY <3>1, <3>2 DEF CallInv, CallAt
    <2> QED BY <1>12, <2>2, <2>3 DEF Save
  <1>13. ASSUME NEW o \in Ops, Check(o) PROVE CallInv'
    <2>1. UNCHANGED <<nClients, conf>>
      BY <1>13 DEF Check, clientVars, bounds
    <2>2. CASE Return(o)
      <3>1. CallAt(o)'
        BY <2>1, <2>2, ReturnFacts, LinkAssumption DEF CallAt, InRepair, NoClient, IInv, CountType
      <3>2. ASSUME NEW p \in Ops, p # o PROVE CallAt(p)'
        BY <2>1, <2>2, <3>2, ReturnFacts, CallFrame
      <3> QED BY <3>1, <3>2 DEF CallInv, CallAt
    <2>3. CASE OpGo(o, "point")
      <3>1. CallAt(o)'
        BY <1>13, <2>1, <2>3 DEF OpGo, IInv, CallInv, CallAt, OpType, InRepair
      <3>2. ASSUME NEW p \in Ops, p # o PROVE CallAt(p)'
        BY <1>13, <2>1, <2>3, <3>2, CallFrame DEF OpGo, IInv, OpType
      <3> QED BY <3>1, <3>2 DEF CallInv, CallAt
    <2> QED BY <1>13, <2>2, <2>3 DEF Check
  <1>14. ASSUME NEW o \in Ops, Point(o) PROVE CallInv'
    <2>1. UNCHANGED <<nClients, conf>>
      BY <1>14 DEF Point, clientVars, bounds
    <2>2. CallAt(o)'
      BY <1>14, <2>1 DEF Point, IInv, Born, CallAt, OpType, InRepair
    <2>3. ASSUME NEW p \in Ops, p # o PROVE CallAt(p)'
      BY <1>14, <2>1, <2>3, CallFrame DEF Point, IInv, OpType
    <2> QED BY <2>2, <2>3 DEF CallInv, CallAt
  <1>15. ASSUME NEW o \in Ops, Persist(o) PROVE CallInv'
    <2>1. UNCHANGED <<nClients, conf>>
      BY <1>15 DEF Persist, clientVars, bounds
    <2>2. CallAt(o)'
      BY <1>15, <2>1 DEF Persist, OpGo, IInv, CallInv, CallAt, OpType, InRepair
    <2>3. ASSUME NEW p \in Ops, p # o PROVE CallAt(p)'
      BY <1>15, <2>1, <2>3, CallFrame DEF Persist, OpGo, IInv, OpType
    <2> QED BY <2>2, <2>3 DEF CallInv, CallAt
  <1>16. ASSUME NEW o \in Ops, CancelRun(o) PROVE CallInv'
    <2>1. UNCHANGED <<nClients, conf>>
      BY <1>16 DEF CancelRun, clientVars, bounds
    <2>2. CallAt(o)'
      BY <1>16, <2>1 DEF CancelRun, OpGo, IInv, CallInv, CallAt, OpType, InRepair
    <2>3. ASSUME NEW p \in Ops, p # o PROVE CallAt(p)'
      BY <1>16, <2>1, <2>3, CallFrame DEF CancelRun, OpGo, IInv, OpType
    <2> QED BY <2>2, <2>3 DEF CallInv, CallAt
  <1>17. ASSUME NEW o \in Ops, Nudge(o) PROVE CallInv'
    <2>1. UNCHANGED <<nClients, conf>>
      BY <1>17 DEF Nudge, clientVars, bounds
    <2>2. CASE Return(o)
      <3>1. CallAt(o)'
        BY <2>1, <2>2, ReturnFacts, LinkAssumption DEF CallAt, InRepair, NoClient, IInv, CountType
      <3>2. ASSUME NEW p \in Ops, p # o PROVE CallAt(p)'
        BY <2>1, <2>2, <3>2, ReturnFacts, CallFrame
      <3> QED BY <3>1, <3>2 DEF CallInv, CallAt
    <2> QED BY <1>17, <2>2 DEF Nudge
  <1>18. CASE UNCHANGED <<target, nClients, opc, want, held, conf>>
    BY <1>18 DEF IInv, CallInv
  <1>19. MgrTop \/ MgrReturned \/ MgrWoken \/ MgrTimer \/ Revoke
          => UNCHANGED <<target, nClients, opc, want, held, conf>>
    BY DEF MgrTop, MgrReturned, MgrWoken, MgrTimer, Revoke, clientVars, opVars, bounds
  <1>20. \A c \in Clients : EnsureToken(c) \/ PairByCode(c) \/ WaitWoken(c) \/ WaitTimer(c) \/
                            Exit(c) \/ Arm(c) \/ QuicDial(c) \/ QuicEnds(c) \/ WsDial(c) \/
                            WsEnds(c) \/ Ended(c) \/ Swap(c) \/ AuthRetry(c) \/
                            ClearState(c) \/ CooldownLapses(c)
          => UNCHANGED <<target, nClients, opc, want, held, conf>>
    BY DEF EnsureToken, PairByCode, WaitWoken, WaitTimer, Exit, Arm, QuicDial, QuicEnds,
            WsDial, WsEnds, Ended, Swap, AuthRetry, ClearState, CooldownLapses, clientVars,
            opVars, bounds
  <1> QED BY <1>1, <1>2, <1>3, <1>4, <1>5, <1>6, <1>7, <1>8, <1>9, <1>10, <1>11, <1>12, <1>13,
           <1>14, <1>15, <1>16, <1>17, <1>18, <1>19, <1>20 DEF Next, Manager,
              ClientStep, SessionEnds, Call, OpStep

\* A session that no step concerns, with the calls that reach for it still there.
LEMMA SessionFrame ==
  ASSUME IInv, NEW d \in Clients, pc'[d] = pc[d] \/ pc'[d] \notin Playing,
         armed'[d] = armed[d] \/ pc'[d] \notin Playing, killed[d] => killed'[d],
         tok'[d] = tok[d] \/ pc'[d] \notin Playing, sessTok'[d] = sessTok[d],
         conf'[d] = conf[d], Reaching(d) => Reaching(d)'
  PROVE  SessionAt(d)'
  BY DEF IInv, SessionInv, SessionAt, Up, Cancelled, HostToken, Playing

\* A call that is not repairing may do what it likes.
LEMMA ReachFrame ==
  ASSUME IInv, NEW o \in Ops, opc[o] \notin {"force", "poke", "getcancel", "fire"},
         \A p \in Ops : p # o => /\ opc'[p] = opc[p] /\ target'[p] = target[p]
                                 /\ (handle'[p] <=> handle[p])
  PROVE  \A d \in Clients : Reaching(d) => Reaching(d)'
  BY DEF Reaching

\* A pairing cancels the session it outdates, whatever Run does meanwhile.
LEMMA SessionsKept ==
  ASSUME IInv, Next
  PROVE  SessionInv'
  <1>1. CASE MgrBuild
    <2>1. PICK n \in Clients : n = nClients + 1
      BY <1>1, LinkAssumption DEF MgrBuild, IInv, CountType, Clients
    <2>2. pc'[n] = "ensure" /\ \A d \in Clients : d # n => conf'[d] = conf[d] /\ pc'[d] = pc[d]
      BY <1>1, <2>1 DEF MgrBuild, Step, IInv, ConfType, RunType
    <2>3. \A d \in Clients : Reaching(d) => Reaching(d)'
      BY <1>1 DEF MgrBuild, opVars, Reaching
    <2>4. SessionAt(n)'
      BY <2>2 DEF SessionAt, Playing, Up
    <2>5. ASSUME NEW d \in Clients, d # n PROVE SessionAt(d)'
      BY <1>1, <2>2, <2>3, <2>5, SessionFrame DEF MgrBuild
    <2> QED BY <2>4, <2>5 DEF SessionInv
  <1>2. ASSUME NEW c \in Clients, EnsureToken(c) PROVE SessionInv'
    <2>1. \A d \in Clients : Reaching(d) => Reaching(d)'
      BY <1>2 DEF EnsureToken, opVars, Reaching
    <2>2. ASSUME NEW d \in Clients PROVE SessionAt(d)'
      BY <1>2, <2>1, <2>2, SessionFrame DEF EnsureToken, NotFound, Step, IInv, RunType,
         TokenType, Playing
    <2> QED BY <2>2 DEF SessionInv
  <1>3. ASSUME NEW c \in Clients, PairByCode(c) PROVE SessionInv'
    <2>1. \A d \in Clients : Reaching(d) => Reaching(d)'
      BY <1>3 DEF PairByCode, opVars, Reaching
    <2>2. ASSUME NEW d \in Clients PROVE SessionAt(d)'
      BY <1>3, <2>1, <2>2, SessionFrame DEF PairByCode, NotFound, Step, IInv, RunType,
         TokenType, Playing
    <2> QED BY <2>2 DEF SessionInv
  <1>4. ASSUME NEW c \in Clients, WaitWoken(c) PROVE SessionInv'
    <2>1. \A d \in Clients : Reaching(d) => Reaching(d)'
      BY <1>4 DEF WaitWoken, opVars, Reaching
    <2>2. ASSUME NEW d \in Clients PROVE SessionAt(d)'
      BY <1>4, <2>1, <2>2, SessionFrame DEF WaitWoken, Step, Next_, IInv, RunType, TokenType,
         Playing
    <2> QED BY <2>2 DEF SessionInv
  <1>5. ASSUME NEW c \in Clients, WaitTimer(c) PROVE SessionInv'
    <2>1. \A d \in Clients : Reaching(d) => Reaching(d)'
      BY <1>5 DEF WaitTimer, opVars, Reaching
    <2>2. ASSUME NEW d \in Clients PROVE SessionAt(d)'
      BY <1>5, <2>1, <2>2, SessionFrame DEF WaitTimer, Step, Next_, IInv, RunType, TokenType,
         Playing
    <2> QED BY <2>2 DEF SessionInv
  <1>6. ASSUME NEW c \in Clients, Exit(c) PROVE SessionInv'
    <2>1. \A d \in Clients : Reaching(d) => Reaching(d)'
      BY <1>6 DEF Exit, opVars, Reaching
    <2>2. ASSUME NEW d \in Clients PROVE SessionAt(d)'
      BY <1>6, <2>1, <2>2, SessionFrame DEF Exit, Step, IInv, RunType, TokenType, Playing
    <2> QED BY <2>2 DEF SessionInv
  <1>7. ASSUME NEW c \in Clients, Arm(c) PROVE SessionInv'
    <2>1. \A d \in Clients : d # c => (Reaching(d) => Reaching(d)')
      BY <1>7 DEF Arm, Reaching
    <2>2. SessionAt(c)'
      BY <1>7 DEF Arm, Step, Armed, SessionAt, Up, IInv, RunType, Playing
    <2>3. ASSUME NEW d \in Clients, d # c PROVE SessionAt(d)'
      BY <1>7, <2>1, <2>3, SessionFrame DEF Arm, Step, IInv, RunType
    <2> QED BY <2>2, <2>3 DEF SessionInv
  <1>8. ASSUME NEW c \in Clients, QuicDial(c) PROVE SessionInv'
    <2>1. \A d \in Clients : Reaching(d) => Reaching(d)'
      BY <1>8 DEF QuicDial, opVars, Reaching
    <2>2. sessTok'[c] = HostToken(c) /\ HostToken(c)' = HostToken(c)
      BY <1>8 DEF QuicDial, HostToken, IInv, TokenType
    <2>3. SessionAt(c)'
      BY <1>8, <2>2 DEF QuicDial, Step, QuicOver, SessionAt, Up, IInv, SessionInv, RunType, Playing
    <2>4. ASSUME NEW d \in Clients, d # c PROVE SessionAt(d)'
      BY <1>8, <2>1, <2>4, SessionFrame DEF QuicDial, Step, QuicOver, IInv, RunType, TokenType
    <2> QED BY <2>3, <2>4 DEF SessionInv
  <1>9. ASSUME NEW c \in Clients, QuicEnds(c) PROVE SessionInv'
    <2>1. \A d \in Clients : Reaching(d) => Reaching(d)'
      BY <1>9 DEF QuicEnds, opVars, Reaching
    <2>2. SessionAt(c)'
      BY <1>9 DEF QuicEnds, Step, QuicOver, SessionAt, Up, IInv, SessionInv, RunType, Playing
    <2>3. ASSUME NEW d \in Clients, d # c PROVE SessionAt(d)'
      BY <1>9, <2>1, <2>3, SessionFrame DEF QuicEnds, Step, QuicOver, IInv, RunType
    <2> QED BY <2>2, <2>3 DEF SessionInv
  <1>10. ASSUME NEW c \in Clients, WsDial(c) PROVE SessionInv'
    <2>1. \A d \in Clients : Reaching(d) => Reaching(d)'
      BY <1>10 DEF WsDial, opVars, Reaching
    <2>2. sessTok'[c] = HostToken(c) /\ HostToken(c)' = HostToken(c)
      BY <1>10 DEF WsDial, HostToken, IInv, TokenType
    <2>3. SessionAt(c)'
      BY <1>10, <2>2 DEF WsDial, Step, Failed, SessionAt, Up, IInv, SessionInv, RunType, Playing
    <2>4. ASSUME NEW d \in Clients, d # c PROVE SessionAt(d)'
      BY <1>10, <2>1, <2>4, SessionFrame DEF WsDial, Step, Failed, IInv, RunType, TokenType
    <2> QED BY <2>3, <2>4 DEF SessionInv
  <1>11. ASSUME NEW c \in Clients, WsEnds(c) PROVE SessionInv'
    <2>1. \A d \in Clients : Reaching(d) => Reaching(d)'
      BY <1>11 DEF WsEnds, opVars, Reaching
    <2>2. ASSUME NEW d \in Clients PROVE SessionAt(d)'
      BY <1>11, <2>1, <2>2, SessionFrame DEF WsEnds, Step, Failed, IInv, RunType, TokenType, Playing
    <2> QED BY <2>2 DEF SessionInv
  <1>12. ASSUME NEW c \in Clients, Ended(c) PROVE SessionInv'
    <2>1. \A d \in Clients : Reaching(d) => Reaching(d)'
      BY <1>12 DEF Ended, opVars, Reaching
    <2>2. ASSUME NEW d \in Clients PROVE SessionAt(d)'
      BY <1>12, <2>1, <2>2, SessionFrame DEF Ended, Step, IInv, RunType, TokenType, Playing
    <2> QED BY <2>2 DEF SessionInv
  <1>13. ASSUME NEW c \in Clients, Swap(c) PROVE SessionInv'
    <2>1. \A d \in Clients : Reaching(d) => Reaching(d)'
      BY <1>13 DEF Swap, opVars, Reaching
    <2>2. ASSUME NEW d \in Clients PROVE SessionAt(d)'
      BY <1>13, <2>1, <2>2, SessionFrame DEF Swap, Step, IInv, RunType, TokenType, Playing
    <2> QED BY <2>2 DEF SessionInv
  <1>14. ASSUME NEW c \in Clients, AuthRetry(c) PROVE SessionInv'
    <2>1. \A d \in Clients : Reaching(d) => Reaching(d)'
      BY <1>14 DEF AuthRetry, opVars, Reaching
    <2>2. ASSUME NEW d \in Clients PROVE SessionAt(d)'
      BY <1>14, <2>1, <2>2, SessionFrame DEF AuthRetry, Step, IInv, RunType, TokenType, Playing
    <2> QED BY <2>2 DEF SessionInv
  <1>15. ASSUME NEW c \in Clients, ClearState(c) PROVE SessionInv'
    <2>1. \A d \in Clients : Reaching(d) => Reaching(d)'
      BY <1>15 DEF ClearState, opVars, Reaching
    <2>2. ASSUME NEW d \in Clients PROVE SessionAt(d)'
      BY <1>15, <2>1, <2>2, SessionFrame DEF ClearState, Step, IInv, RunType, TokenType, Playing
    <2> QED BY <2>2 DEF SessionInv
  <1>16. ASSUME NEW o \in Ops, ClientPair(o) PROVE SessionInv'
    <2>1. \A p \in Ops : p # o => /\ opc'[p] = opc[p] /\ target'[p] = target[p]
                                  /\ (handle'[p] <=> handle[p])
      BY <1>16, ReturnFacts DEF ClientPair, Hold, IInv, OpType
    <2>2. \A d \in Clients : Reaching(d) => Reaching(d)'
      BY <1>16, <2>1, ReachFrame DEF ClientPair
    <2> QED BY <1>16, <2>2, SessionFrame DEF ClientPair, SessionInv, clientVars
  <1>17. ASSUME NEW o \in Ops, StoreToken(o) PROVE SessionInv'
    <2>1. \A d \in Clients : Reaching(d) => Reaching(d)'
      BY <1>17 DEF StoreToken, OpGo, Reaching, IInv, OpType
    <2>2. PICK t \in Clients : t = target[o] /\ Reaching(t)'
      BY <1>17, TargetFacts DEF StoreToken, OpGo, Reaching, IInv, OpType, InRepair
    <2>3. ASSUME NEW d \in Clients PROVE SessionAt(d)'
      <3>1. CASE d = t
        <4>1. Reaching(d)' /\ UNCHANGED <<pc, armed>>
          BY <1>17, <2>2, <3>1 DEF StoreToken
        <4> QED BY <4>1 DEF SessionAt, Up, IInv, SessionInv
      <3>2. CASE d # t
        BY <1>17, <2>1, <2>2, <3>2, SessionFrame DEF StoreToken, IInv, TokenType
      <3> QED BY <3>1, <3>2
    <2> QED BY <2>3 DEF SessionInv
  <1>18. ASSUME NEW o \in Ops, SetForce(o) PROVE SessionInv'
    <2>1. \A d \in Clients : Reaching(d) => Reaching(d)'
      BY <1>18 DEF SetForce, OpGo, Reaching, IInv, OpType
    <2> QED BY <1>18, <2>1, SessionFrame DEF SetForce, SessionInv
  <1>19. ASSUME NEW o \in Ops, Poke(o) PROVE SessionInv'
    <2>1. \A d \in Clients : Reaching(d) => Reaching(d)'
      BY <1>19 DEF Poke, OpGo, Reaching, IInv, OpType
    <2> QED BY <1>19, <2>1, SessionFrame DEF Poke, SessionInv
  <1>20. ASSUME NEW o \in Ops, GetCancel(o) PROVE SessionInv'
    <2>1. ASSUME NEW d \in Clients PROVE SessionAt(d)'
      <3>1. UNCHANGED <<pc, armed, killed, tok, sessTok, conf>>
        BY <1>20 DEF GetCancel, clientVars
      <3>2. CASE d = target[o] /\ armed[d] # "none"
        <4>1. Reaching(d)'
          BY <1>20, <3>2 DEF GetCancel, Reaching, IInv, OpType, FlagType
        <4> QED BY <3>1, <4>1, SessionFrame
      <3>3. CASE d = target[o] /\ armed[d] = "none"
        BY <3>1, <3>3 DEF SessionAt, Up, Playing, IInv, SessionInv
      <3>4. CASE d # target[o]
        <4>1. Reaching(d) => Reaching(d)'
          BY <1>20, <3>4 DEF GetCancel, Reaching, IInv, OpType, FlagType
        <4> QED BY <3>1, <4>1, SessionFrame
      <3> QED BY <3>2, <3>3, <3>4
    <2> QED BY <2>1 DEF SessionInv
  <1>21. ASSUME NEW o \in Ops, Fire(o) PROVE SessionInv'
    <2>1. PICK t \in Clients : t = target[o]
      BY <1>21, TargetFacts DEF Fire, InRepair
    <2>2. UNCHANGED <<pc, killed, tok, sessTok, conf>>
      BY <1>21 DEF Fire
    <2>3. \A p \in Ops : p # o => /\ opc'[p] = opc[p] /\ target'[p] = target[p]
                                  /\ (handle'[p] <=> handle[p])
      BY <1>21, ReturnFacts DEF Fire
    <2>4. ASSUME NEW d \in Clients, d # t PROVE SessionAt(d)'
      <3>1. armed'[d] = armed[d]
        BY <1>21, <2>1, <2>4 DEF Fire, IInv, RunType
      <3>2. Reaching(d) => Reaching(d)'
        BY <1>21, <2>1, <2>3, <2>4 DEF Fire, Reaching
      <3> QED BY <2>2, <3>1, <3>2, SessionFrame
    <2>5. CASE handle[o]
      <3>1. armed'[t] = IF armed[t] = "armed" THEN "fired" ELSE armed[t]
        BY <1>21, <2>1, <2>5 DEF Fire, IInv, RunType
      <3>2. pc[t] \in Playing => armed'[t] = "fired"
        BY <2>1, <3>1 DEF IInv, RunType, SessionInv, SessionAt
      <3>3. SessionAt(t)'
        BY <2>2, <3>2 DEF SessionAt, Up, Playing, Cancelled
      <3> QED BY <2>4, <3>3 DEF SessionInv
    <2>6. CASE ~handle[o]
      <3>1. armed'[t] = armed[t]
        BY <1>21, <2>1, <2>6 DEF Fire, IInv, RunType
      <3>2. Reaching(t) => Reaching(t)'
        BY <1>21, <2>1, <2>3, <2>6 DEF Fire, Reaching
      <3>3. SessionAt(t)'
        BY <2>1, <2>2, <3>1, <3>2, SessionFrame
      <3> QED BY <2>4, <3>3 DEF SessionInv
    <2> QED BY <2>5, <2>6
  <1>22. ASSUME NEW o \in Ops, PairWith(o) PROVE SessionInv'
    <2>1. PICK u, c, l : Start(o, u, c, l)
      BY <1>22 DEF PairWith
    <2>2. \A d \in Clients : Reaching(d) => Reaching(d)'
      BY <2>1, StartFacts, ReachFrame
    <2> QED BY <2>1, <2>2, StartFacts, SessionFrame DEF SessionInv
  <1>23. ASSUME NEW o \in Ops, Reuse(o) PROVE SessionInv'
    <2>1. PICK u, c, l : Start(o, u, c, l)
      BY <1>23 DEF Reuse
    <2>2. \A d \in Clients : Reaching(d) => Reaching(d)'
      BY <2>1, StartFacts, ReachFrame
    <2> QED BY <2>1, <2>2, StartFacts, SessionFrame DEF SessionInv
  <1>24. ASSUME NEW o \in Ops, Disconnect(o) PROVE SessionInv'
    <2>1. PICK u, c, l : Start(o, u, c, l)
      BY <1>24 DEF Disconnect
    <2>2. \A d \in Clients : Reaching(d) => Reaching(d)'
      BY <2>1, StartFacts, ReachFrame
    <2> QED BY <2>1, <2>2, StartFacts, SessionFrame DEF SessionInv
  <1>25. ASSUME NEW o \in Ops, Probe(o) PROVE SessionInv'
    <2>1. \A p \in Ops : p # o => /\ opc'[p] = opc[p] /\ target'[p] = target[p]
                                  /\ (handle'[p] <=> handle[p])
      BY <1>25, ReturnFacts DEF Probe, Hold, IInv, OpType
    <2>2. \A d \in Clients : Reaching(d) => Reaching(d)'
      BY <1>25, <2>1, ReachFrame DEF Probe
    <2> QED BY <1>25, <2>2, SessionFrame DEF Probe, SessionInv, clientVars
  <1>26. ASSUME NEW o \in Ops, Save(o) PROVE SessionInv'
    <2>1. \A p \in Ops : p # o => /\ opc'[p] = opc[p] /\ target'[p] = target[p]
                                  /\ (handle'[p] <=> handle[p])
      BY <1>26, ReturnFacts DEF Save, OpGo, IInv, OpType
    <2>2. \A d \in Clients : Reaching(d) => Reaching(d)'
      BY <1>26, <2>1, ReachFrame DEF Save
    <2> QED BY <1>26, <2>2, SessionFrame DEF Save, SessionInv, clientVars
  <1>27. ASSUME NEW o \in Ops, Check(o) PROVE SessionInv'
    <2>1. \A p \in Ops : p # o => /\ opc'[p] = opc[p] /\ target'[p] = target[p]
                                  /\ (handle'[p] <=> handle[p])
      BY <1>27, ReturnFacts DEF Check, OpGo, IInv, OpType
    <2>2. \A d \in Clients : Reaching(d) => Reaching(d)'
      BY <1>27, <2>1, ReachFrame DEF Check
    <2> QED BY <1>27, <2>2, SessionFrame DEF Check, SessionInv, clientVars
  <1>28. ASSUME NEW o \in Ops, Point(o) PROVE SessionInv'
    <2>1. \A p \in Ops : p # o => /\ opc'[p] = opc[p] /\ target'[p] = target[p]
                                  /\ (handle'[p] <=> handle[p])
      BY <1>28 DEF Point, IInv, OpType
    <2>2. \A d \in Clients : Reaching(d) => Reaching(d)'
      BY <1>28, <2>1, ReachFrame DEF Point
    <2> QED BY <1>28, <2>2, SessionFrame DEF Point, SessionInv, clientVars
  <1>29. ASSUME NEW o \in Ops, Persist(o) PROVE SessionInv'
    <2>1. \A p \in Ops : p # o => /\ opc'[p] = opc[p] /\ target'[p] = target[p]
                                  /\ (handle'[p] <=> handle[p])
      BY <1>29 DEF Persist, OpGo, IInv, OpType
    <2>2. \A d \in Clients : Reaching(d) => Reaching(d)'
      BY <1>29, <2>1, ReachFrame DEF Persist
    <2> QED BY <1>29, <2>2, SessionFrame DEF Persist, SessionInv, clientVars
  <1>30. ASSUME NEW o \in Ops, CancelRun(o) PROVE SessionInv'
    <2>1. \A p \in Ops : p # o => /\ opc'[p] = opc[p] /\ target'[p] = target[p]
                                  /\ (handle'[p] <=> handle[p])
      BY <1>30 DEF CancelRun, OpGo, IInv, OpType
    <2>2. \A d \in Clients : Reaching(d) => Reaching(d)'
      BY <1>30, <2>1, ReachFrame DEF CancelRun
    <2>3. \A d \in Clients : killed[d] => killed'[d]
      BY <1>30 DEF CancelRun
    <2> QED BY <1>30, <2>2, <2>3, SessionFrame DEF CancelRun, SessionInv
  <1>31. ASSUME NEW o \in Ops, Nudge(o) PROVE SessionInv'
    <2>1. \A p \in Ops : p # o => /\ opc'[p] = opc[p] /\ target'[p] = target[p]
                                  /\ (handle'[p] <=> handle[p])
      BY <1>31, ReturnFacts DEF Nudge, IInv, OpType
    <2>2. \A d \in Clients : Reaching(d) => Reaching(d)'
      BY <1>31, <2>1, ReachFrame DEF Nudge
    <2> QED BY <1>31, <2>2, SessionFrame DEF Nudge, SessionInv, clientVars
  <1>32. CASE UNCHANGED <<pc, armed, killed, tok, sessTok, conf, opc, target, handle>>
    BY <1>32 DEF IInv, SessionInv, SessionAt, Up, Cancelled,
               HostToken, Reaching
  <1>33. MgrTop \/ MgrReturned \/ MgrWoken \/ MgrTimer \/ Revoke
          => UNCHANGED <<pc, armed, killed, tok, sessTok, conf, opc, target, handle>>
    BY DEF MgrTop, MgrReturned, MgrWoken, MgrTimer, Revoke, clientVars, opVars
  <1>34. \A c \in Clients : CooldownLapses(c)
          => UNCHANGED <<pc, armed, killed, tok, sessTok, conf, opc, target, handle>>
    BY DEF CooldownLapses, clientVars, opVars
  <1> QED BY <1>1, <1>2, <1>3, <1>4, <1>5, <1>6, <1>7, <1>8, <1>9, <1>10, <1>11, <1>12, <1>13,
           <1>14, <1>15, <1>16, <1>17, <1>18, <1>19, <1>20, <1>21, <1>22, <1>23, <1>24, <1>25,
           <1>26, <1>27, <1>28, <1>29, <1>30, <1>31, <1>32, <1>33, <1>34 DEF Next, Manager,
              ClientStep, SessionEnds, Call, OpStep

\* A call that gives the manager a hub nudges it, last of all.
LEMMA WakesKept ==
  ASSUME IInv, Next
  PROVE  Wakes'
  <1>1. CASE MgrTop
    BY <1>1 DEF MgrTop, IInv, Wakes, LocalModeWakes, MoveInv, MoveKept, LocalMode
  <1>2. CASE MgrBuild
    <2>1. nClients + 1 \in Clients /\ cur' = nClients + 1 /\ conf'[nClients + 1] = snap
      BY <1>2, LinkAssumption DEF MgrBuild, IInv, CountType, Clients, ConfType
    <2>2. mpc = "build" /\ mpc' = "run" /\ UNCHANGED <<cfg, retarget, opc>>
      BY <1>2 DEF MgrBuild, opVars
    <2> QED BY <2>1, <2>2 DEF IInv, Wakes, LocalModeWakes, MoveInv, MoveKept, Pointing
  <1>3. CASE MgrReturned
    BY <1>3 DEF MgrReturned, IInv, Wakes, LocalModeWakes, MoveInv, MoveKept
  <1>4. CASE MgrWoken
    BY <1>4 DEF MgrWoken, IInv, Wakes, LocalModeWakes, MoveInv, MoveKept
  <1>5. CASE MgrTimer
    BY <1>5 DEF MgrTimer, IInv, Wakes, LocalModeWakes, MoveInv, MoveKept
  <1>6. ASSUME NEW o \in Ops, ClientPair(o) PROVE Wakes'
    <2>1. Pointing => Pointing'
      BY <1>6, ReturnFacts DEF ClientPair, Hold, IInv, OpType, Pointing
    <2> QED BY <1>6, <2>1 DEF ClientPair, IInv, Wakes, LocalModeWakes, MoveInv, MoveKept, mgrVars, clientVars
  <1>7. ASSUME NEW o \in Ops, StoreToken(o) PROVE Wakes'
    <2>1. Pointing => Pointing'
      BY <1>7, ReturnFacts DEF StoreToken, OpGo, IInv, OpType, Pointing
    <2> QED BY <1>7, <2>1 DEF StoreToken, IInv, Wakes, LocalModeWakes, MoveInv, MoveKept, mgrVars, clientVars
  <1>8. ASSUME NEW o \in Ops, SetForce(o) PROVE Wakes'
    <2>1. Pointing => Pointing'
      BY <1>8, ReturnFacts DEF SetForce, OpGo, IInv, OpType, Pointing
    <2> QED BY <1>8, <2>1 DEF SetForce, IInv, Wakes, LocalModeWakes, MoveInv, MoveKept, mgrVars, clientVars
  <1>9. ASSUME NEW o \in Ops, Poke(o) PROVE Wakes'
    <2>1. Pointing => Pointing'
      BY <1>9, ReturnFacts DEF Poke, OpGo, IInv, OpType, Pointing
    <2> QED BY <1>9, <2>1 DEF Poke, IInv, Wakes, LocalModeWakes, MoveInv, MoveKept, mgrVars, clientVars
  <1>10. ASSUME NEW o \in Ops, GetCancel(o) PROVE Wakes'
    <2>1. Pointing => Pointing'
      BY <1>10, ReturnFacts DEF GetCancel, IInv, OpType, Pointing
    <2> QED BY <1>10, <2>1 DEF GetCancel, IInv, Wakes, LocalModeWakes, MoveInv, MoveKept, mgrVars, clientVars
  <1>11. ASSUME NEW o \in Ops, Fire(o) PROVE Wakes'
    <2>1. Pointing => Pointing'
      BY <1>11, ReturnFacts DEF Fire, IInv, OpType, Pointing
    <2> QED BY <1>11, <2>1 DEF Fire, IInv, Wakes, LocalModeWakes, MoveInv, MoveKept, mgrVars, clientVars
  <1>12. ASSUME NEW o \in Ops, PairWith(o) PROVE Wakes'
    <2>1. PICK u, c, l : Start(o, u, c, l)
      BY <1>12 DEF PairWith
    <2>2. Pointing => Pointing'
      BY <2>1, StartFacts DEF Pointing
    <2> QED BY <2>1, <2>2 DEF Start, IInv, Wakes, LocalModeWakes, MoveInv, MoveKept, mgrVars, clientVars
  <1>13. ASSUME NEW o \in Ops, Reuse(o) PROVE Wakes'
    <2>1. PICK u, c, l : Start(o, u, c, l)
      BY <1>13 DEF Reuse
    <2>2. Pointing => Pointing'
      BY <2>1, StartFacts DEF Pointing
    <2> QED BY <2>1, <2>2 DEF Start, IInv, Wakes, LocalModeWakes, MoveInv, MoveKept, mgrVars, clientVars
  <1>14. ASSUME NEW o \in Ops, Disconnect(o) PROVE Wakes'
    <2>1. PICK u, c, l : Start(o, u, c, l)
      BY <1>14 DEF Disconnect
    <2>2. Pointing => Pointing'
      BY <2>1, StartFacts DEF Pointing
    <2> QED BY <2>1, <2>2 DEF Start, IInv, Wakes, LocalModeWakes, MoveInv, MoveKept, mgrVars, clientVars
  <1>15. ASSUME NEW o \in Ops, Probe(o) PROVE Wakes'
    <2>1. Pointing => Pointing'
      BY <1>15, ReturnFacts DEF Probe, Hold, IInv, OpType, Pointing
    <2> QED BY <1>15, <2>1 DEF Probe, IInv, Wakes, LocalModeWakes, MoveInv, MoveKept, mgrVars, clientVars
  <1>16. ASSUME NEW o \in Ops, Save(o) PROVE Wakes'
    <2>1. Pointing => Pointing'
      BY <1>16, ReturnFacts DEF Save, OpGo, IInv, OpType, Pointing
    <2> QED BY <1>16, <2>1 DEF Save, IInv, Wakes, LocalModeWakes, MoveInv, MoveKept, mgrVars, clientVars
  <1>17. ASSUME NEW o \in Ops, Check(o) PROVE Wakes'
    <2>1. Pointing => Pointing'
      BY <1>17, ReturnFacts DEF Check, OpGo, IInv, OpType, Pointing
    <2> QED BY <1>17, <2>1 DEF Check, IInv, Wakes, LocalModeWakes, MoveInv, MoveKept, mgrVars, clientVars
  <1>18. ASSUME NEW o \in Ops, Point(o) PROVE Wakes'
    <2>1. Pointing'
      BY <1>18 DEF Point, IInv, OpType, Pointing
    <2>2. UNCHANGED <<mpc, cur>>
      BY <1>18 DEF Point, mgrVars
    <2> QED BY <2>1, <2>2 DEF IInv, Wakes, LocalModeWakes, MoveInv, MoveKept
  <1>19. ASSUME NEW o \in Ops, Persist(o) PROVE Wakes'
    <2>1. Pointing'
      BY <1>19 DEF Persist, OpGo, IInv, OpType, Pointing
    <2>2. UNCHANGED <<mpc, cur>>
      BY <1>19 DEF Persist, mgrVars
    <2> QED BY <2>1, <2>2 DEF IInv, Wakes, LocalModeWakes, MoveInv, MoveKept
  <1>20. ASSUME NEW o \in Ops, CancelRun(o) PROVE Wakes'
    <2>1. Pointing'
      BY <1>20 DEF CancelRun, OpGo, IInv, OpType, Pointing
    <2>2. UNCHANGED <<mpc, cur>>
      BY <1>20 DEF CancelRun, mgrVars
    <2> QED BY <2>1, <2>2 DEF IInv, Wakes, LocalModeWakes, MoveInv, MoveKept
  <1>21. ASSUME NEW o \in Ops, Nudge(o) PROVE Wakes'
    <2>1. retarget'
      BY <1>21 DEF Nudge, Nudges
    <2>2. UNCHANGED <<mpc, cur>>
      BY <1>21 DEF Nudge, mgrVars
    <2> QED BY <2>1, <2>2 DEF IInv, Wakes, LocalModeWakes, MoveInv, MoveKept
  <1>22. CASE UNCHANGED <<cfg, mpc, retarget, opc, cur, snap, conf>>
    BY <1>22 DEF IInv, Wakes, LocalModeWakes, MoveInv, MoveKept, Pointing
  <1>23. Revoke
          => UNCHANGED <<cfg, mpc, retarget, opc, cur, snap, conf>>
    BY DEF Revoke, mgrVars, clientVars, opVars
  <1>24. \A c \in Clients : EnsureToken(c) \/ PairByCode(c) \/ WaitWoken(c) \/ WaitTimer(c) \/
                            Exit(c) \/ Arm(c) \/ QuicDial(c) \/ QuicEnds(c) \/ WsDial(c) \/
                            WsEnds(c) \/ Ended(c) \/ Swap(c) \/ AuthRetry(c) \/
                            ClearState(c) \/ CooldownLapses(c)
          => UNCHANGED <<cfg, mpc, retarget, opc, cur, snap, conf>>
    BY ZenonT(40) DEF EnsureToken, PairByCode, WaitWoken, WaitTimer, Exit, Arm, QuicDial, QuicEnds,
            WsDial, WsEnds, Ended, Swap, AuthRetry, ClearState, CooldownLapses, mgrVars, opVars
  <1> QED BY <1>1, <1>2, <1>3, <1>4, <1>5, <1>6, <1>7, <1>8, <1>9, <1>10, <1>11, <1>12, <1>13,
           <1>14, <1>15, <1>16, <1>17, <1>18, <1>19, <1>20, <1>21, <1>22, <1>23, <1>24 DEF Next, Manager,
              ClientStep, SessionEnds, Call, OpStep

-----------------------------------------------------------------------------
(* Theorems *)

LEMMA StepInv == IInv /\ [Next]_vars => IInv'
  <1> SUFFICES ASSUME IInv, [Next]_vars PROVE IInv'
    OBVIOUS
  <1>1. CASE Next
    BY <1>1, MgrTyped, TokensTyped, ConfTyped, FlagsTyped, RunsTyped, OpsTyped, CountsTyped,
       OwnedKept, BornKept, CallsKept, SessionsKept, PathKept, WakesKept DEF IInv
  <1>2. CASE UNCHANGED vars
    <2> USE <1>2 DEF vars, mgrVars, diskVars, clientVars, opVars, hubVars, bounds
    <2>1. /\ MgrType' /\ TokenType' /\ ConfType' /\ FlagType' /\ RunType' /\ OpType' /\ CountType'
      BY DEF IInv, MgrType, TokenType, ConfType, FlagType, RunType, OpType, CountType
    <2>2. Owned' /\ Born' /\ CallInv'
      BY DEF IInv, Owned, AtBoot, OfConf, OfHub, Born, CallInv
    <2>3. SessionInv'
      BY DEF IInv, SessionInv, SessionAt, Up, Cancelled, HostToken, Reaching
    <2>4. PathInv' /\ Wakes'
      BY DEF IInv, PathInv, PathAt, Dialling, Wakes, LocalModeWakes, MoveInv, MoveKept, Pointing
    <2> QED BY <2>1, <2>2, <2>3, <2>4 DEF IInv
  <1> QED BY <1>1, <1>2

\* The strengthening holds in every state of every instance.
THEOREM InvariantHolds == Spec => []IInv
  BY InitInv, StepInv, PTL DEF Spec

\* Every variable keeps its type; no client is given anything but a hub to talk to.
THEOREM TypeCorrect == Spec => []TypeOK
  <1>1. IInv => TypeOK
    BY TypeParts DEF IInv
  <1> QED BY <1>1, InvariantHolds, PTL

\* A client only ever shows a hub a token of that very hub, whatever calls ran
\* beside one another and whatever they found on disk.
THEOREM TokensStayAtHome == Spec => []OwnHubToken
  <1>1. IInv => OwnHubToken
    BY DEF IInv, Owned, AtBoot, OfConf, OfHub, OwnHubToken
  <1> QED BY <1>1, InvariantHolds, PTL

\* Pairings, moves and path failures come at any step of the loops of manager and
\* client: no session keeps an old token, no manager sleeps on a configured hub, and
\* QUIC is written off for failures of its own only.
THEOREM CallsAreHeeded == Spec => []CallsLand
  <1>1. IInv => NoStaleSession
    <2>1. \A c \in Clients : Reaching(c) => Repairing(c)
      BY DEF Reaching, Repairing
    <2> QED BY <2>1 DEF IInv, SessionInv, SessionAt, NoStaleSession
  <1>2. IInv => CooldownEarned
    BY DEF IInv, PathInv, PathAt, CooldownEarned
  <1>3. IInv => CallsLand
    BY <1>1, <1>2 DEF IInv, Wakes, MoveInv, CallsLand
  <1> QED BY <1>3, InvariantHolds, PTL

=============================================================================
