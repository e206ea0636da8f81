---------------------------- MODULE SessionViews ----------------------------
(***************************************************************************)
(* What the host tells of one session beside its turns: its settings, its *)
(* tasks and the rate of its output.  Settings and tasks depend on the     *)
(* same agent process, and one end of it takes the row both are kept in;   *)
(* the rate outlives it.                                                   *)
(*                                                                         *)
(* A bound: nothing but the end of the process joins the first two, and    *)
(* nothing the rate to them, so a behaviour has calls, tasks or output     *)
(* (Alone, Idle, Mute); and the queries only read, so it has one of them   *)
(* (OneQuery).                                                             *)
(***************************************************************************)
EXTENDS Settings, Tasks, GenRate

TypeOK == SettingsTypeOK /\ TasksTypeOK

Idle  == snapshots /\ begun = {} /\ badge.at = "idle" /\ detached.at = "idle" /\ viewer.at = "idle"
Alone == call = [c \in Calls |-> Wish] /\ tx = <<>> /\ ag = New /\ modern /\ promoted
Mute  == chunks = 0 /\ clock = [agent |-> 1, host |-> 1]

OneQuery ==
  \/ badge.at = "idle" /\ detached.at = "idle"
  \/ badge.at = "idle" /\ viewer.at = "idle"
  \/ detached.at = "idle" /\ viewer.at = "idle"

ViewsInit == Init /\ TasksInit /\ RateInit
ViewsNext ==
  \/ Mute /\ Idle /\ Steps /\ UNCHANGED <<taskVars, rateVars>>
  \/ Mute /\ ~Idle /\ Load /\ UNCHANGED <<taskVars, rateVars>>
  \/ Mute /\ Alone /\ TasksNext /\ OneQuery' /\ UNCHANGED <<vars, rateVars>>
  \/ Mute /\ Restart /\ AgentEnds /\ UNCHANGED rateVars
  \/ Idle /\ Alone /\ RateNext /\ UNCHANGED <<vars, taskVars>>
ViewsSpec == ViewsInit /\ [][ViewsNext]_<<vars, taskVars, rateVars>>

-----------------------------------------------------------------------------
\* What the host makes up itself of what others know: the tasks that run, what the
\* agent holds of them (Tasks), and how fast the agent writes (GenRate).
EstimatesRight == TasksRight /\ RateRight
=============================================================================
