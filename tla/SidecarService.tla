--------------------------- MODULE SidecarService ---------------------------
(***************************************************************************)
(* What the sidecar's manager promises to those who call start() and       *)
(* stop(), whatever promises, timers and exit events it juggles: it        *)
(* answers for one process at a time, which it launches on an empty stage  *)
(* and only while the last request is a start; it reports running only     *)
(* then; and what it takes down is gone before the stage is empty again.   *)
(***************************************************************************)
CONSTANT Processes  \* what may be launched

VARIABLES
  stage,     \* off, held by the manager, or being taken down
  alive,     \* the processes that run
  reported,  \* the status says running
  wanted     \* the last request that took effect

Init == stage = "off" /\ alive = {} /\ reported = FALSE /\ wanted = "none"

\* A request takes effect; what follows from it comes later.
Request == wanted' \in {"start", "stop"} /\ UNCHANGED <<stage, alive, reported>>

\* Nothing of an earlier launch is left, and a start is wanted.
Launch ==
  /\ stage = "off" /\ alive = {} /\ ~reported /\ wanted = "start"
  /\ stage' = "held"
  /\ \E p \in Processes : alive' = {p}
  /\ UNCHANGED <<reported, wanted>>

\* Success of a start, unless a stop has come in between.
Report ==
  /\ stage = "held" /\ ~reported /\ wanted = "start"
  /\ reported' = TRUE
  /\ UNCHANGED <<stage, alive, wanted>>

Take == stage = "held" /\ stage' = "stopping" /\ UNCHANGED <<alive, reported, wanted>>

\* Being taken down, it is reported no longer.
Withdraw ==
  /\ stage = "stopping" /\ reported' = FALSE
  /\ UNCHANGED <<stage, alive, wanted>>

\* The process ends, by itself or as it was told to.
Die == alive' = {} /\ UNCHANGED <<stage, reported, wanted>>

\* What is held has ended by itself, or what is taken down is gone.
Clear ==
  /\ stage = "stopping" \/ (stage = "held" /\ alive = {})
  /\ stage' = "off" /\ alive' = {} /\ reported' = FALSE
  /\ UNCHANGED wanted

Next == Request \/ Launch \/ Report \/ Take \/ Withdraw \/ Die \/ Clear

Spec == Init /\ [][Next]_<<stage, alive, reported, wanted>>
=============================================================================
