--------------------------- MODULE ReconnectBudget ---------------------------
(***************************************************************************)
(* What a broker connection of the main process promises about its         *)
(* automatic reconnects, whatever client library, timers and tokens it     *)
(* uses underneath: a lost connection costs one of MaxRetries tries, each  *)
(* try paid for is dialled at most once, a connection whose budget is gone *)
(* fails, and only the user, a wake-up of the machine or a session that    *)
(* really came up fill the budget again.                                   *)
(*                                                                         *)
(* A connection may promise less in two ways: after a wake-up it waits for *)
(* a token before it dials, and it forgives what was spent when it charges *)
(* a loss.                                                                 *)
(***************************************************************************)
EXTENDS Naturals

CONSTANTS
  MaxRetries,  \* tries of a full budget, a positive number
  Tokens,      \* may a wake-up wait for a token?
  Forgiving    \* may a loss be charged to a full budget?

VARIABLES
  phase,  \* off, dialing, up, waiting to redial, or failed
  spent   \* tries of the budget used up since it was last filled

Init == phase = "off" /\ spent = 0

\* The user connects or disconnects: whatever was going on is over.
Open == phase' = "dialing" /\ spent' = 0
Shut == phase' = "off" /\ spent' = 0

\* The machine wakes up: dial with a full budget, at once or with a token.
Wake ==
  /\ phase # "off"
  /\ phase' = "dialing" \/ (Tokens /\ phase' = "waiting")
  /\ spent' = 0

Establish == phase = "dialing" /\ phase' = "up" /\ UNCHANGED spent

\* The session proved itself: the budget is full again.
Confirm == phase = "up" /\ spent' = 0 /\ UNCHANGED phase

\* The connection is lost and one try is paid for.
Lose ==
  /\ phase \in {"dialing", "up"}
  /\ \/ spent < MaxRetries /\ spent' = spent + 1
     \/ Forgiving /\ spent' = 1
  /\ phase' = "waiting"

\* A session that was up is being dialled again by the library.
Slip == phase = "up" /\ phase' = "dialing" /\ UNCHANGED spent

Redial == phase = "waiting" /\ phase' = "dialing" /\ UNCHANGED spent

\* The budget is gone, or the broker refused for good.
Fail == phase \in {"dialing", "up"} /\ phase' = "failed" /\ spent' = 0

Next ==
  \/ Open \/ Shut \/ Wake \/ Establish \/ Confirm
  \/ Lose \/ Slip \/ Redial \/ Fail

Spec == Init /\ [][Next]_<<phase, spent>>
==============================================================================
