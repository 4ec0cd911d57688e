---------------------------- MODULE MeshcoreMqtt ----------------------------
(***************************************************************************)
(* The MeshCore broker connection of the Electron main process:            *)
(* MeshcoreMqttAdapter (src/main/meshcore-mqtt-adapter.ts).  It differs    *)
(* from MqttSession where the code does: a broker with JWT accounts is     *)
(* redialled only after the renderer was asked for a fresh token, a        *)
(* watchdog ends a silent session, the watchdog of the CONNACK drops its   *)
(* client for good, and the retry budget is filled by how long ago the     *)
(* last CONNACK came.                                                      *)
(*                                                                         *)
(* mqtt.js is modelled as in MqttSession.  JWT accounts sign in with a     *)
(* v1_ name, for which the adapter does not subscribe.  Left out: the      *)
(* messages, the pings, the proactive token refresh (it only raises an     *)
(* event; the renderer may call updateToken() at any time here), and the   *)
(* length of the waits.                                                    *)
(***************************************************************************)
EXTENDS Naturals, FiniteSets

CONSTANTS
  Clients,     \* mqtt.js clients; one that is closed may stand for a new one
  Topics,      \* topic prefixes
  None,        \* no client, no settings
  MaxRetries,  \* settings.maxRetries, after its clamp to 1..12
  MaxCalls     \* bound on the calls of the user and of the power monitor

ASSUME NoneAssumption == None \notin Clients
ASSUME RetriesAssumption == MaxRetries \in Nat \ {0}
ASSUME CallsAssumption == MaxCalls \in Nat

VARIABLES
  client,          \* this.client
  link,            \* what each client is doing
  dialled,         \* the settings in each client's closure
  status,          \* this.status
  settings,        \* this.lastSettings
  retryCount,      \* this.retryCount
  lastConnected,   \* this.lastConnected: never, less or more than 30 s ago
  reconnectTimer,  \* this.reconnectTimer is armed
  ackTimer,        \* the client this.connectAckTimer is armed for, or None
  watchdog,        \* this.connectionWatchdogTimer is armed
  pending,         \* this.pendingReconnect
  pendingTimer,    \* this.pendingReconnectTimer is armed
  delayed,         \* the clients whose subscribe waits for its 500 ms
  topics,          \* what each session has subscribed to
  awake,           \* the machine is not suspended
  calls            \* number of calls made, to bound the model

timers == <<reconnectTimer, watchdog, pending, pendingTimer>>
session == <<delayed, topics>>
vars == <<client, link, dialled, status, settings, retryCount, lastConnected,
          reconnectTimer, ackTimer, watchdog, pending, pendingTimer, delayed,
          topics, awake, calls>>

Links == {"dialing", "up", "ended", "closed"}
Statuses == {"disconnected", "connecting", "connected", "error"}
Settings == [topic : Topics, jwt : BOOLEAN]

ASSUME NoneIsNoSettings == None \notin Settings

TypeOK ==
  /\ client \in Clients \cup {None}
  /\ link \in [Clients -> Links]
  /\ dialled \in [Clients -> Settings \cup {None}]
  /\ status \in Statuses
  /\ settings \in Settings \cup {None}
  /\ retryCount \in 0..MaxRetries
  /\ lastConnected \in {"never", "recent", "old"}
  /\ reconnectTimer \in BOOLEAN
  /\ ackTimer \in Clients \cup {None}
  /\ watchdog \in BOOLEAN
  /\ pending \in BOOLEAN
  /\ pendingTimer \in BOOLEAN
  /\ delayed \subseteq Clients
  /\ topics \in [Clients -> SUBSET Topics]
  /\ awake \in BOOLEAN
  /\ calls \in 0..MaxCalls

Init ==
  /\ client = None
  /\ link = [c \in Clients |-> "closed"]
  /\ dialled = [c \in Clients |-> None]
  /\ status = "disconnected"
  /\ settings = None
  /\ retryCount = 0
  /\ lastConnected = "never"
  /\ reconnectTimer = FALSE
  /\ ackTimer = None
  /\ watchdog = FALSE
  /\ pending = FALSE
  /\ pendingTimer = FALSE
  /\ delayed = {}
  /\ topics = [c \in Clients |-> {}]
  /\ awake = TRUE
  /\ calls = 0

-----------------------------------------------------------------------------
(* Shared pieces of the handlers.                                          *)

Live(c) == link[c] \in {"dialing", "up"}

\* forceEndMqttClient(this.client): the close event is still to come.
Ended == [c \in Clients |-> IF c = client /\ Live(c) THEN "ended" ELSE link[c]]

\* mqtt.connect() makes a client that is not in use.
Fresh(c) == c # client /\ link[c] = "closed" /\ c \notin delayed

\* Mutant of Dial: the watchdog of the client before is left armed.
DialKeepingWatchdog(s) == \E c \in Clients :
  /\ Fresh(c)
  /\ link' = [Ended EXCEPT ![c] = "dialing"]
  /\ client' = c
  /\ dialled' = [dialled EXCEPT ![c] = s]
  /\ status' = "connecting"
  /\ ackTimer' = IF ackTimer = None THEN c ELSE ackTimer
  /\ topics' = [topics EXCEPT ![c] = {}]

\* Mutant of Dial: the old client is replaced, not ended.
DialOver(s) == \E c \in Clients :
  /\ Fresh(c)
  /\ link' = [link EXCEPT ![c] = "dialing"]
  /\ client' = c
  /\ dialled' = [dialled EXCEPT ![c] = s]
  /\ status' = "connecting"
  /\ ackTimer' = c
  /\ topics' = [topics EXCEPT ![c] = {}]

\* _doConnect(): end the old client, make a new one, arm its watchdog.
Dial(s) == \E c \in Clients :
  /\ Fresh(c)
  /\ link' = [Ended EXCEPT ![c] = "dialing"]
  /\ client' = c
  /\ dialled' = [dialled EXCEPT ![c] = s]
  /\ status' = "connecting"
  /\ ackTimer' = c
  /\ topics' = [topics EXCEPT ![c] = {}]

-----------------------------------------------------------------------------
(* The user, the renderer and the power monitor.                           *)

Call == calls < MaxCalls /\ calls' = calls + 1

\* connect(): disconnect(), then dial with a full budget.
Connect(s) ==
  /\ Call
  /\ settings' = s
  /\ retryCount' = 0
  /\ reconnectTimer' = FALSE
  /\ pending' = FALSE
  /\ pendingTimer' = FALSE
  /\ Dial(s)
  /\ UNCHANGED <<lastConnected, watchdog, delayed, awake>>

\* disconnect(); connect() with a wildcard in its prefix ends in an error.
Disconnect ==
  /\ Call
  /\ client' = None
  /\ link' = Ended
  /\ status' \in {"disconnected", "error"}
  /\ settings' = None
  /\ retryCount' = 0
  /\ reconnectTimer' = FALSE
  /\ ackTimer' = None
  /\ pending' = FALSE
  /\ pendingTimer' = FALSE
  /\ UNCHANGED <<dialled, lastConnected, watchdog, awake>>
  /\ UNCHANGED session

\* updateToken(): a reconnect that waited for the token goes on.
UpdateToken ==
  /\ pending /\ settings # None
  /\ pending' = FALSE
  /\ pendingTimer' = FALSE
  /\ Dial(settings)
  /\ UNCHANGED <<settings, retryCount, lastConnected, reconnectTimer, watchdog,
                 delayed, awake, calls>>

\* handlePowerSuspend(): the wait for a token stays, without its timer.
PowerSuspend ==
  /\ Call
  /\ awake
  /\ awake' = FALSE
  /\ watchdog' = FALSE
  /\ reconnectTimer' = FALSE
  /\ pendingTimer' = FALSE
  /\ UNCHANGED <<client, link, dialled, status, settings, retryCount,
                 lastConnected, ackTimer, pending>>
  /\ UNCHANGED session

\* Mutant of WakeWithToken: the renderer alone ends the wait for the token.
WakeCountingOnToken ==
  /\ client' = None
  /\ link' = Ended
  /\ status' = "disconnected"
  /\ pending' = TRUE
  /\ pendingTimer' = FALSE
  /\ UNCHANGED <<dialled, ackTimer, topics>>

\* A JWT broker: drop the client and wait for a token.
WakeWithToken ==
  /\ client' = None
  /\ link' = Ended
  /\ status' = "disconnected"
  /\ pending' = TRUE
  /\ pendingTimer' = TRUE
  /\ UNCHANGED <<dialled, ackTimer, topics>>

\* handlePowerResume(): with settings, a full budget and a new start.
PowerResume ==
  /\ ~awake
  /\ awake' = TRUE
  /\ watchdog' = FALSE
  /\ IF settings = None
     THEN /\ UNCHANGED <<client, link, dialled, status, retryCount, ackTimer,
                         reconnectTimer, pending, pendingTimer, topics>>
     ELSE /\ retryCount' = 0
          /\ reconnectTimer' = FALSE
          /\ \/ settings.jwt /\ WakeWithToken
             \/ ~settings.jwt /\ pending' = FALSE /\ pendingTimer' = FALSE
                  /\ Dial(settings)
  /\ UNCHANGED <<settings, lastConnected, delayed, calls>>

-----------------------------------------------------------------------------
(* The timers.                                                             *)

\* The wait is over: dial, or ask the renderer for a token first.
ReconnectTimer ==
  /\ reconnectTimer
  /\ reconnectTimer' = FALSE
  /\ IF settings # None /\ ~settings.jwt
     THEN /\ Dial(settings)
          /\ UNCHANGED <<pending, pendingTimer>>
     ELSE /\ pending' = (pending \/ settings # None)
          /\ pendingTimer' = (pendingTimer \/ settings # None)
          /\ UNCHANGED <<client, link, dialled, status, ackTimer, topics>>
  /\ UNCHANGED <<settings, retryCount, lastConnected, watchdog, delayed, awake,
                 calls>>

\* The renderer did not answer in time: dial with the token at hand.
PendingTimer ==
  /\ pendingTimer
  /\ pendingTimer' = FALSE
  /\ IF pending /\ settings # None
     THEN pending' = FALSE /\ Dial(settings)
     ELSE UNCHANGED <<pending, client, link, dialled, status, ackTimer, topics>>
  /\ UNCHANGED <<settings, retryCount, lastConnected, reconnectTimer, watchdog,
                 delayed, awake, calls>>

\* No CONNACK in time: the client is dropped, so that its close is not heard.
AckTimer ==
  /\ ackTimer # None
  /\ ackTimer' = None
  /\ IF ackTimer = client /\ status = "connecting"
     THEN client' = None /\ link' = Ended /\ status' = "disconnected"
     ELSE UNCHANGED <<client, link, status>>
  /\ UNCHANGED <<dialled, settings, retryCount, lastConnected, awake, calls>>
  /\ UNCHANGED timers /\ UNCHANGED session

\* The connection watchdog: a session that went silent is ended.
Watchdog ==
  /\ watchdog
  /\ status = "connected"
  /\ client # None
  /\ link' = Ended
  /\ UNCHANGED <<client, dialled, status, settings, retryCount, lastConnected,
                 ackTimer, awake, calls>>
  /\ UNCHANGED timers /\ UNCHANGED session

\* Mutant of DelayedSubscribe: the subscribe is dropped.
DelayedSubscribeDropped(c) ==
  /\ c \in delayed
  /\ delayed' = delayed \ {c}
  /\ UNCHANGED <<client, link, dialled, status, settings, retryCount, topics,
                 lastConnected, ackTimer, awake, calls>>
  /\ UNCHANGED timers

\* 500 ms after a CONNACK the session that is current by then subscribes.
DelayedSubscribe(c) ==
  /\ c \in delayed
  /\ delayed' = delayed \ {c}
  /\ topics' = IF status = "connected" /\ client # None
               THEN [topics EXCEPT ![client] = @ \cup {dialled[c].topic}]
               ELSE topics
  /\ UNCHANGED <<client, link, dialled, status, settings, retryCount,
                 lastConnected, ackTimer, awake, calls>>
  /\ UNCHANGED timers

\* Half a minute passes since the last CONNACK.
HalfMinute ==
  /\ lastConnected = "recent"
  /\ lastConnected' = "old"
  /\ UNCHANGED <<client, link, dialled, status, settings, retryCount, ackTimer,
                 awake, calls>>
  /\ UNCHANGED timers /\ UNCHANGED session

-----------------------------------------------------------------------------
(* The events of the clients.  A client that was replaced is not heard.    *)

\* 'connect': the session is up.
Connack(c) ==
  /\ link[c] = "dialing"
  /\ link' = [link EXCEPT ![c] = "up"]
  /\ IF c = client
     THEN /\ ackTimer' = None
          /\ lastConnected' = "recent"
          /\ status' = "connected"
          /\ watchdog' = TRUE
          /\ delayed' = IF dialled[c].jwt THEN delayed ELSE delayed \cup {c}
     ELSE UNCHANGED <<ackTimer, lastConnected, status, watchdog, delayed>>
  /\ UNCHANGED <<client, dialled, settings, retryCount, reconnectTimer, pending,
                 pendingTimer, topics, awake, calls>>

\* 'error': a dial is shown as disconnected at once; close is to follow.
Error(c) ==
  /\ Live(c)
  /\ link' = [link EXCEPT ![c] = "ended"]
  /\ ackTimer' = IF c = client THEN None ELSE ackTimer
  /\ status' = IF c = client /\ status = "connecting" THEN "disconnected" ELSE status
  /\ UNCHANGED <<client, dialled, settings, retryCount, lastConnected, awake, calls>>
  /\ UNCHANGED timers /\ UNCHANGED session

\* 'offline': the library lost the stream and is about to close.
Offline(c) ==
  /\ Live(c)
  /\ link' = [link EXCEPT ![c] = "ended"]
  /\ status' = IF c = client /\ status # "error" THEN "disconnected" ELSE status
  /\ UNCHANGED <<client, dialled, settings, retryCount, lastConnected, ackTimer,
                 awake, calls>>
  /\ UNCHANGED timers /\ UNCHANGED session

\* What is left of the budget: all of it, 30 s after the last CONNACK.
Spent == IF lastConnected = "old" THEN 0 ELSE retryCount

\* Mutant of PayForReconnect: the budget is one try larger than it says.
PayForReconnectOnceMore ==
  IF Spent > MaxRetries
  THEN status' = "error" /\ retryCount' = Spent /\ reconnectTimer' = FALSE
  ELSE status' = "disconnected" /\ retryCount' = Spent + 1 /\ reconnectTimer' = TRUE

\* A close that is to be followed by a reconnect, or by giving up.
PayForReconnect ==
  IF Spent >= MaxRetries
  THEN status' = "error" /\ retryCount' = Spent /\ reconnectTimer' = FALSE
  ELSE status' = "disconnected" /\ retryCount' = Spent + 1 /\ reconnectTimer' = TRUE

\* Mutant of Close: a replaced client is heard.
CloseOfAnyone(c) ==
  /\ link[c] # "closed"
  /\ link' = [link EXCEPT ![c] = "closed"]
  /\ ackTimer' = None
  /\ watchdog' = FALSE
  /\ IF status = "error" \/ settings = None
     THEN /\ reconnectTimer' = FALSE
          /\ UNCHANGED retryCount
          /\ status' = IF status = "error" THEN "error" ELSE "disconnected"
     ELSE PayForReconnect
  /\ topics' = [topics EXCEPT ![c] = {}]
  /\ UNCHANGED <<client, dialled, settings, lastConnected, pending, pendingTimer,
                 delayed, awake, calls>>

\* 'close': the end of every client; the broker forgets its clean session.
Close(c) ==
  /\ link[c] # "closed"
  /\ link' = [link EXCEPT ![c] = "closed"]
  /\ IF c # client
     THEN UNCHANGED <<status, retryCount, reconnectTimer, ackTimer, watchdog>>
     ELSE /\ ackTimer' = None
          /\ watchdog' = FALSE
          /\ IF status = "error" \/ settings = None
             THEN /\ reconnectTimer' = FALSE
                  /\ UNCHANGED <<status, retryCount>>
             ELSE PayForReconnect
  /\ topics' = [topics EXCEPT ![c] = {}]
  /\ UNCHANGED <<client, dialled, settings, lastConnected, pending, pendingTimer,
                 delayed, awake, calls>>

-----------------------------------------------------------------------------
Calls == (\E s \in Settings : Connect(s)) \/ Disconnect \/ PowerSuspend

Timers ==
  \/ ReconnectTimer
  \/ PendingTimer
  \/ AckTimer
  \/ Watchdog
  \/ \E c \in Clients : DelayedSubscribe(c)
  \/ HalfMinute

Event(c) == Connack(c) \/ Error(c) \/ Offline(c) \/ Close(c)

Next ==
  \/ Calls
  \/ UpdateToken
  \/ PowerResume
  \/ Timers
  \/ \E c \in Clients : Event(c)

Spec == Init /\ [][Next]_vars

\* Timers fire and an ended client closes.  Nothing is asked of the broker,
\* the renderer, the user or the power monitor, nor that time passes.
FairSpec ==
  /\ Spec
  /\ WF_vars(ReconnectTimer)
  /\ WF_vars(PendingTimer)
  /\ WF_vars(AckTimer)
  /\ \A c \in Clients : WF_vars(DelayedSubscribe(c))
  /\ \A c \in Clients : WF_vars(link[c] = "ended" /\ Close(c))

-----------------------------------------------------------------------------
(* Properties.                                                             *)

\* At most one client is connected or connecting, and it is the adapter's.
OneSession == \A c \in Clients : Live(c) => c = client

\* The watchdog of the CONNACK gave the connection up.
Stranded == settings # None /\ status = "disconnected" /\ client = None /\ ~pending

\* Whatever the status shows has a cause to change: a dial has its watchdog,
\* a session its own, an ended client its close event, a wait its timer.
\* Only the watchdog of the CONNACK leaves a connection without one.
NoLimbo ==
  /\ settings = None => client = None /\ ~reconnectTimer /\ ~pending
  /\ status = "connecting" =>
       /\ client # None
       /\ \/ link[client] = "dialing" /\ ackTimer = client
          \/ link[client] = "ended"
  /\ status = "connected" =>
       /\ client # None
       /\ link[client] = "ended" \/ (link[client] = "up" /\ (watchdog \/ ~awake))
  /\ status = "disconnected" /\ settings # None /\ awake =>
       \/ reconnectTimer
       \/ pending /\ pendingTimer
       \/ client # None /\ link[client] = "ended"
       \/ Stranded

\* A session that is up is never torn down, nor its dial charged, but by its
\* own events, by the user or by a wake-up.
HealthyIsLeftAlone ==
  [][(client # None /\ Live(client) /\ calls' = calls /\ awake' = awake
        /\ link'[client] # "closed")
     => /\ client' \in {client, None}
        /\ retryCount' <= retryCount /\ ~reconnectTimer' /\ ~pending']_vars

\* A session that is up, and past its delay, asked the broker for its topic.
UpIsSubscribed ==
  status = "connected" /\ link[client] = "up" /\ client \notin delayed
    => dialled[client].jwt \/ dialled[client].topic \in topics[client]

\* A wait always ends in a dial, whether or not the renderer finds a token.
WaitEnds ==
  (settings # None /\ status = "disconnected" /\ ~Stranded)
    ~> (status # "disconnected" \/ settings = None \/ ~awake \/ Stranded)

\* What the connection looks like from outside (see ReconnectBudget): a client
\* that is ended is still being dialled until its close is heard.
Phase ==
  CASE settings = None -> "off"
    [] settings # None /\ (status = "error" \/ Stranded) -> "failed"
    [] settings # None /\ status = "connected" -> "up"
    [] /\ settings # None /\ status = "disconnected" /\ ~Stranded
       /\ client = None \/ link[client] = "closed" -> "waiting"
    [] OTHER -> "dialing"

Charged == IF Phase \in {"off", "failed"} THEN 0 ELSE retryCount

Budget == INSTANCE ReconnectBudget
            WITH phase <- Phase, spent <- Charged, Tokens <- TRUE, Forgiving <- TRUE

\* MeshcoreMqttAdapter implements the reconnect budget with both of its
\* relaxations: it dials only for the user, for a wake-up or after a wait that
\* one loss has paid for, and gives up for good with an error or stranded.
ImplementsBudget == Budget!Spec

\* Only a session that was up fills the budget: "reset retry budget only
\* when the session was genuinely stable".
FailedDialIsPaid ==
  [][(client # None /\ client' = client /\ link[client] = "dialing"
        /\ link'[client] = "closed" /\ settings # None)
     => retryCount' = retryCount + 1 \/ status' = "error"]_vars
=============================================================================
