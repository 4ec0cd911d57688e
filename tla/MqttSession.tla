----------------------------- MODULE MqttSession -----------------------------
(***************************************************************************)
(* The Meshtastic broker connection of the Electron main process:          *)
(* MQTTManager (src/main/mqtt-manager.ts), from connect() and disconnect() *)
(* over the handlers of the mqtt.js client it made to its reconnect timer, *)
(* its watchdog for a missing CONNACK, sleep and wake-up, and the wildcard *)
(* subscription it keeps with the broker.                                  *)
(*                                                                         *)
(* mqtt.js is not part of the source and is modelled by what the manager   *)
(* counts on: a client is made dialing, may come up once, and ends once    *)
(* with a close event; it may still raise error and close after end(true). *)
(* The manager turns the library's own reconnect off (reconnectPeriod: 0). *)
(* Requests of a client that ends are answered with "connection closed",   *)
(* which neither callback acts on; they are dropped here.                  *)
(*                                                                         *)
(* Left out: the messages, keys and caches, the pings of a WebSocket, and  *)
(* the length of the waits (preferFastMqttReconnect only shortens one).    *)
(***************************************************************************)
EXTENDS Naturals, Sequences, FiniteSets

CONSTANTS
  Clients,     \* mqtt.js clients; one that is closed may stand for a new one
  Prefixes,    \* topic prefixes, all free of wildcard characters
  None,        \* no client, no prefix
  MaxRetries,  \* settings.maxRetries, after its clamp to 1..12
  MaxCalls     \* bound on the calls of the user and of the power monitor

ASSUME NoneAssumption == None \notin Clients \cup Prefixes
ASSUME RetriesAssumption == MaxRetries \in Nat \ {0}
ASSUME CallsAssumption == MaxCalls \in Nat

VARIABLES
  client,          \* this.client
  link,            \* what each client is doing
  dialled,         \* the prefix in each client's closure (settings.topicPrefix)
  status,          \* this.status
  settings,        \* this.currentSettings: its prefix, or None
  wildcard,        \* this.subscribedWildcardTopic
  retryCount,      \* this.retryCount
  reconnectTimer,  \* this.reconnectTimer is armed
  ackTimer,        \* the client this.connectAckTimer is armed for, or None
  requests,        \* each client's unanswered SUBSCRIBE and UNSUBSCRIBE packets
  broker,          \* the topics the broker has subscribed each session to
  awake,           \* the machine is not suspended
  calls            \* number of calls made, to bound the model

manager == <<client, status, settings, wildcard, retryCount, reconnectTimer,
             ackTimer>>
library == <<link, dialled, requests, broker>>
vars == <<client, link, dialled, status, settings, wildcard, retryCount,
          reconnectTimer, ackTimer, requests, broker, awake, calls>>

Links == {"dialing", "up", "ended", "closed"}
Statuses == {"disconnected", "connecting", "connected", "error"}

\* An UNSUBSCRIBE carries the topic its callback subscribes to.
Request == [kind : {"sub"}, topic : Prefixes]
             \cup [kind : {"unsub"}, topic : Prefixes, next : Prefixes]
Sub(p) == [kind |-> "sub", topic |-> p]
Unsub(p, q) == [kind |-> "unsub", topic |-> p, next |-> q]

TypeOK ==
  /\ client \in Clients \cup {None}
  /\ link \in [Clients -> Links]
  /\ dialled \in [Clients -> Prefixes \cup {None}]
  /\ status \in Statuses
  /\ settings \in Prefixes \cup {None}
  /\ wildcard \in Prefixes \cup {None}
  /\ retryCount \in 0..MaxRetries
  /\ reconnectTimer \in BOOLEAN
  /\ ackTimer \in Clients \cup {None}
  /\ requests \in [Clients -> Seq(Request)]
  /\ broker \in [Clients -> SUBSET Prefixes]
  /\ awake \in BOOLEAN
  /\ calls \in 0..MaxCalls

Init ==
  /\ client = None
  /\ link = [c \in Clients |-> "closed"]
  /\ dialled = [c \in Clients |-> None]
  /\ status = "disconnected"
  /\ settings = None
  /\ wildcard = None
  /\ retryCount = 0
  /\ reconnectTimer = FALSE
  /\ ackTimer = None
  /\ requests = [c \in Clients |-> <<>>]
  /\ broker = [c \in Clients |-> {}]
  /\ awake = TRUE
  /\ calls = 0

-----------------------------------------------------------------------------
(* Shared pieces of the handlers.                                          *)

Live(c) == link[c] \in {"dialing", "up"}

\* forceEndMqttClient(this.client): the close event is still to come.
Ended == [c \in Clients |-> IF c = client /\ Live(c) THEN "ended" ELSE link[c]]

\* mqtt.connect() makes a client that is not in use.
Fresh(c) == c # client /\ link[c] = "closed"

\* Mutant of Dial: the old client is replaced, not ended.
DialOver(p) == \E c \in Clients :
  /\ Fresh(c)
  /\ link' = [link EXCEPT ![c] = "dialing"]
  /\ client' = c
  /\ dialled' = [dialled EXCEPT ![c] = p]
  /\ status' = "connecting"
  /\ ackTimer' = c
  /\ requests' = [requests EXCEPT ![c] = <<>>]
  /\ broker' = [broker EXCEPT ![c] = {}]

\* _doConnect(): end the old client, make a new one, arm its watchdog.
Dial(p) == \E c \in Clients :
  /\ Fresh(c)
  /\ link' = [Ended EXCEPT ![c] = "dialing"]
  /\ client' = c
  /\ dialled' = [dialled EXCEPT ![c] = p]
  /\ status' = "connecting"
  /\ ackTimer' = c
  /\ requests' = [d \in Clients |-> IF d \in {c, client} THEN <<>> ELSE requests[d]]
  /\ broker' = [broker EXCEPT ![c] = {}]

\* subscribeWildcardTopic() of a client that is up.
SubscribeTo(p) ==
  IF wildcard = p
  THEN UNCHANGED <<wildcard, requests>>
  ELSE /\ wildcard' = p
       /\ requests' = [requests EXCEPT ![client] =
            Append(@, IF wildcard = None THEN Sub(p) ELSE Unsub(wildcard, p))]

-----------------------------------------------------------------------------
(* The user and the power monitor.                                         *)

Call == calls < MaxCalls /\ calls' = calls + 1

\* connect(): disconnect(), then dial with a full budget.
Connect(p) ==
  /\ Call
  /\ settings' = p
  /\ wildcard' = None
  /\ retryCount' = 0
  /\ reconnectTimer' = FALSE
  /\ Dial(p)
  /\ UNCHANGED awake

\* disconnect().
Disconnect ==
  /\ Call
  /\ client' = None
  /\ link' = Ended
  /\ status' = "disconnected"
  /\ settings' = None
  /\ wildcard' = None
  /\ retryCount' = 0
  /\ reconnectTimer' = FALSE
  /\ ackTimer' = None
  /\ requests' = [c \in Clients |-> IF c = client THEN <<>> ELSE requests[c]]
  /\ UNCHANGED <<dialled, broker, awake>>

\* updateTopicPrefix(): the radio's root replaces the prefix of the settings.
UpdateTopicPrefix(p) ==
  /\ Call
  /\ settings # None
  /\ ~(settings = p /\ wildcard = p)
  /\ settings' = p
  /\ IF client # None /\ link[client] = "up"
     THEN SubscribeTo(p)
     ELSE UNCHANGED <<wildcard, requests>>
  /\ UNCHANGED <<client, link, dialled, status, retryCount, reconnectTimer,
                 ackTimer, broker, awake>>

\* handlePowerSuspend().
PowerSuspend ==
  /\ Call
  /\ awake
  /\ awake' = FALSE
  /\ reconnectTimer' = FALSE
  /\ UNCHANGED <<client, status, settings, wildcard, retryCount, ackTimer>>
  /\ UNCHANGED library

\* handlePowerResume(): a full budget and a new client, if there are settings.
PowerResume ==
  /\ ~awake
  /\ awake' = TRUE
  /\ IF settings = None
     THEN UNCHANGED manager /\ UNCHANGED library
     ELSE /\ retryCount' = 0
          /\ reconnectTimer' = FALSE
          /\ Dial(settings)
          /\ UNCHANGED <<settings, wildcard>>
  /\ UNCHANGED calls

-----------------------------------------------------------------------------
(* The timers.                                                             *)

ReconnectTimer ==
  /\ reconnectTimer
  /\ reconnectTimer' = FALSE
  /\ IF settings = None
     THEN /\ UNCHANGED <<client, status, settings, wildcard, retryCount, ackTimer>>
          /\ UNCHANGED library
     ELSE Dial(settings) /\ UNCHANGED <<settings, wildcard, retryCount>>
  /\ UNCHANGED <<awake, calls>>

\* Mutant of AckTimer: the client is left dialing.
AckTimerOnlyWarns ==
  /\ ackTimer # None
  /\ ackTimer' = None
  /\ UNCHANGED <<client, status, settings, wildcard, retryCount,
                 reconnectTimer, awake, calls>>
  /\ UNCHANGED library

\* No CONNACK in time: the client is ended, and its close event reconnects.
AckTimer ==
  /\ ackTimer # None
  /\ ackTimer' = None
  /\ IF ackTimer = client /\ status = "connecting"
     THEN /\ link' = Ended
          /\ requests' = [requests EXCEPT ![client] = <<>>]
     ELSE UNCHANGED <<link, requests>>
  /\ UNCHANGED <<client, dialled, status, settings, wildcard, retryCount,
                 reconnectTimer, broker, awake, calls>>

-----------------------------------------------------------------------------
(* The events of the clients.  A client that was replaced is not heard.    *)

\* 'connect': the session is up; subscribe to the prefix it was dialled with.
Connack(c) ==
  /\ link[c] = "dialing"
  /\ link' = [link EXCEPT ![c] = "up"]
  /\ IF c = client
     THEN /\ ackTimer' = None
          /\ status' = "connected"
          /\ SubscribeTo(dialled[c])
     ELSE UNCHANGED <<ackTimer, status, wildcard, requests>>
  /\ UNCHANGED <<client, dialled, settings, retryCount, reconnectTimer, broker,
                 awake, calls>>

\* 'error': only one that is not of the network shows; close is to follow.
Error(c, fatal) ==
  /\ link[c] # "closed"
  /\ link' = [link EXCEPT ![c] = "ended"]
  /\ requests' = [requests EXCEPT ![c] = <<>>]
  /\ status' = IF c = client /\ fatal THEN "error" ELSE status
  /\ UNCHANGED <<client, dialled, settings, wildcard, retryCount,
                 reconnectTimer, ackTimer, broker, awake, calls>>

\* 'offline': the library lost the stream and is about to close.
Offline(c) ==
  /\ Live(c)
  /\ link' = [link EXCEPT ![c] = "ended"]
  /\ requests' = [requests EXCEPT ![c] = <<>>]
  /\ status' = IF c = client /\ status = "connected" THEN "connecting" ELSE status
  /\ UNCHANGED <<client, dialled, settings, wildcard, retryCount,
                 reconnectTimer, ackTimer, broker, awake, calls>>

\* Mutant of PayForReconnect: the budget is one try larger than it says.
PayForReconnectOnceMore ==
  CASE status \in {"disconnected", "error"} \/ settings = None ->
         reconnectTimer' = FALSE /\ UNCHANGED <<status, retryCount>>
    [] status \in {"connecting", "connected"} /\ settings # None
         /\ retryCount > MaxRetries ->
         reconnectTimer' = FALSE /\ status' = "error" /\ UNCHANGED retryCount
    [] OTHER ->
         /\ reconnectTimer' = TRUE
         /\ retryCount' = retryCount + 1
         /\ status' = "disconnected"

\* What a close event does to the retry budget, the status and the timer.
PayForReconnect ==
  CASE status \in {"disconnected", "error"} \/ settings = None ->
         reconnectTimer' = FALSE /\ UNCHANGED <<status, retryCount>>
    [] status \in {"connecting", "connected"} /\ settings # None
         /\ retryCount >= MaxRetries ->
         reconnectTimer' = FALSE /\ status' = "error" /\ UNCHANGED retryCount
    [] OTHER ->
         /\ reconnectTimer' = TRUE
         /\ retryCount' = retryCount + 1
         /\ status' = "disconnected"

\* Mutant of Close: a replaced client is heard.
CloseOfAnyone(c) ==
  /\ link[c] # "closed"
  /\ link' = [link EXCEPT ![c] = "closed"]
  /\ requests' = [requests EXCEPT ![c] = <<>>]
  /\ broker' = [broker EXCEPT ![c] = {}]
  /\ ackTimer' = None
  /\ PayForReconnect
  /\ UNCHANGED <<client, dialled, settings, wildcard, awake, calls>>

\* 'close': the end of every client; the broker forgets its clean session.
Close(c) ==
  /\ link[c] # "closed"
  /\ link' = [link EXCEPT ![c] = "closed"]
  /\ requests' = [requests EXCEPT ![c] = <<>>]
  /\ broker' = [broker EXCEPT ![c] = {}]
  /\ IF c = client
     THEN ackTimer' = None /\ PayForReconnect
     ELSE UNCHANGED <<ackTimer, status, retryCount, reconnectTimer>>
  /\ UNCHANGED <<client, dialled, settings, wildcard, awake, calls>>

-----------------------------------------------------------------------------
(* The broker answers the requests of a session in their order.            *)

\* UNSUBACK, or its failure: the callback subscribes, with the client that
\* is current by then.
Unsubscribed(c) ==
  /\ link[c] = "up"
  /\ requests[c] # <<>>
  /\ Head(requests[c]).kind = "unsub"
  /\ broker' = [broker EXCEPT ![c] = @ \ {Head(requests[c]).topic}]
  /\ requests' =
       LET rest == [requests EXCEPT ![c] = Tail(@)]
       IN IF client # None /\ link[client] = "up"
          THEN [rest EXCEPT ![client] = Append(@, Sub(Head(requests[c]).next))]
          ELSE rest
  /\ UNCHANGED manager
  /\ UNCHANGED <<link, dialled, awake, calls>>

\* SUBACK: the session is usable, and the retry budget is full again.
Subscribed(c) ==
  /\ link[c] = "up"
  /\ requests[c] # <<>>
  /\ Head(requests[c]).kind = "sub"
  /\ broker' = [broker EXCEPT ![c] = @ \cup {Head(requests[c]).topic}]
  /\ requests' = [requests EXCEPT ![c] = Tail(@)]
  /\ retryCount' = 0
  /\ UNCHANGED <<client, link, dialled, status, settings, wildcard,
                 reconnectTimer, ackTimer, awake, calls>>

\* The broker refuses: the status says so, the session goes on.
SubscribeRefused(c) ==
  /\ link[c] = "up"
  /\ requests[c] # <<>>
  /\ Head(requests[c]).kind = "sub"
  /\ requests' = [requests EXCEPT ![c] = Tail(@)]
  /\ status' = "error"
  /\ UNCHANGED <<client, link, dialled, settings, wildcard, retryCount,
                 reconnectTimer, ackTimer, broker, awake, calls>>

-----------------------------------------------------------------------------
Calls ==
  \/ \E p \in Prefixes : Connect(p) \/ UpdateTopicPrefix(p)
  \/ Disconnect
  \/ PowerSuspend

Event(c) ==
  \/ Connack(c)
  \/ \E fatal \in BOOLEAN : Error(c, fatal)
  \/ Offline(c)
  \/ Close(c)
  \/ Unsubscribed(c)
  \/ Subscribed(c)
  \/ SubscribeRefused(c)

Next ==
  \/ Calls
  \/ PowerResume
  \/ ReconnectTimer
  \/ AckTimer
  \/ \E c \in Clients : Event(c)

Spec == Init /\ [][Next]_vars

\* Timers fire and an ended client closes.  Nothing is asked of the broker,
\* the network, the user or the power monitor.
FairSpec ==
  /\ Spec
  /\ WF_vars(ReconnectTimer)
  /\ WF_vars(AckTimer)
  /\ \A c \in Clients : WF_vars(link[c] = "ended" /\ Close(c))

-----------------------------------------------------------------------------
(* Properties.                                                             *)

\* At most one client is connected or connecting, and it is the manager's:
\* no session is left behind that would deliver every message twice.
OneSession == \A c \in Clients : Live(c) => c = client

\* Whatever the status shows has a cause to change: a dial has its watchdog,
\* an ended client its close event, a wait its timer; a replaced client can
\* take none of them away.
NoLimbo ==
  /\ settings # None \/ (client = None /\ ~reconnectTimer /\ status = "disconnected")
  /\ status = "connecting" =>
       /\ client # None
       /\ \/ link[client] = "dialing" /\ ackTimer = client
          \/ link[client] = "ended"
  /\ status = "connected" => client # None /\ link[client] \in {"up", "ended"}
  /\ status = "disconnected" /\ settings # None =>
       reconnectTimer \/ ~awake

\* A session that is up is never torn down, nor its dial charged, but by its
\* own events, by the user or by a wake-up.
HealthyIsLeftAlone ==
  [][(client # None /\ Live(client) /\ calls' = calls /\ awake' = awake
        /\ link'[client] # "closed")
     => client' = client /\ retryCount' <= retryCount /\ ~reconnectTimer']_vars

\* With settings, the connection does not hover: it comes up or says that it
\* failed, unless the user disconnects or the machine sleeps.
Settles ==
  (settings # None) ~> (status \in {"connected", "error"} \/ settings = None \/ ~awake)

\* What the connection looks like from outside (see ReconnectBudget).
Phase ==
  CASE settings = None -> "off"
    [] settings # None /\ status = "error" -> "failed"
    [] settings # None /\ status = "connected" -> "up"
    [] settings # None /\ status = "connecting" -> "dialing"
    [] OTHER -> "waiting"

Spent == IF Phase \in {"off", "failed"} THEN 0 ELSE retryCount

Budget == INSTANCE ReconnectBudget
            WITH phase <- Phase, spent <- Spent, Tokens <- FALSE, Forgiving <- FALSE

\* MQTTManager implements the reconnect budget.
ImplementsBudget == Budget!Spec

\* A session that is up and has nothing outstanding is subscribed: "will
\* retry on reconnect" says the log of an interrupted subscribe.
UpIsSubscribed ==
  status = "connected" /\ link[client] = "up" /\ requests[client] = <<>>
    => broker[client] # {}
==============================================================================
