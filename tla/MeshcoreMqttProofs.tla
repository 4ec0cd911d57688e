------------------------- MODULE MeshcoreMqttProofs -------------------------
(***************************************************************************)
(* Proofs about MeshcoreMqtt, for any number of clients and topics, any    *)
(* budget and any number of calls.                                         *)
(***************************************************************************)
EXTENDS MeshcoreMqtt, TLAPS

USE NoneAssumption, RetriesAssumption, CallsAssumption, NoneIsNoSettings

\* A client that dials, or whose subscribe is delayed, has settings to use.
Dialled == \A c \in Clients :
  link[c] = "dialing" \/ c \in delayed => dialled[c] \in Settings

Typed == TypeOK /\ Dialled

LEMMA EndedType ==
  ASSUME TypeOK
  PROVE  /\ Ended \in [Clients -> Links]
         /\ \A c \in Clients : Ended[c] = "dialing" => link[c] = "dialing"
  BY DEF TypeOK, Ended, Links

\* What dialling leaves behind has the types of its variables.
LEMMA DialType ==
  ASSUME Typed, NEW s \in Settings, Dial(s), delayed' = delayed
  PROVE  /\ client' \in Clients /\ link'[client'] = "dialing"
         /\ link' \in [Clients -> Links]
         /\ dialled' \in [Clients -> Settings \cup {None}]
         /\ status' = "connecting"
         /\ ackTimer' = client'
         /\ topics' \in [Clients -> SUBSET Topics]
         /\ Dialled'
<1> USE DEF Typed
<1>1. PICK c \in Clients :
        /\ Fresh(c)
        /\ link' = [Ended EXCEPT ![c] = "dialing"]
        /\ client' = c
        /\ dialled' = [dialled EXCEPT ![c] = s]
        /\ status' = "connecting"
        /\ ackTimer' = c
        /\ topics' = [topics EXCEPT ![c] = {}]
  BY DEF Dial
<1>2. link' \in [Clients -> Links] /\ link'[c] = "dialing"
  BY <1>1, EndedType DEF Links
<1>3. Dialled'
  BY <1>1, EndedType DEF Dialled, TypeOK
<1>4. /\ dialled' \in [Clients -> Settings \cup {None}]
      /\ topics' \in [Clients -> SUBSET Topics]
  BY <1>1 DEF TypeOK
<1> QED BY <1>1, <1>2, <1>3, <1>4

\* A close charges at most the last of the tries.
LEMMA PayType ==
  ASSUME TypeOK, PayForReconnect
  PROVE  /\ status' \in Statuses /\ retryCount' \in 0..MaxRetries
         /\ reconnectTimer' \in BOOLEAN
<1>1. Spent \in 0..MaxRetries
  BY DEF Spent, TypeOK
<1>2. CASE Spent >= MaxRetries
  BY <1>1, <1>2 DEF PayForReconnect, Statuses
<1>3. CASE ~(Spent >= MaxRetries)
  BY <1>1, <1>3 DEF PayForReconnect, Statuses
<1> QED BY <1>2, <1>3

\* Every step of the adapter, its timers and the clients keeps the types.
LEMMA TypeStep ==
  ASSUME Typed, [Next]_vars
  PROVE  Typed'
<1> USE DEF Typed
<1>1. CASE UNCHANGED vars
  BY <1>1 DEF TypeOK, Dialled, vars
<1>2. ASSUME NEW s \in Settings, Connect(s) PROVE Typed'
  <2>1. /\ calls' \in 0..MaxCalls /\ retryCount' \in 0..MaxRetries
        /\ settings' \in Settings /\ reconnectTimer' = FALSE
        /\ pending' = FALSE /\ pendingTimer' = FALSE
        /\ UNCHANGED <<lastConnected, watchdog, delayed, awake>>
    BY <1>2 DEF Connect, Call, TypeOK
  <2>2. Dial(s)
    BY <1>2 DEF Connect
  <2> QED BY <2>1, <2>2, DialType DEF TypeOK, Statuses
<1>3. CASE Disconnect
  <2>1. calls' \in 0..MaxCalls /\ retryCount' \in 0..MaxRetries /\ status' \in Statuses
    BY <1>3 DEF Disconnect, Call, TypeOK, Statuses
  <2>2. Dialled'
    BY <1>3, EndedType DEF Disconnect, session, Dialled
  <2> QED BY <1>3, <2>1, <2>2, EndedType DEF Disconnect, session, TypeOK
<1>4. CASE UpdateToken
  <2>1. settings \in Settings /\ Dial(settings)
    BY <1>4 DEF UpdateToken, TypeOK
  <2> QED BY <1>4, <2>1, DialType DEF UpdateToken, TypeOK, Statuses
<1>5. CASE PowerSuspend
  <2>1. calls' \in 0..MaxCalls
    BY <1>5 DEF PowerSuspend, Call, TypeOK
  <2> QED BY <1>5, <2>1 DEF PowerSuspend, session, TypeOK, Dialled
<1>6. CASE PowerResume
  <2>1. /\ awake' = TRUE /\ watchdog' = FALSE
        /\ UNCHANGED <<settings, lastConnected, delayed, calls>>
    BY <1>6 DEF PowerResume
  <2>2. CASE settings = None
    BY <1>6, <2>1, <2>2 DEF PowerResume, TypeOK, Dialled
  <2>3. CASE settings # None
    <3>1. retryCount' \in 0..MaxRetries /\ reconnectTimer' = FALSE
      BY <1>6, <2>3 DEF PowerResume, TypeOK
    <3>2. CASE WakeWithToken
      <4>1. Dialled'
        BY <2>1, <3>2, EndedType DEF WakeWithToken, Dialled
      <4> QED
        BY <2>1, <3>1, <3>2, <4>1, EndedType DEF WakeWithToken, TypeOK, Statuses
    <3>3. CASE pending' = FALSE /\ pendingTimer' = FALSE /\ Dial(settings)
      <4>1. settings \in Settings
        BY <2>3 DEF TypeOK
      <4> QED BY <2>1, <3>1, <3>3, <4>1, DialType DEF TypeOK, Statuses
    <3> QED BY <1>6, <2>3, <3>2, <3>3 DEF PowerResume
  <2> QED BY <2>2, <2>3
<1>7. CASE ReconnectTimer
  <2>1. CASE settings # None /\ ~settings.jwt
    <3>1. settings \in Settings /\ Dial(settings)
      BY <1>7, <2>1 DEF ReconnectTimer, TypeOK
    <3> QED BY <1>7, <2>1, <3>1, DialType DEF ReconnectTimer, TypeOK, Statuses
  <2>2. CASE ~(settings # None /\ ~settings.jwt)
    <3>1. pending' \in BOOLEAN /\ pendingTimer' \in BOOLEAN
      BY <1>7, <2>2 DEF ReconnectTimer, TypeOK
    <3> QED BY <1>7, <2>2, <3>1 DEF ReconnectTimer, TypeOK, Dialled
  <2> QED BY <2>1, <2>2
<1>8. CASE PendingTimer
  <2>1. CASE pending /\ settings # None
    <3>1. settings \in Settings /\ Dial(settings)
      BY <1>8, <2>1 DEF PendingTimer, TypeOK
    <3> QED BY <1>8, <2>1, <3>1, DialType DEF PendingTimer, TypeOK, Statuses
  <2>2. CASE ~(pending /\ settings # None)
    BY <1>8, <2>2 DEF PendingTimer, TypeOK, Dialled
  <2> QED BY <2>1, <2>2
<1>9. CASE AckTimer
  <2>1. link' \in [Clients -> Links] /\ status' \in Statuses /\ client' \in Clients \cup {None}
    BY <1>9, EndedType DEF AckTimer, TypeOK, Statuses
  <2>2. Dialled'
    BY <1>9, EndedType DEF AckTimer, session, Dialled
  <2> QED BY <1>9, <2>1, <2>2 DEF AckTimer, timers, session, TypeOK
<1>10. CASE Watchdog
  <2>1. Dialled'
    BY <1>10, EndedType DEF Watchdog, session, Dialled
  <2> QED BY <1>10, <2>1, EndedType DEF Watchdog, timers, session, TypeOK
<1>11. ASSUME NEW c \in Clients, DelayedSubscribe(c) PROVE Typed'
  <2>1. dialled[c].topic \in Topics
    BY <1>11 DEF DelayedSubscribe, Dialled, Settings
  <2>2. topics' \in [Clients -> SUBSET Topics]
    BY <1>11, <2>1 DEF DelayedSubscribe, TypeOK
  <2> QED BY <1>11, <2>2 DEF DelayedSubscribe, timers, TypeOK, Dialled
<1>12. CASE HalfMinute
  BY <1>12 DEF HalfMinute, timers, session, TypeOK, Dialled
<1>13. ASSUME NEW c \in Clients, Connack(c) PROVE Typed'
  <2>1. /\ link' \in [Clients -> Links] /\ status' \in Statuses
        /\ ackTimer' \in Clients \cup {None} /\ delayed' \subseteq Clients
        /\ lastConnected' \in {"never", "recent", "old"} /\ watchdog' \in BOOLEAN
    BY <1>13 DEF Connack, TypeOK, Links, Statuses
  <2>2. Dialled'
    BY <1>13 DEF Connack, Dialled, TypeOK
  <2> QED BY <1>13, <2>1, <2>2 DEF Connack, TypeOK
<1>14. ASSUME NEW c \in Clients, Error(c) \/ Offline(c) PROVE Typed'
  <2>1. /\ link' \in [Clients -> Links] /\ status' \in Statuses
        /\ ackTimer' \in Clients \cup {None}
    BY <1>14 DEF Error, Offline, TypeOK, Links, Statuses
  <2>2. Dialled'
    BY <1>14 DEF Error, Offline, session, Dialled, TypeOK
  <2> QED BY <1>14, <2>1, <2>2 DEF Error, Offline, timers, session, TypeOK
<1>15. ASSUME NEW c \in Clients, Close(c) PROVE Typed'
  <2>1. /\ link' \in [Clients -> Links] /\ topics' \in [Clients -> SUBSET Topics]
        /\ ackTimer' \in Clients \cup {None} /\ watchdog' \in BOOLEAN
    BY <1>15 DEF Close, TypeOK, Links
  <2>2. /\ status' \in Statuses /\ retryCount' \in 0..MaxRetries
        /\ reconnectTimer' \in BOOLEAN
    BY <1>15, PayType DEF Close, TypeOK
  <2>3. Dialled'
    BY <1>15 DEF Close, Dialled, TypeOK
  <2> QED BY <1>15, <2>1, <2>2, <2>3 DEF Close, TypeOK
<1> QED
  BY <1>1, <1>2, <1>3, <1>4, <1>5, <1>6, <1>7, <1>8, <1>9, <1>10, <1>11, <1>12,
     <1>13, <1>14, <1>15 DEF Next, Calls, Timers, Event

LEMMA TypedAlways == Spec => []Typed
<1>1. Init => Typed
  <2> SUFFICES ASSUME Init PROVE Typed
    OBVIOUS
  <2>1. /\ link \in [Clients -> Links] /\ topics \in [Clients -> SUBSET Topics]
        /\ dialled \in [Clients -> Settings \cup {None}] /\ Dialled
    BY DEF Init, Links, Dialled
  <2>2. retryCount \in 0..MaxRetries /\ calls \in 0..MaxCalls
    BY DEF Init
  <2> QED BY <2>1, <2>2 DEF Init, Typed, TypeOK, Statuses
<1>2. Typed /\ [Next]_vars => Typed'
  BY TypeStep
<1> QED BY <1>1, <1>2, PTL DEF Spec

\* Every variable keeps its type; the retries never exceed the budget, whatever
\* order closes, timers, tokens and calls come in.
THEOREM TypeCorrect == Spec => []TypeOK
<1>1. Typed => TypeOK
  BY DEF Typed
<1> QED BY <1>1, TypedAlways, PTL

-----------------------------------------------------------------------------
\* No step makes or revives a client beside the adapter's.
LEMMA OneSessionStep ==
  ASSUME Typed, OneSession, [Next]_vars
  PROVE  OneSession'
<1> USE DEF Typed, OneSession, Live
<1>1. CASE UNCHANGED vars
  BY <1>1 DEF vars
<1>2. ASSUME NEW s, Dial(s) PROVE OneSession'
  BY <1>2 DEF Dial, Ended, TypeOK
<1>3. ASSUME link' = Ended PROVE OneSession'
  BY <1>3 DEF Ended, TypeOK
<1>4. ASSUME client' = client, link' = link PROVE OneSession'
  BY <1>4
<1>5. CASE UpdateToken
  BY <1>2, <1>5 DEF UpdateToken
<1>6. CASE PowerResume
  BY <1>2, <1>3, <1>4, <1>6 DEF PowerResume, WakeWithToken
<1>7. CASE ReconnectTimer \/ PendingTimer
  BY <1>2, <1>4, <1>7 DEF ReconnectTimer, PendingTimer
<1>8. CASE AckTimer \/ Watchdog
  BY <1>3, <1>4, <1>8 DEF AckTimer, Watchdog
<1>9. ASSUME NEW c \in Clients, Event(c) PROVE OneSession'
  <2>1. CASE Connack(c)
    BY <2>1 DEF Connack, TypeOK
  <2>2. CASE Error(c) \/ Offline(c) \/ Close(c)
    BY <2>2 DEF Error, Offline, Close, TypeOK
  <2> QED BY <1>9, <2>1, <2>2 DEF Event
<1>10. CASE HalfMinute \/ PowerSuspend \/ \E c \in Clients : DelayedSubscribe(c)
  BY <1>4, <1>10 DEF HalfMinute, PowerSuspend, DelayedSubscribe
<1>11. CASE Disconnect
  BY <1>3, <1>11 DEF Disconnect
<1>12. ASSUME NEW s \in Settings, Connect(s) PROVE OneSession'
  BY <1>2, <1>12 DEF Connect
<1> QED
  BY <1>1, <1>5, <1>6, <1>7, <1>8, <1>9, <1>10, <1>11, <1>12
  DEF Next, Calls, Timers

\* connect(), tokens, wake-ups, timers and the events of ended clients never
\* leave a second broker session beside the adapter's.
THEOREM OneSessionCorrect == Spec => []OneSession
<1>1. Init => OneSession
  BY DEF Init, OneSession, Live
<1>2. Typed /\ OneSession /\ [Next]_vars => OneSession'
  BY OneSessionStep
<1> QED BY <1>1, <1>2, TypedAlways, PTL DEF Spec
-----------------------------------------------------------------------------
(* The control of the connection.                                          *)

\* What NoLimbo and UpIsSubscribed rest on: the status shows what the current
\* client is doing, a wait for a timer or a token comes after its close, and
\* never both at once; the client that closed stays until its timer has fired.
Control ==
  /\ NoLimbo
  /\ UpIsSubscribed
  /\ client # None /\ link[client] = "dialing" => status = "connecting"
  /\ client # None /\ link[client] = "up" => status = "connected"
  /\ reconnectTimer \/ pending =>
       /\ client = None \/ link[client] = "closed"
       /\ status = "disconnected"
  /\ ~(reconnectTimer /\ pending)
  /\ reconnectTimer => client # None

\* A dial starts over: it shows as connecting, is watched and waits for nothing.
LEMMA DialControl ==
  ASSUME Typed, NEW s \in Settings, Dial(s), settings' = s, delayed' = delayed,
         ~reconnectTimer', ~pending'
  PROVE  Control'
<1>1. /\ client' \in Clients /\ link'[client'] = "dialing"
      /\ status' = "connecting" /\ ackTimer' = client'
  BY DialType
<1> QED BY <1>1 DEF Control, NoLimbo, UpIsSubscribed, Stranded

\* What is left of the client that is ended.
LEMMA EndedControl ==
  ASSUME Typed, client # None
  PROVE  /\ Ended[client] = IF Live(client) THEN "ended" ELSE link[client]
         /\ ~(Ended[client] \in {"dialing", "up"})
  BY DEF Typed, TypeOK, Ended, Live, Links

\* Every step keeps a cause for whatever the status shows.
LEMMA ControlStep ==
  ASSUME Typed, OneSession, Control, [Next]_vars
  PROVE  Control'
<1> USE DEF Typed
<1>1. CASE UNCHANGED vars
  BY <1>1 DEF Control, NoLimbo, UpIsSubscribed, Stranded, vars
<1>2. ASSUME NEW s \in Settings, Connect(s) PROVE Control'
  BY <1>2, DialControl DEF Connect
<1>3. CASE Disconnect
  BY <1>3 DEF Disconnect, Control, NoLimbo, UpIsSubscribed, Stranded
<1>4. CASE UpdateToken
  BY <1>4, DialControl DEF UpdateToken, Control, TypeOK
<1>5. CASE PowerSuspend
  BY <1>5 DEF PowerSuspend, session, Control, NoLimbo, UpIsSubscribed, Stranded
<1>6. CASE PowerResume
  <2>1. CASE settings = None
    BY <1>6, <2>1 DEF PowerResume, Control, NoLimbo, UpIsSubscribed, Stranded
  <2>2. CASE settings # None /\ WakeWithToken
    BY <1>6, <2>2 DEF PowerResume, WakeWithToken, Control, NoLimbo, UpIsSubscribed
  <2>3. CASE settings # None /\ ~WakeWithToken
    BY <1>6, <2>3, DialControl DEF PowerResume, TypeOK
  <2> QED BY <2>1, <2>2, <2>3
<1>7. CASE ReconnectTimer
  <2>1. settings # None /\ ~pending /\ status = "disconnected"
    BY <1>7 DEF ReconnectTimer, Control, NoLimbo
  <2>2. CASE settings.jwt
    <3>1. /\ pending' = TRUE /\ pendingTimer' = TRUE /\ reconnectTimer' = FALSE
          /\ UNCHANGED <<client, link, dialled, status, ackTimer, topics, settings,
                         watchdog, delayed, awake>>
      BY <1>7, <2>1, <2>2 DEF ReconnectTimer
    <3> QED BY <1>7, <2>1, <3>1
      DEF ReconnectTimer, Control, NoLimbo, UpIsSubscribed
  <2>3. CASE ~settings.jwt
    BY <1>7, <2>1, <2>3, DialControl DEF ReconnectTimer, TypeOK
  <2> QED BY <2>2, <2>3
<1>8. CASE PendingTimer
  <2>1. CASE pending /\ settings # None
    BY <1>8, <2>1, DialControl DEF PendingTimer, Control, TypeOK
  <2>2. CASE ~(pending /\ settings # None)
    BY <1>8, <2>2 DEF PendingTimer, Control, NoLimbo, UpIsSubscribed, Stranded
  <2> QED BY <2>1, <2>2
<1>9. CASE AckTimer
  <2>1. CASE ackTimer = client /\ status = "connecting"
    BY <1>9, <2>1
    DEF AckTimer, timers, session, Control, NoLimbo, UpIsSubscribed, Stranded
  <2>2. CASE ~(ackTimer = client /\ status = "connecting")
    BY <1>9, <2>2
    DEF AckTimer, timers, session, Control, NoLimbo, UpIsSubscribed, Stranded
  <2> QED BY <2>1, <2>2
<1>10. CASE Watchdog
  BY <1>10, EndedControl
  DEF Watchdog, timers, session, Control, NoLimbo, UpIsSubscribed, Live
<1>11. ASSUME NEW c \in Clients, DelayedSubscribe(c) PROVE Control'
  <2>1. UpIsSubscribed'
    <3>1. CASE status = "connected" /\ client # None
      <4>1. client \in Clients
        BY <3>1 DEF TypeOK
      <4>2. topics'[client] = topics[client] \cup {dialled[c].topic}
        BY <1>11, <3>1, <4>1 DEF DelayedSubscribe, TypeOK
      <4> QED BY <1>11, <4>1, <4>2 DEF DelayedSubscribe, Control, UpIsSubscribed
    <3>2. CASE ~(status = "connected" /\ client # None)
      BY <1>11, <3>2 DEF DelayedSubscribe, Control, NoLimbo, UpIsSubscribed
    <3> QED BY <3>1, <3>2
  <2> QED BY <1>11, <2>1 DEF DelayedSubscribe, timers, Control, NoLimbo, Stranded
<1>12. CASE HalfMinute
  BY <1>12 DEF HalfMinute, timers, session, Control, NoLimbo, UpIsSubscribed, Stranded
<1>13. ASSUME NEW c \in Clients, Connack(c) PROVE Control'
  <2>1. c = client /\ settings # None
    BY <1>13 DEF Connack, OneSession, Live, Control, NoLimbo
  <2>2. /\ link'[client] = "up" /\ status' = "connected" /\ watchdog' = TRUE
        /\ dialled[client].jwt \/ client \in delayed'
        /\ UNCHANGED <<client, dialled, settings, reconnectTimer, pending>>
    BY <1>13, <2>1 DEF Connack, TypeOK
  <2>3. ~reconnectTimer /\ ~pending
    BY <1>13, <2>1 DEF Connack, Control
  <2> QED BY <2>1, <2>2, <2>3 DEF Control, NoLimbo, UpIsSubscribed, Stranded
<1>14. ASSUME NEW c \in Clients, Error(c) PROVE Control'
  <2>1. c = client
    BY <1>14 DEF Error, OneSession
  <2> QED BY <1>14, <2>1
    DEF Error, Live, timers, session, Control, NoLimbo, UpIsSubscribed, TypeOK
<1>15. ASSUME NEW c \in Clients, Offline(c) PROVE Control'
  <2>1. c = client
    BY <1>15 DEF Offline, OneSession
  <2> QED BY <1>15, <2>1
    DEF Offline, Live, timers, session, Control, NoLimbo, UpIsSubscribed, TypeOK
<1>16. ASSUME NEW c \in Clients, Close(c) PROVE Control'
  <2>1. CASE c = client
    <3>1. settings # None /\ ~reconnectTimer /\ ~pending
      BY <1>16, <2>1 DEF Close, Control, NoLimbo
    <3>2. /\ link'[client] = "closed"
          /\ UNCHANGED <<client, settings, pending, awake>>
      BY <1>16, <2>1 DEF Close, TypeOK
    <3>3. \/ status' = "error" /\ reconnectTimer' = FALSE
          \/ status' = "disconnected" /\ reconnectTimer' = TRUE
      BY <1>16, <2>1, <3>1 DEF Close, PayForReconnect
    <3> QED BY <2>1, <3>1, <3>2, <3>3 DEF Control, NoLimbo, UpIsSubscribed
  <2>2. CASE c # client
    BY <1>16, <2>2 DEF Close, Control, NoLimbo, UpIsSubscribed, Stranded, TypeOK
  <2> QED BY <2>1, <2>2
<1> QED
  BY <1>1, <1>2, <1>3, <1>4, <1>5, <1>6, <1>7, <1>8, <1>9, <1>10, <1>11, <1>12,
     <1>13, <1>14, <1>15, <1>16 DEF Next, Calls, Timers, Event

LEMMA ControlAlways == Spec => []Control
<1>1. Init => Control
  BY DEF Init, Control, NoLimbo, UpIsSubscribed
<1>2. Typed /\ OneSession /\ Control /\ [Next]_vars => Control'
  BY ControlStep
<1> QED BY <1>1, <1>2, TypedAlways, OneSessionCorrect, PTL DEF Spec

\* Whatever the status shows has a watchdog, a close event or a timer that will
\* change it, but for a dial that its CONNACK watchdog gave up.
THEOREM NoLimboCorrect == Spec => []NoLimbo
<1>1. Control => NoLimbo
  BY DEF Control
<1> QED BY <1>1, ControlAlways, PTL

\* A session that is up and past its 500 ms has subscribed to the prefix it was
\* dialled with, whichever delayed subscribes of older clients run meanwhile.
THEOREM SubscribedCorrect == Spec => []UpIsSubscribed
<1>1. Control => UpIsSubscribed
  BY DEF Control
<1> QED BY <1>1, ControlAlways, PTL

\* A live session is ended, recharged, redialled or made to wait for a token only
\* by its own events, a call or a wake-up.
THEOREM HealthyCorrect == Spec => HealthyIsLeftAlone
<1> DEFINE Alone ==
      /\ client' \in {client, None}
      /\ retryCount' <= retryCount /\ ~reconnectTimer' /\ ~pending'
<1> DEFINE Step ==
      (client # None /\ Live(client) /\ calls' = calls /\ awake' = awake
         /\ link'[client] # "closed") => Alone
<1>1. Typed /\ Control /\ [Next]_vars => [Step]_vars
  <2> SUFFICES ASSUME Typed, Control, Next,
                      client # None, Live(client), calls' = calls, awake' = awake,
                      link'[client] # "closed"
               PROVE  Alone
    BY DEF vars, Live
  <2> USE DEF Typed
  <2>1. /\ ~reconnectTimer /\ ~pending
        /\ retryCount \in Nat /\ calls \in Nat /\ client \in Clients
    BY DEF Control, Live, TypeOK
  <2>2. ~Calls
    BY <2>1 DEF Calls, Call, Connect, Disconnect, PowerSuspend
  <2>3. ~PowerResume /\ ~UpdateToken /\ ~ReconnectTimer
    BY <2>1 DEF PowerResume, UpdateToken, ReconnectTimer
  <2>4. CASE Timers
    <3>1. CASE PendingTimer
      BY <2>1, <3>1 DEF PendingTimer
    <3>2. CASE AckTimer \/ Watchdog \/ HalfMinute \/ \E c \in Clients : DelayedSubscribe(c)
      BY <2>1, <3>2 DEF AckTimer, Watchdog, HalfMinute, DelayedSubscribe, timers
    <3> QED BY <2>3, <2>4, <3>1, <3>2 DEF Timers
  <2>5. ASSUME NEW c \in Clients, Event(c) PROVE Alone
    <3>1. CASE Close(c)
      <4>1. c # client
        BY <3>1, <2>1 DEF Close, TypeOK
      <4> QED BY <2>1, <3>1, <4>1 DEF Close
    <3>2. CASE Connack(c) \/ Error(c) \/ Offline(c)
      BY <2>1, <3>2 DEF Connack, Error, Offline, timers
    <3> QED BY <2>5, <3>1, <3>2 DEF Event
  <2> QED BY <2>2, <2>3, <2>4, <2>5 DEF Next
<1>2. Spec => [][Step]_vars
  BY <1>1, TypedAlways, ControlAlways, PTL DEF Spec
<1> QED BY <1>2 DEF HealthyIsLeftAlone
-----------------------------------------------------------------------------
(* The refinement of ReconnectBudget.                                      *)

\* The phase and what is charged, by the status and what the client is doing.
LEMMA PhaseOf ==
  /\ settings = None => Phase = "off" /\ Charged = 0
  /\ settings # None /\ (status = "error" \/ Stranded) => Phase = "failed" /\ Charged = 0
  /\ settings # None /\ status = "connected" => Phase = "up" /\ Charged = retryCount
  /\ settings # None /\ status = "connecting" => Phase = "dialing" /\ Charged = retryCount
  /\ settings # None /\ status = "disconnected" /\ ~Stranded =>
       /\ Phase = IF client = None \/ link[client] = "closed" THEN "waiting" ELSE "dialing"
       /\ Charged = retryCount
<1> DEFINE Waits == client = None \/ link[client] = "closed"
<1>1. CASE settings = None
  BY <1>1 DEF Phase, Charged
<1>2. CASE settings # None /\ (status = "error" \/ Stranded)
  BY <1>2 DEF Phase, Charged, Stranded
<1>3. CASE settings # None /\ status = "connected"
  BY <1>3 DEF Phase, Charged, Stranded
<1>4. CASE settings # None /\ status = "connecting"
  BY <1>4 DEF Phase, Charged, Stranded
<1>5. CASE settings # None /\ status = "disconnected" /\ ~Stranded /\ Waits
  BY <1>5 DEF Phase, Charged
<1>6. CASE settings # None /\ status = "disconnected" /\ ~Stranded /\ ~Waits
  BY <1>6 DEF Phase, Charged
<1> QED BY <1>1, <1>2, <1>3, <1>4, <1>5, <1>6 DEF Stranded

LEMMA PhaseOfNext ==
  /\ settings' = None => Phase' = "off" /\ Charged' = 0
  /\ settings' # None /\ (status' = "error" \/ Stranded') => Phase' = "failed" /\ Charged' = 0
  /\ settings' # None /\ status' = "connected" => Phase' = "up" /\ Charged' = retryCount'
  /\ settings' # None /\ status' = "connecting" => Phase' = "dialing" /\ Charged' = retryCount'
  /\ settings' # None /\ status' = "disconnected" /\ ~Stranded' =>
       /\ Phase' = IF client' = None \/ link'[client'] = "closed" THEN "waiting" ELSE "dialing"
       /\ Charged' = retryCount'
<1> DEFINE Waits == client' = None \/ link'[client'] = "closed"
<1>1. CASE settings' = None
  BY <1>1 DEF Phase, Charged
<1>2. CASE settings' # None /\ (status' = "error" \/ Stranded')
  BY <1>2 DEF Phase, Charged, Stranded
<1>3. CASE settings' # None /\ status' = "connected"
  BY <1>3 DEF Phase, Charged, Stranded
<1>4. CASE settings' # None /\ status' = "connecting"
  BY <1>4 DEF Phase, Charged, Stranded
<1>5. CASE settings' # None /\ status' = "disconnected" /\ ~Stranded' /\ Waits
  BY <1>5 DEF Phase, Charged
<1>6. CASE settings' # None /\ status' = "disconnected" /\ ~Stranded' /\ ~Waits
  BY <1>6 DEF Phase, Charged
<1> QED BY <1>1, <1>2, <1>3, <1>4, <1>5, <1>6 DEF Stranded

Stutter == Phase' = Phase /\ Charged' = Charged

\* What the phase depends on stays: so does the phase.
LEMMA SamePhase ==
  ASSUME UNCHANGED <<settings, status, retryCount, client, link, pending>>
  PROVE  Stutter
  BY DEF Stutter, Phase, Charged, Stranded

\* Without settings to start with, the connection is off; it stays so.
LEMMA StillOff == ASSUME settings = None, settings' = None PROVE Stutter
  BY PhaseOf, PhaseOfNext DEF Stutter

\* A wait that dials goes on with what it has been charged.
LEMMA DialRedials ==
  ASSUME Typed, Control, NEW s \in Settings, Dial(s), settings # None,
         reconnectTimer \/ pending, UNCHANGED <<settings, retryCount>>
  PROVE  Budget!Redial
<1>1. status = "disconnected" /\ (client = None \/ link[client] = "closed") /\ ~Stranded
  BY DEF Control, Stranded
<1>2. Phase = "waiting" /\ Charged = retryCount
  BY <1>1, PhaseOf
<1>3. status' = "connecting"
  BY DEF Dial
<1>4. Phase' = "dialing" /\ Charged' = retryCount'
  BY <1>3, PhaseOfNext
<1> QED BY <1>2, <1>4 DEF Budget!Redial

\* A close that is heard costs one try, forgiven or not, or is the end.
LEMMA CloseRefines ==
  ASSUME Typed, Control, client # None, Close(client)
  PROVE  Budget!Next \/ Stutter
<1> USE DEF Typed
<1>1. settings # None /\ settings' = settings /\ client' = client /\ link[client] # "closed"
  BY DEF Close, Control, NoLimbo
<1>2. link'[client] = "closed" /\ ~Stranded /\ ~Stranded'
  BY <1>1 DEF Close, TypeOK, Stranded
<1>3. CASE status = "error"
  <2>1. status' = "error"
    BY <1>1, <1>3 DEF Close
  <2> QED BY <1>1, <1>3, <2>1, PhaseOf, PhaseOfNext DEF Stutter
<1>4. CASE status # "error"
  <2>1. PayForReconnect
    BY <1>1, <1>4 DEF Close
  <2>2. Phase \in {"dialing", "up"} /\ Charged = retryCount
    BY <1>1, <1>2, <1>4, PhaseOf DEF TypeOK, Statuses
  <2>3. CASE Spent >= MaxRetries
    <3>1. status' = "error"
      BY <2>1, <2>3 DEF PayForReconnect
    <3>2. Budget!Fail
      BY <1>1, <2>2, <3>1, PhaseOfNext DEF Budget!Fail
    <3> QED BY <3>2 DEF Budget!Next
  <2>4. CASE ~(Spent >= MaxRetries)
    <3>1. status' = "disconnected" /\ retryCount' = Spent + 1
      BY <2>1, <2>4 DEF PayForReconnect
    <3>2. Phase' = "waiting" /\ Charged' = Spent + 1
      BY <1>1, <1>2, <3>1, PhaseOfNext
    <3>3. Spent = 0 \/ (Spent = retryCount /\ retryCount < MaxRetries)
      BY <2>4 DEF Spent, TypeOK
    <3>4. Budget!Lose
      BY <2>2, <3>2, <3>3 DEF Budget!Lose
    <3> QED BY <3>4 DEF Budget!Next
  <2> QED BY <2>3, <2>4
<1> QED BY <1>3, <1>4

\* What the user, the renderer and the power monitor do, as steps of the budget.
LEMMA CallRefines ==
  ASSUME Typed, Control, Calls \/ UpdateToken \/ PowerResume
  PROVE  Budget!Next \/ Stutter
<1> USE DEF Typed
<1>1. ASSUME NEW s \in Settings, Connect(s) PROVE Budget!Next
  <2>1. settings' # None /\ status' = "connecting" /\ retryCount' = 0
    BY <1>1 DEF Connect, Dial
  <2> QED BY <2>1, PhaseOfNext DEF Budget!Next, Budget!Open
<1>2. CASE Disconnect
  <2>1. settings' = None
    BY <1>2 DEF Disconnect
  <2> QED BY <2>1, PhaseOfNext DEF Budget!Next, Budget!Shut
<1>3. CASE PowerSuspend
  BY <1>3, SamePhase DEF PowerSuspend
<1>4. CASE UpdateToken
  <2>1. settings \in Settings /\ Dial(settings)
    BY <1>4 DEF UpdateToken, TypeOK
  <2> QED BY <1>4, <2>1, DialRedials DEF UpdateToken, Budget!Next
<1>5. CASE PowerResume
  <2>1. CASE settings = None
    BY <1>5, <2>1, StillOff DEF PowerResume
  <2>2. CASE settings # None
    <3>1. settings' = settings /\ retryCount' = 0 /\ Phase # "off"
      BY <1>5, <2>2 DEF PowerResume, Phase
    <3>2. CASE WakeWithToken
      <4>1. status' = "disconnected" /\ client' = None /\ ~Stranded'
        BY <3>2 DEF WakeWithToken, Stranded
      <4>2. Phase' = "waiting" /\ Charged' = 0
        BY <2>2, <3>1, <4>1, PhaseOfNext
      <4> QED BY <3>1, <4>2 DEF Budget!Next, Budget!Wake
    <3>3. CASE Dial(settings)
      <4>1. status' = "connecting"
        BY <3>3 DEF Dial
      <4>2. Phase' = "dialing" /\ Charged' = 0
        BY <2>2, <3>1, <4>1, PhaseOfNext
      <4> QED BY <3>1, <4>2 DEF Budget!Next, Budget!Wake
    <3> QED BY <1>5, <2>2, <3>2, <3>3 DEF PowerResume
  <2> QED BY <2>1, <2>2
<1> QED BY <1>1, <1>2, <1>3, <1>4, <1>5 DEF Calls

\* The timers: a wait ends in a dial, a dial without its CONNACK is given up.
LEMMA TimerRefines ==
  ASSUME Typed, OneSession, Control, Timers
  PROVE  Budget!Next \/ Stutter
<1> USE DEF Typed
<1>1. CASE ReconnectTimer
  <2>1. settings # None /\ client # None /\ status = "disconnected"
    BY <1>1 DEF ReconnectTimer, Control, NoLimbo
  <2>2. CASE ~settings.jwt
    <3>1. settings \in Settings /\ Dial(settings)
      BY <1>1, <2>1, <2>2 DEF ReconnectTimer, TypeOK
    <3> QED BY <1>1, <2>1, <3>1, DialRedials DEF ReconnectTimer, Budget!Next
  <2>3. CASE settings.jwt
    <3>1. UNCHANGED <<settings, status, retryCount, client, link>>
      BY <1>1, <2>1, <2>3 DEF ReconnectTimer
    <3>2. ~Stranded /\ ~Stranded'
      BY <2>1, <3>1 DEF Stranded
    <3> QED BY <2>1, <3>1, <3>2, PhaseOf, PhaseOfNext DEF Stutter
  <2> QED BY <2>2, <2>3
<1>2. CASE PendingTimer
  <2>1. CASE pending /\ settings # None
    <3>1. settings \in Settings /\ Dial(settings)
      BY <1>2, <2>1 DEF PendingTimer, TypeOK
    <3> QED BY <1>2, <2>1, <3>1, DialRedials DEF PendingTimer, Budget!Next
  <2>2. CASE ~(pending /\ settings # None)
    BY <1>2, <2>2, SamePhase DEF PendingTimer
  <2> QED BY <2>1, <2>2
<1>3. CASE AckTimer
  <2>1. CASE ackTimer = client /\ status = "connecting"
    <3>1. settings # None /\ ~pending
      BY <2>1 DEF Control, NoLimbo
    <3>2. settings' = settings /\ Stranded'
      BY <1>3, <2>1, <3>1 DEF AckTimer, timers, Stranded
    <3>3. Phase = "dialing" /\ Phase' = "failed" /\ Charged' = 0
      BY <2>1, <3>1, <3>2, PhaseOf, PhaseOfNext
    <3> QED BY <3>3 DEF Budget!Next, Budget!Fail
  <2>2. CASE ~(ackTimer = client /\ status = "connecting")
    BY <1>3, <2>2, SamePhase DEF AckTimer, timers
  <2> QED BY <2>1, <2>2
<1>4. CASE Watchdog
  <2>1. settings # None
    BY <1>4 DEF Watchdog, Control, NoLimbo
  <2>2. status = "connected" /\ UNCHANGED <<settings, status, retryCount>>
    BY <1>4 DEF Watchdog
  <2> QED BY <2>1, <2>2, PhaseOf, PhaseOfNext DEF Stutter
<1>5. CASE HalfMinute \/ \E c \in Clients : DelayedSubscribe(c)
  BY <1>5, SamePhase DEF HalfMinute, DelayedSubscribe, timers
<1> QED BY <1>1, <1>2, <1>3, <1>4, <1>5 DEF Timers

\* The events of the clients.
LEMMA EventRefines ==
  ASSUME Typed, OneSession, Control, NEW c \in Clients, Event(c)
  PROVE  Budget!Next \/ Stutter
<1> USE DEF Typed
<1>1. ASSUME Live(c)
      PROVE  /\ c = client /\ settings # None /\ client # None
             /\ ~Stranded /\ status \in {"connecting", "connected"}
             /\ link[client] = "dialing" => status = "connecting"
  BY <1>1 DEF OneSession, Control, NoLimbo, Stranded, Live
<1>2. CASE Connack(c)
  <2>1. Live(c)
    BY <1>2 DEF Connack, Live
  <2>2. settings # None /\ status = "connecting"
    BY <1>1, <1>2, <2>1 DEF Connack
  <2>3. settings' = settings /\ status' = "connected" /\ retryCount' = retryCount
    BY <1>1, <1>2, <2>1 DEF Connack
  <2> QED BY <2>2, <2>3, PhaseOf, PhaseOfNext DEF Budget!Next, Budget!Establish
<1>3. CASE Error(c) \/ Offline(c)
  <2>1. Live(c)
    BY <1>3 DEF Error, Offline
  <2>2. /\ UNCHANGED <<settings, retryCount, client, pending>>
        /\ link'[client] = "ended"
        /\ status' = status \/ status' = "disconnected"
    BY <1>1, <1>3, <2>1 DEF Error, Offline, timers, TypeOK
  <2>3. ~Stranded'
    BY <1>1, <2>1, <2>2 DEF Stranded
  <2>4. Phase' = IF status' = "connected" THEN "up" ELSE "dialing"
    BY <1>1, <2>1, <2>2, <2>3, PhaseOfNext
  <2>5. /\ Phase = IF status = "connected" THEN "up" ELSE "dialing"
        /\ Charged = retryCount /\ Charged' = retryCount
    BY <1>1, <2>1, <2>2, <2>3, PhaseOf, PhaseOfNext
  <2> QED BY <1>1, <2>1, <2>2, <2>4, <2>5 DEF Stutter, Budget!Next, Budget!Slip
<1>4. CASE Close(c)
  <2>1. CASE c = client
    <3>1. client # None
      BY <2>1
    <3> QED BY <1>4, <2>1, <3>1, CloseRefines
  <2>2. CASE c # client
    <3>1. /\ UNCHANGED <<settings, status, retryCount, client, pending>>
          /\ client # None => link'[client] = link[client]
      BY <1>4, <2>2 DEF Close, TypeOK
    <3>2. Stranded' = Stranded
      BY <3>1 DEF Stranded
    <3> QED BY <3>1, <3>2 DEF Stutter, Phase, Charged
  <2> QED BY <2>1, <2>2
<1> QED BY <1>2, <1>3, <1>4 DEF Event

\* MeshcoreMqttAdapter implements the reconnect budget, as far as it promises
\* it: it dials only for the user, for a wake-up or after a wait for which one
\* loss was charged, tokens and their timers included, and a close ends the
\* budget, starts it over or costs one try of it (_doConnect(), its 'close').
THEOREM BudgetImplemented == Spec => ImplementsBudget
<1>1. Init => Budget!Init
  BY PhaseOf DEF Init, Budget!Init
<1>2. Typed /\ OneSession /\ Control /\ [Next]_vars => [Budget!Next]_<<Phase, Charged>>
  <2>1. ASSUME UNCHANGED vars PROVE Stutter
    BY <2>1, SamePhase DEF vars
  <2> QED BY <2>1, CallRefines, TimerRefines, EventRefines DEF Next, Stutter
<1>3. Spec => Budget!Spec
  BY <1>1, <1>2, TypedAlways, OneSessionCorrect, ControlAlways, PTL
  DEF Spec, Budget!Spec
<1> QED BY <1>3 DEF ImplementsBudget
=============================================================================
