-------------------------- MODULE MqttSessionProofs --------------------------
(***************************************************************************)
(* Proofs about MqttSession, for any number of clients and prefixes, any   *)
(* budget and any number of calls.                                         *)
(***************************************************************************)
EXTENDS MqttSession, TLAPS

USE NoneAssumption, RetriesAssumption, CallsAssumption

\* What dialling leaves behind has the types of its variables.
LEMMA DialType ==
  ASSUME TypeOK, NEW p \in Prefixes, Dial(p)
  PROVE  /\ client' \in Clients
         /\ link' \in [Clients -> Links]
         /\ dialled' \in [Clients -> Prefixes \cup {None}]
         /\ status' = "connecting"
         /\ ackTimer' = client'
         /\ requests' \in [Clients -> Seq(Request)]
         /\ broker' \in [Clients -> SUBSET Prefixes]
<1>1. PICK c \in Clients :
        /\ link' = [Ended EXCEPT ![c] = "dialing"]
        /\ client' = c
        /\ dialled' = [dialled EXCEPT ![c] = p]
        /\ status' = "connecting"
        /\ ackTimer' = c
        /\ requests' = [d \in Clients |-> IF d \in {c, client} THEN <<>> ELSE requests[d]]
        /\ broker' = [broker EXCEPT ![c] = {}]
  BY DEF Dial
<1>2. link' \in [Clients -> Links]
  BY <1>1 DEF TypeOK, Ended, Links
<1>3. requests' \in [Clients -> Seq(Request)]
  <2>1. <<>> \in Seq(Request)
    OBVIOUS
  <2> QED BY <1>1, <2>1 DEF TypeOK
<1> QED BY <1>1, <1>2, <1>3 DEF TypeOK

\* So has what subscribing leaves behind.
LEMMA SubscribeType ==
  ASSUME TypeOK, NEW p \in Prefixes, SubscribeTo(p)
  PROVE  /\ wildcard' \in Prefixes \cup {None}
         /\ requests' \in [Clients -> Seq(Request)]
<1>1. CASE wildcard = p
  BY <1>1 DEF SubscribeTo, TypeOK
<1>2. CASE wildcard # p
  <2> DEFINE r == IF wildcard = None THEN Sub(p) ELSE Unsub(wildcard, p)
  <2>1. r \in Request
    BY DEF TypeOK, Sub, Unsub, Request
  <2>2. requests' = [requests EXCEPT ![client] = Append(@, r)] /\ wildcard' = p
    BY <1>2 DEF SubscribeTo
  <2> HIDE DEF r
  <2>3. \A c \in Clients : Append(requests[c], r) \in Seq(Request)
    BY <2>1 DEF TypeOK
  <2> QED BY <2>2, <2>3 DEF TypeOK
<1> QED BY <1>1, <1>2

\* The requests of a client that ends are dropped.
LEMMA DroppedType ==
  ASSUME TypeOK, NEW c
  PROVE  [requests EXCEPT ![c] = <<>>] \in [Clients -> Seq(Request)]
<1>1. <<>> \in Seq(Request)
  OBVIOUS
<1> QED BY <1>1 DEF TypeOK

\* One request is answered.
LEMMA AnsweredType ==
  ASSUME TypeOK, NEW c \in Clients, requests[c] # <<>>
  PROVE  /\ Head(requests[c]) \in Request
         /\ [requests EXCEPT ![c] = Tail(@)] \in [Clients -> Seq(Request)]
<1>1. Head(requests[c]) \in Request /\ Tail(requests[c]) \in Seq(Request)
  BY DEF TypeOK
<1> QED BY <1>1 DEF TypeOK

\* A close charges at most the last of the tries.
LEMMA PayType ==
  ASSUME TypeOK, PayForReconnect
  PROVE  status' \in Statuses /\ retryCount' \in 0..MaxRetries /\ reconnectTimer' \in BOOLEAN
<1>1. CASE status \in {"disconnected", "error"} \/ settings = None
  BY <1>1 DEF PayForReconnect, TypeOK
<1>2. CASE ~(status \in {"disconnected", "error"} \/ settings = None)
  <2>1. status \in {"connecting", "connected"} /\ settings # None
    BY <1>2 DEF TypeOK, Statuses
  <2>2. CASE retryCount >= MaxRetries
    BY <2>1, <2>2, <1>2 DEF PayForReconnect, TypeOK, Statuses
  <2>3. CASE ~(retryCount >= MaxRetries)
    BY <2>1, <2>3, <1>2 DEF PayForReconnect, TypeOK, Statuses
  <2> QED BY <2>2, <2>3
<1> QED BY <1>1, <1>2

LEMMA EndedType ==
  ASSUME TypeOK
  PROVE  Ended \in [Clients -> Links]
  BY DEF TypeOK, Ended, Links

\* A client that dials was given a prefix to dial with.
Dialled == \A c \in Clients : link[c] = "dialing" => dialled[c] \in Prefixes

Typed == TypeOK /\ Dialled

\* Every step of the manager, the clients and the broker keeps the types.
LEMMA TypeStep ==
  ASSUME Typed, [Next]_vars
  PROVE  Typed'
<1> USE DEF Typed
<1>1. CASE UNCHANGED vars
  BY <1>1 DEF TypeOK, Dialled, vars
<1>2. ASSUME NEW p \in Prefixes, Connect(p) PROVE Typed'
  <2>1. Dial(p)
    BY <1>2 DEF Connect
  <2>2. Dialled'
    BY <2>1 DEF Dial, Dialled, TypeOK, Ended
  <2>3. /\ calls' \in 0..MaxCalls /\ retryCount' \in 0..MaxRetries
        /\ settings' \in Prefixes /\ wildcard' = None
        /\ reconnectTimer' = FALSE /\ awake' = awake
    BY <1>2 DEF Connect, Call, TypeOK
  <2> QED BY <2>1, <2>2, <2>3, DialType DEF TypeOK, Statuses
<1>3. CASE Disconnect
  <2>1. <<>> \in Seq(Request)
    OBVIOUS
  <2>2. Dialled'
    BY <1>3 DEF Disconnect, Dialled, TypeOK, Ended
  <2>3. /\ calls' \in 0..MaxCalls /\ retryCount' \in 0..MaxRetries
        /\ requests' \in [Clients -> Seq(Request)] /\ link' \in [Clients -> Links]
    BY <1>3, <2>1, EndedType DEF Disconnect, Call, TypeOK
  <2> QED BY <1>3, <2>2, <2>3 DEF Disconnect, TypeOK, Statuses
<1>4. ASSUME NEW p \in Prefixes, UpdateTopicPrefix(p) PROVE Typed'
  <2>1. wildcard' \in Prefixes \cup {None} /\ requests' \in [Clients -> Seq(Request)]
    BY <1>4, SubscribeType DEF UpdateTopicPrefix, TypeOK
  <2> QED BY <1>4, <2>1 DEF UpdateTopicPrefix, Call, TypeOK, Dialled
<1>5. CASE PowerSuspend
  <2>1. calls' \in 0..MaxCalls
    BY <1>5 DEF PowerSuspend, Call, TypeOK
  <2> QED BY <1>5, <2>1 DEF PowerSuspend, library, TypeOK, Dialled
<1>6. CASE PowerResume
  <2>1. CASE settings = None
    BY <1>6, <2>1 DEF PowerResume, manager, library, TypeOK, Dialled
  <2>2. CASE settings # None
    <3>1. settings \in Prefixes /\ Dial(settings)
      BY <1>6, <2>2 DEF PowerResume, TypeOK
    <3>2. Dialled'
      BY <3>1 DEF Dial, Dialled, TypeOK, Ended
    <3>3. /\ retryCount' \in 0..MaxRetries /\ reconnectTimer' = FALSE /\ awake' = TRUE
          /\ UNCHANGED <<settings, wildcard, calls>>
      BY <1>6, <2>2 DEF PowerResume, TypeOK
    <3> QED BY <3>1, <3>2, <3>3, DialType DEF TypeOK, Statuses
  <2> QED BY <2>1, <2>2
<1>7. CASE ReconnectTimer
  <2>1. CASE settings = None
    BY <1>7, <2>1 DEF ReconnectTimer, library, TypeOK, Dialled
  <2>2. CASE settings # None
    <3>1. settings \in Prefixes /\ Dial(settings)
      BY <1>7, <2>2 DEF ReconnectTimer, TypeOK
    <3>2. Dialled'
      BY <3>1 DEF Dial, Dialled, TypeOK, Ended
    <3> QED BY <1>7, <2>2, <3>1, <3>2, DialType DEF ReconnectTimer, TypeOK, Statuses
  <2> QED BY <2>1, <2>2
<1>8. CASE AckTimer
  <2>1. Dialled'
    BY <1>8 DEF AckTimer, Dialled, TypeOK, Ended
  <2> QED BY <1>8, <2>1, EndedType, DroppedType DEF AckTimer, TypeOK
<1>9. ASSUME NEW c \in Clients, Connack(c) PROVE Typed'
  <2>1. /\ link' \in [Clients -> Links] /\ status' \in Statuses
        /\ ackTimer' \in Clients \cup {None}
    BY <1>9 DEF Connack, TypeOK, Links, Statuses
  <2>2. Dialled'
    BY <1>9 DEF Connack, Dialled, TypeOK
  <2>3. wildcard' \in Prefixes \cup {None} /\ requests' \in [Clients -> Seq(Request)]
    BY <1>9, SubscribeType DEF Connack, TypeOK, Dialled
  <2> QED BY <1>9, <2>1, <2>2, <2>3 DEF Connack, TypeOK
<1>10. ASSUME NEW c \in Clients, NEW fatal \in BOOLEAN, Error(c, fatal) PROVE Typed'
  BY <1>10, DroppedType DEF Error, TypeOK, Dialled, Links, Statuses
<1>11. ASSUME NEW c \in Clients, Offline(c) PROVE Typed'
  BY <1>11, DroppedType DEF Offline, TypeOK, Dialled, Links, Statuses
<1>12. ASSUME NEW c \in Clients, Close(c) PROVE Typed'
  <2>1. /\ ackTimer' \in Clients \cup {None} /\ status' \in Statuses
        /\ retryCount' \in 0..MaxRetries /\ reconnectTimer' \in BOOLEAN
    BY <1>12, PayType DEF Close, TypeOK
  <2> QED BY <1>12, <2>1, DroppedType DEF Close, TypeOK, Dialled, Links
<1>13. ASSUME NEW c \in Clients, Unsubscribed(c) PROVE Typed'
  <2> DEFINE rest == [requests EXCEPT ![c] = Tail(@)]
             r == Sub(Head(requests[c]).next)
  <2>1. rest \in [Clients -> Seq(Request)]
    BY <1>13, AnsweredType DEF Unsubscribed
  <2>2. r \in Request
    BY <1>13, AnsweredType DEF Unsubscribed, Request, Sub
  <2>3. requests' = rest \/ requests' = [rest EXCEPT ![client] = Append(@, r)]
    BY <1>13 DEF Unsubscribed
  <2> HIDE DEF rest, r
  <2>4. requests' \in [Clients -> Seq(Request)]
    <3>1. \A d \in Clients : Append(rest[d], r) \in Seq(Request)
      BY <2>1, <2>2
    <3> QED BY <2>1, <2>3, <3>1
  <2>5. broker' \in [Clients -> SUBSET Prefixes]
    BY <1>13 DEF Unsubscribed, TypeOK
  <2> QED BY <1>13, <2>4, <2>5 DEF Unsubscribed, manager, TypeOK, Dialled
<1>14. ASSUME NEW c \in Clients, Subscribed(c) PROVE Typed'
  <2>1. broker' \in [Clients -> SUBSET Prefixes]
    BY <1>14, AnsweredType DEF Subscribed, TypeOK, Request
  <2> QED BY <1>14, <2>1, AnsweredType DEF Subscribed, TypeOK, Dialled
<1>15. ASSUME NEW c \in Clients, SubscribeRefused(c) PROVE Typed'
  BY <1>15, AnsweredType DEF SubscribeRefused, TypeOK, Dialled, Statuses
<1> QED
  BY <1>1, <1>2, <1>3, <1>4, <1>5, <1>6, <1>7, <1>8, <1>9, <1>10, <1>11, <1>12,
     <1>13, <1>14, <1>15 DEF Next, Calls, Event

LEMMA TypedAlways == Spec => []Typed
<1>1. Init => Typed
  <2> SUFFICES ASSUME Init PROVE Typed
    OBVIOUS
  <2>1. <<>> \in Seq(Request)
    OBVIOUS
  <2>2. requests \in [Clients -> Seq(Request)] /\ broker \in [Clients -> SUBSET Prefixes]
    BY <2>1 DEF Init
  <2>3. link \in [Clients -> Links] /\ dialled \in [Clients -> Prefixes \cup {None}] /\ Dialled
    BY DEF Init, Links, Dialled
  <2>4. /\ retryCount \in 0..MaxRetries /\ calls \in 0..MaxCalls
        /\ status \in Statuses /\ client = None /\ settings = None /\ wildcard = None
        /\ ackTimer = None /\ reconnectTimer = FALSE /\ awake = TRUE
    BY DEF Init, Statuses
  <2> QED BY <2>2, <2>3, <2>4 DEF Typed, TypeOK
<1>2. Typed /\ [Next]_vars => Typed'
  BY TypeStep
<1> QED BY <1>1, <1>2, PTL DEF Spec

\* Every variable keeps its type; the retries never exceed the budget, whatever
\* order closes, timers and calls come in.
THEOREM TypeCorrect == Spec => []TypeOK
<1>1. Typed => TypeOK
  BY DEF Typed
<1> QED BY <1>1, TypedAlways, PTL

\* No step makes or revives a client beside the manager's.
LEMMA OneSessionStep ==
  ASSUME Typed, OneSession, [Next]_vars
  PROVE  OneSession'
<1> USE DEF Typed, OneSession, Live
<1>1. CASE UNCHANGED vars
  BY <1>1 DEF vars
<1>2. ASSUME NEW p, Dial(p) PROVE OneSession'
  BY <1>2 DEF Dial, Ended, TypeOK
<1>3. CASE Disconnect
  BY <1>3 DEF Disconnect, Ended, TypeOK
<1>4. CASE PowerResume
  BY <1>2, <1>4 DEF PowerResume, manager, library
<1>5. CASE ReconnectTimer
  BY <1>2, <1>5 DEF ReconnectTimer, library
<1>6. CASE AckTimer
  BY <1>6 DEF AckTimer, Ended, TypeOK
<1>7. ASSUME NEW c \in Clients, Event(c) PROVE OneSession'
  <2>1. CASE Connack(c)
    BY <2>1 DEF Connack, TypeOK
  <2>2. ASSUME NEW fatal \in BOOLEAN, Error(c, fatal) PROVE OneSession'
    BY <2>2 DEF Error, TypeOK
  <2>3. CASE Offline(c)
    BY <2>3 DEF Offline, TypeOK
  <2>4. CASE Close(c)
    BY <2>4 DEF Close, TypeOK
  <2>5. CASE Unsubscribed(c) \/ Subscribed(c) \/ SubscribeRefused(c)
    BY <2>5 DEF Unsubscribed, Subscribed, SubscribeRefused, manager
  <2> QED BY <1>7, <2>1, <2>2, <2>3, <2>4, <2>5 DEF Event
<1>8. ASSUME NEW p \in Prefixes, UpdateTopicPrefix(p) PROVE OneSession'
  BY <1>8 DEF UpdateTopicPrefix
<1>9. CASE PowerSuspend
  BY <1>9 DEF PowerSuspend, library
<1> QED
  BY <1>1, <1>2, <1>3, <1>4, <1>5, <1>6, <1>7, <1>8, <1>9
  DEF Next, Calls, Connect

\* connect(), updates, wake-ups, timers and the events of ended clients never
\* leave a second broker session beside the manager's.
THEOREM OneSessionCorrect == Spec => []OneSession
<1>1. Init => OneSession
  BY DEF Init, OneSession, Live
<1>2. Typed /\ OneSession /\ [Next]_vars => OneSession'
  BY OneSessionStep
<1> QED BY <1>1, <1>2, TypedAlways, PTL DEF Spec
-----------------------------------------------------------------------------
(* The control of the connection.                                          *)

\* What NoLimbo rests on: a client that dials shows as connecting, one whose
\* loss shows is closed, and only such a loss has armed the reconnect timer.
Control ==
  /\ NoLimbo
  /\ client # None /\ link[client] = "dialing" => status = "connecting"
  /\ status = "disconnected" => client = None \/ link[client] = "closed"
  /\ reconnectTimer => status = "disconnected"

\* A dial starts over: it shows as connecting and is watched.
LEMMA DialControl ==
  ASSUME Typed, NEW p \in Prefixes, Dial(p), settings' = p, ~reconnectTimer'
  PROVE  Control'
<1>1. /\ client' \in Clients /\ link'[client'] = "dialing"
      /\ status' = "connecting" /\ ackTimer' = client'
  BY EndedType DEF Dial, Typed
<1> QED BY <1>1 DEF Control, NoLimbo

\* Every step keeps a cause for whatever the status shows.
LEMMA ControlStep ==
  ASSUME Typed, OneSession, Control, [Next]_vars
  PROVE  Control'
<1> USE DEF Typed
<1>1. CASE UNCHANGED vars
  BY <1>1 DEF Control, NoLimbo, vars
<1>2. ASSUME NEW p \in Prefixes, Connect(p) PROVE Control'
  BY <1>2, DialControl DEF Connect
<1>3. CASE Disconnect
  BY <1>3 DEF Disconnect, Control, NoLimbo
<1>4. ASSUME NEW p \in Prefixes, UpdateTopicPrefix(p) PROVE Control'
  BY <1>4 DEF UpdateTopicPrefix, Control, NoLimbo, TypeOK
<1>5. CASE PowerSuspend
  BY <1>5 DEF PowerSuspend, library, Control, NoLimbo
<1>6. CASE PowerResume
  <2>1. CASE settings = None
    BY <1>6, <2>1 DEF PowerResume, manager, library, Control, NoLimbo
  <2>2. CASE settings # None
    BY <1>6, <2>2, DialControl DEF PowerResume, TypeOK
  <2> QED BY <2>1, <2>2
<1>7. CASE ReconnectTimer
  <2>1. settings \in Prefixes
    BY <1>7 DEF ReconnectTimer, Control, NoLimbo, TypeOK
  <2> QED BY <1>7, <2>1, DialControl DEF ReconnectTimer
<1>8. CASE AckTimer
  <2>1. CASE ackTimer = client /\ status = "connecting"
    BY <1>8, <2>1 DEF AckTimer, Control, NoLimbo, TypeOK, Ended, Live
  <2>2. CASE ~(ackTimer = client /\ status = "connecting")
    BY <1>8, <2>2 DEF AckTimer, Control, NoLimbo, TypeOK
  <2> QED BY <2>1, <2>2
<1>9. ASSUME NEW c \in Clients, Connack(c) PROVE Control'
  <2>1. c = client
    BY <1>9 DEF Connack, OneSession, Live
  <2> QED BY <1>9, <2>1 DEF Connack, Control, NoLimbo, TypeOK
<1>10. ASSUME NEW c \in Clients, NEW fatal \in BOOLEAN, Error(c, fatal) PROVE Control'
  BY <1>10 DEF Error, Control, NoLimbo, TypeOK
<1>11. ASSUME NEW c \in Clients, Offline(c) PROVE Control'
  <2>1. c = client
    BY <1>11 DEF Offline, OneSession
  <2> QED BY <1>11, <2>1 DEF Offline, Live, Control, NoLimbo, TypeOK
<1>12. ASSUME NEW c \in Clients, Close(c) PROVE Control'
  <2>1. CASE c = client
    <3>1. settings # None /\ status # "disconnected"
      BY <1>12, <2>1 DEF Close, Control, NoLimbo, TypeOK
    <3>2. \/ status = "error" /\ status' = "error" /\ reconnectTimer' = FALSE
          \/ status' = "error" /\ reconnectTimer' = FALSE
          \/ status' = "disconnected" /\ reconnectTimer' = TRUE
      BY <1>12, <2>1, <3>1 DEF Close, PayForReconnect, TypeOK, Statuses
    <3>3. link'[client] = "closed" /\ UNCHANGED <<client, settings, awake>>
      BY <1>12, <2>1 DEF Close, TypeOK
    <3> QED BY <2>1, <3>1, <3>2, <3>3 DEF Control, NoLimbo
  <2>2. CASE c # client
    BY <1>12, <2>2 DEF Close, Control, NoLimbo, TypeOK
  <2> QED BY <2>1, <2>2
<1>13. ASSUME NEW c \in Clients, Unsubscribed(c) PROVE Control'
  BY <1>13 DEF Unsubscribed, manager, Control, NoLimbo
<1>14. ASSUME NEW c \in Clients, Subscribed(c) PROVE Control'
  BY <1>14 DEF Subscribed, Control, NoLimbo
<1>15. ASSUME NEW c \in Clients, SubscribeRefused(c) PROVE Control'
  <2>1. c = client
    BY <1>15 DEF SubscribeRefused, OneSession, Live
  <2> QED BY <1>15, <2>1 DEF SubscribeRefused, Control, NoLimbo, TypeOK
<1> QED
  BY <1>1, <1>2, <1>3, <1>4, <1>5, <1>6, <1>7, <1>8, <1>9, <1>10, <1>11, <1>12,
     <1>13, <1>14, <1>15 DEF Next, Calls, Event

LEMMA ControlAlways == Spec => []Control
<1>1. Init => Control
  BY DEF Init, Control, NoLimbo
<1>2. Typed /\ OneSession /\ Control /\ [Next]_vars => Control'
  BY ControlStep
<1> QED BY <1>1, <1>2, TypedAlways, OneSessionCorrect, PTL DEF Spec

\* Whatever the status shows has a watchdog, a close event or a timer that will
\* change it, however errors, closes of old clients, updates and sleep interleave.
THEOREM NoLimboCorrect == Spec => []NoLimbo
<1>1. Control => NoLimbo
  BY DEF Control
<1> QED BY <1>1, ControlAlways, PTL

\* A live session is ended, recharged or redialled only by its own close, a call
\* or a wake-up: no late timer or close of a replaced client touches it.
THEOREM HealthyCorrect == Spec => HealthyIsLeftAlone
<1> DEFINE Step ==
      (client # None /\ Live(client) /\ calls' = calls /\ awake' = awake
         /\ link'[client] # "closed")
      => client' = client /\ retryCount' <= retryCount /\ ~reconnectTimer'
<1>1. Typed /\ Control /\ [Next]_vars => [Step]_vars
  <2> SUFFICES ASSUME Typed, Control, Next,
                      client # None, Live(client), calls' = calls, awake' = awake,
                      link'[client] # "closed"
               PROVE  client' = client /\ retryCount' <= retryCount /\ ~reconnectTimer'
    BY DEF vars, Live
  <2> USE DEF Typed
  <2>1. ~reconnectTimer /\ retryCount \in Nat /\ calls \in Nat /\ client \in Clients
    BY DEF Control, Live, TypeOK
  <2>2. ~Calls
    BY <2>1 DEF Calls, Call, Connect, Disconnect, UpdateTopicPrefix, PowerSuspend
  <2>3. ~PowerResume
    BY DEF PowerResume
  <2>4. ~ReconnectTimer
    BY <2>1 DEF ReconnectTimer
  <2>5. CASE AckTimer
    BY <2>1, <2>5 DEF AckTimer
  <2>6. ASSUME NEW c \in Clients, Event(c)
        PROVE  client' = client /\ retryCount' <= retryCount /\ ~reconnectTimer'
    <3>1. CASE Close(c)
      <4>1. c # client
        BY <3>1, <2>1 DEF Close, TypeOK
      <4> QED BY <2>1, <3>1, <4>1 DEF Close
    <3>2. CASE Subscribed(c)
      BY <2>1, <3>2 DEF Subscribed, TypeOK
    <3>3. CASE \/ Connack(c) \/ Offline(c) \/ Unsubscribed(c) \/ SubscribeRefused(c)
               \/ \E fatal \in BOOLEAN : Error(c, fatal)
      BY <2>1, <3>3
      DEF Connack, Offline, Unsubscribed, SubscribeRefused, Error, manager
    <3> QED BY <2>6, <3>1, <3>2, <3>3 DEF Event
  <2> QED BY <2>2, <2>3, <2>4, <2>5, <2>6 DEF Next
<1>2. Spec => [][Step]_vars
  BY <1>1, TypedAlways, ControlAlways, PTL DEF Spec
<1> QED BY <1>2 DEF HealthyIsLeftAlone
-----------------------------------------------------------------------------
(* The refinement of ReconnectBudget.                                      *)

\* The phase follows the status, as long as there are settings.
LEMMA PhaseOf ==
  /\ settings = None => Phase = "off" /\ Spent = 0
  /\ settings # None /\ status = "error" => Phase = "failed" /\ Spent = 0
  /\ settings # None /\ status = "connected" => Phase = "up" /\ Spent = retryCount
  /\ settings # None /\ status = "connecting" => Phase = "dialing" /\ Spent = retryCount
  /\ settings # None /\ status = "disconnected" => Phase = "waiting" /\ Spent = retryCount
<1>1. CASE settings = None
  BY <1>1 DEF Phase, Spent
<1>2. CASE settings # None /\ status = "error"
  BY <1>2 DEF Phase, Spent
<1>3. CASE settings # None /\ status = "connected"
  BY <1>3 DEF Phase, Spent
<1>4. CASE settings # None /\ status = "connecting"
  BY <1>4 DEF Phase, Spent
<1>5. CASE settings # None /\ status = "disconnected"
  BY <1>5 DEF Phase, Spent
<1> QED BY <1>1, <1>2, <1>3, <1>4, <1>5

LEMMA PhaseOfNext ==
  /\ settings' = None => Phase' = "off" /\ Spent' = 0
  /\ settings' # None /\ status' = "error" => Phase' = "failed" /\ Spent' = 0
  /\ settings' # None /\ status' = "connected" => Phase' = "up" /\ Spent' = retryCount'
  /\ settings' # None /\ status' = "connecting" => Phase' = "dialing" /\ Spent' = retryCount'
  /\ settings' # None /\ status' = "disconnected" => Phase' = "waiting" /\ Spent' = retryCount'
<1>1. CASE settings' = None
  BY <1>1 DEF Phase, Spent
<1>2. CASE settings' # None /\ status' = "error"
  BY <1>2 DEF Phase, Spent
<1>3. CASE settings' # None /\ status' = "connected"
  BY <1>3 DEF Phase, Spent
<1>4. CASE settings' # None /\ status' = "connecting"
  BY <1>4 DEF Phase, Spent
<1>5. CASE settings' # None /\ status' = "disconnected"
  BY <1>5 DEF Phase, Spent
<1> QED BY <1>1, <1>2, <1>3, <1>4, <1>5

Stutter == Phase' = Phase /\ Spent' = Spent

LEMMA SameStatus ==
  ASSUME settings' = settings, status' = status, retryCount' = retryCount
  PROVE  Stutter
  BY DEF Stutter, Phase, Spent

\* A close that is heard costs one try of the budget, or is its end.
LEMMA CloseRefines ==
  ASSUME Typed, Control, client # None, Close(client)
  PROVE  Budget!Next \/ Stutter
<1> USE DEF Typed
<1>1. settings # None /\ settings' = settings /\ status # "disconnected"
  BY DEF Close, Control, NoLimbo, TypeOK
<1>2. PayForReconnect
  BY DEF Close
<1>3. CASE status = "error"
  BY <1>1, <1>2, <1>3, SameStatus DEF PayForReconnect
<1>4. CASE status # "error"
  <2>1. status \in {"connecting", "connected"}
    BY <1>1, <1>4 DEF TypeOK, Statuses
  <2>2. Phase \in {"dialing", "up"} /\ Spent = retryCount
    BY <1>1, <2>1, PhaseOf
  <2>3. CASE retryCount >= MaxRetries
    <3>1. status' = "error"
      BY <1>1, <1>2, <2>1, <2>3 DEF PayForReconnect
    <3>2. Budget!Fail
      BY <1>1, <2>2, <3>1, PhaseOfNext DEF Budget!Fail
    <3> QED BY <3>2 DEF Budget!Next
  <2>4. CASE ~(retryCount >= MaxRetries)
    <3>1. status' = "disconnected" /\ retryCount' = retryCount + 1
      BY <1>1, <1>2, <2>1, <2>4 DEF PayForReconnect
    <3>2. retryCount < MaxRetries
      BY <2>4 DEF TypeOK
    <3>3. Budget!Lose
      BY <1>1, <2>2, <3>1, <3>2, PhaseOfNext DEF Budget!Lose
    <3> QED BY <3>3 DEF Budget!Next
  <2> QED BY <2>3, <2>4
<1> QED BY <1>3, <1>4

\* Every step of the manager is a step of the budget or leaves it alone.
LEMMA BudgetStep ==
  ASSUME Typed, OneSession, Control, [Next]_vars
  PROVE  Budget!Next \/ Stutter
<1> USE DEF Typed
<1>1. CASE UNCHANGED vars
  BY <1>1, SameStatus DEF vars
<1>2. ASSUME NEW p \in Prefixes, Connect(p) PROVE Budget!Next
  <2>1. settings' # None /\ status' = "connecting" /\ retryCount' = 0
    BY <1>2 DEF Connect, Dial
  <2> QED BY <2>1, PhaseOfNext DEF Budget!Next, Budget!Open
<1>3. CASE Disconnect
  <2>1. settings' = None
    BY <1>3 DEF Disconnect
  <2> QED BY <2>1, PhaseOfNext DEF Budget!Next, Budget!Shut
<1>4. ASSUME NEW p \in Prefixes, UpdateTopicPrefix(p) PROVE Stutter
  <2>1. /\ settings # None /\ settings' # None
        /\ status' = status /\ retryCount' = retryCount
    BY <1>4 DEF UpdateTopicPrefix
  <2>2. status \in Statuses
    BY DEF TypeOK
  <2> QED BY <2>1, <2>2, PhaseOf, PhaseOfNext DEF Stutter, Statuses
<1>5. CASE PowerSuspend
  BY <1>5, SameStatus DEF PowerSuspend
<1>6. CASE PowerResume
  <2>1. CASE settings = None
    BY <1>6, <2>1, SameStatus DEF PowerResume, manager
  <2>2. CASE settings # None
    <3>1. settings' # None /\ status' = "connecting" /\ retryCount' = 0
      BY <1>6, <2>2 DEF PowerResume, Dial
    <3>2. Phase # "off"
      BY <2>2 DEF Phase
    <3> QED BY <3>1, <3>2, PhaseOfNext DEF Budget!Next, Budget!Wake
  <2> QED BY <2>1, <2>2
<1>7. CASE ReconnectTimer
  <2>1. settings # None /\ status = "disconnected"
    BY <1>7 DEF ReconnectTimer, Control, NoLimbo
  <2>2. settings' # None /\ status' = "connecting" /\ retryCount' = retryCount
    BY <1>7, <2>1 DEF ReconnectTimer, Dial
  <2> QED BY <2>1, <2>2, PhaseOf, PhaseOfNext DEF Budget!Next, Budget!Redial
<1>8. CASE AckTimer
  BY <1>8, SameStatus DEF AckTimer
<1>9. ASSUME NEW c \in Clients, Connack(c) PROVE Budget!Next
  <2>1. c = client
    BY <1>9 DEF Connack, OneSession, Live
  <2>2. settings # None /\ status = "connecting"
    BY <1>9, <2>1 DEF Connack, Control, NoLimbo
  <2>3. settings' = settings /\ status' = "connected" /\ retryCount' = retryCount
    BY <1>9, <2>1 DEF Connack
  <2> QED BY <2>2, <2>3, PhaseOf, PhaseOfNext DEF Budget!Next, Budget!Establish
<1>10. ASSUME NEW c \in Clients, NEW fatal \in BOOLEAN, Error(c, fatal)
       PROVE  Budget!Next \/ Stutter
  <2>1. CASE c = client /\ fatal /\ status # "error"
    <3>1. settings # None /\ status \in {"connecting", "connected"}
      BY <1>10, <2>1 DEF Error, Control, NoLimbo, TypeOK, Statuses
    <3>2. settings' = settings /\ status' = "error"
      BY <1>10, <2>1 DEF Error
    <3> QED BY <3>1, <3>2, PhaseOf, PhaseOfNext DEF Budget!Next, Budget!Fail
  <2>2. CASE ~(c = client /\ fatal /\ status # "error")
    BY <1>10, <2>2, SameStatus DEF Error
  <2> QED BY <2>1, <2>2
<1>11. ASSUME NEW c \in Clients, Offline(c) PROVE Budget!Next \/ Stutter
  <2>1. CASE c = client /\ status = "connected"
    <3>1. settings # None
      BY <2>1 DEF Control, NoLimbo
    <3>2. settings' = settings /\ status' = "connecting" /\ retryCount' = retryCount
      BY <1>11, <2>1 DEF Offline
    <3> QED BY <2>1, <3>1, <3>2, PhaseOf, PhaseOfNext DEF Budget!Next, Budget!Slip
  <2>2. CASE ~(c = client /\ status = "connected")
    BY <1>11, <2>2, SameStatus DEF Offline
  <2> QED BY <2>1, <2>2
<1>12. ASSUME NEW c \in Clients, Close(c) PROVE Budget!Next \/ Stutter
  <2>1. CASE c = client
    BY <1>12, <2>1, CloseRefines
  <2>2. CASE c # client
    BY <1>12, <2>2, SameStatus DEF Close
  <2> QED BY <2>1, <2>2
<1>13. ASSUME NEW c \in Clients, Unsubscribed(c) PROVE Stutter
  BY <1>13, SameStatus DEF Unsubscribed, manager
<1>14. ASSUME NEW c \in Clients, Subscribed(c) PROVE Budget!Next \/ Stutter
  <2>1. c = client /\ settings # None
    BY <1>14 DEF Subscribed, OneSession, Live, Control, NoLimbo
  <2>2. status \in {"connected", "error"}
    BY <1>14, <2>1 DEF Subscribed, Control, NoLimbo, TypeOK, Statuses
  <2>3. settings' = settings /\ status' = status /\ retryCount' = 0
    BY <1>14 DEF Subscribed
  <2> QED
    BY <2>1, <2>2, <2>3, PhaseOf, PhaseOfNext DEF Budget!Next, Budget!Confirm, Stutter
<1>15. ASSUME NEW c \in Clients, SubscribeRefused(c) PROVE Budget!Next \/ Stutter
  <2>1. c = client /\ settings # None
    BY <1>15 DEF SubscribeRefused, OneSession, Live, Control, NoLimbo
  <2>2. status \in {"connected", "error"}
    BY <1>15, <2>1 DEF SubscribeRefused, Control, NoLimbo, TypeOK, Statuses
  <2>3. settings' = settings /\ status' = "error"
    BY <1>15 DEF SubscribeRefused
  <2> QED
    BY <2>1, <2>2, <2>3, PhaseOf, PhaseOfNext DEF Budget!Next, Budget!Fail, Stutter
<1> QED
  BY <1>1, <1>2, <1>3, <1>4, <1>5, <1>6, <1>7, <1>8, <1>9, <1>10, <1>11, <1>12,
     <1>13, <1>14, <1>15 DEF Next, Calls, Event

\* MQTTManager implements the reconnect budget: every lost connection is paid
\* for, every reconnect was paid for once, and an empty budget ends in an error,
\* whichever late or repeated events the clients and timers raise.
THEOREM BudgetImplemented == Spec => ImplementsBudget
<1>1. Init => Budget!Init
  BY PhaseOf DEF Init, Budget!Init
<1>2. Typed /\ OneSession /\ Control /\ [Next]_vars => [Budget!Next]_<<Phase, Spent>>
  BY BudgetStep DEF Stutter
<1>3. Spec => Budget!Spec
  BY <1>1, <1>2, TypedAlways, OneSessionCorrect, ControlAlways, PTL
  DEF Spec, Budget!Spec
<1> QED BY <1>3 DEF ImplementsBudget
==============================================================================
