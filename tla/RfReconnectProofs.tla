-------------------------- MODULE RfReconnectProofs --------------------------
(***************************************************************************)
(* Proofs about RfReconnect, for any number of attempts, any budget and    *)
(* any number of calls.                                                    *)
(***************************************************************************)
EXTENDS RfReconnect, SequenceTheorems, TLAPS

USE OwnersAssumption, TriesAssumption, CallsAssumption

-----------------------------------------------------------------------------
(* The two queues.                                                         *)

\* At most one open is in the gate, and it has the mutex.
OneOpen(g, m) ==
  /\ \A i, j \in 1..Len(g) : g[i].op = "open" /\ g[j].op = "open" => i = j
  /\ (\E i \in 1..Len(g) : g[i].op = "open") => m # <<>>

QueuesOK(g, m) == g \in Seq(Operation) /\ m \in Seq(Owners) /\ OneOpen(g, m)

LEMMA OpTypes ==
  /\ \A o \in Owners : Op("open", o) \in Operation /\ Op("open", o).op = "open"
  /\ \A a \in Attempts : Op("clean", a) \in Operation /\ Op("clean", a).op # "open"
  /\ \A a \in Attempts : Op("undo", a) \in Operation /\ Op("undo", a).op # "open"
  /\ \A t \in Losses \cup {"prepare", "fail", "user"} :
       Op(t, Manual) \in Operation /\ Op(t, Manual).op # "open"
  BY DEF Op, Operation, Losses

\* A disconnect queues behind what is there.
LEMMA AppendOK ==
  ASSUME NEW g, NEW m, QueuesOK(g, m), NEW x \in Operation, x.op # "open"
  PROVE  QueuesOK(Append(g, x), m)
<1>1. Append(g, x) \in Seq(Operation) /\ Len(Append(g, x)) = Len(g) + 1 /\ Len(g) \in Nat
  BY DEF QueuesOK
<1>2. \A i \in 1..Len(g) + 1 : Append(g, x)[i].op = "open" => i \in 1..Len(g) /\ g[i].op = "open"
  BY DEF QueuesOK
<1>3. OneOpen(Append(g, x), m)
  BY <1>1, <1>2 DEF QueuesOK, OneOpen
<1> QED BY <1>1, <1>3 DEF QueuesOK

\* The head is done.
LEMMA TailOK ==
  ASSUME NEW g, NEW m, QueuesOK(g, m), g # <<>>
  PROVE  QueuesOK(Tail(g), m)
<1>1. /\ Tail(g) \in Seq(Operation) /\ Len(Tail(g)) = Len(g) - 1 /\ Len(g) \in Nat
      /\ \A i \in 1..Len(g) - 1 : Tail(g)[i] = g[i + 1]
  BY DEF QueuesOK
<1>2. \A i \in 1..Len(g) - 1 : i + 1 \in 1..Len(g)
  BY <1>1
<1>3. OneOpen(Tail(g), m)
  BY <1>1, <1>2 DEF QueuesOK, OneOpen
<1> QED BY <1>1, <1>3 DEF QueuesOK

\* An open joins the mutex, and the gate if it is the first.
LEMMA OpenOK ==
  ASSUME NEW g, NEW m, QueuesOK(g, m), NEW o \in Owners
  PROVE  QueuesOK(IF m = <<>> THEN Append(g, Op("open", o)) ELSE g, Append(m, o))
<1>1. Append(m, o) \in Seq(Owners) /\ Append(m, o) # <<>>
  BY DEF QueuesOK
<1>2. CASE m # <<>>
  BY <1>1, <1>2 DEF QueuesOK, OneOpen
<1>3. CASE m = <<>>
  <2> DEFINE x == Op("open", o)
  <2>1. x \in Operation
    BY OpTypes
  <2> HIDE DEF x
  <2>2. Append(g, x) \in Seq(Operation) /\ Len(Append(g, x)) = Len(g) + 1 /\ Len(g) \in Nat
    BY <2>1 DEF QueuesOK
  <2>3. \A i \in 1..Len(g) : g[i].op # "open"
    BY <1>3 DEF QueuesOK, OneOpen
  <2>4. \A i \in 1..Len(g) + 1 : Append(g, x)[i].op = "open" => i = Len(g) + 1
    BY <2>1, <2>2, <2>3 DEF QueuesOK
  <2>5. OneOpen(Append(g, x), Append(m, o))
    BY <1>1, <2>2, <2>4 DEF OneOpen
  <2> QED BY <1>1, <1>3, <2>2, <2>5 DEF QueuesOK, x
<1> QED BY <1>2, <1>3

\* An open is over: the next one in the mutex enters the gate.
LEMMA HandoverOK ==
  ASSUME QueuesOK(gate, mutex), NEW o, Heads("open", o)
  PROVE  QueuesOK(Handover, Tail(mutex))
<1>1. /\ gate # <<>> /\ gate[1].op = "open" /\ Len(gate) \in Nat /\ 1 \in 1..Len(gate)
      /\ mutex # <<>>
  <2>1. gate # <<>> /\ Head(gate).op = "open"
    BY DEF Heads, Op
  <2>2. Head(gate) = gate[1] /\ Len(gate) \in Nat /\ Len(gate) > 0
    BY <2>1 DEF QueuesOK
  <2> QED BY <2>1, <2>2 DEF QueuesOK, OneOpen
<1>2. /\ Tail(gate) \in Seq(Operation) /\ Len(Tail(gate)) = Len(gate) - 1
      /\ \A i \in 1..Len(gate) - 1 : Tail(gate)[i] = gate[i + 1]
  BY <1>1 DEF QueuesOK
<1>3. \A i \in 1..Len(gate) - 1 : Tail(gate)[i].op # "open"
  BY <1>1, <1>2 DEF QueuesOK, OneOpen
<1>4. /\ Tail(mutex) \in Seq(Owners) /\ Len(mutex) \in Nat
      /\ Len(Tail(mutex)) = Len(mutex) - 1
  BY <1>1 DEF QueuesOK
<1>5. CASE Len(mutex) > 1
  <2> DEFINE x == Op("open", mutex[2])
  <2>1. mutex[2] \in Owners /\ Tail(mutex) # <<>>
    <3>1. 2 \in 1..Len(mutex) /\ Len(Tail(mutex)) # 0
      BY <1>4, <1>5
    <3>2. mutex[2] \in Owners
      BY <3>1 DEF QueuesOK
    <3>3. Tail(mutex) = <<>> => Len(Tail(mutex)) = 0
      BY <1>4, EmptySeq
    <3> QED BY <3>1, <3>2, <3>3
  <2>2. x \in Operation
    BY <2>1, OpTypes
  <2> HIDE DEF x
  <2>3. /\ Append(Tail(gate), x) \in Seq(Operation)
        /\ Len(Append(Tail(gate), x)) = Len(gate)
    BY <1>1, <1>2, <2>2
  <2>4. \A i \in 1..Len(gate) : Append(Tail(gate), x)[i].op = "open" => i = Len(gate)
    <3>1. \A i \in 1..Len(gate) - 1 : Append(Tail(gate), x)[i] = Tail(gate)[i]
      BY <1>2, <2>2
    <3>2. \A i \in 1..Len(gate) : i = Len(gate) \/ i \in 1..Len(gate) - 1
      BY <1>1
    <3> QED BY <1>3, <3>1, <3>2
  <2>5. OneOpen(Append(Tail(gate), x), Tail(mutex))
    BY <1>1, <2>1, <2>3, <2>4 DEF OneOpen
  <2> QED BY <1>4, <1>5, <2>3, <2>5 DEF QueuesOK, Handover, x
<1>6. CASE ~(Len(mutex) > 1)
  <2>1. OneOpen(Tail(gate), Tail(mutex))
    BY <1>1, <1>2, <1>3 DEF OneOpen
  <2> QED BY <1>2, <1>4, <1>6, <2>1 DEF QueuesOK, Handover
<1> QED BY <1>5, <1>6

\* A loss that counts queues one disconnect, now or after its device's.
LEMMA LostQueues ==
  ASSUME NEW late, NEW queue, NEW named, QueuesOK(queue, mutex), Lost(late, queue, named)
  PROVE  QueuesOK(gate', mutex)
<1>1. PICK t \in Losses : gate' = queue \/ gate' = Append(queue, Op(t, Manual))
  BY DEF Lost, Losses
<1>2. Op(t, Manual) \in Operation /\ Op(t, Manual).op # "open"
  BY OpTypes
<1> QED BY <1>1, <1>2, AppendOK

LEMMA ConnectionQueues ==
  ASSUME QueuesOK(gate, mutex), ConnectionLost
  PROVE  QueuesOK(gate', mutex)
  BY LostQueues DEF ConnectionLost

\* So do the catch of an attempt and the undo of what it opened.
LEMMA CloseQueues ==
  ASSUME NEW a \in Attempts, NEW queue, NEW opened, NEW m, QueuesOK(queue, m),
         Catch(a, queue, opened) \/ Undo(a, queue)
  PROVE  QueuesOK(gate', m)
<1>1. \/ gate' = queue
      \/ gate' = Append(queue, Op("clean", a))
      \/ gate' = Append(queue, Op("undo", a))
  BY DEF Catch, Undo
<1> QED BY <1>1, AppendOK, OpTypes

LEMMA ClosesOK ==
  ASSUME QueuesOK(gate, mutex), NEW op, NEW o, Heads(op, o), Closes
  PROVE  QueuesOK(gate', mutex')
  BY TailOK DEF Heads, Closes

LEMMA PreparedOK ==
  ASSUME NEW queue, QueuesOK(queue, mutex), Prepared(queue)
  PROVE  QueuesOK(gate', mutex')
  BY OpenOK DEF Prepared, Owners

LEMMA FailureQueues ==
  ASSUME NEW queue, QueuesOK(queue, mutex), FailureEnds(queue)
  PROVE  QueuesOK(gate', mutex')
  BY LostQueues DEF FailureEnds

\* Every step keeps the order of the two queues.
LEMMA QueueStep ==
  ASSUME QueuesOK(gate, mutex), [Next]_vars
  PROVE  QueuesOK(gate', mutex')
<1>1. CASE UNCHANGED <<gate, mutex>>
  BY <1>1
<1>2. CASE Events
  <2>1. CASE LinkLost
    BY <2>1, ConnectionQueues DEF LinkLost
  <2>2. CASE DeviceDisconnected \/ PowerSuspend
    BY <1>1, <2>2 DEF DeviceDisconnected, PowerSuspend, driver
  <2>3. ASSUME NEW stored \in BOOLEAN, NobleDrop(stored) PROVE QueuesOK(gate', mutex')
    BY <2>3, ConnectionQueues DEF NobleDrop
  <2>4. ASSUME NEW stored \in BOOLEAN, PowerResume(stored) PROVE QueuesOK(gate', mutex')
    BY <2>4, LostQueues DEF PowerResume
  <2>5. CASE YieldReleased
    BY <2>5, LostQueues DEF YieldReleased
  <2> QED BY <1>2, <2>1, <2>2, <2>3, <2>4, <2>5 DEF Events
<1>3. ASSUME NEW t \in Losses, NEW n \in BOOLEAN, Parted(t, n)
      PROVE  QueuesOK(gate', mutex')
  BY <1>3, OpTypes, AppendOK DEF Parted, Queues, driver
<1>4. ASSUME NEW t \in Losses, LossTail(t) PROVE QueuesOK(gate', mutex')
  BY <1>4, ClosesOK DEF LossTail
<1>5. CASE Owner
  BY <1>1, <1>5 DEF Owner, driver
<1>6. ASSUME NEW a \in Attempts, AttemptStep(a) PROVE QueuesOK(gate', mutex')
  <2>1. CASE BackoffAborted(a) \/ BackoffSuspended(a) \/ Succeed(a)
    BY <1>1, <2>1 DEF BackoffAborted, BackoffSuspended, Succeed, driver
  <2>2. CASE BackoffDone(a)
    <3>1. CASE inFlight
      BY <1>1, <2>2, <3>1 DEF BackoffDone, SkipOverlap, driver
    <3>2. CASE ~inFlight
      <4>1. a \in Owners
        BY DEF Owners
      <4>2. QueuesOpen(a)
        BY <2>2, <3>2 DEF BackoffDone, BeginOpening
      <4> QED BY <4>1, <4>2, OpenOK DEF QueuesOpen
    <3> QED BY <3>1, <3>2
  <2>3. CASE Deadline(a)
    BY <2>3, CloseQueues DEF Deadline
  <2>4. CASE Cleaned(a)
    BY <2>4, ClosesOK DEF Cleaned
  <2>5. CASE Opened(a)
    <3>1. QueuesOK(Handover, Tail(mutex))
      BY <2>5, HandoverOK DEF Opened
    <3> QED BY <2>5, <3>1, CloseQueues DEF Opened
  <2>6. CASE OpenFails(a)
    <3>1. QueuesOK(Handover, Tail(mutex))
      BY <2>6, HandoverOK DEF OpenFails
    <3> QED BY <2>6, <3>1, CloseQueues DEF OpenFails
  <2>7. CASE Configured(a) \/ ConfigureFails(a) \/ Unverified(a)
    BY <2>7, CloseQueues DEF Configured, ConfigureFails, Unverified
  <2>8. CASE Undone(a)
    BY <2>8, ClosesOK DEF Undone
  <2> QED
    BY <1>6, <2>1, <2>2, <2>3, <2>4, <2>5, <2>6, <2>7, <2>8 DEF AttemptStep, Backoff
<1>7. CASE User
  <2>1. CASE Connect
    <3>1. CASE gate' = Append(gate, Op("prepare", Manual)) /\ UNCHANGED mutex
      BY <3>1, OpTypes, AppendOK
    <3>2. CASE Prepared(gate)
      BY <3>2, PreparedOK
    <3> QED BY <2>1, <3>1, <3>2 DEF Connect
  <2>2. CASE ConnectPrepared
    BY <2>2, TailOK, PreparedOK DEF ConnectPrepared, Heads
  <2>3. CASE ConnectOpened
    BY <2>3, HandoverOK DEF ConnectOpened
  <2>4. CASE ConnectDone
    BY <1>1, <2>4 DEF ConnectDone, driver
  <2>5. CASE ConnectFails
    <3>1. CASE /\ Heads("open", Manual) /\ mutex' = Tail(mutex)
               /\ gate' \in {Append(Handover, Op("fail", Manual)), Handover}
      BY <3>1, HandoverOK, OpTypes, AppendOK
    <3>2. CASE gate' = Append(gate, Op("fail", Manual)) /\ UNCHANGED mutex
      BY <3>2, OpTypes, AppendOK
    <3> QED BY <2>5, <3>1, <3>2 DEF ConnectFails
  <2>6. CASE ConnectFailed
    <3>1. CASE Heads("fail", Manual) /\ FailureEnds(Tail(gate))
      BY <3>1, TailOK, FailureQueues DEF Heads
    <3>2. CASE FailureEnds(gate)
      BY <3>2, FailureQueues
    <3> QED BY <2>6, <3>1, <3>2 DEF ConnectFailed
  <2>7. CASE Disconnect
    BY <1>1, <2>7, OpTypes, AppendOK DEF Disconnect, Queues, driver
  <2>8. CASE Disconnected
    BY <2>8, ClosesOK DEF Disconnected
  <2> QED
    BY <1>7, <2>1, <2>2, <2>3, <2>4, <2>5, <2>6, <2>7, <2>8 DEF User
<1> QED
  BY <1>1, <1>2, <1>3, <1>4, <1>5, <1>6, <1>7 DEF Next, vars
-----------------------------------------------------------------------------
(* The types.                                                              *)

\* The types but for the queues.
Counts ==
  /\ cgen \in Nat /\ rgen \in Nat /\ mgen \in Nat
  /\ tries \in 0..MaxTries /\ calls \in 0..MaxCalls
  /\ gen \in [Attempts -> Nat] /\ parting \in [Partings -> Nat]
Waits ==
  /\ cycle \in BOOLEAN /\ dirty \in BOOLEAN /\ active \in BOOLEAN /\ owed \in BOOLEAN
  /\ reconnecting \in BOOLEAN /\ deferred \in BOOLEAN /\ asleep \in BOOLEAN
Marks ==
  /\ inFlight \in BOOLEAN /\ bleBusy \in BOOLEAN
  /\ explicit \in BOOLEAN /\ params \in BOOLEAN /\ exhausted \in BOOLEAN
  /\ connected \in BOOLEAN /\ configured \in BOOLEAN
  /\ known \in BOOLEAN /\ pending \in BOOLEAN
Works == {"none", "opening", "abandoned", "configuring", "verifying", "undoing"}
Places ==
  /\ device \in Owners \cup {None} /\ slots \subseteq Owners
  /\ body \in [Attempts -> {"idle", "backoff", "racing", "cleaning"}]
  /\ work \in [Attempts -> Works]
  /\ manual \in {"idle", "preparing", "opening", "configuring", "failing", "failed"}
Plain == Counts /\ Waits /\ Marks /\ Places

\* What handleConnectionLost() sets.
LossPlain ==
  /\ cgen' \in Nat /\ rgen' \in Nat
  /\ cycle' \in BOOLEAN /\ dirty' \in BOOLEAN /\ active' \in BOOLEAN /\ owed' \in BOOLEAN
  /\ deferred' \in BOOLEAN /\ reconnecting' \in BOOLEAN
  /\ parting' \in [Partings -> Nat]
  /\ device' \in Owners \cup {None}
  /\ connected' \in BOOLEAN /\ configured' \in BOOLEAN /\ pending' \in BOOLEAN

LEMMA LostPlain ==
  ASSUME Plain, NEW late \in BOOLEAN, NEW queue, NEW named \in BOOLEAN,
         Lost(late, queue, named)
  PROVE  LossPlain
<1>1. parting' \in [Partings -> Nat]
  <2> DEFINE t == <<IF cycle THEN "defer" ELSE "start", named>>
  <2>1. t \in Partings
    BY DEF Losses, Partings
  <2>2. parting' = parting \/ parting' = [parting EXCEPT ![t] = @ + 1]
    BY DEF Lost
  <2> QED BY <2>1, <2>2 DEF Plain, Counts
<1>2. cgen' \in Nat /\ rgen' \in Nat
  BY DEF Plain, Counts, Lost
<1>3. /\ cycle' \in BOOLEAN /\ dirty' \in BOOLEAN /\ active' \in BOOLEAN
      /\ owed' \in BOOLEAN /\ deferred' \in BOOLEAN /\ reconnecting' \in BOOLEAN
  BY DEF Plain, Waits, Lost
<1>4. /\ device' \in Owners \cup {None}
      /\ connected' \in BOOLEAN /\ configured' \in BOOLEAN /\ pending' \in BOOLEAN
  BY DEF Plain, Places, Lost
<1> QED BY <1>1, <1>2, <1>3, <1>4 DEF LossPlain

LEMMA NamedPlain == Plain => Named \in BOOLEAN /\ deferred \in BOOLEAN
  BY DEF Named, Plain, Marks, Waits

LEMMA ConnectionLostPlain ==
  ASSUME Plain, ConnectionLost
  PROVE  LossPlain
<1>1. CASE Lost(deferred, gate, Named)
  BY <1>1, LostPlain, NamedPlain
<1>2. CASE ~Lost(deferred, gate, Named)
  BY <1>2
  DEF Plain, Counts, Waits, Marks, Places, ConnectionLost, controller, LossPlain
<1> QED BY <1>1, <1>2

\* What the user's connect() sets.
LEMMA PreparedPlain ==
  ASSUME Plain, NEW queue, Prepared(queue)
  PROVE  /\ cgen' \in Nat /\ rgen' \in Nat /\ tries' \in 0..MaxTries
         /\ cycle' = FALSE /\ dirty' = FALSE /\ active' = FALSE
         /\ reconnecting' = FALSE /\ inFlight' = FALSE /\ deferred' = FALSE
         /\ explicit' = FALSE /\ params' = TRUE /\ exhausted' = FALSE /\ bleBusy' = TRUE
         /\ manual' = "opening"
  BY DEF Plain, Counts, Waits, Marks, Places, Prepared, Cancel

LEMMA PlainEvents ==
  ASSUME Plain, Events
  PROVE  Plain'
<1>1. CASE LinkLost
  <2>1. calls' \in 0..MaxCalls /\ LossPlain
    BY <1>1, ConnectionLostPlain DEF LinkLost, Call, Plain, Counts
  <2>11. Counts'
    BY <1>1, <2>1 DEF LinkLost, LossPlain, attempt, Plain, Counts
  <2>12. Waits'
    BY <1>1, <2>1 DEF LinkLost, LossPlain, attempt, Plain, Waits
  <2>13. Marks'
    BY <1>1, <2>1 DEF LinkLost, LossPlain, attempt, Plain, Marks
  <2>14. Places'
    BY <1>1, <2>1 DEF LinkLost, LossPlain, attempt, Plain, Places
  <2> QED BY <2>11, <2>12, <2>13, <2>14 DEF Plain
<1>2. CASE DeviceDisconnected
  <2>11. Counts'
    BY <1>2 DEF DeviceDisconnected, controller, refs, attempt, driver, Plain, Counts
  <2>12. Waits'
    BY <1>2 DEF DeviceDisconnected, controller, refs, attempt, driver, Plain, Waits
  <2>13. Marks'
    BY <1>2 DEF DeviceDisconnected, controller, refs, attempt, driver, Plain, Marks
  <2>14. Places'
    BY <1>2 DEF DeviceDisconnected, controller, refs, attempt, driver, Plain, Places
  <2> QED BY <2>11, <2>12, <2>13, <2>14 DEF Plain
<1>3. ASSUME NEW stored \in BOOLEAN, NobleDrop(stored) PROVE Plain'
  <2>1. calls' \in 0..MaxCalls
    BY <1>3 DEF NobleDrop, Call, Plain, Counts
  <2>2. CASE params' = TRUE /\ LossPlain
    <3>11. Counts'
      BY <1>3, <2>1, <2>2 DEF NobleDrop, LossPlain, attempt, Plain, Counts
    <3>12. Waits'
      BY <1>3, <2>1, <2>2 DEF NobleDrop, LossPlain, attempt, Plain, Waits
    <3>13. Marks'
      BY <1>3, <2>1, <2>2 DEF NobleDrop, LossPlain, attempt, Plain, Marks
    <3>14. Places'
      BY <1>3, <2>1, <2>2 DEF NobleDrop, LossPlain, attempt, Plain, Places
    <3> QED BY <3>11, <3>12, <3>13, <3>14 DEF Plain
  <2>3. CASE /\ deferred' \in BOOLEAN
             /\ UNCHANGED controller
             /\ UNCHANGED <<device, connected, configured, pending, rgen, reconnecting,
                            parting, params, owed>>
    <3>11. Counts'
      BY <1>3, <2>1, <2>3 DEF NobleDrop, controller, attempt, Plain, Counts
    <3>12. Waits'
      BY <1>3, <2>1, <2>3 DEF NobleDrop, controller, attempt, Plain, Waits
    <3>13. Marks'
      BY <1>3, <2>1, <2>3 DEF NobleDrop, controller, attempt, Plain, Marks
    <3>14. Places'
      BY <1>3, <2>1, <2>3 DEF NobleDrop, controller, attempt, Plain, Places
    <3> QED BY <3>11, <3>12, <3>13, <3>14 DEF Plain
  <2>4. CASE params' = TRUE /\ ConnectionLost
    BY <2>2, <2>4, ConnectionLostPlain
  <2> QED BY <1>3, <2>3, <2>4, NamedPlain DEF NobleDrop
<1>4. ASSUME NEW stored \in BOOLEAN, PowerResume(stored) PROVE Plain'
  <2>1. calls' \in 0..MaxCalls
    BY <1>4 DEF PowerResume, Call, Plain, Counts
  <2>2. CASE params' = TRUE /\ tries' = 0 /\ exhausted' = FALSE /\ LossPlain
    <3>11. Counts'
      BY <1>4, <2>1, <2>2 DEF PowerResume, LossPlain, attempt, Plain, Counts
    <3>12. Waits'
      BY <1>4, <2>1, <2>2 DEF PowerResume, LossPlain, attempt, Plain, Waits
    <3>13. Marks'
      BY <1>4, <2>1, <2>2 DEF PowerResume, LossPlain, attempt, Plain, Marks
    <3>14. Places'
      BY <1>4, <2>1, <2>2 DEF PowerResume, LossPlain, attempt, Plain, Places
    <3> QED BY <3>11, <3>12, <3>13, <3>14 DEF Plain
  <2>3. CASE /\ UNCHANGED controller
             /\ UNCHANGED <<device, connected, configured, pending, rgen, reconnecting,
                            deferred, params, tries, exhausted, parting, owed>>
    <3>11. Counts'
      BY <1>4, <2>1, <2>3 DEF PowerResume, controller, attempt, Plain, Counts
    <3>12. Waits'
      BY <1>4, <2>1, <2>3 DEF PowerResume, controller, attempt, Plain, Waits
    <3>13. Marks'
      BY <1>4, <2>1, <2>3 DEF PowerResume, controller, attempt, Plain, Marks
    <3>14. Places'
      BY <1>4, <2>1, <2>3 DEF PowerResume, controller, attempt, Plain, Places
    <3> QED BY <3>11, <3>12, <3>13, <3>14 DEF Plain
  <2>4. CASE /\ params' = TRUE /\ tries' = 0 /\ exhausted' = FALSE
             /\ Lost(deferred, gate, Named)
    BY <2>2, <2>4, LostPlain, NamedPlain
  <2> QED BY <1>4, <2>3, <2>4 DEF PowerResume
<1>5. CASE YieldReleased
  <2>1. calls' \in 0..MaxCalls /\ LossPlain
    BY <1>5, LostPlain, NamedPlain DEF YieldReleased, Call, Plain, Counts
  <2>11. Counts'
    BY <1>5, <2>1 DEF YieldReleased, LossPlain, attempt, Plain, Counts
  <2>12. Waits'
    BY <1>5, <2>1 DEF YieldReleased, LossPlain, attempt, Plain, Waits
  <2>13. Marks'
    BY <1>5, <2>1 DEF YieldReleased, LossPlain, attempt, Plain, Marks
  <2>14. Places'
    BY <1>5, <2>1 DEF YieldReleased, LossPlain, attempt, Plain, Places
  <2> QED BY <2>11, <2>12, <2>13, <2>14 DEF Plain
<1>6. CASE PowerSuspend
  <2>1. calls' \in 0..MaxCalls /\ rgen' \in Nat /\ cgen' \in Nat
    BY <1>6 DEF PowerSuspend, Cancel, Call, Plain, Counts
  <2>11. Counts'
    BY <1>6, <2>1 DEF PowerSuspend, Cancel, session, attempt, driver, Plain, Counts
  <2>12. Waits'
    BY <1>6, <2>1 DEF PowerSuspend, Cancel, session, attempt, driver, Plain, Waits
  <2>13. Marks'
    BY <1>6, <2>1 DEF PowerSuspend, Cancel, session, attempt, driver, Plain, Marks
  <2>14. Places'
    BY <1>6, <2>1 DEF PowerSuspend, Cancel, session, attempt, driver, Plain, Places
  <2> QED BY <2>11, <2>12, <2>13, <2>14 DEF Plain
<1> QED BY <1>1, <1>2, <1>3, <1>4, <1>5, <1>6 DEF Events

LEMMA PlainOwner ==
  ASSUME Plain, Owner
  PROVE  Plain'
<1>1. CASE OwnerNotes
  <2>1. dirty' \in BOOLEAN /\ deferred' \in BOOLEAN
    BY <1>1 DEF OwnerNotes, Plain, Counts, Waits, Marks, Places
  <2> QED
    <3>11. Counts'
      BY <1>1, <2>1 DEF Owner, OwnerNotes, session, attempt, driver, Plain, Counts
    <3>12. Waits'
      BY <1>1, <2>1 DEF Owner, OwnerNotes, session, attempt, driver, Plain, Waits
    <3>13. Marks'
      BY <1>1, <2>1 DEF Owner, OwnerNotes, session, attempt, driver, Plain, Marks
    <3>14. Places'
      BY <1>1, <2>1 DEF Owner, OwnerNotes, session, attempt, driver, Plain, Places
    <3> QED BY <3>11, <3>12, <3>13, <3>14 DEF Plain
<1>2. CASE OwnerGivesUp
  <2>11. Counts'
    BY <1>2 DEF Owner, OwnerGivesUp, attempt, driver, Plain, Counts
  <2>12. Waits'
    BY <1>2 DEF Owner, OwnerGivesUp, attempt, driver, Plain, Waits
  <2>13. Marks'
    BY <1>2 DEF Owner, OwnerGivesUp, attempt, driver, Plain, Marks
  <2>14. Places'
    BY <1>2 DEF Owner, OwnerGivesUp, attempt, driver, Plain, Places
  <2> QED BY <2>11, <2>12, <2>13, <2>14 DEF Plain
<1>3. CASE OwnerStarts
  <2>1. /\ body' \in [Attempts -> {"idle", "backoff", "racing", "cleaning"}]
        /\ work' \in [Attempts -> Works]
        /\ gen' \in [Attempts -> Nat]
        /\ tries' \in 0..MaxTries
    BY <1>3 DEF OwnerStarts, Over, Plain, Counts, Places, Works
  <2> QED
    <3>11. Counts'
      BY <1>3, <2>1 DEF Owner, OwnerStarts, session, driver, Plain, Counts
    <3>12. Waits'
      BY <1>3, <2>1 DEF Owner, OwnerStarts, session, driver, Plain, Waits
    <3>13. Marks'
      BY <1>3, <2>1 DEF Owner, OwnerStarts, session, driver, Plain, Marks
    <3>14. Places'
      BY <1>3, <2>1 DEF Owner, OwnerStarts, session, driver, Plain, Places
    <3> QED BY <3>11, <3>12, <3>13, <3>14 DEF Plain
<1> QED BY <1>1, <1>2, <1>3 DEF Owner

LEMMA SettlePlain ==
  ASSUME Plain, NEW a \in Attempts, Settle(a)
  PROVE  /\ body' \in [Attempts -> {"idle", "backoff", "racing", "cleaning"}]
         /\ inFlight' = FALSE /\ bleBusy' = FALSE
         /\ active' = FALSE /\ dirty' = FALSE /\ deferred' = FALSE
         /\ cycle' \in BOOLEAN /\ owed' \in BOOLEAN
  BY DEF Plain, Counts, Waits, Marks, Places, Settle

\* What the catch of an attempt and its undo leave, the queues apart.
CatchSets ==
  /\ body' \in [Attempts -> {"idle", "backoff", "racing", "cleaning"}]
  /\ device' = None /\ connected' = FALSE /\ pending' = FALSE
  /\ known' \in BOOLEAN /\ UNCHANGED configured
  /\ inFlight' \in BOOLEAN /\ bleBusy' \in BOOLEAN
  /\ active' \in BOOLEAN /\ dirty' \in BOOLEAN /\ deferred' \in BOOLEAN
  /\ cycle' \in BOOLEAN /\ owed' \in BOOLEAN

LEMMA CatchPlain ==
  ASSUME Plain, NEW a \in Attempts, NEW queue, NEW opened,
         Catch(a, queue, opened) \/ CatchAfterUndo(a)
  PROVE  CatchSets
<1>1. CASE Settle(a)
  BY <1>1, SettlePlain DEF Plain, Marks, Catch, CatchAfterUndo, CatchSets
<1>2. CASE ~Settle(a)
  BY <1>2 DEF Plain, Waits, Marks, Places, Catch, CatchAfterUndo, CatchSets, flags
<1> QED BY <1>1, <1>2

LEMMA UndoPlain ==
  ASSUME Plain, NEW a \in Attempts, NEW queue, Undo(a, queue)
  PROVE  /\ work' \in [Attempts -> Works]
         /\ UNCHANGED body
         /\ UNCHANGED <<owed, inFlight, bleBusy, active, dirty, deferred, cycle>>
  BY DEF Plain, Places, Undo, flags, Works

LEMMA PlainAttempt ==
  ASSUME Plain, NEW a \in Attempts, AttemptStep(a)
  PROVE  Plain'
<1>1. CASE BackoffAborted(a)
  <2>1. /\ body' \in [Attempts -> {"idle", "backoff", "racing", "cleaning"}]
        /\ cycle' \in BOOLEAN /\ owed' \in BOOLEAN /\ deferred' \in BOOLEAN
    BY <1>1 DEF BackoffAborted, Plain, Counts, Waits, Marks, Places
  <2> QED
    <3>11. Counts'
      BY <1>1, <2>1 DEF BackoffAborted, session, driver, Plain, Counts
    <3>12. Waits'
      BY <1>1, <2>1 DEF BackoffAborted, session, driver, Plain, Waits
    <3>13. Marks'
      BY <1>1, <2>1 DEF BackoffAborted, session, driver, Plain, Marks
    <3>14. Places'
      BY <1>1, <2>1 DEF BackoffAborted, session, driver, Plain, Places
    <3> QED BY <3>11, <3>12, <3>13, <3>14 DEF Plain
<1>2. CASE BackoffSuspended(a)
  <2>11. Counts'
    BY <1>2 DEF BackoffSuspended, Cancel, session, driver, Plain, Counts
  <2>12. Waits'
    BY <1>2 DEF BackoffSuspended, Cancel, session, driver, Plain, Waits
  <2>13. Marks'
    BY <1>2 DEF BackoffSuspended, Cancel, session, driver, Plain, Marks
  <2>14. Places'
    BY <1>2 DEF BackoffSuspended, Cancel, session, driver, Plain, Places
  <2> QED BY <2>11, <2>12, <2>13, <2>14 DEF Plain
<1>3. CASE BackoffDone(a)
  <2>1. CASE inFlight
    <3>11. Counts'
      BY <1>3, <2>1 DEF BackoffDone, SkipOverlap, session, driver, Plain, Counts
    <3>12. Waits'
      BY <1>3, <2>1 DEF BackoffDone, SkipOverlap, session, driver, Plain, Waits
    <3>13. Marks'
      BY <1>3, <2>1 DEF BackoffDone, SkipOverlap, session, driver, Plain, Marks
    <3>14. Places'
      BY <1>3, <2>1 DEF BackoffDone, SkipOverlap, session, driver, Plain, Places
    <3> QED BY <3>11, <3>12, <3>13, <3>14 DEF Plain
  <2>2. CASE ~inFlight
    <3>11. Counts'
      BY <1>3, <2>2 DEF BackoffDone, BeginOpening, QueuesOpen, session, Plain, Counts
    <3>12. Waits'
      BY <1>3, <2>2 DEF BackoffDone, BeginOpening, QueuesOpen, session, Plain, Waits
    <3>13. Marks'
      BY <1>3, <2>2 DEF BackoffDone, BeginOpening, QueuesOpen, session, Plain, Marks
    <3>14. Places'
      BY <1>3, <2>2 DEF BackoffDone, BeginOpening, QueuesOpen, session, Plain, Places, Works
    <3> QED BY <3>11, <3>12, <3>13, <3>14 DEF Plain
  <2> QED BY <2>1, <2>2
<1>4. CASE Deadline(a)
  <2>1. work' \in [Attempts -> Works]
    BY <1>4 DEF Deadline, Plain, Places, Works
  <2>2. CatchSets
    BY <1>4, CatchPlain DEF Deadline
  <2>11. Counts'
    BY <1>4, <2>1, <2>2 DEF Deadline, CatchSets, aside, Plain, Counts
  <2>12. Waits'
    BY <1>4, <2>1, <2>2 DEF Deadline, CatchSets, aside, Plain, Waits
  <2>13. Marks'
    BY <1>4, <2>1, <2>2 DEF Deadline, CatchSets, aside, Plain, Marks
  <2>14. Places'
    BY <1>4, <2>1, <2>2 DEF Deadline, CatchSets, aside, Plain, Places
  <2> QED BY <2>11, <2>12, <2>13, <2>14 DEF Plain
<1>5. CASE Cleaned(a)
  <2>11. Counts'
    BY <1>5, SettlePlain DEF Cleaned, Closes, aside, Plain, Counts
  <2>12. Waits'
    BY <1>5, SettlePlain DEF Cleaned, Closes, aside, Plain, Waits
  <2>13. Marks'
    BY <1>5, SettlePlain DEF Cleaned, Closes, aside, Plain, Marks
  <2>14. Places'
    BY <1>5, SettlePlain DEF Cleaned, Closes, aside, Plain, Places
  <2> QED BY <2>11, <2>12, <2>13, <2>14 DEF Plain
<1>6. CASE Opened(a)
  <2>1. /\ slots' \subseteq Owners /\ device' \in Owners \cup {None}
        /\ known' \in BOOLEAN
    BY <1>6 DEF Opened, Owners, Plain, Marks, Places
  <2>2. /\ work' \in [Attempts -> Works]
        /\ UNCHANGED body
        /\ UNCHANGED <<owed, inFlight, bleBusy, active, dirty, deferred, cycle>>
    BY <1>6, UndoPlain DEF Opened, flags, Plain, Places, Works
  <2>11. Counts'
    BY <1>6, <2>1, <2>2 DEF Opened, aside, Plain, Counts
  <2>12. Waits'
    BY <1>6, <2>1, <2>2 DEF Opened, aside, Plain, Waits
  <2>13. Marks'
    BY <1>6, <2>1, <2>2 DEF Opened, aside, Plain, Marks
  <2>14. Places'
    BY <1>6, <2>1, <2>2 DEF Opened, aside, Plain, Places
  <2> QED BY <2>11, <2>12, <2>13, <2>14 DEF Plain
<1>7. CASE OpenFails(a)
  <2>1. work' \in [Attempts -> Works]
    BY <1>7 DEF OpenFails, Plain, Places, Works
  <2>2. CASE body[a] = "racing"
    <3>1. CatchSets
      BY <1>7, <2>2, CatchPlain DEF OpenFails
    <3>11. Counts'
      BY <1>7, <2>1, <3>1 DEF OpenFails, CatchSets, aside, Plain, Counts
    <3>12. Waits'
      BY <1>7, <2>1, <3>1 DEF OpenFails, CatchSets, aside, Plain, Waits
    <3>13. Marks'
      BY <1>7, <2>1, <3>1 DEF OpenFails, CatchSets, aside, Plain, Marks
    <3>14. Places'
      BY <1>7, <2>1, <3>1 DEF OpenFails, CatchSets, aside, Plain, Places
    <3> QED BY <3>11, <3>12, <3>13, <3>14 DEF Plain
  <2>3. CASE body[a] # "racing"
    <3>11. Counts'
      BY <1>7, <2>1, <2>3 DEF OpenFails, aside, session, flags, Plain, Counts
    <3>12. Waits'
      BY <1>7, <2>1, <2>3 DEF OpenFails, aside, session, flags, Plain, Waits
    <3>13. Marks'
      BY <1>7, <2>1, <2>3 DEF OpenFails, aside, session, flags, Plain, Marks
    <3>14. Places'
      BY <1>7, <2>1, <2>3 DEF OpenFails, aside, session, flags, Plain, Places
    <3> QED BY <3>11, <3>12, <3>13, <3>14 DEF Plain
  <2> QED BY <2>2, <2>3
<1>8. CASE Configured(a)
  <2>1. /\ work' \in [Attempts -> Works]
        /\ UNCHANGED body
        /\ UNCHANGED <<owed, inFlight, bleBusy, active, dirty, deferred, cycle>>
    BY <1>8, UndoPlain DEF Configured, flags, Plain, Places, Works
  <2>2. configured' \in BOOLEAN
    BY <1>8 DEF Configured, Plain, Marks
  <2>11. Counts'
    BY <1>8, <2>1, <2>2 DEF Configured, aside, Plain, Counts
  <2>12. Waits'
    BY <1>8, <2>1, <2>2 DEF Configured, aside, Plain, Waits
  <2>13. Marks'
    BY <1>8, <2>1, <2>2 DEF Configured, aside, Plain, Marks
  <2>14. Places'
    BY <1>8, <2>1, <2>2 DEF Configured, aside, Plain, Places
  <2> QED BY <2>11, <2>12, <2>13, <2>14 DEF Plain
<1>9. CASE ConfigureFails(a)
  <2>1. work' \in [Attempts -> Works]
    BY <1>9 DEF ConfigureFails, Plain, Places, Works
  <2>2. CASE body[a] = "racing"
    <3>1. CatchSets
      BY <1>9, <2>2, CatchPlain DEF ConfigureFails
    <3>11. Counts'
      BY <1>9, <2>1, <3>1 DEF ConfigureFails, CatchSets, aside, Plain, Counts
    <3>12. Waits'
      BY <1>9, <2>1, <3>1 DEF ConfigureFails, CatchSets, aside, Plain, Waits
    <3>13. Marks'
      BY <1>9, <2>1, <3>1 DEF ConfigureFails, CatchSets, aside, Plain, Marks
    <3>14. Places'
      BY <1>9, <2>1, <3>1 DEF ConfigureFails, CatchSets, aside, Plain, Places
    <3> QED BY <3>11, <3>12, <3>13, <3>14 DEF Plain
  <2>3. CASE body[a] # "racing"
    <3>11. Counts'
      BY <1>9, <2>1, <2>3 DEF ConfigureFails, aside, session, flags, Plain, Counts
    <3>12. Waits'
      BY <1>9, <2>1, <2>3 DEF ConfigureFails, aside, session, flags, Plain, Waits
    <3>13. Marks'
      BY <1>9, <2>1, <2>3 DEF ConfigureFails, aside, session, flags, Plain, Marks
    <3>14. Places'
      BY <1>9, <2>1, <2>3 DEF ConfigureFails, aside, session, flags, Plain, Places
    <3> QED BY <3>11, <3>12, <3>13, <3>14 DEF Plain
  <2> QED BY <2>2, <2>3
<1>10. CASE Unverified(a)
  <2>11. Counts'
    BY <1>10, UndoPlain DEF Unverified, aside, session, Plain, Counts
  <2>12. Waits'
    BY <1>10, UndoPlain DEF Unverified, aside, session, Plain, Waits
  <2>13. Marks'
    BY <1>10, UndoPlain DEF Unverified, aside, session, Plain, Marks
  <2>14. Places'
    BY <1>10, UndoPlain DEF Unverified, aside, session, Plain, Places
  <2> QED BY <2>11, <2>12, <2>13, <2>14 DEF Plain
<1>11. CASE Succeed(a)
  <2>1. /\ work' \in [Attempts -> Works]
        /\ body' \in [Attempts -> {"idle", "backoff", "racing", "cleaning"}]
        /\ tries' \in 0..MaxTries
    BY <1>11 DEF Succeed, Plain, Counts, Places, Works
  <2>11. Counts'
    BY <1>11, <2>1 DEF Succeed, session, driver, Plain, Counts
  <2>12. Waits'
    BY <1>11, <2>1 DEF Succeed, session, driver, Plain, Waits
  <2>13. Marks'
    BY <1>11, <2>1 DEF Succeed, session, driver, Plain, Marks
  <2>14. Places'
    BY <1>11, <2>1 DEF Succeed, session, driver, Plain, Places
  <2> QED BY <2>11, <2>12, <2>13, <2>14 DEF Plain
<1>12. CASE Undone(a)
  <2>1. work' \in [Attempts -> Works]
    BY <1>12 DEF Undone, Plain, Places, Works
  <2>2. CASE body[a] = "racing" /\ work[a] = "undoing"
    <3>1. CatchSets
      BY <1>12, <2>2, CatchPlain DEF Undone
    <3>11. Counts'
      BY <1>12, <2>1, <3>1 DEF Undone, Closes, CatchSets, aside, Plain, Counts
    <3>12. Waits'
      BY <1>12, <2>1, <3>1 DEF Undone, Closes, CatchSets, aside, Plain, Waits
    <3>13. Marks'
      BY <1>12, <2>1, <3>1 DEF Undone, Closes, CatchSets, aside, Plain, Marks
    <3>14. Places'
      BY <1>12, <2>1, <3>1 DEF Undone, Closes, CatchSets, aside, Plain, Places
    <3> QED BY <3>11, <3>12, <3>13, <3>14 DEF Plain
  <2>3. CASE ~(body[a] = "racing" /\ work[a] = "undoing")
    <3>11. Counts'
      BY <1>12, <2>1, <2>3 DEF Undone, Closes, aside, session, flags, Plain, Counts
    <3>12. Waits'
      BY <1>12, <2>1, <2>3 DEF Undone, Closes, aside, session, flags, Plain, Waits
    <3>13. Marks'
      BY <1>12, <2>1, <2>3 DEF Undone, Closes, aside, session, flags, Plain, Marks
    <3>14. Places'
      BY <1>12, <2>1, <2>3 DEF Undone, Closes, aside, session, flags, Plain, Places
    <3> QED BY <3>11, <3>12, <3>13, <3>14 DEF Plain
  <2> QED BY <2>2, <2>3
<1> QED
  BY <1>1, <1>2, <1>3, <1>4, <1>5, <1>6, <1>7, <1>8, <1>9, <1>10, <1>11, <1>12
  DEF AttemptStep, Backoff

LEMMA FailurePlain ==
  ASSUME Plain, NEW queue, FailureEnds(queue), slots' \subseteq Owners
  PROVE  Plain'
<1>1. known' \in BOOLEAN /\ known \in BOOLEAN
  BY DEF FailureEnds, Plain, Marks
<1>2. LossPlain
  <2>1. CASE Lost(FALSE, queue, known)
    BY <1>1, <2>1, LostPlain
  <2>2. CASE ~Lost(FALSE, queue, known)
    BY <2>2 DEF FailureEnds, controller, LossPlain, Plain, Counts, Waits, Marks, Places
  <2> QED BY <2>1, <2>2
<1>11. Counts'
  BY <1>1, <1>2 DEF FailureEnds, LossPlain, attempt, Plain, Counts
<1>12. Waits'
  BY <1>1, <1>2 DEF FailureEnds, LossPlain, attempt, Plain, Waits
<1>13. Marks'
  BY <1>1, <1>2 DEF FailureEnds, LossPlain, attempt, Plain, Marks
<1>14. Places'
  BY <1>1, <1>2 DEF FailureEnds, LossPlain, attempt, Plain, Places
<1> QED BY <1>11, <1>12, <1>13, <1>14 DEF Plain

LEMMA PlainUser ==
  ASSUME Plain, User
  PROVE  Plain'
<1>1. CASE Connect
  <2>1. /\ calls' \in 0..MaxCalls /\ known' \in BOOLEAN /\ pending' \in BOOLEAN
    BY <1>1 DEF Connect, Call, Plain, Counts, Marks
  <2>2. CASE manual' = "preparing" /\ UNCHANGED controller /\ UNCHANGED refs
    <3>11. Counts'
      BY <1>1, <2>1, <2>2 DEF Connect, controller, refs, attempt, Plain, Counts
    <3>12. Waits'
      BY <1>1, <2>1, <2>2 DEF Connect, controller, refs, attempt, Plain, Waits
    <3>13. Marks'
      BY <1>1, <2>1, <2>2 DEF Connect, controller, refs, attempt, Plain, Marks
    <3>14. Places'
      BY <1>1, <2>1, <2>2 DEF Connect, controller, refs, attempt, Plain, Places
    <3> QED BY <3>11, <3>12, <3>13, <3>14 DEF Plain
  <2>3. CASE Prepared(gate)
    <3>11. Counts'
      BY <1>1, <2>1, <2>3, PreparedPlain DEF Connect, attempt, Plain, Counts
    <3>12. Waits'
      BY <1>1, <2>1, <2>3, PreparedPlain DEF Connect, attempt, Plain, Waits
    <3>13. Marks'
      BY <1>1, <2>1, <2>3, PreparedPlain DEF Connect, attempt, Plain, Marks
    <3>14. Places'
      BY <1>1, <2>1, <2>3, PreparedPlain DEF Connect, attempt, Plain, Places
    <3> QED BY <3>11, <3>12, <3>13, <3>14 DEF Plain
  <2> QED BY <1>1, <2>2, <2>3 DEF Connect
<1>2. CASE ConnectPrepared
  <2>11. Counts'
    BY <1>2, PreparedPlain DEF ConnectPrepared, session, attempt, Plain, Counts
  <2>12. Waits'
    BY <1>2, PreparedPlain DEF ConnectPrepared, session, attempt, Plain, Waits
  <2>13. Marks'
    BY <1>2, PreparedPlain DEF ConnectPrepared, session, attempt, Plain, Marks
  <2>14. Places'
    BY <1>2, PreparedPlain DEF ConnectPrepared, session, attempt, Plain, Places
  <2> QED BY <2>11, <2>12, <2>13, <2>14 DEF Plain
<1>3. CASE ConnectOpened
  <2>1. slots' \subseteq Owners /\ device' \in Owners
    BY <1>3 DEF ConnectOpened, Owners, Plain, Places
  <2>11. Counts'
    BY <1>3, <2>1 DEF ConnectOpened, controller, attempt, Plain, Counts
  <2>12. Waits'
    BY <1>3, <2>1 DEF ConnectOpened, controller, attempt, Plain, Waits
  <2>13. Marks'
    BY <1>3, <2>1 DEF ConnectOpened, controller, attempt, Plain, Marks
  <2>14. Places'
    BY <1>3, <2>1 DEF ConnectOpened, controller, attempt, Plain, Places
  <2> QED BY <2>11, <2>12, <2>13, <2>14 DEF Plain
<1>4. CASE ConnectDone
  <2>1. configured' \in BOOLEAN
    BY <1>4 DEF ConnectDone, Plain, Marks
  <2>11. Counts'
    BY <1>4, <2>1 DEF ConnectDone, controller, attempt, driver, Plain, Counts
  <2>12. Waits'
    BY <1>4, <2>1 DEF ConnectDone, controller, attempt, driver, Plain, Waits
  <2>13. Marks'
    BY <1>4, <2>1 DEF ConnectDone, controller, attempt, driver, Plain, Marks
  <2>14. Places'
    BY <1>4, <2>1 DEF ConnectDone, controller, attempt, driver, Plain, Places
  <2> QED BY <2>11, <2>12, <2>13, <2>14 DEF Plain
<1>5. CASE ConnectFails
  <2>1. manual' \in {"failing", "failed"}
    BY <1>5 DEF ConnectFails
  <2>11. Counts'
    BY <1>5, <2>1 DEF ConnectFails, controller, attempt, Plain, Counts
  <2>12. Waits'
    BY <1>5, <2>1 DEF ConnectFails, controller, attempt, Plain, Waits
  <2>13. Marks'
    BY <1>5, <2>1 DEF ConnectFails, controller, attempt, Plain, Marks
  <2>14. Places'
    BY <1>5, <2>1 DEF ConnectFails, controller, attempt, Plain, Places
  <2> QED BY <2>11, <2>12, <2>13, <2>14 DEF Plain
<1>6. CASE ConnectFailed
  <2>1. slots' \subseteq Owners
    BY <1>6 DEF ConnectFailed, Plain, Places
  <2> QED BY <1>6, <2>1, FailurePlain DEF ConnectFailed
<1>7. CASE Disconnect
  <2>1. calls' \in 0..MaxCalls /\ tries' \in 0..MaxTries /\ rgen' \in Nat /\ cgen' \in Nat
    BY <1>7 DEF Disconnect, Cancel, Call, Plain, Counts
  <2>2. /\ UNCHANGED slots
        /\ connected' \in BOOLEAN /\ known' \in BOOLEAN /\ pending' \in BOOLEAN
    BY <1>7 DEF Disconnect, Queues, Forgets, driver, Plain, Marks
  <2>11. Counts'
    BY <1>7, <2>1, <2>2 DEF Disconnect, Cancel, attempt, Plain, Counts
  <2>12. Waits'
    BY <1>7, <2>1, <2>2 DEF Disconnect, Cancel, attempt, Plain, Waits
  <2>13. Marks'
    BY <1>7, <2>1, <2>2 DEF Disconnect, Cancel, attempt, Plain, Marks
  <2>14. Places'
    BY <1>7, <2>1, <2>2 DEF Disconnect, Cancel, attempt, Plain, Places
  <2> QED BY <2>11, <2>12, <2>13, <2>14 DEF Plain
<1>8. CASE Disconnected
  <2>11. Counts'
    BY <1>8 DEF Disconnected, Closes, Forgets, controller, refs, attempt, Plain, Counts
  <2>12. Waits'
    BY <1>8 DEF Disconnected, Closes, Forgets, controller, refs, attempt, Plain, Waits
  <2>13. Marks'
    BY <1>8 DEF Disconnected, Closes, Forgets, controller, refs, attempt, Plain, Marks
  <2>14. Places'
    BY <1>8 DEF Disconnected, Closes, Forgets, controller, refs, attempt, Plain, Places
  <2> QED BY <2>11, <2>12, <2>13, <2>14 DEF Plain
<1> QED BY <1>1, <1>2, <1>3, <1>4, <1>5, <1>6, <1>7, <1>8 DEF User

LEMMA PlainStep ==
  ASSUME Plain, [Next]_vars
  PROVE  Plain'
<1>1. CASE UNCHANGED vars
  BY <1>1 DEF vars, Plain, Counts, Waits, Marks, Places
<1>2. ASSUME NEW t \in Losses, NEW n \in BOOLEAN, Parted(t, n) PROVE Plain'
  <2>1. parting' \in [Partings -> Nat]
    BY <1>2 DEF Parted, Plain, Counts, Partings
  <2>2. /\ known' \in BOOLEAN /\ connected' \in BOOLEAN /\ owed' \in BOOLEAN
        /\ deferred' \in BOOLEAN /\ UNCHANGED slots
    BY <1>2 DEF Parted, Queues, LossEnds, driver, Plain, Waits, Marks
  <2>11. Counts'
    BY <1>2, <2>1, <2>2 DEF Parted, controller, attempt, Plain, Counts
  <2>12. Waits'
    BY <1>2, <2>1, <2>2 DEF Parted, controller, attempt, Plain, Waits
  <2>13. Marks'
    BY <1>2, <2>1, <2>2 DEF Parted, controller, attempt, Plain, Marks
  <2>14. Places'
    BY <1>2, <2>1, <2>2 DEF Parted, controller, attempt, Plain, Places
  <2> QED BY <2>11, <2>12, <2>13, <2>14 DEF Plain
<1>3. ASSUME NEW t \in Losses, LossTail(t) PROVE Plain'
  <2>1. /\ known' = FALSE /\ connected' = FALSE /\ owed' \in BOOLEAN
        /\ deferred' \in BOOLEAN
    BY <1>3 DEF LossTail, LossEnds, Plain, Waits
  <2>11. Counts'
    BY <1>3, <2>1 DEF LossTail, Closes, controller, attempt, Plain, Counts
  <2>12. Waits'
    BY <1>3, <2>1 DEF LossTail, Closes, controller, attempt, Plain, Waits
  <2>13. Marks'
    BY <1>3, <2>1 DEF LossTail, Closes, controller, attempt, Plain, Marks
  <2>14. Places'
    BY <1>3, <2>1 DEF LossTail, Closes, controller, attempt, Plain, Places
  <2> QED BY <2>11, <2>12, <2>13, <2>14 DEF Plain
<1> QED
  BY <1>1, <1>2, <1>3, PlainEvents, PlainOwner, PlainAttempt, PlainUser DEF Next

Typed == Plain /\ QueuesOK(gate, mutex)

LEMMA TypedAlways == Spec => []Typed
<1>1. Init => Typed
  <2> SUFFICES ASSUME Init PROVE Typed
    OBVIOUS
  <2>1. QueuesOK(gate, mutex)
    <3>1. gate = <<>> /\ mutex = <<>> /\ Len(gate) = 0
      BY DEF Init
    <3>2. gate \in Seq(Operation) /\ mutex \in Seq(Owners)
      BY <3>1, EmptySeq
    <3> QED BY <3>1, <3>2 DEF QueuesOK, OneOpen
  <2>2. Plain
    <3>1. /\ body \in [Attempts -> {"idle", "backoff", "racing", "cleaning"}]
          /\ work \in [Attempts -> Works]
          /\ gen \in [Attempts -> Nat] /\ parting \in [Partings -> Nat]
      BY DEF Init, Works
    <3>2. tries \in 0..MaxTries /\ calls \in 0..MaxCalls
      BY DEF Init
    <3> QED BY <3>1, <3>2 DEF Init, Plain, Counts, Waits, Marks, Places
  <2> QED BY <2>1, <2>2 DEF Typed
<1>2. Typed /\ [Next]_vars => Typed'
  BY PlainStep, QueueStep DEF Typed
<1> QED BY <1>1, <1>2, PTL DEF Spec

\* Every variable keeps its type: no more tries than the budget, and an open in
\* the driver's gate only while it has the mutex.
THEOREM TypeCorrect == Spec => []TypeOK
<1>1. Typed => TypeOK
  BY DEF Typed, Plain, Counts, Waits, Marks, Places, Works, QueuesOK, TypeOK
<1> QED BY <1>1, TypedAlways, PTL
-----------------------------------------------------------------------------
(* The generations.                                                        *)

\* The runtime's generation and the controller's never fall behind an
\* attempt's, are the same while a cycle is on, and an explicit disconnect
\* has superseded every attempt.
Generations ==
  /\ \A a \in Attempts : gen[a] <= rgen /\ gen[a] <= cgen
  /\ reconnecting => rgen = cgen
  /\ explicit => \A a \in Attempts : gen[a] < rgen

\* A step begins no generation, begins one, or starts an attempt of the
\* current one.
Keeps ==
  /\ UNCHANGED <<rgen, gen, explicit>>
  /\ cgen' \in {cgen, cgen + 1}
  /\ reconnecting' => reconnecting /\ cgen' = cgen
Begins ==
  /\ gen' = gen
  /\ cgen' \in {cgen, cgen + 1}
  /\ rgen' = rgen + 1 \/ rgen' = cgen + 1
  /\ reconnecting' => rgen' = cgen'
Starts ==
  /\ reconnecting /\ ~explicit
  /\ UNCHANGED <<cgen, rgen, reconnecting, explicit>>
  /\ \E a \in Attempts : gen' = [gen EXCEPT ![a] = rgen]

LEMMA LostBegins ==
  ASSUME NEW late, NEW queue, NEW named, Lost(late, queue, named), gen' = gen
  PROVE  Begins
  BY DEF Lost, Begins

LEMMA ConnectionLostForm ==
  ASSUME ConnectionLost, UNCHANGED <<gen, explicit>>
  PROVE  Keeps \/ Begins
<1>1. CASE Lost(deferred, gate, Named)
  BY <1>1, LostBegins
<1>2. CASE ~Lost(deferred, gate, Named)
  BY <1>2 DEF ConnectionLost, Keeps, controller
<1> QED BY <1>1, <1>2

LEMMA PreparedBegins ==
  ASSUME NEW queue, Prepared(queue), gen' = gen
  PROVE  Begins
  BY DEF Prepared, Cancel, Begins

LEMMA EventForm ==
  ASSUME Events
  PROVE  Keeps \/ Begins
<1>1. CASE LinkLost
  BY <1>1, ConnectionLostForm DEF LinkLost, attempt
<1>2. CASE DeviceDisconnected
  BY <1>2 DEF DeviceDisconnected, controller, refs, attempt, Keeps
<1>3. ASSUME NEW stored \in BOOLEAN, NobleDrop(stored) PROVE Keeps \/ Begins
  <2>1. CASE ConnectionLost
    BY <1>3, <2>1, ConnectionLostForm DEF NobleDrop, attempt
  <2>2. CASE ~ConnectionLost
    BY <1>3, <2>2 DEF NobleDrop, controller, attempt, Keeps
  <2> QED BY <2>1, <2>2
<1>4. ASSUME NEW stored \in BOOLEAN, PowerResume(stored) PROVE Keeps \/ Begins
  <2>1. CASE Lost(deferred, gate, Named)
    BY <1>4, <2>1, LostBegins DEF PowerResume, attempt
  <2>2. CASE ~Lost(deferred, gate, Named)
    BY <1>4, <2>2 DEF PowerResume, controller, attempt, Keeps
  <2> QED BY <2>1, <2>2
<1>5. CASE YieldReleased
  BY <1>5, LostBegins DEF YieldReleased, attempt
<1>6. CASE PowerSuspend
  BY <1>6 DEF PowerSuspend, Cancel, attempt, Begins
<1> QED BY <1>1, <1>2, <1>3, <1>4, <1>5, <1>6 DEF Events

LEMMA AttemptForm ==
  ASSUME NEW a \in Attempts, AttemptStep(a)
  PROVE  Keeps
<1>1. CASE BackoffAborted(a)
  BY <1>1 DEF BackoffAborted, Keeps
<1>2. CASE BackoffSuspended(a)
  BY <1>2 DEF BackoffSuspended, Cancel, Keeps
<1>3. CASE BackoffDone(a)
  BY <1>3 DEF BackoffDone, Keeps
<1>4. CASE UNCHANGED aside
  BY <1>4 DEF aside, Keeps
<1>5. CASE Succeed(a)
  BY <1>5 DEF Succeed, Keeps
<1> QED
  BY <1>1, <1>2, <1>3, <1>4, <1>5
  DEF AttemptStep, Backoff, Deadline, Cleaned, Opened, OpenFails, Configured,
      ConfigureFails, Unverified, Undone

LEMMA UserForm ==
  ASSUME User
  PROVE  Keeps \/ Begins
<1>1. CASE Connect
  <2>1. CASE Prepared(gate)
    BY <1>1, <2>1, PreparedBegins DEF Connect, attempt
  <2>2. CASE ~Prepared(gate)
    BY <1>1, <2>2 DEF Connect, controller, refs, attempt, Keeps
  <2> QED BY <2>1, <2>2
<1>2. CASE ConnectPrepared
  BY <1>2, PreparedBegins DEF ConnectPrepared, attempt
<1>3. CASE ConnectOpened
  BY <1>3 DEF ConnectOpened, controller, attempt, Keeps
<1>4. CASE ConnectDone
  BY <1>4 DEF ConnectDone, controller, attempt, Keeps
<1>5. CASE ConnectFails
  BY <1>5 DEF ConnectFails, controller, attempt, Begins
<1>6. CASE ConnectFailed
  <2>1. PICK queue : FailureEnds(queue)
    BY <1>6 DEF ConnectFailed
  <2>2. CASE Lost(FALSE, queue, known)
    BY <2>1, <2>2, LostBegins DEF FailureEnds, attempt
  <2>3. CASE ~Lost(FALSE, queue, known)
    BY <2>1, <2>3 DEF FailureEnds, controller, attempt, Keeps
  <2> QED BY <2>2, <2>3
<1>7. CASE Disconnect
  BY <1>7 DEF Disconnect, Cancel, attempt, Begins
<1>8. CASE Disconnected
  BY <1>8 DEF Disconnected, controller, refs, attempt, Keeps
<1> QED BY <1>1, <1>2, <1>3, <1>4, <1>5, <1>6, <1>7, <1>8 DEF User

LEMMA GenerationForm ==
  ASSUME [Next]_vars
  PROVE  Keeps \/ Begins \/ Starts
<1>1. CASE UNCHANGED vars
  BY <1>1 DEF vars, Keeps
<1>2. ASSUME NEW t \in Losses, NEW n \in BOOLEAN, Parted(t, n) \/ LossTail(t)
      PROVE  Keeps
  BY <1>2 DEF Parted, LossTail, controller, attempt, Keeps
<1>3. CASE Owner
  <2>1. CASE OwnerNotes
    BY <1>3, <2>1 DEF Owner, OwnerNotes, attempt, Keeps
  <2>2. CASE OwnerGivesUp
    BY <1>3, <2>2 DEF Owner, OwnerGivesUp, attempt, Keeps
  <2>3. CASE OwnerStarts
    BY <1>3, <2>3 DEF Owner, OwnerStarts, Over, MayStart, Starts
  <2> QED BY <1>3, <2>1, <2>2, <2>3 DEF Owner
<1> QED BY <1>1, <1>2, <1>3, EventForm, AttemptForm, UserForm DEF Next

LEMMA GenerationStep ==
  ASSUME Counts, Generations, [Next]_vars
  PROVE  Generations'
<1>1. CASE Keeps
  BY <1>1 DEF Keeps, Generations, Counts
<1>2. CASE Begins
  BY <1>2 DEF Begins, Generations, Counts
<1>3. CASE Starts
  <2>1. PICK a \in Attempts : gen' = [gen EXCEPT ![a] = rgen]
    BY <1>3 DEF Starts
  <2>2. rgen = cgen /\ cgen \in Nat
    BY <1>3 DEF Starts, Generations, Counts
  <2>3. \A b \in Attempts : gen'[b] = (IF b = a THEN rgen ELSE gen[b])
    BY <2>1 DEF Counts
  <2> QED BY <1>3, <2>2, <2>3 DEF Starts, Generations
<1> QED BY <1>1, <1>2, <1>3, GenerationForm

LEMMA GenerationsAlways == Spec => [](Typed /\ Generations)
<1>1. Init => Generations
  BY DEF Init, Generations
<1>2. (Typed /\ Generations) /\ [Next]_vars => Generations'
  BY GenerationStep DEF Typed, Plain
<1> QED BY <1>1, <1>2, TypedAlways, PTL DEF Spec

\* However the two sides count, a superseded attempt is never the current one
\* again: a new generation of either is beyond every attempt's.
THEOREM NeverRevivedCorrect == Spec => NeverRevived
<1>1. ASSUME Counts, Generations, [Next]_vars,
             NEW a \in Attempts, Superseded(a), gen'[a] = gen[a]
      PROVE  gen[a] # rgen'
  <2>1. gen[a] # rgen /\ gen[a] <= rgen /\ gen[a] <= cgen
    BY <1>1 DEF Superseded, Generations
  <2>2. gen[a] \in Nat /\ rgen \in Nat /\ cgen \in Nat
    BY <1>1 DEF Counts
  <2> QED BY <1>1, <2>1, <2>2, GenerationForm DEF Keeps, Begins, Starts
<1>2. Typed /\ Generations /\ [Next]_vars
        => [\A a \in Attempts : Superseded(a) /\ gen'[a] = gen[a] => gen[a] # rgen']_vars
  BY <1>1 DEF Typed, Plain
<1> QED BY <1>2, GenerationsAlways, PTL DEF Spec, NeverRevived

-----------------------------------------------------------------------------
(* The latch of an exhausted budget.                                       *)

LEMMA LatchEvents ==
  ASSUME LatchHolds, Events
  PROVE  LatchHolds'
<1>1. CASE LinkLost
  BY <1>1 DEF LinkLost, ConnectionLost, Skips, Lost, LatchHolds
<1>2. CASE DeviceDisconnected
  BY <1>2 DEF DeviceDisconnected, refs, LatchHolds
<1>3. ASSUME NEW stored \in BOOLEAN, NobleDrop(stored) PROVE LatchHolds'
  BY <1>3 DEF NobleDrop, ConnectionLost, Skips, Lost, LatchHolds
<1>4. ASSUME NEW stored \in BOOLEAN, PowerResume(stored) PROVE LatchHolds'
  BY <1>4 DEF PowerResume, LatchHolds
<1>5. CASE YieldReleased
  BY <1>5 DEF YieldReleased, LatchHolds
<1>6. CASE PowerSuspend
  BY <1>6 DEF PowerSuspend, LatchHolds
<1> QED BY <1>1, <1>2, <1>3, <1>4, <1>5, <1>6 DEF Events

LEMMA LatchAttempt ==
  ASSUME LatchHolds, NEW a \in Attempts, AttemptStep(a)
  PROVE  LatchHolds'
<1>1. CASE Backoff(a)
  BY <1>1 DEF Backoff, BackoffAborted, BackoffSuspended, BackoffDone, LatchHolds
<1>2. CASE UNCHANGED aside
  BY <1>2 DEF aside, LatchHolds
<1>3. CASE Succeed(a)
  BY <1>3 DEF Succeed, LatchHolds
<1> QED
  BY <1>1, <1>2, <1>3
  DEF AttemptStep, Deadline, Cleaned, Opened, OpenFails, Configured, ConfigureFails,
      Unverified, Undone

LEMMA LatchUser ==
  ASSUME LatchHolds, User
  PROVE  LatchHolds'
<1>1. CASE Connect
  BY <1>1 DEF Connect, Prepared, refs, LatchHolds
<1>2. CASE ConnectPrepared
  BY <1>2 DEF ConnectPrepared, Prepared, LatchHolds
<1>3. CASE ConnectOpened \/ ConnectDone \/ ConnectFails
  BY <1>3 DEF ConnectOpened, ConnectDone, ConnectFails, LatchHolds
<1>4. CASE ConnectFailed
  BY <1>4 DEF ConnectFailed, FailureEnds, Skips, Lost, LatchHolds
<1>5. CASE Disconnect \/ Disconnected
  BY <1>5 DEF Disconnect, Disconnected, refs, LatchHolds
<1> QED BY <1>1, <1>2, <1>3, <1>4, <1>5 DEF User

\* A loss that comes after the last attempt finds the latch, whatever else is
\* under way: only a wake-up, a yield or the user opens it.
THEOREM LatchCorrect == Spec => []LatchHolds
<1>1. Init => LatchHolds
  BY DEF Init, LatchHolds
<1>2. ASSUME LatchHolds, [Next]_vars PROVE LatchHolds'
  <2>1. CASE UNCHANGED vars
    BY <1>2, <2>1 DEF vars, LatchHolds
  <2>2. ASSUME NEW t \in Losses, NEW n \in BOOLEAN, Parted(t, n) \/ LossTail(t)
        PROVE  LatchHolds'
    BY <1>2, <2>2 DEF Parted, LossTail, LatchHolds
  <2>3. CASE Owner
    BY <1>2, <2>3 DEF Owner, OwnerNotes, OwnerGivesUp, OwnerStarts, MayStart, LatchHolds
  <2> QED BY <1>2, <2>1, <2>2, <2>3, LatchEvents, LatchAttempt, LatchUser DEF Next
<1> QED BY <1>1, <1>2, PTL DEF Spec

-----------------------------------------------------------------------------
(* The user's disconnect.                                                  *)

\* Who is wired after a step, and whether the user still wants no session.
Wired ==
  \/ device' = None
  \/ device' \in {device, Manual} /\ (explicit' => explicit)
  \/ explicit' = explicit /\ \E a \in Attempts : rgen = gen[a]

LEMMA WiredEvents ==
  ASSUME Events
  PROVE  Wired
<1>1. CASE LinkLost
  BY <1>1 DEF LinkLost, ConnectionLost, Lost, Wired
<1>2. CASE DeviceDisconnected
  BY <1>2 DEF DeviceDisconnected, Wired
<1>3. ASSUME NEW stored \in BOOLEAN, NobleDrop(stored) PROVE Wired
  BY <1>3 DEF NobleDrop, ConnectionLost, Lost, Wired
<1>4. ASSUME NEW stored \in BOOLEAN, PowerResume(stored) PROVE Wired
  BY <1>4 DEF PowerResume, Lost, Wired
<1>5. CASE YieldReleased
  BY <1>5 DEF YieldReleased, Lost, Wired
<1>6. CASE PowerSuspend
  BY <1>6 DEF PowerSuspend, session, Wired
<1> QED BY <1>1, <1>2, <1>3, <1>4, <1>5, <1>6 DEF Events

LEMMA WiredAttempt ==
  ASSUME NEW a \in Attempts, AttemptStep(a)
  PROVE  Wired
<1>1. CASE Backoff(a)
  BY <1>1 DEF Backoff, BackoffAborted, BackoffSuspended, BackoffDone, session, Wired
<1>2. CASE Deadline(a)
  BY <1>2 DEF Deadline, Catch, CatchAfterUndo, Wired
<1>3. CASE Cleaned(a)
  BY <1>3 DEF Cleaned, aside, Wired
<1>4. CASE Opened(a)
  BY <1>4 DEF Opened, Current, aside, Wired
<1>5. CASE OpenFails(a) \/ ConfigureFails(a)
  BY <1>5 DEF OpenFails, ConfigureFails, Catch, aside, session, Wired
<1>6. CASE Configured(a) \/ Unverified(a)
  BY <1>6 DEF Configured, Unverified, aside, session, Wired
<1>7. CASE Succeed(a)
  BY <1>7 DEF Succeed, session, Wired
<1>8. CASE Undone(a)
  BY <1>8 DEF Undone, CatchAfterUndo, aside, session, Wired
<1> QED BY <1>1, <1>2, <1>3, <1>4, <1>5, <1>6, <1>7, <1>8 DEF AttemptStep

LEMMA WiredUser ==
  ASSUME User
  PROVE  Wired
<1>1. CASE Connect \/ Disconnect
  BY <1>1 DEF Connect, Disconnect, Wired
<1>2. CASE ConnectPrepared
  BY <1>2 DEF ConnectPrepared, Prepared, session, Wired
<1>3. CASE ConnectOpened \/ ConnectDone \/ ConnectFails
  BY <1>3 DEF ConnectOpened, ConnectDone, ConnectFails, Wired
<1>4. CASE ConnectFailed
  BY <1>4 DEF ConnectFailed, FailureEnds, Lost, Wired
<1>5. CASE Disconnected
  BY <1>5 DEF Disconnected, refs, Wired
<1> QED BY <1>1, <1>2, <1>3, <1>4, <1>5 DEF User

\* The attempts that a disconnect finds under way have older generations than
\* the runtime from then on, and every one asks before it wires its device.
THEOREM DisconnectCorrect == Spec => []DisconnectSticks
<1>1. Init => DisconnectSticks
  BY OwnersAssumption DEF Init, DisconnectSticks
<1>2. [Next]_vars => Wired
  <2>1. CASE UNCHANGED vars
    BY <2>1 DEF vars, Wired
  <2>2. ASSUME NEW t \in Losses, NEW n \in BOOLEAN, Parted(t, n) \/ LossTail(t)
        PROVE  Wired
    BY <2>2 DEF Parted, LossTail, Wired
  <2>3. CASE Owner
    BY <2>3 DEF Owner, OwnerNotes, OwnerGivesUp, OwnerStarts, session, Wired
  <2> QED BY <2>1, <2>2, <2>3, WiredEvents, WiredAttempt, WiredUser DEF Next
<1>3. ASSUME Typed, Generations, DisconnectSticks, [Next]_vars PROVE DisconnectSticks'
  <2>1. ASSUME explicit, NEW a \in Attempts PROVE rgen # gen[a]
    BY <1>3, <2>1 DEF Generations, Typed, Plain, Counts
  <2> QED BY <1>2, <1>3, <2>1, OwnersAssumption DEF Wired, DisconnectSticks
<1> QED BY <1>1, <1>2, <1>3, GenerationsAlways, PTL DEF Spec

-----------------------------------------------------------------------------
(* The flags that keep everyone else out.                                  *)

Inside(b) == b \in {"racing", "cleaning"}

Connecting(m) == m \in {"opening", "failing", "failed"}

\* The flags are down, or they were up and whoever holds them stays inside.
Lowered == ~bleBusy' /\ ~inFlight'
Stays ==
  /\ bleBusy' => bleBusy /\ (Connecting(manual) => Connecting(manual'))
  /\ inFlight' => inFlight
  /\ \A a \in Attempts : Inside(body[a]) => Inside(body'[a])

LEMMA StaysEvents ==
  ASSUME Events
  PROVE  Stays
<1>1. CASE LinkLost
  BY <1>1 DEF LinkLost, attempt, Stays
<1>2. CASE DeviceDisconnected
  BY <1>2 DEF DeviceDisconnected, refs, attempt, Stays
<1>3. ASSUME NEW stored \in BOOLEAN, NobleDrop(stored) \/ PowerResume(stored) PROVE Stays
  BY <1>3 DEF NobleDrop, PowerResume, attempt, Stays
<1>4. CASE YieldReleased \/ PowerSuspend
  BY <1>4 DEF YieldReleased, PowerSuspend, attempt, Stays
<1> QED BY <1>1, <1>2, <1>3, <1>4 DEF Events

\* A step of an attempt: it stays outside, goes in, or lowers the flags.
LEMMA AttemptFlags ==
  ASSUME Places, NEW a \in Attempts, AttemptStep(a)
  PROVE  Stays \/ Lowered \/ Inside(body'[a])
<1>1. CASE BackoffAborted(a)
  BY <1>1 DEF BackoffAborted, Places, Stays, Inside
<1>2. CASE BackoffSuspended(a)
  BY <1>2 DEF BackoffSuspended, Places, Stays, Inside
<1>3. CASE BackoffDone(a)
  BY <1>3 DEF BackoffDone, SkipOverlap, BeginOpening, Places, Stays, Inside
<1>4. CASE Deadline(a)
  BY <1>4 DEF Deadline, Settle, Catch, CatchAfterUndo, Places, Lowered, Inside
<1>5. CASE Cleaned(a)
  BY <1>5 DEF Cleaned, Settle, Lowered
<1>6. CASE Opened(a)
  BY <1>6 DEF Opened, Undo, flags, aside, Stays
<1>7. CASE OpenFails(a) \/ ConfigureFails(a)
  BY <1>7
  DEF OpenFails, ConfigureFails, Catch, Settle, flags, aside, Places, Stays, Lowered, Inside
<1>8. CASE Configured(a) \/ Unverified(a)
  BY <1>8 DEF Configured, Unverified, Undo, flags, aside, Stays
<1>9. CASE Succeed(a)
  BY <1>9 DEF Succeed, Lowered
<1>10. CASE Undone(a)
  BY <1>10 DEF Undone, CatchAfterUndo, Settle, flags, aside, Stays, Lowered
<1> QED
  BY <1>1, <1>2, <1>3, <1>4, <1>5, <1>6, <1>7, <1>8, <1>9, <1>10
  DEF AttemptStep, Backoff

\* A step of the user's connect(): the same, with the connect itself inside.
LEMMA UserFlags ==
  ASSUME User, BusyIsOwned
  PROVE  BusyIsOwned'
<1>1. CASE Connect
  <2>1. CASE Prepared(gate)
    BY <1>1, <2>1 DEF Connect, Prepared, BusyIsOwned
  <2>2. CASE ~Prepared(gate)
    BY <1>1, <2>2 DEF Connect, refs, attempt, BusyIsOwned
  <2> QED BY <2>1, <2>2
<1>2. CASE ConnectPrepared
  BY <1>2 DEF ConnectPrepared, Prepared, BusyIsOwned
<1>3. CASE ConnectOpened \/ ConnectDone
  BY <1>3 DEF ConnectOpened, ConnectDone, attempt, BusyIsOwned
<1>4. CASE ConnectFails
  BY <1>4 DEF ConnectFails, attempt, BusyIsOwned
<1>5. CASE ConnectFailed
  <2>1. bleBusy' = FALSE /\ UNCHANGED <<inFlight, body>>
    BY <1>5 DEF ConnectFailed, FailureEnds, attempt
  <2> QED BY <2>1 DEF BusyIsOwned
<1>6. CASE Disconnect \/ Disconnected
  BY <1>6 DEF Disconnect, Disconnected, refs, attempt, BusyIsOwned
<1> QED BY <1>1, <1>2, <1>3, <1>4, <1>5, <1>6 DEF User

\* Whoever raised bleConnectInProgressRef or reconnectConnectInFlightRef is
\* still there to lower it, also when two attempts run.
THEOREM BusyCorrect == Spec => []BusyIsOwned
<1>1. Init => BusyIsOwned
  BY DEF Init, BusyIsOwned
<1>2. ASSUME BusyIsOwned, Stays \/ Lowered PROVE BusyIsOwned'
  BY <1>2 DEF Stays, Lowered, Inside, Connecting, BusyIsOwned
<1>3. ASSUME BusyIsOwned, Typed, [Next]_vars PROVE BusyIsOwned'
  <2>1. CASE UNCHANGED vars
    BY <1>3, <2>1 DEF vars, BusyIsOwned
  <2>2. ASSUME NEW t \in Losses, NEW n \in BOOLEAN, Parted(t, n) \/ LossTail(t)
        PROVE  BusyIsOwned'
    BY <1>3, <2>2 DEF Parted, LossTail, attempt, BusyIsOwned
  <2>3. CASE Owner
    BY <1>2, <1>3, <2>3
    DEF Owner, OwnerNotes, OwnerGivesUp, OwnerStarts, Over, attempt, Typed, Plain,
        Places, Stays, Inside, Connecting
  <2>4. ASSUME NEW a \in Attempts, Inside(body'[a]) PROVE BusyIsOwned'
    BY <2>4 DEF Inside, BusyIsOwned
  <2> QED
    BY <1>2, <1>3, <2>1, <2>2, <2>3, <2>4, StaysEvents, AttemptFlags, UserFlags
    DEF Next, Typed, Plain
<1> QED BY <1>1, <1>3, TypedAlways, PTL DEF Spec
==============================================================================
