----------------------------- MODULE RfReconnect -----------------------------
(***************************************************************************)
(* The automatic reconnect of the Meshtastic radio over Noble BLE: the     *)
(* controller that owns the cycle (lib/rfReconnectController.ts), the body *)
(* of an attempt (lib/loraRfReconnectAttempt.ts), the handlers of the      *)
(* runtime around them (runtime/useMeshtasticRuntime.ts), and the two      *)
(* queues their opens and disconnects wait in: the mutex of Noble connects *)
(* (lib/meshcoreDualNobleBleInit.ts) and the lifecycle gate of the driver  *)
(* (lib/drivers/ConnectionDriver.ts).                                      *)
(*                                                                         *)
(* A step is the code between two awaits.  The controller and the runtime  *)
(* keep twins of the same facts, isReconnecting and generation, which the  *)
(* handlers set in different places; both are kept here.  So are the two   *)
(* places where the runtime looks up the identity it has to disconnect:    *)
(* what it does not find there stays open.  One radio, which has been used *)
(* before, is connected over and over.                                     *)
(*                                                                         *)
(* Left out: what is shown to the user, serial rediscovery, the reboot     *)
(* timer of the device, MQTT, the MeshCore side of the mutex, and a second *)
(* connect() while one is under way.                                       *)
(***************************************************************************)
EXTENDS Naturals, Sequences

CONSTANTS
  Attempts,  \* runs of runLoraRfReconnectAttempt(); one that is over is reused
  Manual,    \* the user's connect(), as the maker of a session
  None,      \* no session
  MaxTries,  \* rfMaxReconnectAttemptsForTransport('ble')
  MaxCalls   \* bound on the user's calls, losses, sleeps, wake-ups and yields

ASSUME OwnersAssumption == Manual \notin Attempts /\ None \notin Attempts \cup {Manual}
ASSUME TriesAssumption == MaxTries \in Nat \ {0}
ASSUME CallsAssumption == MaxCalls \in Nat

VARIABLES
  cgen,         \* controller: generation
  cycle,        \* controller: isReconnecting
  dirty,        \* controller: dirty
  active,       \* controller: attemptActive
  owed,         \* controller: schedulePending, its microtask is queued
  rgen,         \* reconnectGenerationRef
  reconnecting, \* isReconnectingRef
  deferred,     \* meshtasticDeferredReconnectRef
  inFlight,     \* reconnectConnectInFlightRef
  bleBusy,      \* bleConnectInProgressRef
  explicit,     \* meshtasticExplicitDisconnectRef
  params,       \* connectionParamsRef is set
  tries,        \* reconnectAttemptRef
  exhausted,    \* meshtasticBleReconnectExhaustedRef
  device,       \* who set deviceRef, and is wired to the events of its link
  connected,    \* meshtasticDriverConnectedRef
  configured,   \* deviceConfiguredRef
  known,        \* meshtasticIdentityIdRef is set
  pending,      \* meshtasticPendingDriverIdentityRef is set
  body,         \* where each attempt stands
  work,         \* where its reconnectWork stands
  gen,          \* its generation
  manual,       \* where the user's connect() stands
  mgen,         \* the generation attachRfSession() captured
  parting,      \* losses whose stale device is being disconnected first
  mutex,        \* the opens that hold and await nobleBleConnectChain
  gate,         \* the operations that hold and await the driver's lifecycleGate
  slots,        \* the driver's slots: who opened them
  asleep,       \* the machine is suspended
  calls         \* number of calls made, to bound the model

controller == <<cgen, cycle, dirty, active>>
refs == <<rgen, reconnecting, deferred, inFlight, bleBusy, explicit, params,
          tries, exhausted>>
session == <<device, connected, configured, known, pending>>
attempt == <<body, work, gen>>
driver == <<mutex, gate, slots>>
vars == <<cgen, cycle, dirty, active, owed, rgen, reconnecting, deferred,
          inFlight, bleBusy, explicit, params, tries, exhausted, device,
          connected, configured, known, pending, body, work, gen, manual, mgen,
          parting, mutex, gate, slots, asleep, calls>>

Owners == Attempts \cup {Manual}

\* A loss that starts a cycle, and one that is left to the cycle's owner.
Losses == {"start", "defer"}

\* Either with an identity to disconnect or without.
Partings == Losses \X BOOLEAN

\* An open, or a disconnect: of an attempt that failed (clean), of one that
\* was superseded (undo), of a loss, of the user, or of a connect.
Operation == [op : {"open"}, for : Owners]
               \cup [op : {"clean", "undo"}, for : Attempts]
               \cup [op : Losses \cup {"prepare", "fail", "user"}, for : {Manual}]
Op(op, who) == [op |-> op, for |-> who]

TypeOK ==
  /\ cgen \in Nat /\ rgen \in Nat /\ mgen \in Nat
  /\ cycle \in BOOLEAN /\ dirty \in BOOLEAN /\ active \in BOOLEAN /\ owed \in BOOLEAN
  /\ reconnecting \in BOOLEAN /\ deferred \in BOOLEAN
  /\ inFlight \in BOOLEAN /\ bleBusy \in BOOLEAN
  /\ explicit \in BOOLEAN /\ params \in BOOLEAN /\ exhausted \in BOOLEAN
  /\ tries \in 0..MaxTries
  /\ device \in Owners \cup {None}
  /\ connected \in BOOLEAN /\ configured \in BOOLEAN
  /\ known \in BOOLEAN /\ pending \in BOOLEAN
  /\ body \in [Attempts -> {"idle", "backoff", "racing", "cleaning"}]
  /\ work \in [Attempts -> {"none", "opening", "abandoned", "configuring", "verifying",
                           "undoing"}]
  /\ gen \in [Attempts -> Nat]
  /\ manual \in {"idle", "preparing", "opening", "configuring", "failing", "failed"}
  /\ parting \in [Partings -> Nat]
  /\ mutex \in Seq(Owners)
  /\ gate \in Seq(Operation)
  /\ slots \subseteq Owners
  /\ asleep \in BOOLEAN
  /\ calls \in 0..MaxCalls

Init ==
  /\ cgen = 0 /\ rgen = 0 /\ mgen = 0 /\ tries = 0 /\ calls = 0
  /\ cycle = FALSE /\ dirty = FALSE /\ active = FALSE /\ owed = FALSE
  /\ reconnecting = FALSE /\ deferred = FALSE /\ inFlight = FALSE
  /\ bleBusy = FALSE /\ explicit = FALSE /\ params = FALSE /\ exhausted = FALSE
  /\ device = None /\ connected = FALSE /\ configured = FALSE
  /\ known = TRUE /\ pending = FALSE
  /\ body = [a \in Attempts |-> "idle"]
  /\ work = [a \in Attempts |-> "none"]
  /\ gen = [a \in Attempts |-> 0]
  /\ manual = "idle"
  /\ parting = [t \in Partings |-> 0]
  /\ mutex = <<>> /\ gate = <<>> /\ slots = {}
  /\ asleep = FALSE

-----------------------------------------------------------------------------
(* Shared pieces of the handlers.                                          *)

\* A queued microtask, and what has nothing to await any more, run before
\* anything else happens.
Turn == ~owed /\ manual # "failed"
Call == Turn /\ calls < MaxCalls /\ calls' = calls + 1

\* withLifecycle(): the operation at the head runs, the others wait.
Heads(op, who) == gate # <<>> /\ Head(gate) = Op(op, who)

\* Its end: a disconnect of the radio closes every slot of its identity.
Closes == gate' = Tail(gate) /\ slots' = {} /\ UNCHANGED mutex
Queues(op, who) == gate' = Append(gate, Op(op, who)) /\ UNCHANGED <<slots, mutex>>

\* withNobleBleConnectMutex(): the next open enters the gate only when the one
\* before it is over.
QueuesOpen(o) ==
  /\ mutex' = Append(mutex, o)
  /\ gate' = IF mutex = <<>> THEN Append(gate, Op("open", o)) ELSE gate
  /\ UNCHANGED slots

\* Mutant of Handover: the next open is not let in.
HandoverForgets == Tail(gate)

\* An open is over, and then, of its owner: the mutex hands over before the
\* owner goes on, so the next open precedes what the owner asks for.
Handover ==
  IF Len(mutex) > 1 THEN Append(Tail(gate), Op("open", mutex[2])) ELSE Tail(gate)

\* Mutant of Cancel: the generation is reset with the rest.
CancelReset ==
  /\ cgen' = 0
  /\ cycle' = FALSE /\ dirty' = FALSE /\ active' = FALSE

\* cancel() of the controller.
Cancel ==
  /\ cgen' = cgen + 1
  /\ cycle' = FALSE /\ dirty' = FALSE /\ active' = FALSE

\* The identity that a handler disconnects, if there is one.
Named == known \/ pending

\* handleConnectionLost() of a loss that counts, up to its first await.  late
\* and queue: what the caller left in the deferred flag and in the gate; named:
\* there is an identity to disconnect.  Without one, and without a device, it
\* runs to its end.
Lost(late, queue, named) ==
  LET loss == IF cycle THEN "defer" ELSE "start"
  IN /\ cgen' = cgen + 1
     /\ rgen' = cgen'
     /\ cycle' = TRUE
     /\ dirty' = cycle
     /\ deferred' = (late \/ cycle)
     /\ reconnecting' = TRUE
     /\ parting' = IF device # None
                   THEN [parting EXCEPT ![<<loss, named>>] = @ + 1] ELSE parting
     /\ gate' = IF device = None /\ named THEN Append(queue, Op(loss, Manual)) ELSE queue
     /\ owed' = (device = None /\ ~named /\ ~cycle)
     /\ device' = None /\ connected' = FALSE /\ configured' = FALSE
     /\ pending' = FALSE
     /\ UNCHANGED active

\* Mutant of Skips: the latch is not asked.
SkipsUnlatched == explicit

\* No loss counts after a disconnect of the user or an exhausted budget.
Skips == explicit \/ (exhausted /\ ~reconnecting)

ConnectionLost ==
  IF Skips
  THEN /\ UNCHANGED controller
       /\ UNCHANGED <<device, connected, configured, pending, rgen, reconnecting,
                      deferred, parting, gate, owed>>
  ELSE Lost(deferred, gate, Named)

-----------------------------------------------------------------------------
(* What happens to the link.                                               *)

\* The loss watch, the configure stall timer or the watchdog of the device
\* that is wired.
LinkLost ==
  /\ Call
  /\ device # None
  /\ ConnectionLost
  /\ UNCHANGED <<known, inFlight, bleBusy, explicit, params, tries, exhausted,
                 manual, mgen, mutex, slots, asleep>>
  /\ UNCHANGED attempt

\* DeviceDisconnected of the SDK, if it is heard: its device is dropped,
\* cleanupSubscriptions() forgets the identity, and nobody is told.
DeviceDisconnected ==
  /\ Turn
  /\ device # None /\ known
  /\ device' = None /\ configured' = FALSE
  /\ known' = FALSE /\ connected' = FALSE
  /\ UNCHANGED <<pending, owed, manual, mgen, parting, asleep, calls>>
  /\ UNCHANGED controller /\ UNCHANGED refs
  /\ UNCHANGED attempt /\ UNCHANGED driver

\* onNobleBleDisconnected.  stored: there is a session to rehydrate from.
NobleDrop(stored) ==
  /\ Call
  /\ IF bleBusy \/ (reconnecting /\ inFlight /\ ~configured)
     THEN /\ deferred' = TRUE
          /\ UNCHANGED controller
          /\ UNCHANGED <<device, connected, configured, pending, rgen, reconnecting,
                         parting, params, gate, owed>>
     ELSE IF params \/ (~explicit /\ stored)
     THEN params' = TRUE /\ ConnectionLost
     ELSE /\ UNCHANGED controller
          /\ UNCHANGED <<device, connected, configured, pending, rgen, reconnecting,
                         deferred, parting, params, gate, owed>>
  /\ UNCHANGED <<known, inFlight, bleBusy, explicit, tries, exhausted, manual, mgen,
                 mutex, slots, asleep>>
  /\ UNCHANGED attempt

\* The end of handleConnectionLost(): start the cycle, or leave it to its
\* owner.  cleanupSubscriptions() forgets the identity, whoever is wired by now.
LossEnds(loss) ==
  /\ known' = FALSE /\ connected' = FALSE
  /\ owed' = (loss = "start")
  /\ deferred' = (deferred \/ loss = "defer")

\* safeDisconnect() of the stale device is over; the driver's is next.
Parted(loss, named) ==
  /\ Turn
  /\ parting[<<loss, named>>] > 0
  /\ parting' = [parting EXCEPT ![<<loss, named>>] = @ - 1]
  /\ IF named
     THEN Queues(loss, Manual) /\ UNCHANGED <<known, connected, owed, deferred>>
     ELSE LossEnds(loss) /\ UNCHANGED driver
  /\ UNCHANGED <<device, configured, pending, rgen, reconnecting, inFlight, bleBusy,
                 explicit, params, tries, exhausted, manual, mgen, asleep, calls>>
  /\ UNCHANGED controller /\ UNCHANGED attempt

LossTail(loss) ==
  /\ Turn
  /\ Heads(loss, Manual)
  /\ Closes
  /\ LossEnds(loss)
  /\ UNCHANGED <<device, configured, pending, rgen, reconnecting, inFlight, bleBusy,
                 explicit, params, tries, exhausted, manual, mgen, parting, asleep,
                 calls>>
  /\ UNCHANGED controller /\ UNCHANGED attempt

\* NOBLE_BLE_YIELD_RELEASED_EVENT: one more chance after the sidecar's lease.
YieldReleased ==
  /\ Call
  /\ params /\ ~explicit /\ ~(connected /\ configured)
  /\ ~reconnecting /\ ~bleBusy
  /\ exhausted' = FALSE
  /\ tries' = 0
  /\ Lost(deferred, gate, Named)
  /\ UNCHANGED <<known, inFlight, bleBusy, explicit, params, manual, mgen, mutex,
                 slots, asleep>>
  /\ UNCHANGED attempt

\* onPowerSuspend().
PowerSuspend ==
  /\ Call
  /\ ~asleep
  /\ asleep' = TRUE
  /\ rgen' = rgen + 1
  /\ reconnecting' = FALSE
  /\ Cancel
  /\ UNCHANGED <<owed, deferred, inFlight, bleBusy, explicit, params, tries,
                 exhausted, manual, mgen, parting>>
  /\ UNCHANGED session /\ UNCHANGED attempt /\ UNCHANGED driver

\* onPowerResume(): a full budget, and a loss.
PowerResume(stored) ==
  /\ Call
  /\ asleep
  /\ asleep' = FALSE
  /\ IF params \/ (~explicit /\ stored)
     THEN /\ params' = TRUE
          /\ tries' = 0
          /\ exhausted' = FALSE
          /\ Lost(deferred, gate, Named)
     ELSE /\ UNCHANGED controller
          /\ UNCHANGED <<device, connected, configured, pending, rgen, reconnecting,
                         deferred, params, tries, exhausted, parting, gate, owed>>
  /\ UNCHANGED <<known, inFlight, bleBusy, explicit, manual, mgen, mutex, slots>>
  /\ UNCHANGED attempt

-----------------------------------------------------------------------------
(* The owner of the cycle.                                                 *)

\* What the microtask of scheduleOwner() finds.
MayStart == cycle /\ ~active /\ reconnecting /\ ~explicit /\ ~inFlight

OwnerNotes ==
  /\ owed /\ ~MayStart
  /\ dirty' = (dirty \/ (cycle /\ (active \/ (reconnecting /\ ~explicit))))
  /\ deferred' = (deferred \/ (cycle /\ ~active /\ reconnecting /\ ~explicit))
  /\ UNCHANGED <<cgen, cycle, active, reconnecting, bleBusy, tries, exhausted>>
  /\ UNCHANGED session /\ UNCHANGED attempt

OwnerGivesUp ==
  /\ owed /\ MayStart
  /\ tries >= MaxTries
  /\ reconnecting' = FALSE /\ tries' = 0
  /\ cycle' = FALSE /\ dirty' = FALSE /\ active' = FALSE
  /\ bleBusy' = FALSE /\ exhausted' = TRUE
  /\ device' = None /\ connected' = FALSE /\ known' = FALSE /\ pending' = FALSE
  /\ UNCHANGED <<cgen, deferred, configured>>
  /\ UNCHANGED attempt

\* The attempts that are over and have left nothing behind that still ends.
\* One of them, whichever, stands for the next.
Over ==
  {a \in Attempts : /\ body[a] = "idle"
                    /\ work[a] \notin {"opening", "abandoned", "undoing"}}

\* Mutant of OwnerStarts: one attempt too many.
OwnerStartsOnceMore ==
  /\ owed /\ MayStart
  /\ tries <= MaxTries
  /\ tries' = tries + 1
  /\ active' = TRUE
  /\ \E a \in Over :
       /\ a = CHOOSE b \in Over : TRUE
       /\ body' = [body EXCEPT ![a] = "backoff"]
       /\ work' = [work EXCEPT ![a] = "none"]
       /\ gen' = [gen EXCEPT ![a] = rgen]
  /\ UNCHANGED <<cgen, dirty, deferred, cycle, reconnecting, bleBusy, exhausted>>
  /\ UNCHANGED session

OwnerStarts ==
  /\ owed /\ MayStart
  /\ tries < MaxTries
  /\ tries' = tries + 1
  /\ active' = TRUE
  /\ \E a \in Over :
       /\ a = CHOOSE b \in Over : TRUE
       /\ body' = [body EXCEPT ![a] = "backoff"]
       /\ work' = [work EXCEPT ![a] = "none"]
       /\ gen' = [gen EXCEPT ![a] = rgen]
  /\ UNCHANGED <<cgen, dirty, deferred, cycle, reconnecting, bleBusy, exhausted>>
  /\ UNCHANGED session

\* The microtask of scheduleOwner(): one attempt, or a note that one is due.
Owner ==
  /\ OwnerNotes \/ OwnerGivesUp \/ OwnerStarts
  /\ owed' = FALSE
  /\ UNCHANGED <<rgen, inFlight, explicit, params, manual, mgen, parting, asleep,
                 calls>>
  /\ UNCHANGED driver

-----------------------------------------------------------------------------
(* The wait of an attempt.                                                 *)

\* Superseded while it waits: flushDeferredOrEnd().  What is dirty and not
\* deferred is dropped.
BackoffAborted(a) ==
  /\ Turn
  /\ body[a] = "backoff"
  /\ ~reconnecting \/ rgen # gen[a]
  /\ body' = [body EXCEPT ![a] = "idle"]
  /\ active' = FALSE /\ dirty' = FALSE
  /\ cycle' = (cycle /\ reconnecting)
  /\ owed' = (deferred /\ reconnecting /\ ~explicit)
  /\ deferred' = (deferred /\ ~owed')
  /\ UNCHANGED <<cgen, rgen, reconnecting, inFlight, bleBusy, explicit, params,
                 tries, exhausted, work, gen, manual, mgen, parting, asleep, calls>>
  /\ UNCHANGED session /\ UNCHANGED driver

BackoffSuspended(a) ==
  /\ Turn
  /\ body[a] = "backoff"
  /\ reconnecting /\ rgen = gen[a] /\ asleep
  /\ body' = [body EXCEPT ![a] = "idle"]
  /\ reconnecting' = FALSE
  /\ Cancel
  /\ UNCHANGED <<owed, rgen, deferred, inFlight, bleBusy, explicit, params, tries,
                 exhausted, work, gen, manual, mgen, parting, asleep, calls>>
  /\ UNCHANGED session /\ UNCHANGED driver

\* Another open is under way: its finally is to schedule.
SkipOverlap(a) ==
  /\ deferred' = TRUE /\ dirty' = TRUE
  /\ body' = [body EXCEPT ![a] = "idle"]
  /\ UNCHANGED <<inFlight, bleBusy, work>>
  /\ UNCHANGED driver

BeginOpening(a) ==
  /\ inFlight' = TRUE /\ bleBusy' = TRUE
  /\ body' = [body EXCEPT ![a] = "racing"]
  /\ work' = [work EXCEPT ![a] = "opening"]
  /\ QueuesOpen(a)
  /\ UNCHANGED <<deferred, dirty>>

BackoffDone(a) ==
  /\ Turn
  /\ body[a] = "backoff"
  /\ reconnecting /\ rgen = gen[a] /\ ~asleep
  /\ IF inFlight THEN SkipOverlap(a) ELSE BeginOpening(a)
  /\ UNCHANGED <<cgen, cycle, active, owed, rgen, reconnecting, explicit, params,
                 tries, exhausted, gen, manual, mgen, parting, asleep, calls>>
  /\ UNCHANGED session

-----------------------------------------------------------------------------
(* Its race with the deadline.                                             *)

\* What no step of a race or its work touches.
aside == <<cgen, rgen, reconnecting, explicit, params, tries, exhausted, gen,
           manual, mgen, parting, asleep, calls>>

\* What only the finally sets.
flags == <<owed, inFlight, bleBusy, active, dirty, deferred, cycle>>

\* Mutant of Settle: bleConnectInProgressRef is not reset.
SettleBusy(a) ==
  /\ body' = [body EXCEPT ![a] = "idle"]
  /\ inFlight' = FALSE /\ UNCHANGED bleBusy
  /\ active' = FALSE /\ dirty' = FALSE /\ deferred' = FALSE
  /\ cycle' = (cycle /\ reconnecting)
  /\ owed' = (reconnecting /\ (deferred \/ dirty \/ rgen = gen[a]))

\* The finally: flags down, and the schedule that is due.
Settle(a) ==
  /\ body' = [body EXCEPT ![a] = "idle"]
  /\ inFlight' = FALSE /\ bleBusy' = FALSE
  /\ active' = FALSE /\ dirty' = FALSE /\ deferred' = FALSE
  /\ cycle' = (cycle /\ reconnecting)
  /\ owed' = (reconnecting /\ (deferred \/ dirty \/ rgen = gen[a]))

\* The catch: the session is given up, and the driver is told to disconnect
\* what the attempt has opened, or else the identity the runtime has by now;
\* without one the finally is next.  queue: the gate by then.
Catch(a, queue, opened) ==
  /\ device' = None /\ connected' = FALSE /\ pending' = FALSE
  /\ UNCHANGED <<known, configured>>
  /\ IF opened \/ Named
     THEN /\ body' = [body EXCEPT ![a] = "cleaning"]
          /\ gate' = Append(queue, Op("clean", a))
          /\ UNCHANGED flags
     ELSE Settle(a) /\ gate' = queue

\* The catch of an attempt that has disconnected what it opened by itself.
CatchAfterUndo(a) ==
  /\ Settle(a)
  /\ device' = None /\ connected' = FALSE /\ known' = FALSE /\ pending' = FALSE
  /\ UNCHANGED configured

\* Mutant of Deadline: it covers the open, not the configure.
DeadlineOfOpen(a) ==
  /\ Turn
  /\ body[a] = "racing" /\ work[a] = "opening"
  /\ Catch(a, gate, FALSE)
  /\ work' = IF Named THEN [work EXCEPT ![a] = "abandoned"] ELSE work
  /\ UNCHANGED <<mutex, slots>> /\ UNCHANGED aside

\* raceWithDeadline(): the work goes on, and is a late loser.  What a
\* superseded attempt is closing already is not closed again, and neither is
\* an identity that was disconnected before its open is over: the open of an
\* attempt that is cleaned up for is abandoned.
Deadline(a) ==
  /\ Turn
  /\ body[a] = "racing"
  /\ \/ /\ work[a] = "undoing"
        /\ CatchAfterUndo(a)
        /\ UNCHANGED <<work, gate>>
     \/ /\ work[a] # "undoing"
        /\ Catch(a, gate, work[a] # "opening")
        /\ work' = IF work[a] = "opening" /\ Named
                   THEN [work EXCEPT ![a] = "abandoned"] ELSE work
  /\ UNCHANGED <<mutex, slots>> /\ UNCHANGED aside

\* The driver is done: cleanupSubscriptions(), and the finally.
Cleaned(a) ==
  /\ Turn
  /\ Heads("clean", a)
  /\ Closes
  /\ Settle(a)
  /\ known' = FALSE /\ connected' = FALSE
  /\ UNCHANGED <<device, configured, pending, work>> /\ UNCHANGED aside

\* Mutant of Current: the generation is not asked again.
CurrentOfAny(a) == body[a] = "racing"

\* generation and attemptActive(), asked again after every await.
Current(a) == body[a] = "racing" /\ rgen = gen[a]

\* A superseded attempt disconnects what it opened: once, so not after its
\* catch has.
Undo(a, queue) ==
  LET due == body[a] = "racing" \/ work[a] = "opening"
  IN /\ work' = [work EXCEPT ![a] = IF due THEN "undoing" ELSE "none"]
     /\ gate' = IF due THEN Append(queue, Op("undo", a)) ELSE queue
     /\ UNCHANGED body /\ UNCHANGED flags

\* The driver has opened the radio: openMeshtasticTransport() returns.
Opened(a) ==
  /\ Turn
  /\ Heads("open", a)
  /\ slots' = slots \cup {a}
  /\ mutex' = Tail(mutex)
  /\ connected' = TRUE
  /\ IF Current(a)
     THEN /\ device' = a /\ known' = TRUE
          /\ work' = [work EXCEPT ![a] = "configuring"]
          /\ gate' = Handover
          /\ UNCHANGED body /\ UNCHANGED flags
     ELSE UNCHANGED <<device, known>> /\ Undo(a, Handover)
  /\ UNCHANGED <<configured, pending>> /\ UNCHANGED aside

\* createDevice() fails: an attempt that is racing hears it.
OpenFails(a) ==
  /\ Turn
  /\ Heads("open", a)
  /\ mutex' = Tail(mutex)
  /\ work' = [work EXCEPT ![a] = "none"]
  /\ IF body[a] = "racing"
     THEN Catch(a, Handover, FALSE)
     ELSE gate' = Handover /\ UNCHANGED body /\ UNCHANGED session /\ UNCHANGED flags
  /\ UNCHANGED slots /\ UNCHANGED aside

\* configureMeshtasticDeviceWithRetry() returns; its device is heard if wired.
Configured(a) ==
  /\ Turn
  /\ work[a] = "configuring"
  /\ configured' = (configured \/ (device = a /\ known))
  /\ IF Current(a)
     THEN /\ work' = [work EXCEPT ![a] = "verifying"]
          /\ UNCHANGED <<body, gate>> /\ UNCHANGED flags
     ELSE Undo(a, gate)
  /\ UNCHANGED <<device, connected, known, pending, mutex, slots>> /\ UNCHANGED aside

ConfigureFails(a) ==
  /\ Turn
  /\ work[a] = "configuring"
  /\ work' = [work EXCEPT ![a] = "none"]
  /\ IF body[a] = "racing"
     THEN Catch(a, gate, TRUE)
     ELSE UNCHANGED <<body, gate>> /\ UNCHANGED session /\ UNCHANGED flags
  /\ UNCHANGED <<mutex, slots>> /\ UNCHANGED aside

\* verifyNobleBleRfLink() finds the link gone, or the attempt is superseded.
Unverified(a) ==
  /\ Turn
  /\ work[a] = "verifying"
  /\ Undo(a, gate)
  /\ UNCHANGED <<mutex, slots>> /\ UNCHANGED aside /\ UNCHANGED session

\* Success: the cycle is over, and the finally finds nothing to do.
Succeed(a) ==
  /\ Turn
  /\ work[a] = "verifying"
  /\ Current(a)
  /\ work' = [work EXCEPT ![a] = "none"]
  /\ body' = [body EXCEPT ![a] = "idle"]
  /\ tries' = 0
  /\ reconnecting' = FALSE /\ deferred' = FALSE
  /\ cycle' = FALSE /\ dirty' = FALSE /\ active' = FALSE
  /\ exhausted' = FALSE
  /\ inFlight' = FALSE /\ bleBusy' = FALSE
  /\ UNCHANGED <<cgen, owed, rgen, explicit, params, gen, manual, mgen, parting,
                 asleep, calls>>
  /\ UNCHANGED session /\ UNCHANGED driver

\* What was opened is closed again: the work rejects, and the attempt, if it
\* is still racing, has nothing left to disconnect.
Undone(a) ==
  /\ Turn
  /\ Heads("undo", a)
  /\ Closes
  /\ work' = [work EXCEPT ![a] = IF @ = "undoing" THEN "none" ELSE @]
  /\ IF body[a] = "racing" /\ work[a] = "undoing"
     THEN CatchAfterUndo(a)
     ELSE UNCHANGED body /\ UNCHANGED session /\ UNCHANGED flags
  /\ UNCHANGED aside

-----------------------------------------------------------------------------
(* The user.                                                               *)

\* The second half of prepareRfConnect(), and the open: whatever reconnects
\* is superseded.
Prepared(queue) ==
  /\ manual' = "opening"
  /\ params' = TRUE /\ explicit' = FALSE
  /\ tries' = 0
  /\ reconnecting' = FALSE /\ inFlight' = FALSE
  /\ rgen' = rgen + 1
  /\ Cancel
  /\ exhausted' = FALSE
  /\ bleBusy' = TRUE /\ deferred' = FALSE
  /\ mutex' = Append(mutex, Manual)
  /\ gate' = IF mutex = <<>> THEN Append(queue, Op("open", Manual)) ELSE queue

\* connect() and connectAutomatic(): a session that is there goes first, if its
\* identity is pending; the other reference is forgotten before it is read.
Connect ==
  /\ Call
  /\ manual = "idle"
  /\ LET there == device # None \/ connected
     IN /\ known' = (known /\ ~there)
        /\ pending' = (pending /\ ~there)
        /\ IF there /\ pending
           THEN /\ manual' = "preparing"
                /\ gate' = Append(gate, Op("prepare", Manual))
                /\ UNCHANGED mutex
                /\ UNCHANGED controller /\ UNCHANGED refs
           ELSE Prepared(gate)
  /\ configured' = FALSE
  /\ device' = None /\ connected' = FALSE
  /\ UNCHANGED <<owed, mgen, parting, slots, asleep>> /\ UNCHANGED attempt

ConnectPrepared ==
  /\ Turn
  /\ Heads("prepare", Manual)
  /\ slots' = {}
  /\ Prepared(Tail(gate))
  /\ UNCHANGED <<owed, mgen, parting, asleep, calls>>
  /\ UNCHANGED session /\ UNCHANGED attempt

\* The driver has opened the radio: attachRfSession() runs to its configure.
ConnectOpened ==
  /\ Turn
  /\ Heads("open", Manual)
  /\ slots' = slots \cup {Manual}
  /\ mutex' = Tail(mutex)
  /\ gate' = Handover
  /\ manual' = "configuring"
  /\ mgen' = rgen
  /\ device' = Manual /\ connected' = TRUE /\ known' = TRUE /\ pending' = TRUE
  /\ bleBusy' = FALSE
  /\ UNCHANGED <<configured, owed, rgen, reconnecting, deferred, inFlight, explicit,
                 params, tries, exhausted, parting, asleep, calls>>
  /\ UNCHANGED controller /\ UNCHANGED attempt

\* The session is up.
ConnectDone ==
  /\ Turn
  /\ manual = "configuring"
  /\ rgen = mgen
  /\ manual' = "idle"
  /\ configured' = (configured \/ (device = Manual /\ known))
  /\ bleBusy' = FALSE /\ deferred' = FALSE
  /\ UNCHANGED <<device, connected, known, pending, owed, rgen, reconnecting,
                 inFlight, explicit, params, tries, exhausted, mgen, parting, asleep,
                 calls>>
  /\ UNCHANGED controller /\ UNCHANGED attempt /\ UNCHANGED driver

\* handleRfConnectFailure(), after a failed open; a failed configure; or one
\* that was superseded.  An open that failed has no identity to disconnect,
\* unless one is pending.
ConnectFails ==
  /\ Turn
  /\ \/ /\ Heads("open", Manual)
        /\ mutex' = Tail(mutex)
        /\ manual' = IF pending THEN "failing" ELSE "failed"
        /\ gate' = IF pending THEN Append(Handover, Op("fail", Manual)) ELSE Handover
     \/ /\ manual = "configuring"
        /\ manual' = "failing"
        /\ gate' = Append(gate, Op("fail", Manual))
        /\ UNCHANGED mutex
  /\ reconnecting' = FALSE
  /\ rgen' = rgen + 1
  /\ device' = None /\ connected' = FALSE /\ known' = FALSE
  /\ UNCHANGED <<configured, pending, owed, deferred, inFlight, bleBusy, explicit,
                 params, tries, exhausted, mgen, parting, slots, asleep, calls>>
  /\ UNCHANGED controller /\ UNCHANGED attempt

\* The rest of it, and the finally of connect(): a drop that was deferred is a
\* loss now.  The effect that follows a new myNodeNum knows the identity again.
FailureEnds(queue) ==
  /\ manual' = "idle"
  /\ bleBusy' = FALSE
  /\ IF deferred /\ ~Skips
     THEN Lost(FALSE, queue, known)
     ELSE /\ connected' = FALSE /\ pending' = FALSE /\ deferred' = FALSE
          /\ gate' = queue
          /\ UNCHANGED <<device, configured, rgen, reconnecting, parting, owed>>
          /\ UNCHANGED controller
  /\ known' \in {known, TRUE}
  /\ UNCHANGED <<inFlight, explicit, params, tries, exhausted, mgen, mutex, asleep,
                 calls>>
  /\ UNCHANGED attempt

ConnectFailed ==
  \/ /\ Turn
     /\ Heads("fail", Manual)
     /\ FailureEnds(Tail(gate))
     /\ slots' = {}
  \/ /\ manual = "failed"
     /\ FailureEnds(gate)
     /\ UNCHANGED slots

\* The end of finalizeDriverDisconnect(), and the effect after it.
Forgets ==
  /\ connected' = FALSE /\ pending' = FALSE
  /\ known' \in BOOLEAN

\* disconnect(): finalizeDriverDisconnect(), up to the driver if it has a
\* session to disconnect there.  The wait for a device alone is left out.
Disconnect ==
  /\ Call
  /\ explicit' = TRUE /\ params' = FALSE
  /\ reconnecting' = FALSE /\ inFlight' = FALSE
  /\ tries' = 0
  /\ rgen' = rgen + 1
  /\ Cancel
  /\ device' = None /\ configured' = FALSE
  /\ IF connected /\ Named
     THEN Queues("user", Manual) /\ UNCHANGED <<connected, known, pending>>
     ELSE Forgets /\ UNCHANGED driver
  /\ UNCHANGED <<owed, deferred, bleBusy, exhausted, manual, mgen, parting, asleep>>
  /\ UNCHANGED attempt

Disconnected ==
  /\ Turn
  /\ Heads("user", Manual)
  /\ Closes
  /\ Forgets
  /\ UNCHANGED <<device, configured, owed, manual, mgen, parting, asleep, calls>>
  /\ UNCHANGED controller /\ UNCHANGED refs /\ UNCHANGED attempt

-----------------------------------------------------------------------------
Events ==
  \/ LinkLost
  \/ DeviceDisconnected
  \/ \E stored \in BOOLEAN : NobleDrop(stored) \/ PowerResume(stored)
  \/ YieldReleased
  \/ PowerSuspend

Backoff(a) == BackoffAborted(a) \/ BackoffSuspended(a) \/ BackoffDone(a)

AttemptStep(a) ==
  \/ Backoff(a)
  \/ Deadline(a) \/ Cleaned(a)
  \/ Opened(a) \/ OpenFails(a)
  \/ Configured(a) \/ ConfigureFails(a)
  \/ Unverified(a) \/ Succeed(a) \/ Undone(a)

User ==
  \/ Connect \/ ConnectPrepared \/ ConnectOpened \/ ConnectDone
  \/ ConnectFails \/ ConnectFailed
  \/ Disconnect \/ Disconnected

Next ==
  \/ Events
  \/ \E loss \in Losses : LossTail(loss) \/ \E named \in BOOLEAN : Parted(loss, named)
  \/ Owner
  \/ \E a \in Attempts : AttemptStep(a)
  \/ User

Spec == Init /\ [][Next]_vars

\* The operation at the head of the gate ends.
DriverEnds ==
  \/ \E loss \in Losses : LossTail(loss)
  \/ \E a \in Attempts : Opened(a) \/ OpenFails(a) \/ Cleaned(a) \/ Undone(a)
  \/ ConnectPrepared \/ ConnectOpened \/ (manual = "opening" /\ ConnectFails)
  \/ ConnectFailed \/ Disconnected

\* Microtasks and timers run, and every operation of the driver ends: the
\* connects of the transports have timeouts of their own.  Nothing is asked
\* of a configure.
FairSpec ==
  /\ Spec
  /\ WF_vars(Owner)
  /\ \A loss \in Losses, named \in BOOLEAN : WF_vars(Parted(loss, named))
  /\ \A a \in Attempts : WF_vars(Backoff(a) \/ Deadline(a))
  /\ WF_vars(DriverEnds)

-----------------------------------------------------------------------------
(* Properties.                                                             *)

\* Whoever sets the flags that keep everyone else from connecting is still
\* there to clear them: bleConnectInProgressRef and reconnectConnectInFlightRef
\* outlive neither their attempt nor the user's connect().
BusyIsOwned ==
  /\ bleBusy => \/ manual \in {"opening", "failing", "failed"}
                \/ \E a \in Attempts : body[a] \in {"racing", "cleaning"}
  /\ inFlight => \E a \in Attempts : body[a] \in {"racing", "cleaning"}

\* A budget that is gone stays gone until a wake-up, a yield or the user: no
\* loss that comes late starts another cycle (bleReconnectExhaustLatch.ts).
LatchHolds == exhausted => ~reconnecting

\* After the user has disconnected, no attempt that was under way brings the
\* radio back, wherever its open or its configure was.
DisconnectSticks == explicit => device \notin Attempts

\* getHandle() "returns any live handle for the identity (first non-MQTT
\* transport)" (ConnectionDriver.ts:356): the session of a connect() that no
\* attempt disturbs finds no older link of its radio in the driver, which would
\* be taken for the one just opened.
HandleIsLive ==
  /\ manual = "configuring" /\ device = Manual
  /\ \A a \in Attempts : body[a] = "idle" /\ work[a] = "none"
  => slots \subseteq {Manual}

\* What stands in a queue, and what stands there once.
Stands(x, q) == \E i \in 1..Len(q) : q[i] = x
Single(x, q) == \A i, j \in 1..Len(q) : q[i] = x /\ q[j] = x => i = j

\* The work of an attempt, or the user's connect(), awaits its open.
Opening(o) ==
  IF o = Manual THEN manual = "opening" ELSE work[o] \in {"opening", "abandoned"}

\* An open is awaited by the owner whose turn it is at the mutex, and a
\* disconnect by the catch or the undo of an attempt or by the connect that
\* asked for it.  Nobody awaits those of a loss and of the user's disconnect.
Awaits(x) ==
  CASE x.op = "open" -> mutex # <<>> /\ Head(mutex) = x.for
    [] x.op = "clean" -> body[x.for] = "cleaning"
    [] x.op = "undo" -> work[x.for] = "undoing"
    [] x.op = "prepare" -> manual = "preparing"
    [] x.op = "fail" -> manual = "failing"
Awaited == {x \in Operation : x.op \notin Losses \cup {"user"}}

\* Nobody waits in vain for the driver, and nothing the driver does is without
\* its waiter: however opens are abandoned, handed over, undone and cleaned up
\* after, who awaits an open stands in the mutex once, and who awaits an
\* operation has it in the gate once.  So the two queues, which wait for each
\* other, never wedge, and what ends at the head of the gate goes on where it
\* was asked for.
QueuesServeWaiters ==
  /\ \A o \in Owners : Single(o, mutex) /\ (Opening(o) <=> Stands(o, mutex))
  /\ \A x \in Awaited : Single(x, gate) /\ (Awaits(x) <=> Stands(x, gate))

Superseded(a) == (body[a] # "idle" \/ work[a] # "none") /\ gen[a] # rgen

\* An attempt that a loss, a sleep or the user has superseded is never taken
\* for the current one again, although the controller and the runtime count
\* their generations apart and copy one over the other.
NeverRevived ==
  [][\A a \in Attempts : Superseded(a) /\ gen'[a] = gen[a] => gen[a] # rgen']_vars

\* Somebody is at work on the cycle, or about to be.
HasWork ==
  \/ owed \/ \E named \in BOOLEAN : parting[<<"start", named>>] > 0
  \/ \E i \in 1..Len(gate) : gate[i].op = "start"
  \/ \E a \in Attempts : body[a] # "idle"

\* A cycle that somebody works on ends: with a session, an empty budget, or
\* nobody left who works on it.
CycleEnds == reconnecting ~> (~reconnecting \/ ~HasWork)

\* "The attempt owner is the sole caller of the next schedule": no two
\* attempts of the current generation run side by side.
OneAttempt ==
  \A a, b \in Attempts :
    /\ body[a] # "idle" /\ gen[a] = rgen
    /\ body[b] # "idle" /\ gen[b] = rgen
    => a = b
==============================================================================
