---------------------------- MODULE NobleConnect ----------------------------
(***************************************************************************)
(* Connecting and disconnecting in NobleBleManager                         *)
(* (src/main/noble-ble-manager.ts): the queue that serializes connect()    *)
(* across the Meshtastic and the MeshCore session, the coalescing of       *)
(* duplicate connects on the GATT setup in flight, the takeover of a       *)
(* peripheral, the disconnect listeners, disconnect() with its waits; and  *)
(* of BleCoexistenceCoordinator (src/main/ble-coexistence-coordinator.ts)  *)
(* the registry of peripherals and the yield of the adapter to Reticulum.  *)
(*                                                                         *)
(* A call is one call of connect().  What it does to the scan is the       *)
(* subject of BleScanLease: here a scan finds the peripheral or does not.  *)
(* Characteristics are present or not; payloads, the read pump and MTU     *)
(* sizes are left out.  Every await is a point where others may come in.   *)
(***************************************************************************)
EXTENDS Naturals, FiniteSets

CONSTANTS
  Calls,      \* calls of connect()
  Sessions,   \* Noble's sessions
  Devices,    \* peripherals
  Addressed,  \* those whose address Noble knows (none on macOS)
  None,       \* null
  Requests    \* what the calls may ask for: a bound of the model

ASSUME NoneAssumption == None \notin Calls \cup Sessions \cup Devices
ASSUME AddressedAssumption == Addressed \subseteq Devices
ASSUME RequestsAssumption == Requests \subseteq Calls \X Sessions \X Devices
ASSUME OwnersAssumption == "reticulum" \notin Sessions
ASSUME CutsAssumption == {"ipc", "yield"} \cap Calls = {}

VARIABLES
  call,      \* where each connect() is, and what it asked for
  slots,     \* slots of the queue given out; this.connectQueue is the last
  sess,      \* this.sessions
  gattOpen,  \* calls whose gattSetupInflight promise is not settled
  listening, \* calls whose onDisconnected is registered at their peripheral
  known,     \* this.knownPeripherals
  cuts,      \* disconnect() calls that are under way
  link,      \* peripheral.state, as the native library has it
  registry,  \* coordinator: this.connections
  lease      \* coordinator: whether Reticulum has the adapter

vars == <<call, slots, sess, gattOpen, listening, known, cuts, link, registry, lease>>

Finished == {"done", "timedOut"}
InSetup == {"discover", "subscribe", "settle"}
Waiting == {"coalesce", "queued", "recoalesce"}
Stages == {"idle", "unlink", "seek", "takeover", "stale", "reseek", "stopScan",
           "linking", "unlinkFailed", "failing"} \cup Waiting \cup InSetup \cup Finished

\* slot: its place in the queue, 0 for none, which waits for the slot before it;
\* on: the call whose GATT setup is awaited.
CallState == [pc : Stages, session : Sessions \cup {None}, device : Devices \cup {None},
              slot : Nat, on : Calls \cup {None}]

\* gatt: whose gattSetupInflight it is; chars: toRadioChar and fromRadioChar.
SessionState == [conn : Devices \cup {None}, chars : BOOLEAN, gatt : Calls \cup {None},
                 handler : Calls \cup {None}, closing : BOOLEAN,
                 mac : Devices \cup {None}]

\* A disconnect() after it has cleared the session: it unsubscribes, removes
\* the listener it found, and then cuts the link.
CutState == [by : Calls \cup {"ipc", "yield"}, session : Sessions,
             device : Devices \cup {None}, handler : Calls \cup {None},
             phase : {"unsub", "cut"}]

TypeOK ==
  /\ call \in [Calls -> CallState]
  /\ \A k \in Calls : call[k].pc # "idle" =>
                        call[k].session \in Sessions /\ call[k].device \in Devices
  /\ slots \in Nat
  /\ sess \in [Sessions -> SessionState]
  /\ gattOpen \subseteq Calls
  /\ listening \subseteq Calls
  /\ known \subseteq Devices
  /\ cuts \subseteq CutState
  /\ \A c \in cuts : c.phase = "cut" => c.device \in Devices
  /\ link \in [Devices -> {"down", "opening", "up"}]
  /\ registry \in [Devices -> Sessions \cup {"reticulum", None}]
  /\ lease \in {"free", "suspending", "yielded"}

\* What clearSessionState() leaves of a session.
Cleared == [conn |-> None, chars |-> FALSE, gatt |-> None, handler |-> None,
            closing |-> TRUE, mac |-> None]

Init ==
  /\ call = [k \in Calls |-> [pc |-> "idle", session |-> None, device |-> None,
                             slot |-> 0, on |-> None]]
  /\ slots = 0
  /\ sess = [s \in Sessions |-> [Cleared EXCEPT !.closing = FALSE]]
  /\ gattOpen = {}
  /\ listening = {}
  /\ known = {}
  /\ cuts = {}
  /\ link = [d \in Devices |-> "down"]
  /\ registry = [d \in Devices |-> None]
  /\ lease = "free"

-----------------------------------------------------------------------------
(* Shared pieces of the handlers.                                          *)

\* clearSessionState() for the sessions in S, on the session table t; it
\* rejects the GATT setup in flight.
Wiped(t, S) == [s \in Sessions |-> IF s \in S THEN Cleared ELSE t[s]]
Settled(S) == gattOpen \ {sess[s].gatt : s \in S}

\* The call h if its listener sits at the peripheral d, to be removed.
ListenerAt(h, d) == {k \in Calls : k = h /\ call[k].device = d}

\* disconnect() has something to do only for such a session.
Attached(s) == sess[s].conn # None \/ sess[s].chars

\* disconnect() up to its first await, for the attached ones of the sessions S.
BeginDisconnect(t, S, by) ==
  LET A == {s \in S : Attached(s)}
      quiet == {s \in A : ~sess[s].chars}
  IN  /\ registry' = [d \in Devices |->
                        IF \E s \in A : sess[s].mac = d /\ registry[d] = s
                        THEN None ELSE registry[d]]
      /\ sess' = Wiped(t, A)
      /\ gattOpen' = Settled(A)
      /\ cuts' = cuts \cup
           {[by |-> by, session |-> s, device |-> sess[s].conn, handler |-> sess[s].handler,
             phase |-> IF sess[s].chars THEN "unsub" ELSE "cut"] : s \in A}
      /\ listening' = listening \
           UNION {ListenerAt(sess[s].handler, sess[s].conn) : s \in quiet}

\* k has no disconnect() of its own under way.
NoCut(k) == \A c \in cuts : c.by # k

\* The tests of tryCoalesceInflightGattConnect().
Usable(s, d) == sess[s].conn = d /\ sess[s].chars /\ ~sess[s].closing
SettingUp(s, d) == sess[s].conn = d /\ sess[s].gatt # None /\ ~sess[s].closing

Goto(k, pc) == call' = [call EXCEPT ![k].pc = pc, ![k].on = None]
Await(k, pc, on) == call' = [call EXCEPT ![k].pc = pc, ![k].on = on]

\* A call joins the queue, given its record with all else filled in.
Enqueue(k, c) ==
  /\ slots' = slots + 1
  /\ call' = [call EXCEPT ![k] = [c EXCEPT !.pc = "queued", !.slot = slots', !.on = None]]

\* assertCanConnect(), first by the peripheral's id, then by its address, where
\* an empty one is not looked up.
Admits(s, d) == lease = "free" /\ registry[d] \in {None, s}
AdmitsAddress(s, d) == lease = "free" /\ (d \in Addressed => registry[d] \in {None, s})

-----------------------------------------------------------------------------
(* connect(): duplicates and the queue.                                    *)

\* connect() up to its first await: an idempotent skip, a wait for the setup
\* in flight, or a place in the queue.
Connect(k, s, d) ==
  /\ call[k].pc = "idle" /\ <<k, s, d>> \in Requests
  /\ LET asked == [call[k] EXCEPT !.session = s, !.device = d]
     IN  \/ /\ d \in known /\ Usable(s, d)
            /\ call' = [call EXCEPT ![k] = [asked EXCEPT !.pc = "done"]]
            /\ UNCHANGED slots
         \/ /\ d \in known /\ ~Usable(s, d) /\ SettingUp(s, d)
            /\ call' = [call EXCEPT ![k] = [asked EXCEPT !.pc = "coalesce",
                                                         !.on = sess[s].gatt]]
            /\ UNCHANGED slots
         \/ /\ d \in known => ~Usable(s, d) /\ ~SettingUp(s, d)
            /\ Enqueue(k, asked)
  /\ UNCHANGED <<sess, gattOpen, listening, known, cuts, link, registry, lease>>

\* The setup that k waited for is settled: use it, or queue after all.
Coalesced(k) ==
  /\ call[k].pc = "coalesce" /\ call[k].on \notin gattOpen
  /\ IF Usable(call[k].session, call[k].device)
     THEN Goto(k, "done") /\ UNCHANGED slots
     ELSE Enqueue(k, call[k])
  /\ UNCHANGED <<sess, gattOpen, listening, known, cuts, link, registry, lease>>

\* Mutant of SlotFree: a slot is waited for only until its call begins.
SlotFreeEarly(k) ==
  \A j \in Calls : call[j].slot > 0 /\ call[j].slot + 1 = call[k].slot
                     => call[j].pc # "queued"

\* Whether the slot in front of k is released.
SlotFree(k) ==
  \A j \in Calls : call[j].slot > 0 /\ call[j].slot + 1 = call[k].slot
                     => call[j].pc \in Finished

\* k waited too long: it releases its own slot and throws.
QueueTimeout(k) ==
  /\ call[k].pc = "queued" /\ ~SlotFree(k)
  /\ Goto(k, "timedOut")
  /\ UNCHANGED <<slots, sess, gattOpen, listening, known, cuts, link, registry, lease>>

\* The catch block of connect() before there is a peripheral: k's session is
\* cleared, and its GATT setup rejected.
Forget(k, t) ==
  /\ sess' = Wiped(t, {call[k].session})
  /\ gattOpen' = Settled({call[k].session})

\* It is k's turn and it is refused: Reticulum has the adapter, the peripheral
\* is another stack's, or the adapter is off.  The catch block clears the
\* session, whatever it was connected to.
Refused(k) ==
  /\ call[k].pc = "queued" /\ SlotFree(k)
  /\ Forget(k, sess)
  /\ Goto(k, "done")
  /\ UNCHANGED <<slots, listening, known, cuts, link, registry, lease>>

\* The session's old connection is taken down first.
TearDown(k) ==
  /\ BeginDisconnect(sess, {call[k].session}, k)
  /\ Goto(k, "unlink")

\* It is k's turn: look for a duplicate once more.
Begin(k) ==
  LET s == call[k].session
      d == call[k].device
  IN  /\ call[k].pc = "queued" /\ SlotFree(k)
      /\ Admits(s, d)
      /\ \/ /\ d \in known /\ Usable(s, d)
            /\ Goto(k, "done")
            /\ UNCHANGED <<sess, gattOpen, listening, cuts, registry>>
         \/ /\ d \in known /\ ~Usable(s, d) /\ SettingUp(s, d)
            /\ Await(k, "recoalesce", sess[s].gatt)
            /\ UNCHANGED <<sess, gattOpen, listening, cuts, registry>>
         \/ /\ d \in known => ~Usable(s, d) /\ ~SettingUp(s, d)
            /\ TearDown(k)
      /\ UNCHANGED <<slots, known, link, lease>>

Recoalesced(k) ==
  /\ call[k].pc = "recoalesce" /\ call[k].on \notin gattOpen
  /\ IF Usable(call[k].session, call[k].device)
     THEN Goto(k, "done") /\ UNCHANGED <<sess, gattOpen, listening, cuts, registry>>
     ELSE TearDown(k)
  /\ UNCHANGED <<slots, known, link, lease>>

-----------------------------------------------------------------------------
(* connect(): finding and opening the peripheral.                          *)

\* The session table with k's session fresh for the new connection.
Reopened(k) == [sess EXCEPT ![call[k].session].closing = FALSE]

\* Mutants of Abandon: the session is not cleared; its GATT setup not rejected.
AbandonKept(k, t) ==
  /\ sess' = t
  /\ gattOpen' = Settled({call[k].session})
  /\ listening' = listening \ ListenerAt(sess[call[k].session].handler, call[k].device)
AbandonSilently(k, t) ==
  /\ sess' = Wiped(t, {call[k].session})
  /\ gattOpen' = gattOpen
  /\ listening' = listening \ ListenerAt(sess[call[k].session].handler, call[k].device)

\* The catch block of connect() with the peripheral in hand: the session's
\* listener is removed from it, too.
Abandon(k, t) ==
  /\ Forget(k, t)
  /\ listening' = listening \ ListenerAt(sess[call[k].session].handler, call[k].device)

\* onDisconnected is registered, before connectAsync().  A scan that is on is
\* stopped first.
Listen(k, t) ==
  /\ listening' = listening \cup {k}
  /\ sess' = [t EXCEPT ![call[k].session].handler = k]
  /\ \/ Goto(k, "stopScan") /\ UNCHANGED link
     \/ Goto(k, "linking") /\ link' = [link EXCEPT ![call[k].device] =
                                         IF @ = "down" THEN "opening" ELSE @]

\* k has the peripheral: assertCanConnect() again, and a link that Noble
\* already has is taken from the other session or dropped as stale.
Proceed(k, t) ==
  LET s == call[k].session
      d == call[k].device
      others == {o \in Sessions \ {s} : sess[o].conn = d}
  IN  \/ /\ ~AdmitsAddress(s, d)
         /\ Abandon(k, t)
         /\ Goto(k, "done")
         /\ UNCHANGED <<cuts, link, registry>>
      \/ /\ AdmitsAddress(s, d) /\ link[d] = "down"
         /\ Listen(k, t)
         /\ UNCHANGED <<gattOpen, cuts, registry>>
      \/ /\ AdmitsAddress(s, d) /\ link[d] # "down"
         /\ \E o \in others : BeginDisconnect(t, {o}, k)
         /\ Goto(k, "takeover")
         /\ UNCHANGED link
      \/ /\ AdmitsAddress(s, d) /\ link[d] # "down" /\ others = {}
         /\ sess' = t
         /\ Goto(k, "stale")
         /\ UNCHANGED <<gattOpen, listening, cuts, link, registry>>

\* k's own disconnect() is over.
Prepared(k) ==
  /\ call[k].pc = "unlink" /\ NoCut(k)
  /\ \/ call[k].device \in known /\ Proceed(k, Reopened(k))
     \/ /\ call[k].device \notin known
        /\ sess' = Reopened(k)
        /\ Goto(k, "seek")
        /\ UNCHANGED <<gattOpen, listening, cuts, link, registry>>
  /\ UNCHANGED <<slots, known, lease>>

\* waitForPeripheralDuringScan() finds the peripheral, or gives up.
SeekEnds(k) ==
  /\ \/ call[k].pc = "seek" /\ known' = known \cup {call[k].device} /\ Proceed(k, sess)
     \/ /\ call[k].pc = "reseek"
        /\ known' = known \cup {call[k].device}
        /\ Listen(k, sess)
        /\ UNCHANGED <<gattOpen, cuts, registry>>
     \/ /\ \/ call[k].pc = "seek" /\ Forget(k, sess) /\ UNCHANGED listening
           \/ call[k].pc = "reseek" /\ Abandon(k, sess)
        /\ Goto(k, "done")
        /\ UNCHANGED <<known, cuts, link, registry>>
  /\ UNCHANGED <<slots, lease>>

\* The other session is disconnected, or the stale link was asked to drop; the
\* peripheral leaves the cache, and is sought again unless its link is down.  A
\* link that is only being opened is asked to drop first.
LinkFreed(k) ==
  LET d == call[k].device
      undropped == call[k].pc = "takeover" /\ link[d] = "opening"
  IN  /\ call[k].pc \in {"takeover", "stale"} /\ NoCut(k)
      /\ known' = IF undropped THEN known ELSE known \ {d}
      /\ \/ link[d] = "down" /\ Listen(k, sess)
         \/ /\ link[d] # "down"
            /\ Goto(k, IF undropped THEN "stale" ELSE "reseek")
            /\ UNCHANGED <<sess, listening, link>>
      /\ UNCHANGED <<slots, gattOpen, cuts, registry, lease>>

\* scanStop is reported: connectAsync().
Open(k) ==
  /\ call[k].pc = "stopScan"
  /\ Goto(k, "linking")
  /\ link' = [link EXCEPT ![call[k].device] = IF @ = "down" THEN "opening" ELSE @]
  /\ UNCHANGED <<slots, sess, gattOpen, listening, known, cuts, registry, lease>>

\* connectAsync() is rejected or times out; with the link possibly still being
\* opened, disconnectAsync() is tried for at most 5 s.
LinkFails(k) ==
  /\ call[k].pc = "linking"
  /\ Goto(k, "unlinkFailed")
  /\ known' = known \ {call[k].device}
  /\ \/ UNCHANGED link
     \/ link[call[k].device] = "opening" /\ link' = [link EXCEPT ![call[k].device] = "down"]
  /\ UNCHANGED <<slots, sess, gattOpen, listening, cuts, registry, lease>>

LinkFailed(k) ==
  /\ call[k].pc = "unlinkFailed"
  /\ Abandon(k, sess)
  /\ Goto(k, "done")
  /\ UNCHANGED <<slots, known, cuts, link, registry, lease>>

-----------------------------------------------------------------------------
(* connect(): GATT setup.                                                  *)

\* The native library opens the link of d.  Every connectAsync() that waits
\* for it resolves: the session gets the peripheral and a setup in flight.
LinkUp(d) ==
  LET up == {k \in Calls : call[k].pc = "linking" /\ call[k].device = d}
      S == {call[k].session : k \in up}
  IN  /\ link[d] = "opening"
      /\ link' = [link EXCEPT ![d] = "up"]
      /\ call' = [k \in Calls |->
                    IF k \in up THEN [call[k] EXCEPT !.pc = "discover"] ELSE call[k]]
      /\ \E last \in [S -> up] :
           /\ \A s \in S : call[last[s]].session = s
           /\ sess' = [s \in Sessions |->
                         IF s \in S THEN [sess[s] EXCEPT !.conn = d, !.gatt = last[s]]
                         ELSE sess[s]]
      /\ gattOpen' = gattOpen \cup up
      /\ UNCHANGED <<slots, listening, known, cuts, registry, lease>>

\* The characteristics are found, and stored even if the session was cleared
\* in the meantime; MeshCore has no fromNum to subscribe to.
Discovered(k) ==
  /\ call[k].pc = "discover" /\ link[call[k].device] = "up"
  /\ sess' = [sess EXCEPT ![call[k].session].chars = TRUE]
  /\ \E pc \in {"subscribe", "settle"} : Goto(k, pc)
  /\ UNCHANGED <<slots, gattOpen, listening, known, cuts, link, registry, lease>>

\* fromNum is subscribed; from here on nothing looks at the session again.
Subscribed(k) ==
  /\ call[k].pc = "subscribe" /\ sess[call[k].session].chars
  /\ Goto(k, "settle")
  /\ UNCHANGED <<slots, sess, gattOpen, listening, known, cuts, link, registry, lease>>

\* Discovery or a subscription fails, or the session's characteristics are
\* gone, or register() finds another owner: a link still up is cut for at most
\* 5 s after the session is cleared.
SetupFails(k) ==
  /\ call[k].pc \in InSetup
  /\ Abandon(k, sess)
  /\ Goto(k, IF link[call[k].device] = "down" THEN "done" ELSE "failing")
  /\ UNCHANGED <<slots, known, cuts, link, registry, lease>>

SetupFailed(k) ==
  /\ call[k].pc = "failing"
  /\ Goto(k, "done")
  /\ UNCHANGED <<slots, sess, gattOpen, listening, known, cuts, link, registry, lease>>

\* fromRadio is subscribed and the MTU wait over: the setup is settled and the
\* peripheral registered, if its address is known.
Established(k) ==
  LET s == call[k].session
      d == call[k].device
  IN  /\ call[k].pc = "settle"
      /\ gattOpen' = Settled({s})
      /\ \/ /\ d \in Addressed /\ registry[d] \in {None, s}
            /\ registry' = [registry EXCEPT ![d] = s]
            /\ sess' = [sess EXCEPT ![s].gatt = None, ![s].mac = d]
         \/ /\ d \notin Addressed
            /\ sess' = [sess EXCEPT ![s].gatt = None, ![s].mac = None]
            /\ UNCHANGED registry
      /\ Goto(k, "done")
      /\ UNCHANGED <<slots, listening, known, cuts, link, lease>>

-----------------------------------------------------------------------------
(* disconnect(), the peripherals and Reticulum.                            *)

\* disconnect() from the renderer; BOUND: one at a time for a session.
Disconnect(s) ==
  /\ Attached(s) /\ \A c \in cuts : ~(c.by = "ipc" /\ c.session = s)
  /\ BeginDisconnect(sess, {s}, "ipc")
  /\ UNCHANGED <<call, slots, known, link, lease>>

\* Mutant of CutUnsubscribed: a peripheral that is gone is asked to drop.
CutUnsubscribedBlindly(c) ==
  /\ c.phase = "unsub"
  /\ cuts' = (cuts \ {c}) \cup {[c EXCEPT !.phase = "cut"]}
  /\ listening' = listening \ ListenerAt(c.handler, c.device)
  /\ UNCHANGED <<call, slots, sess, gattOpen, known, link, registry, lease>>

\* The characteristics are unsubscribed: the listener is removed, and the link
\* asked to drop if there is one.
CutUnsubscribed(c) ==
  /\ c.phase = "unsub"
  /\ cuts' = (cuts \ {c}) \cup IF c.device = None THEN {} ELSE {[c EXCEPT !.phase = "cut"]}
  /\ listening' = listening \ ListenerAt(c.handler, c.device)
  /\ UNCHANGED <<call, slots, sess, gattOpen, known, link, registry, lease>>

\* disconnectAsync() is over: the link is down, or 5 s have passed.
CutEnds(c) ==
  /\ c.phase = "cut"
  /\ cuts' = cuts \ {c}
  /\ UNCHANGED <<call, slots, sess, gattOpen, listening, known, link, registry, lease>>

\* A link drops, by itself or because a disconnectAsync() asked for it.  Every
\* listener at the peripheral clears its session; none unregisters it.
Drops(d) ==
  LET heard == {k \in listening : call[k].device = d}
      S == {call[k].session : k \in heard}
  IN  /\ link[d] # "down"
      /\ link' = [link EXCEPT ![d] = "down"]
      /\ listening' = listening \ heard
      /\ sess' = Wiped(sess, S)
      /\ gattOpen' = Settled(S)
      /\ UNCHANGED <<call, slots, known, cuts, registry, lease>>

\* A scan sees the peripheral.
Discover(d) ==
  /\ d \notin known
  /\ known' = known \cup {d}
  /\ UNCHANGED <<call, slots, sess, gattOpen, listening, cuts, link, registry, lease>>

\* Mutant of ReticulumRegisters: unregister() does not ask whose entry it is.
ReticulumUnregistersAny(d) ==
  /\ registry' = [registry EXCEPT ![d] = IF @ = None THEN "reticulum" ELSE None]
  /\ UNCHANGED <<call, slots, sess, gattOpen, listening, known, cuts, link, lease>>

\* Reticulum connects to a peripheral of its own, and lets go of it.
ReticulumRegisters(d) ==
  /\ registry[d] \in {None, "reticulum"}
  /\ registry' = [registry EXCEPT ![d] = IF @ = None THEN "reticulum" ELSE None]
  /\ UNCHANGED <<call, slots, sess, gattOpen, listening, known, cuts, link, lease>>

\* suspendNobleForReticulumBleConnect(): take the lease, then disconnect all
\* sessions.  BOUND: not while the cuts of an earlier one are under way.
Suspend ==
  /\ lease = "free" /\ NoCut("yield")
  /\ lease' = "suspending"
  /\ BeginDisconnect(sess, Sessions, "yield")
  /\ UNCHANGED <<call, slots, known, link>>

\* disconnectAllSessions() is over: the adapter is Reticulum's.
Yielded ==
  /\ lease = "suspending" /\ NoCut("yield")
  /\ lease' = "yielded"
  /\ UNCHANGED <<call, slots, sess, gattOpen, listening, known, cuts, link, registry>>

\* It took more than 30 s, or Reticulum gives the adapter back.
Unyield ==
  /\ lease \in {"suspending", "yielded"}
  /\ lease' = "free"
  /\ UNCHANGED <<call, slots, sess, gattOpen, listening, known, cuts, link, registry>>

-----------------------------------------------------------------------------
CallNext(k) ==
  \/ Coalesced(k) \/ Refused(k) \/ Begin(k) \/ Recoalesced(k)
  \/ Prepared(k) \/ SeekEnds(k) \/ LinkFreed(k) \/ Open(k)
  \/ LinkFails(k) \/ LinkFailed(k)
  \/ Discovered(k) \/ Subscribed(k) \/ SetupFails(k) \/ SetupFailed(k) \/ Established(k)

CutNext == \E c \in cuts : CutUnsubscribed(c) \/ CutEnds(c)

Next ==
  \/ \E k \in Calls, s \in Sessions, d \in Devices : Connect(k, s, d)
  \/ \E k \in Calls : CallNext(k) \/ QueueTimeout(k)
  \/ \E s \in Sessions : Disconnect(s)
  \/ \E d \in Devices : LinkUp(d) \/ Drops(d) \/ Discover(d) \/ ReticulumRegisters(d)
  \/ CutNext
  \/ Suspend \/ Yielded \/ Unyield

Spec == Init /\ [][Next]_vars

\* Promises settle, timers fire, and the native library reports scanStop and
\* settles an unsubscribe, which connect() and disconnect() await unbounded.
Fairness == WF_vars(CutNext) /\ \A k \in Calls : WF_vars(CallNext(k))

FairSpec == Spec /\ Fairness

-----------------------------------------------------------------------------
(* Properties.                                                             *)

\* No call gave up waiting in the queue, so that connects are one at a time.
Serialized == \A k \in Calls : call[k].pc # "timedOut"

\* A call gave up waiting in the queue behind j and in front of k.
GaveUpBetween(j, k) ==
  \E g \in Calls : /\ call[g].pc = "timedOut"
                   /\ call[j].slot < call[g].slot /\ call[g].slot < call[k].slot

\* "Serialize across all sessions - noble's native CBCentralManager crashes if
\* a second peripheral's discoverServices/subscribe races with the first": two
\* calls set up a link at a time only if one that queued between them gave up
\* waiting, which released its slot to the second with the first still at work.
OneSetup ==
  \A j, k \in Calls :
    call[j].pc \in InSetup /\ call[k].pc \in InSetup /\ j # k
      => GaveUpBetween(j, k) \/ GaveUpBetween(k, j)

\* "Same MAC rejected": two sessions never hold the same peripheral as
\* connected if its address is known, though calls are refused and fail at any
\* stage, links drop late and other calls disconnect in between.
OneHolder ==
  Serialized => \A s, t \in Sessions :
    sess[s].conn \in Addressed /\ sess[s].conn = sess[t].conn => s = t

\* The peripheral a session has registered is its own in the registry, with
\* Reticulum and the other session registering and letting go of theirs.
ClaimHeld == \A s \in Sessions : sess[s].mac # None => registry[sess[s].mac] = s

\* Whoever waits is waited for by nobody it waits for: a duplicate waits for a
\* call that is still in its GATT setup and will settle it, whatever disconnects,
\* drops and takeovers clear meanwhile; a call in the queue waits for one that
\* came before it and is not finished; and a call that has its turn waits for no
\* other call, its second look for a duplicate included.
WaitersAttended ==
  Serialized => \A k \in Calls :
    /\ call[k].pc = "coalesce" /\ call[k].on \in gattOpen =>
         /\ call[call[k].on].pc \in InSetup
         /\ sess[call[call[k].on].session].gatt = call[k].on
    /\ call[k].pc = "queued" /\ ~SlotFree(k) =>
         \E j \in Calls : call[j].slot < call[k].slot /\ call[j].pc \notin {"idle", "coalesce", "done"}
    /\ call[k].pc = "recoalesce" => call[k].on \notin gattOpen

\* Every connect() is answered, those that wait for another's GATT setup or
\* for the queue too, as long as nobody gave up waiting.
CallsAnswered ==
  \A k \in Calls : call[k].pc # "idle" ~> call[k].pc \in Finished \/ ~Serialized

\* "Noble disconnects GATT sessions and holds the scan mutex": while Reticulum
\* has the adapter no session has a link.
YieldIsExclusive == lease = "yielded" => \A s \in Sessions : sess[s].conn = None

\* "MAC registered with BleCoexistenceCoordinator while connected": a peripheral
\* registered for a session is that session's connection.
RegistryHonest ==
  \A d \in Devices : registry[d] \in Sessions => sess[registry[d]].conn = d

-----------------------------------------------------------------------------
(* The inductive invariant behind the safety properties.                   *)

\* Calls between their turn in the queue and the finally block.
Holding == Stages \ ({"idle", "coalesce", "queued"} \cup Finished)

\* Slots are numbered in the order they were given out, one call to each.
QueueNumbered ==
  /\ \A k \in Calls :
       /\ call[k].slot <= slots
       /\ call[k].pc \in {"idle", "coalesce"} => call[k].slot = 0
       /\ call[k].pc \in Holding \cup {"queued"} => call[k].slot > 0
  /\ \A j, k \in Calls : call[j].slot > 0 /\ call[j].slot = call[k].slot => j = k
  /\ \A n \in 1..slots : \E k \in Calls : call[k].slot = n

\* A call that has had its turn has only finished calls in front of it, but for
\* those it overtook because one in between gave up waiting.
FirstComeFirstServed ==
  \A j, k \in Calls :
    /\ call[j].slot > 0 /\ call[j].slot < call[k].slot
    /\ call[k].pc \notin {"queued", "timedOut"}
    => call[j].pc \in Finished \/ GaveUpBetween(j, k)

\* The stages of a call from its teardown of the old connection to its GATT
\* setup, and those after assertCanConnect() was asked for the address.
Admitted == {"takeover", "stale", "reseek", "stopScan", "linking", "unlinkFailed"} \cup InSetup
Opening == {"unlink", "seek"} \cup Admitted

\* The session of a call that opens a link has no peripheral but the call's.
SessionIsCalls ==
  Serialized => \A k \in Calls : call[k].pc \in Opening =>
    sess[call[k].session].conn \in
      {None} \cup (IF call[k].pc \in InSetup THEN {call[k].device} ELSE {})

\* No other session has the peripheral of an admitted call registered.
NotAnothers ==
  Serialized => \A k \in Calls :
    call[k].pc \in Admitted /\ call[k].device \in Addressed
      => registry[call[k].device] \notin Sessions \ {call[k].session}

\* A peripheral with an address that a session holds is registered, or its
\* setup is under way.
HeldIsClaimed ==
  Serialized => \A s \in Sessions : sess[s].conn \in Addressed =>
    \/ sess[s].mac = sess[s].conn
    \/ \E k \in Calls : /\ call[k].pc \in InSetup
                        /\ call[k].session = s /\ call[k].device = sess[s].conn

\* A GATT setup that is not settled is its session's, and its call is at it.
SetupAttended ==
  Serialized => \A j \in gattOpen :
    call[j].pc \in InSetup /\ sess[call[j].session].gatt = j

IInv ==
  /\ TypeOK /\ QueueNumbered /\ FirstComeFirstServed
  /\ SessionIsCalls /\ NotAnothers /\ ClaimHeld /\ HeldIsClaimed /\ SetupAttended
=============================================================================
