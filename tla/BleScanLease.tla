---------------------------- MODULE BleScanLease ----------------------------
(***************************************************************************)
(* The Bluetooth scan lease of the Electron main process on macOS and      *)
(* Windows: BleCoexistenceCoordinator                                      *)
(* (src/main/ble-coexistence-coordinator.ts), which grants the adapter for *)
(* scanning either to Noble (the Meshtastic and MeshCore sessions) or to   *)
(* the Reticulum sidecar, and the scanning half of NobleBleManager         *)
(* (src/main/noble-ble-manager.ts), which takes the lease for its          *)
(* sessions, is paused for Reticulum and resumed afterwards.               *)
(*                                                                         *)
(* A client is one Reticulum user of the lease: the sidecar's yield for a  *)
(* BLE RNode, the RSSI poll, the device picker.  Of connect() only what it *)
(* does to the scan is modelled; links, the registry of peripherals and    *)
(* the waiting line of connects are left out, and so is the owner "webbt", *)
(* which does not occur on these platforms.                                *)
(*                                                                         *)
(* Every await is a point where another call may come in between.          *)
(***************************************************************************)
EXTENDS Naturals, FiniteSets

CONSTANTS
  Clients,        \* Reticulum's users of the lease
  Sessions,       \* Noble's sessions
  Nobody,         \* no client
  Darwin,         \* macOS stops a scan before it connects
  MaxStarts,      \* bound on calls of startScanning()
  MaxPowerCycles  \* bound on changes of the adapter's state

ASSUME ClientsAssumption == IsFiniteSet(Clients) /\ Nobody \notin Clients
ASSUME FlagAssumption == Darwin \in BOOLEAN
ASSUME BoundAssumption == MaxStarts \in Nat /\ MaxPowerCycles \in Nat

VARIABLES
  scanOwner,     \* coordinator: this.scanOwner
  scanDepth,     \* coordinator: this.scanOwnerDepth
  acquiring,     \* coordinator: whose first acquire this.scanAcquireInFlight is
  scanPaused,    \* coordinator: this.nobleScanPausedForExternal
  client,        \* where each Reticulum client is
  requesters,    \* Noble: this.scanRequesters
  adapterReady,  \* Noble: this.adapterReady
  scanning,      \* Noble: this.scanningActive
  starting,      \* Noble: this.scanStartInFlight is set
  start,         \* where each session's startScanning() is
  connect,       \* the connect() that holds the connect queue
  starts,        \* number of startScanning() calls, to bound the model
  power,         \* number of adapter changes, to bound the model
  mishaps        \* history: releases of a lease not held, starts that failed

coordinator == <<scanOwner, scanDepth, acquiring, scanPaused>>
noble == <<requesters, adapterReady, scanning, starting>>
vars == <<scanOwner, scanDepth, acquiring, scanPaused, client, requesters,
          adapterReady, scanning, starting, start, connect, starts, power, mishaps>>

Mishaps == {"strayRelease", "startFailed"}
Owners == {"none", "noble", "reticulum"}
ClientState == {"idle", "wait", "pausing", "held"}
StartState == {"idle", "wait", "map", "adapter", "native"}

\* session is the one that connects; own says that its interest in a scan is
\* that of waitForPeripheralDuringScan(), to be dropped again.
ConnectPc == {"off", "prepare", "seek", "stale", "reseek", "stopWait", "open"}
Connect == [pc : ConnectPc, session : Sessions \cup {Nobody}, own : BOOLEAN]
NoConnect == [pc |-> "off", session |-> Nobody, own |-> FALSE]

TypeOK ==
  /\ scanOwner \in Owners
  /\ scanDepth \in Nat
  /\ scanOwner = "none" <=> scanDepth = 0
  /\ acquiring \in Clients \cup {Nobody}
  /\ scanPaused \in BOOLEAN
  /\ client \in [Clients -> ClientState]
  /\ requesters \subseteq Sessions
  /\ adapterReady \in BOOLEAN
  /\ scanning \in BOOLEAN
  /\ starting \in BOOLEAN
  /\ start \in [Sessions -> StartState]
  /\ connect \in Connect
  /\ connect.pc # "off" => connect.session \in Sessions
  /\ starts \in 0..MaxStarts
  /\ power \in 0..MaxPowerCycles
  /\ mishaps \subseteq Mishaps

Init ==
  /\ scanOwner = "none"
  /\ scanDepth = 0
  /\ acquiring = Nobody
  /\ scanPaused = FALSE
  /\ client = [c \in Clients |-> "idle"]
  /\ requesters = {}
  /\ adapterReady \in BOOLEAN
  /\ scanning = FALSE
  /\ starting = FALSE
  /\ start = [s \in Sessions |-> "idle"]
  /\ connect = NoConnect
  /\ starts = 0
  /\ power = 0
  /\ mishaps = {}

-----------------------------------------------------------------------------
(* Shared pieces of the handlers.                                          *)

\* doStartScanning(): nothing to do while a scan is on or its start pending.
DoStart == starting' = (starting \/ ~scanning)

\* What the finally block of connect() and resumeScanningAfterExternalScan()
\* ask before they restart the scan, given the requesters and scanning.
Missing(wanted, on) == wanted # {} /\ adapterReady /\ ~on

\* Mutants of ReleaseReticulum: the owner stays; Noble's scan is not resumed.
ReleaseReticulumSticky ==
  /\ scanDepth' = IF scanOwner = "reticulum" THEN scanDepth - 1 ELSE scanDepth
  /\ UNCHANGED <<scanOwner, scanPaused, starting>>
ReleaseReticulumSilently ==
  IF scanOwner = "reticulum" /\ scanDepth <= 1
  THEN /\ scanOwner' = "none"
       /\ scanDepth' = 0
       /\ scanPaused' = FALSE
       /\ UNCHANGED starting
  ELSE /\ scanDepth' = IF scanOwner = "reticulum" THEN scanDepth - 1 ELSE scanDepth
       /\ UNCHANGED <<scanOwner, scanPaused, starting>>

\* releaseScan("reticulum"): the last release resumes Noble's scan.
ReleaseReticulum ==
  IF scanOwner = "reticulum" /\ scanDepth <= 1
  THEN /\ scanOwner' = "none"
       /\ scanDepth' = 0
       /\ scanPaused' = FALSE
       /\ starting' = (starting \/ (scanPaused /\ Missing(requesters, scanning)))
  ELSE /\ scanDepth' = IF scanOwner = "reticulum" THEN scanDepth - 1 ELSE scanDepth
       /\ UNCHANGED <<scanOwner, scanPaused, starting>>

\* releaseScan("noble").
ReleaseNoble ==
  IF scanOwner = "noble" /\ scanDepth <= 1
  THEN scanOwner' = "none" /\ scanDepth' = 0
  ELSE /\ scanDepth' = IF scanOwner = "noble" THEN scanDepth - 1 ELSE scanDepth
       /\ UNCHANGED scanOwner

-----------------------------------------------------------------------------
(* Reticulum's clients: acquireScan("reticulum") and releaseScan().        *)

\* Mutant of Acquire: an acquire in flight is not waited for.
AcquireUnserialized(c) ==
  /\ client[c] \in {"idle", "wait"}
  /\ \/ /\ scanOwner = "reticulum"
        /\ scanDepth' = scanDepth + 1
        /\ client' = [client EXCEPT ![c] = "held"]
        /\ UNCHANGED <<acquiring, scanning>>
     \/ /\ scanOwner = "none"
        /\ acquiring' = c
        /\ scanning' = FALSE
        /\ client' = [client EXCEPT ![c] = "pausing"]
        /\ UNCHANGED scanDepth
  /\ UNCHANGED <<scanOwner, scanPaused, requesters, adapterReady, starting,
                 start, connect, starts, power, mishaps>>

\* acquireScan() up to its first await, called or retried by c: wait for the
\* acquire in flight, nest, be refused, or pause Noble's scan first.
Acquire(c) ==
  /\ \/ /\ acquiring # Nobody /\ client[c] = "idle"
        /\ client' = [client EXCEPT ![c] = "wait"]
        /\ UNCHANGED <<scanDepth, acquiring, scanning>>
     \/ /\ acquiring = Nobody /\ client[c] \in {"idle", "wait"}
        /\ \/ /\ scanOwner = "reticulum"
              /\ scanDepth' = scanDepth + 1
              /\ client' = [client EXCEPT ![c] = "held"]
              /\ UNCHANGED <<acquiring, scanning>>
           \/ /\ scanOwner = "noble"
              /\ client' = [client EXCEPT ![c] = "idle"]
              /\ UNCHANGED <<scanDepth, acquiring, scanning>>
           \/ /\ scanOwner = "none"
              /\ acquiring' = c
              /\ scanning' = FALSE
              /\ client' = [client EXCEPT ![c] = "pausing"]
              /\ UNCHANGED scanDepth
  /\ UNCHANGED <<scanOwner, scanPaused, requesters, adapterReady, starting,
                 start, connect, starts, power, mishaps>>

\* Noble's scan is paused: the lease is c's.
AcquireDone(c) ==
  /\ client[c] = "pausing"
  /\ scanOwner' = "reticulum"
  /\ scanDepth' = 1
  /\ scanPaused' = TRUE
  /\ acquiring' = Nobody
  /\ client' = [client EXCEPT ![c] = "held"]
  /\ UNCHANGED <<noble, start, connect, starts, power, mishaps>>

\* c is done with the adapter.
Release(c) ==
  /\ client[c] = "held"
  /\ ReleaseReticulum
  /\ client' = [client EXCEPT ![c] = "idle"]
  /\ UNCHANGED <<acquiring, requesters, adapterReady, scanning, start, connect,
                 starts, power, mishaps>>

\* The renderer closes the device picker, tears its stores down, hears of a
\* lost bond, or the sidecar stops: the lease is released, whoever holds it.
StrayRelease ==
  /\ ReleaseReticulum
  /\ mishaps' = mishaps \cup {"strayRelease"}
  /\ UNCHANGED <<acquiring, client, requesters, adapterReady, scanning, start,
                 connect, starts, power>>

ClientNext ==
  \/ \E c \in Clients : Acquire(c) \/ AcquireDone(c) \/ Release(c)
  \/ StrayRelease

-----------------------------------------------------------------------------
(* Noble's sessions: startScanning() and stopScanning().                   *)

\* Mutant of AcquireNoble: an acquire in flight is not waited for.
AcquireNobleUnserialized(s) ==
  \/ /\ scanOwner = "reticulum"
     /\ start' = [start EXCEPT ![s] = "idle"]
     /\ UNCHANGED <<scanOwner, scanDepth>>
  \/ /\ scanOwner # "reticulum"
     /\ scanOwner' = "noble"
     /\ scanDepth' = scanDepth + 1
     /\ start' = [start EXCEPT ![s] = "map"]

\* acquireScan("noble"), called or retried by the session's startScanning().
AcquireNoble(s) ==
  \/ /\ acquiring # Nobody /\ start[s] = "idle"
     /\ start' = [start EXCEPT ![s] = "wait"]
     /\ UNCHANGED <<scanOwner, scanDepth>>
  \/ /\ acquiring = Nobody /\ scanOwner = "reticulum"
     /\ start' = [start EXCEPT ![s] = "idle"]
     /\ UNCHANGED <<scanOwner, scanDepth>>
  \/ /\ acquiring = Nobody /\ scanOwner # "reticulum"
     /\ scanOwner' = "noble"
     /\ scanDepth' = scanDepth + 1
     /\ start' = [start EXCEPT ![s] = "map"]

StartScanning(s) ==
  /\ start[s] = "idle" /\ starts < MaxStarts
  /\ AcquireNoble(s)
  /\ starts' = starts + 1
  /\ UNCHANGED <<acquiring, scanPaused, client, noble, connect, power, mishaps>>

RetryStart(s) ==
  /\ start[s] = "wait"
  /\ AcquireNoble(s)
  /\ UNCHANGED <<acquiring, scanPaused, client, noble, connect, starts, power, mishaps>>

\* startScanning() once the adapter is known to be ready.
StartNative(s) ==
  /\ DoStart
  /\ start' = [start EXCEPT ![s] = IF scanning THEN "idle" ELSE "native"]

\* refreshDarwinNameAddressMap() settles: only now the session is a requester.
MapRefreshed(s) ==
  /\ start[s] = "map"
  /\ requesters' = requesters \cup {s}
  /\ \/ adapterReady /\ StartNative(s)
     \/ /\ ~adapterReady
        /\ start' = [start EXCEPT ![s] = "adapter"]
        /\ UNCHANGED starting
  /\ UNCHANGED <<coordinator, client, adapterReady, scanning, connect, starts, power, mishaps>>

\* waitForAdapterReady() is over: scan, or throw with the interest kept.
AdapterWaitOver(s) ==
  /\ start[s] = "adapter"
  /\ \/ adapterReady /\ StartNative(s)
     \/ /\ ~adapterReady
        /\ start' = [start EXCEPT ![s] = "idle"]
        /\ UNCHANGED starting
  /\ UNCHANGED <<coordinator, client, requesters, adapterReady, scanning, connect,
                 starts, power, mishaps>>

StopScanning(s) ==
  /\ requesters' = requesters \ {s}
  /\ IF requesters' = {}
     THEN /\ scanning' = FALSE
          /\ ReleaseNoble
          /\ UNCHANGED starting
     ELSE DoStart /\ UNCHANGED <<scanning, scanOwner, scanDepth>>
  /\ UNCHANGED <<acquiring, scanPaused, client, adapterReady, start, connect,
                 starts, power, mishaps>>

SessionNext ==
  \E s \in Sessions :
    StartScanning(s) \/ RetryStart(s) \/ MapRefreshed(s) \/ AdapterWaitOver(s)
      \/ StopScanning(s)

-----------------------------------------------------------------------------
(* The adapter and the native library.                                     *)

\* stateChange: a scan that is wanted starts when the adapter comes on.
AdapterChange ==
  /\ power < MaxPowerCycles
  /\ power' = power + 1
  /\ adapterReady' = ~adapterReady
  /\ starting' = (starting \/ (adapterReady' /\ requesters # {} /\ ~scanning))
  /\ UNCHANGED <<coordinator, client, requesters, scanning, start, connect, starts,
                 mishaps>>

\* Those that await this.scanStartInFlight go on.
StartSettles ==
  /\ starting
  /\ starting' = FALSE
  /\ start' = [s \in Sessions |-> IF start[s] = "native" THEN "idle" ELSE start[s]]

NativeStarted ==
  /\ StartSettles
  /\ scanning' = TRUE
  /\ UNCHANGED <<coordinator, client, requesters, adapterReady, connect, starts, power, mishaps>>

\* The start is refused, or its callback does not come within the time limit
\* and is ignored from then on.
NativeFails ==
  /\ StartSettles
  /\ mishaps' = mishaps \cup {"startFailed"}
  /\ UNCHANGED <<coordinator, client, requesters, adapterReady, scanning, connect,
                 starts, power>>

AdapterNext == AdapterChange \/ NativeStarted \/ NativeFails

-----------------------------------------------------------------------------
(* What connect() does to the scan.                                        *)

\* connect() is turned down before it touches the scan: Reticulum has the
\* lease, the device is another stack's (the registry is not modelled) or the
\* adapter is off.  The finally block restarts a scan that is wanted.
ConnectRefused ==
  /\ connect.pc = "off"
  /\ starting' = (starting \/ Missing(requesters, scanning))
  /\ UNCHANGED <<coordinator, client, requesters, adapterReady, scanning, start,
                 connect, starts, power, mishaps>>

\* assertCanConnect() passes; macOS cannot scan and connect at once.
ConnectBegins(s) ==
  /\ connect.pc = "off"
  /\ scanOwner # "reticulum" /\ adapterReady
  /\ connect' = [pc |-> "prepare", session |-> s, own |-> FALSE]
  /\ scanning' = (scanning /\ ~Darwin)
  /\ UNCHANGED <<coordinator, client, requesters, adapterReady, starting, start,
                 starts, power, mishaps>>

\* waitForPeripheralDuringScan(): the peripheral is not in the cache, or was
\* dropped from it as stale.  The session scans for it without the lease.
ConnectSeeks ==
  /\ connect.pc \in {"prepare", "stale"}
  /\ connect' = [connect EXCEPT !.pc = IF @ = "prepare" THEN "seek" ELSE "reseek",
                                !.own = connect.session \notin requesters]
  /\ requesters' = requesters \cup {connect.session}
  /\ DoStart
  /\ UNCHANGED <<coordinator, client, adapterReady, scanning, start, starts, power, mishaps>>

\* A scan that is on is stopped, and scanStop awaited, before the link opens.
StopThenOpen(on) ==
  /\ connect' = [connect EXCEPT !.pc = IF on THEN "stopWait" ELSE "open"]
  /\ scanning' = FALSE

\* connect() gives up, by way of its finally block.
ConnectGivesUp(wanted, on, pending) ==
  /\ connect' = NoConnect
  /\ scanning' = on
  /\ starting' = (pending \/ Missing(wanted, on))

\* connect() with a peripheral in hand: assertCanConnect() again, which may
\* turn it down; a stale link is dropped first.
ConnectProceeds(wanted, on, pending) ==
  \/ ConnectGivesUp(wanted, on, pending)
  \/ /\ scanOwner # "reticulum"
     /\ starting' = pending
     /\ \/ StopThenOpen(on)
        \/ connect' = [connect EXCEPT !.pc = "stale"] /\ scanning' = on

\* The peripheral is in the cache.
ConnectKnows ==
  /\ connect.pc = "prepare"
  /\ ConnectProceeds(requesters, scanning, starting)
  /\ UNCHANGED <<coordinator, client, requesters, adapterReady, start, starts, power, mishaps>>

\* The stale link is gone without another scan.
StaleDropped ==
  /\ connect.pc = "stale"
  /\ StopThenOpen(scanning)
  /\ UNCHANGED <<coordinator, client, requesters, adapterReady, starting, start,
                 starts, power, mishaps>>

\* The seek is over: drop its interest, stop the scan if it was the last one.
SeekEnds(found) ==
  /\ connect.pc \in {"seek", "reseek"}
  /\ requesters' = IF connect.own THEN requesters \ {connect.session} ELSE requesters
  /\ LET on == scanning /\ ~(connect.own /\ requesters' = {})
         pending == starting \/ (connect.own /\ requesters' # {} /\ ~scanning)
     IN  \/ found /\ connect.pc = "seek" /\ ConnectProceeds(requesters', on, pending)
         \/ found /\ connect.pc = "reseek" /\ StopThenOpen(on) /\ starting' = pending
         \/ ~found /\ ConnectGivesUp(requesters', on, pending)
  /\ UNCHANGED <<coordinator, client, adapterReady, start, starts, power, mishaps>>

\* The native library reports scanStop; nothing bounds this wait.
ScanStopped ==
  /\ connect.pc = "stopWait"
  /\ connect' = [connect EXCEPT !.pc = "open"]
  /\ UNCHANGED <<coordinator, client, noble, start, starts, power, mishaps>>

\* The link is up, or the connect failed: the finally block of connect().
ConnectEnds ==
  /\ connect.pc = "open"
  /\ connect' = NoConnect
  /\ starting' = (starting \/ Missing(requesters, scanning))
  /\ UNCHANGED <<coordinator, client, requesters, adapterReady, scanning, start,
                 starts, power, mishaps>>

ConnectNext ==
  \/ \E s \in Sessions : ConnectBegins(s)
  \/ ConnectRefused \/ ConnectSeeks \/ ConnectKnows \/ StaleDropped
  \/ ScanStopped \/ ConnectEnds
  \/ \E found \in BOOLEAN : SeekEnds(found)

Next == ClientNext \/ SessionNext \/ AdapterNext \/ ConnectNext

Spec == Init /\ [][Next]_vars

\* Clients give the lease back, promises settle and timers fire.  Whether
\* scanStop is ever reported is up to the native library.
Fairness ==
  /\ \A c \in Clients : WF_vars(AcquireDone(c)) /\ WF_vars(Release(c))
  /\ WF_vars(NativeStarted)
  /\ WF_vars(ConnectSeeks \/ ConnectKnows \/ StaleDropped)
  /\ WF_vars(\E found \in BOOLEAN : SeekEnds(found))
  /\ WF_vars(ConnectEnds)

FairSpec == Spec /\ Fairness

-----------------------------------------------------------------------------
(* Properties.                                                             *)

Holders == {c \in Clients : client[c] = "held"}

\* Nested acquires count: while clients hold the lease it is Reticulum's, as
\* many deep as there are holders, and it is given up by the last of them and
\* no earlier (acquireScan(), releaseScan()), unless somebody released what he
\* did not hold.
LeaseCounted ==
  "strayRelease" \notin mishaps =>
    IF Holders = {} THEN scanOwner # "reticulum"
    ELSE scanOwner = "reticulum" /\ scanDepth = Cardinality(Holders)

\* The lease never passes from one stack to the other without being released
\* in between, although acquireScan() awaits Noble's pause before it takes it.
LeaseNotStolen ==
  [][scanOwner # "none" /\ scanOwner' # "none" => scanOwner' = scanOwner]_vars

\* A scan that a session wants and that Reticulum or a connect interrupted is
\* taken up again, unless it is no longer wanted, the adapter goes off,
\* Reticulum has the lease, a connect waits for a scanStop, or a native start
\* failed, which nobody repeats.
ScanResumes ==
  (requesters # {} /\ adapterReady) ~>
    \/ scanning \/ requesters = {} \/ ~adapterReady
    \/ scanOwner = "reticulum" \/ connect.pc = "stopWait"
    \/ "startFailed" \in mishaps

\* "Only active scans are serialized" (docs/reticulum.md): Noble has the lease
\* only while a session scans or is about to.
NoIdleLease ==
  requesters = {} /\ (\A s \in Sessions : start[s] = "idle") => scanOwner # "noble"

-----------------------------------------------------------------------------
(* The inductive invariant behind the safety properties.                   *)

\* scanAcquireInFlight is the acquire of the one client that is pausing Noble,
\* and while it is set nobody has the lease.
InFlightIsPausing ==
  /\ \A c \in Clients : client[c] = "pausing" <=> acquiring = c
  /\ acquiring # Nobody => scanOwner = "none"

IInv == TypeOK /\ InFlightIsPausing /\ LeaseCounted
=============================================================================
