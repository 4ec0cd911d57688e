------------------------- MODULE BleScanLeaseProofs -------------------------
(***************************************************************************)
(* Proofs about BleScanLease, for any finite set of clients and any        *)
(* sessions.                                                               *)
(***************************************************************************)
EXTENDS BleScanLease, FiniteSetTheorems, TLAPS

\* What a release by Reticulum does keeps the types of the fields.
LEMMA ReleaseType ==
  ASSUME TypeOK, ReleaseReticulum
  PROVE  /\ scanOwner' \in Owners /\ scanDepth' \in Nat
         /\ scanOwner' = "none" <=> scanDepth' = 0
         /\ scanPaused' \in BOOLEAN /\ starting' \in BOOLEAN
<1>1. scanPaused' \in BOOLEAN /\ starting' \in BOOLEAN
  BY Zenon DEF ReleaseReticulum, TypeOK
<1>2. /\ scanOwner' \in Owners /\ scanDepth' \in Nat
      /\ scanOwner' = "none" <=> scanDepth' = 0
  BY DEF ReleaseReticulum, TypeOK, Owners
<1> QED BY <1>1, <1>2

\* What an acquire for Noble does keeps the types of the fields.
LEMMA AcquireNobleType ==
  ASSUME TypeOK, NEW s \in Sessions, AcquireNoble(s)
  PROVE  /\ scanOwner' \in Owners /\ scanDepth' \in Nat
         /\ scanOwner' = "none" <=> scanDepth' = 0
         /\ start' \in [Sessions -> StartState]
  BY DEF AcquireNoble, TypeOK, Owners, StartState

\* A step of a Reticulum client keeps every variable in its type.
LEMMA ClientType == TypeOK /\ ClientNext => TypeOK'
<1> SUFFICES ASSUME TypeOK, ClientNext PROVE TypeOK'
  OBVIOUS
<1>1. ASSUME NEW c \in Clients, Acquire(c) PROVE TypeOK'
  <2>1. client' \in [Clients -> ClientState]
    BY <1>1 DEF Acquire, TypeOK, ClientState
  <2>2. scanDepth' \in Nat /\ (scanOwner' = "none" <=> scanDepth' = 0)
    BY <1>1 DEF Acquire, TypeOK
  <2>3. acquiring' \in Clients \cup {Nobody} /\ scanning' \in BOOLEAN
    BY <1>1, Zenon DEF Acquire, TypeOK
  <2> QED BY <1>1, <2>1, <2>2, <2>3 DEF Acquire, TypeOK
<1>2. ASSUME NEW c \in Clients, AcquireDone(c) PROVE TypeOK'
  BY <1>2 DEF AcquireDone, noble, TypeOK, ClientState, Owners
<1>3. ASSUME NEW c \in Clients, Release(c) PROVE TypeOK'
  <2>1. client' \in [Clients -> ClientState] /\ ReleaseReticulum
    BY <1>3 DEF Release, TypeOK, ClientState
  <2> QED BY <1>3, <2>1, ReleaseType DEF Release, TypeOK
<1>4. CASE StrayRelease
  <2>1. ReleaseReticulum
    BY <1>4 DEF StrayRelease
  <2> QED BY <1>4, <2>1, ReleaseType DEF StrayRelease, TypeOK, Mishaps
<1> QED BY <1>1, <1>2, <1>3, <1>4 DEF ClientNext

\* A step of startScanning() or stopScanning() keeps every variable in its
\* type.
LEMMA SessionType == TypeOK /\ SessionNext => TypeOK'
<1> SUFFICES ASSUME TypeOK, NEW s \in Sessions,
                    \/ StartScanning(s) \/ RetryStart(s) \/ MapRefreshed(s)
                    \/ AdapterWaitOver(s) \/ StopScanning(s)
             PROVE  TypeOK'
  BY DEF SessionNext
<1>1. CASE StartScanning(s)
  <2>1. starts' \in 0..MaxStarts
    BY <1>1, BoundAssumption DEF StartScanning, TypeOK
  <2> QED BY <1>1, <2>1, AcquireNobleType DEF StartScanning, noble, TypeOK
<1>2. CASE RetryStart(s)
  BY <1>2, AcquireNobleType DEF RetryStart, noble, TypeOK
<1>3. CASE MapRefreshed(s)
  BY <1>3 DEF MapRefreshed, StartNative, DoStart, coordinator, TypeOK, StartState
<1>4. CASE AdapterWaitOver(s)
  BY <1>4 DEF AdapterWaitOver, StartNative, DoStart, coordinator, TypeOK, StartState
<1>5. CASE StopScanning(s)
  <2>1. /\ scanOwner' \in Owners /\ scanDepth' \in Nat
        /\ scanOwner' = "none" <=> scanDepth' = 0
    BY <1>5 DEF StopScanning, ReleaseNoble, TypeOK, Owners
  <2>2. starting' \in BOOLEAN /\ scanning' \in BOOLEAN /\ requesters' \subseteq Sessions
    BY <1>5 DEF StopScanning, DoStart, TypeOK
  <2> QED BY <1>5, <2>1, <2>2 DEF StopScanning, TypeOK
<1> QED BY <1>1, <1>2, <1>3, <1>4, <1>5

\* A step of the adapter or of the native library keeps every variable in its
\* type.
LEMMA AdapterType == TypeOK /\ AdapterNext => TypeOK'
<1> SUFFICES ASSUME TypeOK, AdapterNext PROVE TypeOK'
  OBVIOUS
<1>1. CASE AdapterChange
  <2>1. power' \in 0..MaxPowerCycles
    BY <1>1, BoundAssumption DEF AdapterChange, TypeOK
  <2>2. starting' \in BOOLEAN /\ adapterReady' \in BOOLEAN
    BY <1>1, Zenon DEF AdapterChange, TypeOK
  <2> QED BY <1>1, <2>1, <2>2 DEF AdapterChange, coordinator, TypeOK
<1>2. CASE NativeStarted
  BY <1>2 DEF NativeStarted, StartSettles, coordinator, TypeOK, StartState
<1>3. CASE NativeFails
  BY <1>3 DEF NativeFails, StartSettles, coordinator, TypeOK, StartState, Mishaps
<1> QED BY <1>1, <1>2, <1>3 DEF AdapterNext

\* What connect() does once it has a peripheral keeps the types.
LEMMA ProceedsType ==
  ASSUME TypeOK, NEW wanted, NEW on \in BOOLEAN, NEW pending \in BOOLEAN,
         connect.pc # "off",
         \/ ConnectProceeds(wanted, on, pending)
         \/ StopThenOpen(on) /\ starting' = pending
         \/ ConnectGivesUp(wanted, on, pending)
  PROVE  /\ connect' \in Connect /\ (connect'.pc # "off" => connect'.session \in Sessions)
         /\ scanning' \in BOOLEAN /\ starting' \in BOOLEAN
<1>1. CASE ConnectGivesUp(wanted, on, pending)
  <2>1. scanning' \in BOOLEAN /\ starting' \in BOOLEAN
    BY <1>1, Zenon DEF ConnectGivesUp
  <2>2. connect' \in Connect /\ connect'.pc = "off"
    BY <1>1 DEF ConnectGivesUp, NoConnect, Connect, ConnectPc
  <2> QED BY <2>1, <2>2
<1>2. CASE StopThenOpen(on) /\ starting' = pending
  BY <1>2 DEF StopThenOpen, TypeOK, Connect, ConnectPc
<1>3. CASE /\ connect' = [connect EXCEPT !.pc = "stale"]
           /\ scanning' = on /\ starting' = pending
  BY <1>3 DEF TypeOK, Connect, ConnectPc
<1> QED BY <1>1, <1>2, <1>3 DEF ConnectProceeds

\* A step of connect() keeps every variable in its type.
LEMMA ConnectType == TypeOK /\ ConnectNext => TypeOK'
<1> SUFFICES ASSUME TypeOK, ConnectNext PROVE TypeOK'
  OBVIOUS
<1>1. ASSUME NEW s \in Sessions, ConnectBegins(s) PROVE TypeOK'
  <2>1. scanning' \in BOOLEAN
    BY <1>1, Zenon DEF ConnectBegins, TypeOK
  <2>2. connect' \in Connect /\ connect'.session \in Sessions
    BY <1>1 DEF ConnectBegins, Connect, ConnectPc
  <2> QED BY <1>1, <2>1, <2>2 DEF ConnectBegins, coordinator, TypeOK
<1>2. CASE ConnectRefused
  <2>1. starting' \in BOOLEAN
    BY <1>2, Zenon DEF ConnectRefused, TypeOK
  <2> QED BY <1>2, <2>1 DEF ConnectRefused, coordinator, TypeOK
<1>3. CASE ConnectSeeks
  <2>1. connect' \in Connect /\ connect'.session \in Sessions
    BY <1>3 DEF ConnectSeeks, TypeOK, Connect, ConnectPc
  <2> QED BY <1>3, <2>1 DEF ConnectSeeks, DoStart, coordinator, TypeOK
<1>4. CASE ConnectKnows
  <2>1. /\ connect' \in Connect /\ (connect'.pc # "off" => connect'.session \in Sessions)
        /\ scanning' \in BOOLEAN /\ starting' \in BOOLEAN
    BY <1>4, ProceedsType DEF ConnectKnows, TypeOK
  <2> QED BY <1>4, <2>1 DEF ConnectKnows, coordinator, TypeOK
<1>5. CASE StaleDropped
  <2>1. /\ connect' \in Connect /\ (connect'.pc # "off" => connect'.session \in Sessions)
        /\ scanning' \in BOOLEAN /\ starting' \in BOOLEAN
    BY <1>5, ProceedsType DEF StaleDropped, TypeOK
  <2> QED BY <1>5, <2>1 DEF StaleDropped, coordinator, TypeOK
<1>6. CASE ScanStopped
  BY <1>6 DEF ScanStopped, coordinator, noble, TypeOK, Connect, ConnectPc
<1>7. CASE ConnectEnds
  <2>1. starting' \in BOOLEAN
    BY <1>7, Zenon DEF ConnectEnds, TypeOK
  <2>2. connect' \in Connect /\ connect'.pc = "off"
    BY <1>7 DEF ConnectEnds, NoConnect, Connect, ConnectPc
  <2> QED BY <1>7, <2>1, <2>2 DEF ConnectEnds, coordinator, TypeOK
<1>8. ASSUME NEW found \in BOOLEAN, SeekEnds(found) PROVE TypeOK'
  <2> DEFINE on == scanning /\ ~(connect.own /\ requesters' = {})
             pending == starting \/ (connect.own /\ requesters' # {} /\ ~scanning)
  <2>1. on \in BOOLEAN /\ pending \in BOOLEAN /\ connect.pc # "off"
    BY <1>8 DEF SeekEnds, TypeOK
  <2>2. \/ ConnectProceeds(requesters', on, pending)
        \/ StopThenOpen(on) /\ starting' = pending
        \/ ConnectGivesUp(requesters', on, pending)
    BY <1>8 DEF SeekEnds
  <2>3. /\ connect' \in Connect /\ (connect'.pc # "off" => connect'.session \in Sessions)
        /\ scanning' \in BOOLEAN /\ starting' \in BOOLEAN
    <3> HIDE DEF on, pending
    <3> QED BY <2>1, <2>2, ProceedsType
  <2>4. requesters' \subseteq Sessions
    BY <1>8 DEF SeekEnds, TypeOK
  <2> QED BY <1>8, <2>3, <2>4 DEF SeekEnds, coordinator, TypeOK
<1> QED BY <1>1, <1>2, <1>3, <1>4, <1>5, <1>6, <1>7, <1>8 DEF ConnectNext

\* The initial state has the types.
LEMMA InitType == Init => TypeOK
<1> SUFFICES ASSUME Init PROVE TypeOK
  OBVIOUS
<1>1. NoConnect \in Connect /\ NoConnect.pc = "off"
  BY DEF NoConnect, Connect, ConnectPc
<1>2. 0 \in 0..MaxStarts /\ 0 \in 0..MaxPowerCycles
  BY BoundAssumption
<1>3. /\ scanOwner \in Owners /\ scanDepth \in Nat
      /\ scanOwner = "none" <=> scanDepth = 0
      /\ acquiring \in Clients \cup {Nobody}
  BY DEF Init, Owners
<1>4. /\ client \in [Clients -> ClientState] /\ start \in [Sessions -> StartState]
      /\ requesters \subseteq Sessions
      /\ connect \in Connect /\ connect.pc = "off"
  BY <1>1 DEF Init, ClientState, StartState
<1>5. {scanPaused, adapterReady, scanning, starting} \subseteq BOOLEAN
  BY DEF Init
<1> QED BY <1>2, <1>3, <1>4, <1>5 DEF Init, TypeOK

\* Every step keeps them.
LEMMA TypeStep == TypeOK /\ [Next]_vars => TypeOK'
<1>1. TypeOK /\ UNCHANGED vars => TypeOK'
  BY DEF vars, TypeOK
<1> QED BY <1>1, ClientType, SessionType, AdapterType, ConnectType DEF Next

\* Every variable keeps its type, whatever the clients, the sessions, the
\* adapter and connect() do (BleCoexistenceCoordinator, NobleBleManager).
THEOREM TypeCorrect == Spec => []TypeOK
  BY InitType, TypeStep, PTL DEF Spec

-----------------------------------------------------------------------------
(* Who has the lease.                                                      *)

\* The steps that leave the lease and the clients alone.
LeaseUntouched == UNCHANGED <<scanOwner, scanDepth, acquiring, client>>

\* Every step is one of a client, of a session that acquires or releases, or
\* leaves the lease and the clients alone.
LEMMA LeaseSteps ==
  ASSUME [Next]_vars
  PROVE  \/ ClientNext
         \/ \E s \in Sessions : AcquireNoble(s) /\ UNCHANGED <<acquiring, client>>
         \/ ReleaseNoble /\ UNCHANGED <<acquiring, client>>
         \/ LeaseUntouched
<1>1. CASE SessionNext
  BY <1>1
  DEF SessionNext, StartScanning, RetryStart, MapRefreshed, AdapterWaitOver,
      StopScanning, coordinator, LeaseUntouched
<1>2. CASE AdapterNext
  BY <1>2 DEF AdapterNext, AdapterChange, NativeStarted, NativeFails, coordinator,
              LeaseUntouched
<1>3. CASE ConnectNext
  BY <1>3
  DEF ConnectNext, ConnectBegins, ConnectRefused, ConnectSeeks, ConnectKnows,
      StaleDropped, ScanStopped, ConnectEnds, SeekEnds, coordinator, LeaseUntouched
<1>4. CASE UNCHANGED vars
  BY <1>4 DEF vars, LeaseUntouched
<1> QED BY <1>1, <1>2, <1>3, <1>4 DEF Next

\* Nobody has the lease while an acquire is in flight, and the acquire in
\* flight is that of the client that is pausing Noble.
LEMMA InFlightStep == TypeOK /\ InFlightIsPausing /\ [Next]_vars => InFlightIsPausing'
<1> SUFFICES ASSUME TypeOK, InFlightIsPausing, [Next]_vars
             PROVE  InFlightIsPausing'
  OBVIOUS
<1> USE DEF InFlightIsPausing
<1>1. ASSUME NEW c \in Clients, Acquire(c) PROVE InFlightIsPausing'
  BY <1>1, ClientsAssumption DEF Acquire, TypeOK, ClientState
<1>2. ASSUME NEW c \in Clients, AcquireDone(c) PROVE InFlightIsPausing'
  BY <1>2, ClientsAssumption DEF AcquireDone, TypeOK, ClientState
<1>3. ASSUME NEW c \in Clients, Release(c) PROVE InFlightIsPausing'
  BY <1>3 DEF Release, ReleaseReticulum, TypeOK, ClientState
<1>4. CASE StrayRelease
  BY <1>4 DEF StrayRelease, ReleaseReticulum
<1>5. ASSUME NEW s \in Sessions, AcquireNoble(s), UNCHANGED <<acquiring, client>>
      PROVE  InFlightIsPausing'
  BY <1>5 DEF AcquireNoble
<1>6. CASE ReleaseNoble /\ UNCHANGED <<acquiring, client>>
  BY <1>6 DEF ReleaseNoble
<1>7. CASE LeaseUntouched
  BY <1>7 DEF LeaseUntouched
<1> QED BY <1>1, <1>2, <1>3, <1>4, <1>5, <1>6, <1>7, LeaseSteps DEF ClientNext

\* The lease never passes from one stack to the other without a release in
\* between: acquireScan() takes it only when nobody has it, and nobody gets it
\* while the pause of Noble is awaited.
THEOREM NotStolen == Spec => LeaseNotStolen
<1>1. Init => InFlightIsPausing
  BY ClientsAssumption DEF Init, InFlightIsPausing
<1>2. TypeOK /\ InFlightIsPausing /\ [Next]_vars
        => [scanOwner # "none" /\ scanOwner' # "none" => scanOwner' = scanOwner]_vars
  <2> SUFFICES ASSUME TypeOK, InFlightIsPausing, [Next]_vars,
                      scanOwner # "none", scanOwner' # "none"
               PROVE  scanOwner' = scanOwner
    OBVIOUS
  <2>1. CASE ClientNext
    <3>1. ASSUME ReleaseReticulum PROVE scanOwner' = scanOwner
      BY <3>1 DEF ReleaseReticulum
    <3>2. ASSUME NEW c \in Clients, AcquireDone(c) PROVE FALSE
      BY <3>2, ClientsAssumption DEF AcquireDone, InFlightIsPausing
    <3> QED BY <2>1, <3>1, <3>2 DEF ClientNext, Acquire, Release, StrayRelease
  <2>2. ASSUME NEW s \in Sessions, AcquireNoble(s) PROVE scanOwner' = scanOwner
    BY <2>2 DEF AcquireNoble, TypeOK, Owners
  <2>3. CASE ReleaseNoble
    BY <2>3 DEF ReleaseNoble
  <2>4. CASE LeaseUntouched
    BY <2>4 DEF LeaseUntouched
  <2> QED BY <2>1, <2>2, <2>3, <2>4, LeaseSteps
<1> QED BY <1>1, <1>2, InFlightStep, TypeCorrect, PTL DEF Spec, LeaseNotStolen

\* The holders are finitely many; one more or one less counts as one.
LEMMA HoldersCount ==
  ASSUME TypeOK
  PROVE  /\ IsFiniteSet(Holders) /\ Cardinality(Holders) \in Nat
         /\ Cardinality(Holders) = 0 <=> Holders = {}
         /\ \A c \in Clients \ Holders :
              Cardinality(Holders \cup {c}) = Cardinality(Holders) + 1
         /\ \A c \in Holders : Cardinality(Holders \ {c}) = Cardinality(Holders) - 1
<1>1. IsFiniteSet(Holders)
  BY FS_Subset, ClientsAssumption DEF Holders
<1> QED BY <1>1, FS_CardinalityType, FS_EmptySet, FS_AddElement, FS_RemoveElement

\* An acquire adds its client to the holders, a release takes it out.
LEMMA HoldersMove ==
  ASSUME TypeOK, NEW c \in Clients, NEW st,
         client' = [client EXCEPT ![c] = st]
  PROVE  Holders' = IF st = "held" THEN Holders \cup {c} ELSE Holders \ {c}
  BY DEF TypeOK, Holders

\* A release of a lease not held is remembered.
LEMMA MishapsStay == [Next]_vars => mishaps \subseteq mishaps'
<1>1. ClientNext => mishaps \subseteq mishaps'
  BY DEF ClientNext, Acquire, AcquireDone, Release, StrayRelease
<1>2. SessionNext => mishaps \subseteq mishaps'
  BY DEF SessionNext, StartScanning, RetryStart, MapRefreshed, AdapterWaitOver,
         StopScanning
<1>3. AdapterNext => mishaps \subseteq mishaps'
  BY DEF AdapterNext, AdapterChange, NativeStarted, NativeFails
<1>4. ConnectNext => mishaps \subseteq mishaps'
  BY DEF ConnectNext, ConnectBegins, ConnectRefused, ConnectSeeks, ConnectKnows,
         StaleDropped, ScanStopped, ConnectEnds, SeekEnds
<1>5. UNCHANGED vars => mishaps \subseteq mishaps'
  BY DEF vars
<1> QED BY <1>1, <1>2, <1>3, <1>4, <1>5 DEF Next

\* The lease stays Reticulum's, as many deep as it has holders.
LEMMA CountStep == IInv /\ [Next]_vars => LeaseCounted'
<1> SUFFICES ASSUME TypeOK, InFlightIsPausing, LeaseCounted, [Next]_vars,
                    "strayRelease" \notin mishaps'
             PROVE  LeaseCounted'
  BY DEF IInv, LeaseCounted
<1>0. "strayRelease" \notin mishaps
  BY MishapsStay
<1>1. ASSUME NEW c \in Clients, Acquire(c) PROVE LeaseCounted'
  <2>1. CASE client'[c] = "held"
    <3>1. /\ scanOwner = "reticulum" /\ scanOwner' = "reticulum"
          /\ scanDepth' = scanDepth + 1
          /\ client' = [client EXCEPT ![c] = "held"] /\ c \notin Holders
      BY <1>1, <2>1 DEF Acquire, TypeOK, Holders
    <3>2. Holders' = Holders \cup {c}
      BY <3>1, HoldersMove
    <3> QED BY <1>0, <3>1, <3>2, HoldersCount DEF LeaseCounted
  <2>2. CASE client'[c] # "held"
    <3>1. scanOwner' = scanOwner /\ scanDepth' = scanDepth /\ Holders' = Holders
      BY <1>1, <2>2 DEF Acquire, TypeOK, Holders
    <3> QED BY <1>0, <3>1 DEF LeaseCounted
  <2> QED BY <2>1, <2>2
<1>2. ASSUME NEW c \in Clients, AcquireDone(c) PROVE LeaseCounted'
  <2>1. Holders = {} /\ c \notin Holders
    BY <1>0, <1>2, ClientsAssumption DEF AcquireDone, InFlightIsPausing, LeaseCounted
  <2>2. Holders' = Holders \cup {c} /\ scanOwner' = "reticulum" /\ scanDepth' = 1
    BY <1>2, HoldersMove DEF AcquireDone
  <2>3. Cardinality(Holders') = 1
    BY <2>1, <2>2, HoldersCount
  <2> QED BY <2>2, <2>3 DEF LeaseCounted
<1>3. ASSUME NEW c \in Clients, Release(c) PROVE LeaseCounted'
  <2>1. c \in Holders /\ scanOwner = "reticulum" /\ scanDepth = Cardinality(Holders)
    BY <1>0, <1>3 DEF Release, LeaseCounted, Holders
  <2>2. Holders' = Holders \ {c}
    <3>1. client' = [client EXCEPT ![c] = "idle"] /\ "idle" # "held"
      BY <1>3 DEF Release
    <3> QED BY <3>1, HoldersMove
  <2>3. Cardinality(Holders') = scanDepth - 1 /\ (Holders' = {} <=> scanDepth = 1)
    <3>1. IsFiniteSet(Holders')
      BY <2>2, HoldersCount, FS_RemoveElement
    <3> QED BY <3>1, <2>1, <2>2, HoldersCount, FS_EmptySet
  <2>4. CASE scanDepth <= 1
    <3>1. scanDepth = 1 /\ scanOwner' = "none"
      BY <1>3, <2>1, <2>4, HoldersCount DEF Release, ReleaseReticulum
    <3> QED BY <3>1, <2>3 DEF LeaseCounted
  <2>5. CASE scanDepth > 1
    <3>1. scanDepth' = scanDepth - 1 /\ scanOwner' = "reticulum"
      BY <1>3, <2>1, <2>5 DEF Release, ReleaseReticulum, TypeOK
    <3> QED BY <3>1, <2>3, <2>5 DEF LeaseCounted
  <2> QED BY <2>4, <2>5 DEF TypeOK
<1>4. CASE StrayRelease
  BY <1>4 DEF StrayRelease
<1>5. ASSUME NEW s \in Sessions, AcquireNoble(s), UNCHANGED <<acquiring, client>>
      PROVE  LeaseCounted'
  <2>1. Holders' = Holders
    BY <1>5 DEF Holders
  <2> QED BY <1>0, <1>5, <2>1 DEF AcquireNoble, LeaseCounted
<1>6. CASE ReleaseNoble /\ UNCHANGED <<acquiring, client>>
  <2>1. Holders' = Holders
    BY <1>6 DEF Holders
  <2> QED BY <1>0, <1>6, <2>1 DEF ReleaseNoble, LeaseCounted
<1>7. CASE LeaseUntouched
  BY <1>0, <1>7 DEF LeaseUntouched, LeaseCounted, Holders
<1> QED BY <1>1, <1>2, <1>3, <1>4, <1>5, <1>6, <1>7, LeaseSteps DEF ClientNext

\* Nested acquires count, for any number of clients that give back only what
\* they hold: a release drops the lease when it is the last one and no
\* earlier (acquireScan(), releaseScan()).
THEOREM Counted == Spec => []LeaseCounted
<1>1. Init => IInv
  <2>1. ASSUME Init PROVE Holders = {} /\ InFlightIsPausing
    BY <2>1, ClientsAssumption DEF Init, Holders, InFlightIsPausing
  <2>2. Init => TypeOK
    BY InitType
  <2> QED BY <2>1, <2>2 DEF IInv, LeaseCounted, Init
<1>2. IInv /\ [Next]_vars => IInv'
  BY CountStep, InFlightStep, TypeStep DEF IInv
<1>3. IInv => LeaseCounted
  BY DEF IInv
<1> QED BY <1>1, <1>2, <1>3, PTL DEF Spec
=============================================================================
