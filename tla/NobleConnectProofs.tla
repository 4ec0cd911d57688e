------------------------- MODULE NobleConnectProofs -------------------------
(***************************************************************************)
(* Proofs about NobleConnect, for any sets of calls, sessions and          *)
(* peripherals, whichever of these have an address.                        *)
(***************************************************************************)
EXTENDS NobleConnect, TLAPS

-----------------------------------------------------------------------------
(* Type correctness.                                                       *)

CallsOK ==
  /\ call \in [Calls -> CallState]
  /\ \A k \in Calls : call[k].pc # "idle" =>
                        call[k].session \in Sessions /\ call[k].device \in Devices

SessionsOK ==
  /\ sess \in [Sessions -> SessionState]
  /\ gattOpen \subseteq Calls
  /\ listening \subseteq Calls

CutsOK ==
  /\ cuts \subseteq CutState
  /\ \A c \in cuts : c.phase = "cut" => c.device \in Devices

OthersOK ==
  /\ slots \in Nat
  /\ known \subseteq Devices
  /\ link \in [Devices -> {"down", "opening", "up"}]
  /\ registry \in [Devices -> Sessions \cup {"reticulum", None}]
  /\ lease \in {"free", "suspending", "yielded"}

\* The type invariant in four groups, which the steps disturb separately.
LEMMA TypeGroups == TypeOK <=> CallsOK /\ SessionsOK /\ CutsOK /\ OthersOK
  BY DEF TypeOK, CallsOK, SessionsOK, CutsOK, OthersOK

\* Session k is moved to a stage of P, with nothing else about it changed but
\* what it awaits.
Moves(k, P) ==
  \E p \in P, o \in Calls \cup {None} : call' = [call EXCEPT ![k].pc = p, ![k].on = o]

\* A call that has been made stays well typed when it moves.
LEMMA MovesType ==
  ASSUME CallsOK, NEW k \in Calls, call[k].pc # "idle", Moves(k, Stages)
  PROVE  CallsOK'
<1>1. PICK p \in Stages, o \in Calls \cup {None} :
         call' = [call EXCEPT ![k].pc = p, ![k].on = o]
  BY DEF Moves
<1>2. call[k] \in CallState
  BY DEF CallsOK
<1>3. [call[k] EXCEPT !.pc = p, !.on = o] \in CallState
  BY <1>2 DEF CallState
<1>4. call' \in [Calls -> CallState]
  BY <1>1, <1>3 DEF CallsOK
<1>5. \A j \in Calls : call'[j].pc # "idle" =>
                         call'[j].session \in Sessions /\ call'[j].device \in Devices
  BY <1>1, <1>2 DEF CallsOK, CallState
<1> QED BY <1>4, <1>5 DEF CallsOK

\* Clearing sessions keeps the session table typed.
LEMMA WipedType ==
  ASSUME NEW t \in [Sessions -> SessionState], NEW S
  PROVE  Wiped(t, S) \in [Sessions -> SessionState]
<1>1. Cleared \in SessionState
  BY DEF Cleared, SessionState
<1> QED BY <1>1 DEF Wiped

\* The start of a disconnect() keeps sessions, cuts and registry typed.
LEMMA BeginDisconnectType ==
  ASSUME TypeOK, NEW t \in [Sessions -> SessionState], NEW S \in SUBSET Sessions,
         NEW by \in Calls \cup {"ipc", "yield"}, BeginDisconnect(t, S, by)
  PROVE  /\ SessionsOK' /\ CutsOK'
         /\ registry' \in [Devices -> Sessions \cup {"reticulum", None}]
<1> DEFINE A == {s \in S : Attached(s)}
           Cut(s) == [by |-> by, session |-> s, device |-> sess[s].conn,
                      handler |-> sess[s].handler,
                      phase |-> IF sess[s].chars THEN "unsub" ELSE "cut"]
<1>1. SessionsOK'
  BY WipedType DEF BeginDisconnect, SessionsOK, TypeOK, Settled
<1>2. registry' \in [Devices -> Sessions \cup {"reticulum", None}]
  BY DEF BeginDisconnect, TypeOK
<1>3. cuts' = cuts \cup {Cut(s) : s \in A}
  BY DEF BeginDisconnect
<1>4. ASSUME NEW s \in A
      PROVE  Cut(s) \in CutState /\ (Cut(s).phase = "cut" => Cut(s).device \in Devices)
  <2>1. sess[s] \in SessionState /\ Attached(s)
    BY DEF TypeOK
  <2>2. Cut(s) \in CutState
    BY <2>1 DEF CutState, SessionState
  <2>3. ~sess[s].chars => sess[s].conn \in Devices
    BY <2>1 DEF SessionState, Attached
  <2> QED BY <2>2, <2>3
<1>5. CutsOK'
  BY <1>3, <1>4 DEF TypeOK, CutsOK
<1> QED BY <1>1, <1>2, <1>5

\* The catch block without a peripheral keeps the sessions typed.
LEMMA ForgetType ==
  ASSUME TypeOK, NEW k \in Calls, NEW t \in [Sessions -> SessionState], Forget(k, t)
  PROVE  sess' \in [Sessions -> SessionState] /\ gattOpen' \subseteq Calls
  BY WipedType DEF Forget, Settled, TypeOK

\* The catch block with a peripheral in hand keeps the sessions typed.
LEMMA AbandonType ==
  ASSUME TypeOK, NEW k \in Calls, NEW t \in [Sessions -> SessionState], Abandon(k, t)
  PROVE  SessionsOK'
  BY ForgetType DEF Abandon, SessionsOK, TypeOK

\* Registering a listener keeps the types, and the call moves on to its link.
LEMMA ListenType ==
  ASSUME TypeOK, NEW k \in Calls, call[k].pc # "idle",
         NEW t \in [Sessions -> SessionState], Listen(k, t)
  PROVE  /\ sess' \in [Sessions -> SessionState] /\ listening' \subseteq Calls
         /\ link' \in [Devices -> {"down", "opening", "up"}]
         /\ Moves(k, {"stopScan", "linking"})
<1>1. sess' \in [Sessions -> SessionState]
  <2>1. call[k].session \in Sessions
    BY DEF TypeOK
  <2>2. [t[call[k].session] EXCEPT !.handler = k] \in SessionState
    BY <2>1 DEF SessionState
  <2> QED BY <2>1, <2>2 DEF Listen
<1>2. link' \in [Devices -> {"down", "opening", "up"}]
  BY DEF Listen, TypeOK
<1>3. Moves(k, {"stopScan", "linking"})
  BY DEF Listen, Goto, Moves
<1> QED BY <1>1, <1>2, <1>3 DEF Listen, TypeOK

\* connect() with the peripheral in hand keeps the types and moves the call.
LEMMA ProceedType ==
  ASSUME TypeOK, NEW k \in Calls, call[k].pc # "idle",
         NEW t \in [Sessions -> SessionState], Proceed(k, t)
  PROVE  /\ SessionsOK' /\ CutsOK'
         /\ registry' \in [Devices -> Sessions \cup {"reticulum", None}]
         /\ link' \in [Devices -> {"down", "opening", "up"}]
         /\ Moves(k, {"done", "stopScan", "linking", "takeover", "stale"})
<1> DEFINE s == call[k].session
           d == call[k].device
           others == {o \in Sessions \ {s} : sess[o].conn = d}
           R == registry' \in [Devices -> Sessions \cup {"reticulum", None}]
           L == link' \in [Devices -> {"down", "opening", "up"}]
           M == Moves(k, {"done", "stopScan", "linking", "takeover", "stale"})
<1>1. CASE /\ Abandon(k, t) /\ Goto(k, "done")
           /\ UNCHANGED <<cuts, link, registry>>
  <2>1. SessionsOK'
    BY <1>1, AbandonType
  <2>2. M
    BY <1>1 DEF Goto, Moves
  <2> QED BY <1>1, <2>1, <2>2 DEF TypeOK, CutsOK
<1>2. CASE Listen(k, t) /\ UNCHANGED <<gattOpen, cuts, registry>>
  <2>1. /\ sess' \in [Sessions -> SessionState] /\ listening' \subseteq Calls /\ L
        /\ Moves(k, {"stopScan", "linking"})
    BY <1>2, ListenType
  <2>2. M
    BY <2>1 DEF Moves
  <2> QED BY <1>2, <2>1, <2>2 DEF TypeOK, CutsOK, SessionsOK
<1>3. CASE /\ \E o \in others : BeginDisconnect(t, {o}, k)
           /\ Goto(k, "takeover") /\ UNCHANGED link
  <2>1. SessionsOK' /\ CutsOK' /\ R
    BY <1>3, BeginDisconnectType
  <2>2. M
    BY <1>3 DEF Goto, Moves
  <2> QED BY <1>3, <2>1, <2>2 DEF TypeOK
<1>4. CASE /\ sess' = t /\ Goto(k, "stale")
           /\ UNCHANGED <<gattOpen, listening, cuts, link, registry>>
  <2>1. M
    BY <1>4 DEF Goto, Moves
  <2> QED BY <1>4, <2>1 DEF TypeOK, CutsOK, SessionsOK
<1> QED BY <1>1, <1>2, <1>3, <1>4 DEF Proceed

\* A new connect() and one whose wait for a setup is over keep the types.
LEMMA ArrivalType ==
  ASSUME TypeOK, NEW k \in Calls,
         \/ \E s \in Sessions, d \in Devices : Connect(k, s, d)
         \/ Coalesced(k)
  PROVE  TypeOK'
<1>1. call[k] \in CallState /\ slots \in Nat
  BY DEF TypeOK
<1>2. ASSUME NEW s \in Sessions, NEW d \in Devices, Connect(k, s, d)
      PROVE  CallsOK' /\ slots' \in Nat
  <2> DEFINE asked == [call[k] EXCEPT !.session = s, !.device = d]
  <2>1. sess[s].gatt \in Calls \cup {None}
    BY DEF TypeOK, SessionState
  <2>2. PICK c \in CallState : /\ c.session = s /\ c.device = d
                               /\ call' = [call EXCEPT ![k] = c]
    <3>1. CASE call' = [call EXCEPT ![k] = [asked EXCEPT !.pc = "done"]]
      <4>1. [asked EXCEPT !.pc = "done"] \in CallState
        BY <1>1 DEF CallState, Stages, Finished
      <4> QED BY <3>1, <4>1, <1>1 DEF CallState
    <3>2. CASE call' = [call EXCEPT ![k] = [asked EXCEPT !.pc = "coalesce",
                                                        !.on = sess[s].gatt]]
      <4>1. [asked EXCEPT !.pc = "coalesce", !.on = sess[s].gatt] \in CallState
        BY <1>1, <2>1 DEF CallState, Stages, Waiting
      <4> QED BY <3>2, <4>1, <1>1 DEF CallState
    <3>3. CASE Enqueue(k, asked)
      <4>1. slots' \in Nat
        BY <1>1, <3>3 DEF Enqueue
      <4>2. [asked EXCEPT !.pc = "queued", !.slot = slots', !.on = None] \in CallState
        BY <1>1, <4>1 DEF CallState, Stages, Waiting
      <4> QED BY <3>3, <4>2, <1>1 DEF CallState, Enqueue
    <3> QED BY <1>2, <3>1, <3>2, <3>3 DEF Connect
  <2>3. slots' \in Nat
    <3>1. slots' = slots \/ slots' = slots + 1
      BY <1>2, Zenon DEF Connect, Enqueue
    <3> QED BY <1>1, <3>1
  <2>4. call' \in [Calls -> CallState]
    BY <2>2 DEF TypeOK
  <2> QED BY <2>2, <2>3, <2>4 DEF TypeOK, CallsOK
<1>3. ASSUME Coalesced(k) PROVE CallsOK' /\ slots' \in Nat
  <2>1. CASE Goto(k, "done") /\ UNCHANGED slots
    <3>1. Moves(k, Stages) /\ call[k].pc # "idle"
      BY <1>3, <2>1 DEF Coalesced, Goto, Moves, Stages, Finished
    <3> QED BY <1>1, <2>1, <3>1, MovesType, TypeGroups
  <2>2. CASE Enqueue(k, call[k])
    <3>0. slots' \in Nat
      BY <1>1, <2>2 DEF Enqueue
    <3>1. [call[k] EXCEPT !.pc = "queued", !.slot = slots', !.on = None] \in CallState
      BY <1>1, <3>0 DEF CallState, Stages, Waiting
    <3>2. call' \in [Calls -> CallState] /\ slots' \in Nat
      BY <2>2, <3>0, <3>1 DEF TypeOK, Enqueue
    <3>3. call[k].session \in Sessions /\ call[k].device \in Devices
      BY <1>3 DEF TypeOK, Coalesced
    <3> QED BY <2>2, <3>2, <3>3, <1>1 DEF TypeOK, CallsOK, Enqueue, CallState
  <2> QED BY <1>3, <2>1, <2>2 DEF Coalesced
<1>4. UNCHANGED <<sess, gattOpen, listening, known, cuts, link, registry, lease>>
  BY DEF Connect, Coalesced
<1> QED BY <1>2, <1>3, <1>4 DEF TypeOK, CallsOK

\* A call whose turn has come, or that has had it, moves on towards its end and
\* gives out no slot.
CallGoesOn(k) ==
  /\ \/ call[k].pc = "queued" /\ SlotFree(k)
     \/ call[k].pc \in Holding
  /\ Moves(k, Holding \cup {"done"})
  /\ slots' = slots

\* Every step of connect() but the first and that of a coalesced wait is such a
\* move, and keeps the types.
LEMMA GoesOn ==
  ASSUME TypeOK, NEW k \in Calls, CallNext(k), ~Coalesced(k)
  PROVE  CallGoesOn(k) /\ SessionsOK' /\ CutsOK' /\ OthersOK'
<1> DEFINE R == registry' \in [Devices -> Sessions \cup {"reticulum", None}]
           L == link' \in [Devices -> {"down", "opening", "up"}]
           D == call[k].device
<1> USE DEF CallGoesOn
<1>1. Holding = {"unlink", "seek", "takeover", "stale", "reseek", "stopScan", "linking",
                 "unlinkFailed", "failing", "recoalesce"} \cup InSetup
  BY DEF Holding, Stages, Waiting, InSetup, Finished
<1>2. call[k] \in CallState /\ (call[k].pc # "idle" => call[k].session \in Sessions /\ D \in Devices)
  BY DEF TypeOK
<1>3. SessionsOK /\ CutsOK /\ OthersOK
  BY TypeGroups
<1>0. sess \in [Sessions -> SessionState]
  BY DEF TypeOK
<1>4. CASE Refused(k)
  <2>1. Moves(k, Holding \cup {"done"})
    BY <1>4 DEF Refused, Goto, Moves
  <2>2. sess' \in [Sessions -> SessionState] /\ gattOpen' \subseteq Calls
    BY <1>4, ForgetType DEF Refused, TypeOK
  <2> QED BY <1>3, <1>4, <2>1, <2>2 DEF Refused, SessionsOK, CutsOK, OthersOK
<1>5. ASSUME TearDown(k), UNCHANGED <<slots, known, link, lease>>, call[k].pc # "idle"
      PROVE  Moves(k, Holding \cup {"done"}) /\ SessionsOK' /\ CutsOK' /\ OthersOK'
  <2>1. SessionsOK' /\ CutsOK' /\ R
    BY <1>2, <1>5, BeginDisconnectType DEF TearDown, TypeOK
  <2>2. Moves(k, Holding \cup {"done"})
    BY <1>1, <1>5 DEF TearDown, Goto, Moves
  <2> QED BY <1>3, <1>5, <2>1, <2>2 DEF OthersOK
<1>6. CASE Begin(k)
  <2>1. CASE Goto(k, "done") /\ UNCHANGED <<sess, gattOpen, listening, cuts, registry>>
    <3>1. Moves(k, Holding \cup {"done"})
      BY <2>1 DEF Goto, Moves
    <3> QED BY <1>3, <1>6, <2>1, <3>1 DEF Begin, SessionsOK, CutsOK, OthersOK
  <2>2. CASE /\ Await(k, "recoalesce", sess[call[k].session].gatt)
             /\ UNCHANGED <<sess, gattOpen, listening, cuts, registry>>
    <3>1. sess[call[k].session].gatt \in Calls \cup {None}
      BY <1>2, <1>6 DEF Begin, TypeOK, SessionState
    <3>2. Moves(k, Holding \cup {"done"})
      BY <1>1, <2>2, <3>1 DEF Await, Moves
    <3> QED BY <1>3, <1>6, <2>2, <3>2 DEF Begin, SessionsOK, CutsOK, OthersOK
  <2>3. CASE TearDown(k)
    BY <1>5, <1>6, <2>3 DEF Begin
  <2> QED BY <1>6, <2>1, <2>2, <2>3 DEF Begin
<1>7. CASE Recoalesced(k)
  <2>1. CASE Goto(k, "done") /\ UNCHANGED <<sess, gattOpen, listening, cuts, registry>>
    <3>1. Moves(k, Holding \cup {"done"})
      BY <2>1 DEF Goto, Moves
    <3> QED BY <1>1, <1>3, <1>7, <2>1, <3>1 DEF Recoalesced, SessionsOK, CutsOK, OthersOK
  <2>2. CASE TearDown(k)
    BY <1>1, <1>5, <1>7, <2>2 DEF Recoalesced
  <2> QED BY <1>7, <2>1, <2>2 DEF Recoalesced
<1>8. ASSUME NEW t \in [Sessions -> SessionState], Proceed(k, t), call[k].pc # "idle"
      PROVE  /\ SessionsOK' /\ CutsOK' /\ R /\ L
             /\ Moves(k, Holding \cup {"done"})
  <2>1. /\ SessionsOK' /\ CutsOK' /\ R /\ L
        /\ Moves(k, {"done", "stopScan", "linking", "takeover", "stale"})
    BY <1>8, ProceedType
  <2>2. Moves(k, Holding \cup {"done"})
    BY <1>1, <2>1 DEF Moves
  <2> QED BY <2>1, <2>2
<1>9. CASE Prepared(k)
  <2>1. call[k].pc = "unlink" /\ UNCHANGED <<slots, known, lease>>
    BY <1>9 DEF Prepared
  <2>2. Reopened(k) \in [Sessions -> SessionState]
    <3>0. sess[call[k].session] \in SessionState
      BY <1>2, <1>0, <2>1
    <3>1. [sess[call[k].session] EXCEPT !.closing = FALSE] \in SessionState
      BY <3>0 DEF SessionState
    <3> QED BY <1>2, <2>1, <3>1 DEF TypeOK, Reopened
  <2>3. CASE Proceed(k, Reopened(k))
    BY <1>1, <1>3, <1>8, <2>1, <2>2, <2>3 DEF OthersOK
  <2>4. CASE /\ sess' = Reopened(k) /\ Goto(k, "seek")
             /\ UNCHANGED <<gattOpen, listening, cuts, link, registry>>
    <3>1. Moves(k, Holding \cup {"done"})
      BY <1>1, <2>4 DEF Goto, Moves
    <3> QED BY <1>1, <1>3, <2>1, <2>2, <2>4, <3>1 DEF SessionsOK, CutsOK, OthersOK
  <2> QED BY <1>9, <2>3, <2>4 DEF Prepared
<1>10. ASSUME NEW t \in [Sessions -> SessionState], Listen(k, t), call[k].pc # "idle"
       PROVE  /\ sess' \in [Sessions -> SessionState] /\ listening' \subseteq Calls /\ L
              /\ Moves(k, Holding \cup {"done"})
  <2>1. /\ sess' \in [Sessions -> SessionState] /\ listening' \subseteq Calls /\ L
        /\ Moves(k, {"stopScan", "linking"})
    BY <1>10, ListenType
  <2>2. Moves(k, Holding \cup {"done"})
    BY <1>1, <2>1 DEF Moves
  <2> QED BY <2>1, <2>2
<1>12. CASE SeekEnds(k)
  <2>1. call[k].pc \in {"seek", "reseek"} /\ UNCHANGED <<slots, lease>>
    BY <1>12 DEF SeekEnds
  <2>2. known' \subseteq Devices
    BY <1>2, <1>12, <2>1 DEF SeekEnds, TypeOK
  <2>3. CASE Proceed(k, sess)
    BY <1>1, <1>3, <1>8, <1>0, <2>1, <2>2, <2>3 DEF OthersOK
  <2>4. CASE Listen(k, sess) /\ UNCHANGED <<gattOpen, cuts, registry>>
    <3>1. /\ sess' \in [Sessions -> SessionState] /\ listening' \subseteq Calls /\ L
          /\ Moves(k, Holding \cup {"done"})
      BY <1>10, <1>0, <2>1, <2>4
    <3> QED BY <1>1, <1>3, <2>1, <2>2, <2>4, <3>1 DEF SessionsOK, CutsOK, OthersOK
  <2>5. CASE /\ \/ Forget(k, sess) /\ UNCHANGED listening
                \/ Abandon(k, sess)
             /\ Goto(k, "done") /\ UNCHANGED <<known, cuts, link, registry>>
    <3>1. SessionsOK'
      BY <1>3, <1>0, <2>5, ForgetType, AbandonType DEF SessionsOK
    <3>2. Moves(k, Holding \cup {"done"})
      BY <2>5 DEF Goto, Moves
    <3> QED BY <1>1, <1>3, <2>1, <2>2, <2>5, <3>1, <3>2 DEF CutsOK, OthersOK
  <2> QED BY <1>12, <2>3, <2>4, <2>5 DEF SeekEnds
<1>13. CASE LinkFreed(k)
  <2>1. call[k].pc \in {"takeover", "stale"} /\ UNCHANGED <<slots, gattOpen, cuts, registry, lease>>
    BY <1>13 DEF LinkFreed
  <2>2. known' \subseteq Devices
    BY <1>13 DEF LinkFreed, TypeOK
  <2>3. CASE Listen(k, sess)
    <3>1. /\ sess' \in [Sessions -> SessionState] /\ listening' \subseteq Calls /\ L
          /\ Moves(k, Holding \cup {"done"})
      BY <1>10, <1>0, <2>1, <2>3
    <3> QED BY <1>1, <1>3, <2>1, <2>2, <2>3, <3>1 DEF SessionsOK, CutsOK, OthersOK
  <2>4. CASE /\ \E pc \in {"stale", "reseek"} : Goto(k, pc)
             /\ UNCHANGED <<sess, listening, link>>
    <3>1. Moves(k, Holding \cup {"done"})
      BY <1>1, <2>4 DEF Goto, Moves
    <3> QED BY <1>1, <1>3, <2>1, <2>2, <2>4, <3>1 DEF SessionsOK, CutsOK, OthersOK
  <2> QED BY <1>13, <2>3, <2>4 DEF LinkFreed
<1>14. CASE Open(k) \/ LinkFails(k)
  <2>1. Moves(k, Holding \cup {"done"})
    BY <1>1, <1>14 DEF Open, LinkFails, Goto, Moves
  <2>2. L /\ known' \subseteq Devices
    BY <1>14 DEF Open, LinkFails, TypeOK
  <2> QED BY <1>1, <1>3, <1>14, <2>1, <2>2 DEF Open, LinkFails, SessionsOK, CutsOK, OthersOK
<1>15. CASE LinkFailed(k) \/ SetupFails(k)
  <2>1. SessionsOK'
    BY <1>0, <1>15, AbandonType DEF LinkFailed, SetupFails
  <2>2. Moves(k, Holding \cup {"done"})
    BY <1>1, <1>15 DEF LinkFailed, SetupFails, Goto, Moves
  <2> QED BY <1>1, <1>3, <1>15, <2>1, <2>2 DEF LinkFailed, SetupFails, CutsOK, OthersOK
<1>16. CASE Discovered(k)
  <2>1. call[k].session \in Sessions
    BY <1>2, <1>16 DEF Discovered
  <2>2. [sess[call[k].session] EXCEPT !.chars = TRUE] \in SessionState
    <3>1. sess[call[k].session] \in SessionState
      BY <1>0, <2>1
    <3> QED BY <3>1 DEF SessionState
  <2>3. sess' \in [Sessions -> SessionState]
    BY <1>16, <2>1, <2>2 DEF Discovered, TypeOK
  <2>4. Moves(k, Holding \cup {"done"})
    BY <1>1, <1>16 DEF Discovered, Goto, Moves, InSetup
  <2> QED BY <1>1, <1>3, <1>16, <2>3, <2>4
          DEF Discovered, SessionsOK, CutsOK, OthersOK, InSetup
<1>17. CASE Subscribed(k) \/ SetupFailed(k)
  <2>1. Moves(k, Holding \cup {"done"})
    BY <1>1, <1>17 DEF Subscribed, SetupFailed, Goto, Moves, InSetup
  <2> QED BY <1>1, <1>3, <1>17, <2>1
          DEF Subscribed, SetupFailed, SessionsOK, CutsOK, OthersOK, InSetup
<1>18. CASE Established(k)
  <2>1. call[k].session \in Sessions /\ D \in Devices
    BY <1>2, <1>18 DEF Established
  <2>2. \A m \in Devices \cup {None} :
          [sess[call[k].session] EXCEPT !.gatt = None, !.mac = m] \in SessionState
    <3>1. sess[call[k].session] \in SessionState
      BY <1>0, <2>1
    <3> QED BY <3>1 DEF SessionState
  <2>3. /\ registry' = registry \/ registry' = [registry EXCEPT ![D] = call[k].session]
        /\ \E m \in Devices \cup {None} :
             sess' = [sess EXCEPT ![call[k].session].gatt = None, ![call[k].session].mac = m]
    BY <1>18, <2>1 DEF Established
  <2>6. sess' \in [Sessions -> SessionState]
    BY <1>0, <2>1, <2>2, <2>3
  <2>7. R
    BY <2>1, <2>3 DEF TypeOK
  <2>4. gattOpen' \subseteq Calls
    BY <1>18 DEF Established, Settled, TypeOK
  <2>5. Moves(k, Holding \cup {"done"})
    BY <1>18 DEF Established, Goto, Moves
  <2> QED BY <1>1, <1>3, <1>18, <2>4, <2>5, <2>6, <2>7
          DEF Established, SessionsOK, CutsOK, OthersOK, InSetup
<1> QED BY <1>4, <1>6, <1>7, <1>9, <1>12, <1>13, <1>14, <1>15, <1>16, <1>17, <1>18 DEF CallNext

\* A link that comes up keeps the types: the sessions of the calls that wait
\* for it get it, and the last one's setup.
LEMMA LinkUpType == ASSUME TypeOK, NEW d \in Devices, LinkUp(d) PROVE TypeOK'
<1> DEFINE up == {k \in Calls : call[k].pc = "linking" /\ call[k].device = d}
           S == {call[k].session : k \in up}
<1>1. PICK last \in [S -> up] :
        sess' = [s \in Sessions |->
                   IF s \in S THEN [sess[s] EXCEPT !.conn = d, !.gatt = last[s]] ELSE sess[s]]
  BY DEF LinkUp
<1>2. sess' \in [Sessions -> SessionState]
  <2>1. ASSUME NEW s \in Sessions
        PROVE  (IF s \in S THEN [sess[s] EXCEPT !.conn = d, !.gatt = last[s]] ELSE sess[s])
                 \in SessionState
    <3>1. sess[s] \in SessionState /\ (s \in S => last[s] \in Calls)
      BY DEF TypeOK
    <3> QED BY <3>1 DEF SessionState
  <2> QED BY <1>1, <2>1
<1>3. CallsOK'
  <2>1. \A k \in Calls : call[k] \in CallState /\ [call[k] EXCEPT !.pc = "discover"] \in CallState
    BY DEF TypeOK, CallState, Stages, InSetup
  <2>2. call' = [k \in Calls |->
                   IF k \in up THEN [call[k] EXCEPT !.pc = "discover"] ELSE call[k]]
    BY DEF LinkUp
  <2>3. call' \in [Calls -> CallState]
    BY <2>1, <2>2
  <2>4. ASSUME NEW k \in Calls, call'[k].pc # "idle"
        PROVE  call'[k].session \in Sessions /\ call'[k].device \in Devices
    <3>1. call[k].pc # "idle" /\ call'[k].session = call[k].session
             /\ call'[k].device = call[k].device
      BY <2>1, <2>2, <2>4 DEF CallState
    <3> QED BY <3>1 DEF TypeOK
  <2> QED BY <2>3, <2>4 DEF CallsOK
<1>4. gattOpen' \subseteq Calls /\ link' \in [Devices -> {"down", "opening", "up"}]
  BY DEF LinkUp, TypeOK
<1> QED BY <1>2, <1>3, <1>4 DEF LinkUp, TypeOK, CallsOK

\* What is no step of connect().
Environment ==
  \/ \E s \in Sessions : Disconnect(s)
  \/ \E d \in Devices : Drops(d) \/ Discover(d) \/ ReticulumRegisters(d)
  \/ CutNext
  \/ Suspend \/ Yielded \/ Unyield

\* A step of disconnect(), of a peripheral or of Reticulum keeps the types.
LEMMA EnvironmentType == ASSUME TypeOK, Environment PROVE TypeOK'
<1>1. SessionsOK /\ CutsOK /\ OthersOK /\ CallsOK
  BY TypeGroups
<1>2. sess \in [Sessions -> SessionState]
  BY DEF TypeOK
<1>3. ASSUME NEW s \in Sessions, Disconnect(s) PROVE TypeOK'
  <2>1. BeginDisconnect(sess, {s}, "ipc")
    BY <1>3 DEF Disconnect
  <2>2. /\ SessionsOK' /\ CutsOK'
        /\ registry' \in [Devices -> Sessions \cup {"reticulum", None}]
    BY <1>2, <2>1, BeginDisconnectType
  <2> QED BY <1>1, <1>3, <2>2, TypeGroups DEF Disconnect, CallsOK, OthersOK, TypeOK, SessionsOK, CutsOK
<1>4. CASE Suspend
  <2>1. BeginDisconnect(sess, Sessions, "yield")
    BY <1>4 DEF Suspend
  <2>2. /\ SessionsOK' /\ CutsOK'
        /\ registry' \in [Devices -> Sessions \cup {"reticulum", None}]
    BY <1>2, <2>1, BeginDisconnectType
  <2> QED BY <1>1, <1>4, <2>2 DEF Suspend, CallsOK, OthersOK, TypeOK, SessionsOK, CutsOK
<1>5. ASSUME NEW d \in Devices, Drops(d) PROVE TypeOK'
  <2>1. sess' \in [Sessions -> SessionState]
    BY <1>2, <1>5, WipedType DEF Drops
  <2>2. link' \in [Devices -> {"down", "opening", "up"}] /\ gattOpen' \subseteq Calls
    BY <1>5 DEF Drops, TypeOK, Settled
  <2> QED BY <1>5, <2>1, <2>2 DEF Drops, TypeOK
<1>6. ASSUME NEW d \in Devices, Discover(d) \/ ReticulumRegisters(d) PROVE TypeOK'
  BY <1>6 DEF Discover, ReticulumRegisters, TypeOK
<1>7. ASSUME NEW c \in cuts, CutUnsubscribed(c) PROVE TypeOK'
  <2>1. c \in CutState
    BY DEF TypeOK
  <2>2. [c EXCEPT !.phase = "cut"] \in CutState
        /\ [c EXCEPT !.phase = "cut"].device = c.device
    BY <2>1 DEF CutState
  <2>3. c.device # None => c.device \in Devices
    BY <2>1 DEF CutState
  <2>4. CutsOK'
    BY <1>1, <1>7, <2>2, <2>3 DEF CutUnsubscribed, CutsOK
  <2> QED BY <1>7, <2>4 DEF CutUnsubscribed, TypeOK, CutsOK
<1>8. ASSUME NEW c \in cuts, CutEnds(c) PROVE TypeOK'
  BY <1>8 DEF CutEnds, TypeOK
<1>9. CASE Yielded \/ Unyield
  BY <1>9 DEF Yielded, Unyield, TypeOK
<1> QED BY <1>3, <1>4, <1>5, <1>6, <1>7, <1>8, <1>9 DEF Environment, CutNext

\* The steps of Next, sorted by what they do to the calls.
LEMMA StepKinds ==
  Next => \/ \E k \in Calls : \/ \E s \in Sessions, d \in Devices : Connect(k, s, d)
                              \/ Coalesced(k)
          \/ \E k \in Calls : CallNext(k) /\ ~Coalesced(k)
          \/ \E k \in Calls : QueueTimeout(k)
          \/ \E d \in Devices : LinkUp(d)
          \/ Environment
  BY Zenon DEF Next, Environment

\* Every step keeps every variable in its type.
LEMMA TypeStep == TypeOK /\ [Next]_vars => TypeOK'
<1> SUFFICES ASSUME TypeOK, [Next]_vars PROVE TypeOK'
  OBVIOUS
<1>1. ASSUME NEW k \in Calls, CallNext(k), ~Coalesced(k) PROVE TypeOK'
  <2>1. CallGoesOn(k) /\ SessionsOK' /\ CutsOK' /\ OthersOK'
    BY <1>1, GoesOn
  <2>2. Moves(k, Stages) /\ call[k].pc # "idle"
    BY <2>1 DEF CallGoesOn, Moves, Holding, Stages, Finished
  <2>3. CallsOK'
    BY <2>2, MovesType, TypeGroups
  <2> QED BY <2>1, <2>3 DEF TypeOK, CallsOK, SessionsOK, CutsOK, OthersOK
<1>2. ASSUME NEW k \in Calls, QueueTimeout(k) PROVE TypeOK'
  <2>1. Moves(k, Stages) /\ call[k].pc # "idle"
    BY <1>2 DEF QueueTimeout, Goto, Moves, Stages, Finished
  <2>2. CallsOK'
    BY <2>1, MovesType, TypeGroups
  <2> QED BY <1>2, <2>2 DEF QueueTimeout, TypeOK, CallsOK
<1>3. CASE UNCHANGED vars
  BY <1>3 DEF vars, TypeOK
<1> QED BY <1>1, <1>2, <1>3, ArrivalType, LinkUpType, EnvironmentType, StepKinds

\* The initial state is typed.
LEMMA TypeInit == Init => TypeOK
<1> SUFFICES ASSUME Init PROVE TypeOK
  OBVIOUS
<1>1. [pc |-> "idle", session |-> None, device |-> None, slot |-> 0, on |-> None] \in CallState
  BY DEF CallState, Stages
<1>2. [Cleared EXCEPT !.closing = FALSE] \in SessionState
  BY DEF Cleared, SessionState
<1> QED BY <1>1, <1>2 DEF Init, TypeOK

\* Every variable keeps its type, whatever the order of connects, disconnects,
\* drops and yields; only a cut with a peripheral reaches disconnectAsync().
THEOREM TypeCorrect == Spec => []TypeOK
  BY TypeInit, TypeStep, PTL DEF Spec

-----------------------------------------------------------------------------
(* The queue.                                                              *)

\* The steps as the queue sees them: nothing, a call that returns at once or
\* waits for a setup or joins the queue, one that goes on, or one that is
\* given up.
Joins(k) ==
  /\ call[k].pc \in {"idle", "coalesce"}
  /\ \A j \in Calls \ {k} : call'[j] = call[j]
  /\ \/ /\ call'[k].pc \in {"coalesce", "done"} /\ call'[k].slot = call[k].slot
        /\ slots' = slots
     \/ /\ call'[k].pc = "queued" /\ call'[k].slot = slots'
        /\ slots' = slots + 1

\* A connect() that arrives joins the queue or needs no place in it.
LEMMA ArrivalJoins ==
  ASSUME TypeOK, NEW k \in Calls,
         \/ \E s \in Sessions, d \in Devices : Connect(k, s, d)
         \/ Coalesced(k)
  PROVE  Joins(k)
<1>1. call[k] \in CallState /\ slots \in Nat /\ call \in [Calls -> CallState]
  BY DEF TypeOK
<1>2. ASSUME NEW s \in Sessions, NEW d \in Devices, Connect(k, s, d) PROVE Joins(k)
  <2>1. CASE UNCHANGED slots
    <3>1. \E c : /\ call' = [call EXCEPT ![k] = c] /\ c.slot = call[k].slot
                 /\ c.pc \in {"coalesce", "done"}
      <4> DEFINE asked == [call[k] EXCEPT !.session = s, !.device = d]
      <4>1. CASE call' = [call EXCEPT ![k] = [asked EXCEPT !.pc = "done"]]
        <5>1. /\ [asked EXCEPT !.pc = "done"].slot = call[k].slot
              /\ [asked EXCEPT !.pc = "done"].pc = "done"
          BY <1>1 DEF CallState
        <5> QED BY <4>1, <5>1
      <4>2. CASE call' = [call EXCEPT ![k] = [asked EXCEPT !.pc = "coalesce",
                                                          !.on = sess[s].gatt]]
        <5>1. /\ [asked EXCEPT !.pc = "coalesce", !.on = sess[s].gatt].slot = call[k].slot
              /\ [asked EXCEPT !.pc = "coalesce", !.on = sess[s].gatt].pc = "coalesce"
          BY <1>1 DEF CallState
        <5> QED BY <4>2, <5>1
      <4>3. ~Enqueue(k, asked)
        BY <1>1, <2>1 DEF Enqueue
      <4> QED BY <1>2, <4>1, <4>2, <4>3 DEF Connect
    <3> QED BY <1>1, <1>2, <2>1, <3>1 DEF Joins, Connect
  <2>2. CASE Enqueue(k, [call[k] EXCEPT !.session = s, !.device = d])
    BY <1>1, <1>2, <2>2 DEF Joins, Connect, Enqueue, CallState
  <2> QED BY <1>2, <2>1, <2>2 DEF Connect
<1>3. ASSUME Coalesced(k) PROVE Joins(k)
  <2>1. CASE Goto(k, "done") /\ UNCHANGED slots
    BY <1>1, <1>3, <2>1 DEF Joins, Coalesced, Goto, CallState
  <2>2. CASE Enqueue(k, call[k])
    BY <1>1, <1>3, <2>2 DEF Joins, Coalesced, Enqueue, CallState
  <2> QED BY <1>3, <2>1, <2>2 DEF Coalesced
<1> QED BY <1>2, <1>3

\* A move changes the stage of one call and no slot, session or peripheral.
LEMMA MovesMeans ==
  ASSUME TypeOK, NEW k \in Calls, NEW P, Moves(k, P)
  PROVE  /\ call'[k].pc \in P
         /\ \A j \in Calls \ {k} : call'[j] = call[j]
         /\ \A j \in Calls : /\ call'[j].slot = call[j].slot
                            /\ call'[j].session = call[j].session
                            /\ call'[j].device = call[j].device
  BY DEF Moves, TypeOK, CallState

\* A link that comes up moves the calls that wait for it, and no other.
LEMMA LinkUpMeans ==
  ASSUME TypeOK, NEW d \in Devices, LinkUp(d)
  PROVE  /\ \A j \in Calls : /\ call'[j].slot = call[j].slot
                            /\ call'[j].session = call[j].session
                            /\ call'[j].device = call[j].device
                            /\ IF call[j].pc = "linking" /\ call[j].device = d
                               THEN call'[j].pc = "discover" ELSE call'[j].pc = call[j].pc
         /\ slots' = slots
<1> DEFINE linked(j) == call[j].pc = "linking" /\ call[j].device = d
<1>1. slots' = slots
  BY DEF LinkUp
<1> SUFFICES ASSUME NEW j \in Calls
             PROVE  /\ call'[j].slot = call[j].slot
                    /\ call'[j].session = call[j].session
                    /\ call'[j].device = call[j].device
                    /\ IF linked(j) THEN call'[j].pc = "discover" ELSE call'[j].pc = call[j].pc
  BY <1>1
<1>2. call[j] \in CallState
  BY DEF TypeOK
<1>3. call'[j] = IF linked(j) THEN [call[j] EXCEPT !.pc = "discover"] ELSE call[j]
  BY DEF LinkUp
<1> QED BY <1>2, <1>3 DEF CallState

\* A step of the environment leaves the calls alone.
LEMMA EnvironmentMeans == Environment => UNCHANGED <<call, slots>>
  BY DEF Environment, Disconnect, Drops, Discover, ReticulumRegisters, CutNext,
         CutUnsubscribed, CutEnds, Suspend, Yielded, Unyield

Queue == TypeOK /\ QueueNumbered /\ FirstComeFirstServed

\* Of two calls that hold the queue, one has overtaken the other.
LEMMA HoldersApart ==
  ASSUME Queue, NEW j \in Calls, NEW k \in Calls, j # k,
         call[j].pc \in Holding, call[k].pc \in Holding
  PROVE  GaveUpBetween(j, k) \/ GaveUpBetween(k, j)
<1>1. /\ call[j].slot \in Nat /\ call[k].slot \in Nat
      /\ call[j].slot > 0 /\ call[k].slot > 0
  BY DEF Queue, TypeOK, CallState, QueueNumbered
<1>2. /\ call[j].pc \notin {"queued"} \cup Finished
      /\ call[k].pc \notin {"queued"} \cup Finished
      /\ "timedOut" \in Finished
  BY DEF Holding, Finished
<1>3. call[j].slot # call[k].slot
  BY <1>1 DEF Queue, QueueNumbered
<1>4. call[j].slot < call[k].slot \/ call[k].slot < call[j].slot
  BY <1>1, <1>3
<1> QED BY <1>1, <1>2, <1>4 DEF Queue, FirstComeFirstServed

\* Calls that hold the queue are one at a time.
LEMMA OneAtATime ==
  ASSUME Queue, Serialized,
         NEW j \in Calls, NEW k \in Calls, call[j].pc \in Holding, call[k].pc \in Holding
  PROVE  j = k
  BY HoldersApart DEF Serialized, GaveUpBetween

\* The queue stays in order when a call joins it.
LEMMA QueueJoins ==
  ASSUME Queue, NEW k \in Calls, Joins(k) PROVE QueueNumbered' /\ FirstComeFirstServed'
<1>1. /\ slots \in Nat /\ \A j \in Calls : call[j].slot \in Nat
      /\ call[k].slot = 0 /\ call[k].pc \in {"idle", "coalesce"}
  BY DEF Queue, TypeOK, CallState, QueueNumbered, Joins
<1>2. \A j \in Calls \ {k} : call'[j] = call[j]
  BY DEF Joins
<1>3. \/ call'[k].pc \in {"coalesce", "done"} /\ call'[k].slot = 0 /\ slots' = slots
      \/ call'[k].pc = "queued" /\ call'[k].slot = slots + 1 /\ slots' = slots + 1
  BY <1>1 DEF Joins
<1>4. \A j \in Calls : call[j].slot <= slots
  BY DEF Queue, QueueNumbered
<1>5. ASSUME NEW j \in Calls
      PROVE  /\ call'[j].slot <= slots'
             /\ call'[j].pc \in {"idle", "coalesce"} => call'[j].slot = 0
             /\ call'[j].pc \in Holding \cup {"queued"} => call'[j].slot > 0
  BY <1>1, <1>2, <1>3, <1>4 DEF Queue, QueueNumbered, Holding, Finished
<1>6. ASSUME NEW i \in Calls, NEW j \in Calls, call'[i].slot > 0, call'[i].slot = call'[j].slot
      PROVE  i = j
  BY <1>1, <1>2, <1>3, <1>4, <1>6 DEF Queue, QueueNumbered
<1>7. ASSUME NEW n \in 1..slots' PROVE \E j \in Calls : call'[j].slot = n
  <2>1. CASE n \in 1..slots
    <3>1. PICK j \in Calls : call[j].slot = n
      BY <2>1 DEF Queue, QueueNumbered
    <3>2. j # k
      BY <1>1, <2>1, <3>1
    <3> QED BY <1>2, <3>1, <3>2
  <2>2. CASE n = slots + 1
    BY <1>1, <1>3, <2>2
  <2> QED BY <1>1, <1>3, <2>1, <2>2
<1>8. QueueNumbered'
  BY <1>5, <1>6, <1>7 DEF QueueNumbered
<1>9. \A i, j \in Calls \ {k} : GaveUpBetween(i, j) => GaveUpBetween(i, j)'
  <2>1. call[k].pc # "timedOut"
    BY <1>1
  <2> QED BY <1>2, <2>1 DEF GaveUpBetween
<1>10. ASSUME NEW i \in Calls, NEW j \in Calls, call'[i].slot > 0,
              call'[i].slot < call'[j].slot, call'[j].pc \notin {"queued", "timedOut"}
       PROVE  call'[i].pc \in Finished \/ GaveUpBetween(i, j)'
  <2>1. j # k
    BY <1>1, <1>2, <1>3, <1>10
  <2>2. i # k
    BY <1>1, <1>2, <1>3, <1>4, <1>10, <2>1
  <2>3. call[i].pc \in Finished \/ GaveUpBetween(i, j)
    BY <1>2, <1>10, <2>1, <2>2 DEF Queue, FirstComeFirstServed
  <2> QED BY <1>2, <1>9, <2>1, <2>2, <2>3
<1> QED BY <1>8, <1>10 DEF FirstComeFirstServed

\* The queue stays in order when a call has its turn or goes on: the calls in
\* front of it are finished, and it is the only one that holds the queue.
LEMMA QueueGoesOn ==
  ASSUME Queue, NEW k \in Calls, CallGoesOn(k) PROVE QueueNumbered' /\ FirstComeFirstServed'
<1>1. /\ slots \in Nat /\ \A j \in Calls : call[j].slot \in Nat
      /\ slots' = slots /\ \A j \in Calls : call'[j].slot = call[j].slot
      /\ \A j \in Calls \ {k} : call'[j] = call[j]
      /\ call'[k].pc \in Holding \cup {"done"}
  BY MovesMeans DEF Queue, TypeOK, CallState, CallGoesOn
<1>2. call[k].slot > 0 /\ call[k].slot <= slots
  BY DEF Queue, QueueNumbered, CallGoesOn
<1>3. QueueNumbered'
  BY <1>1, <1>2 DEF Queue, QueueNumbered, Holding, Finished
<1>4. call[k].pc \notin Finished /\ "timedOut" \in Finished
  BY DEF CallGoesOn, Holding, Finished
<1>5. ASSUME NEW i \in Calls, call[i].slot > 0, call[i].slot < call[k].slot
      PROVE  call[i].pc \in Finished \/ GaveUpBetween(i, k)
  <2>1. CASE call[k].pc = "queued" /\ SlotFree(k)
    <3>1. call[k].slot - 1 \in 1..slots
      BY <1>1, <1>2, <1>5
    <3>2. PICK j \in Calls : call[j].slot = call[k].slot - 1
      BY <3>1 DEF Queue, QueueNumbered
    <3>3. call[j].pc \in Finished
      BY <1>1, <1>5, <2>1, <3>1, <3>2 DEF SlotFree
    <3>4. CASE i = j
      BY <3>3, <3>4
    <3>5. CASE i # j
      <4>1. call[i].slot < call[j].slot /\ call[j].slot < call[k].slot
        BY <1>1, <1>2, <1>5, <3>2, <3>5 DEF Queue, QueueNumbered
      <4>2. CASE call[j].pc = "timedOut"
        BY <4>1, <4>2 DEF GaveUpBetween
      <4>3. CASE call[j].pc # "timedOut"
        <5>1. call[i].pc \in Finished \/ GaveUpBetween(i, j)
          BY <1>5, <3>3, <4>1, <4>3 DEF Queue, FirstComeFirstServed, Finished
        <5>2. ASSUME NEW g \in Calls, call[g].slot < call[j].slot
              PROVE  call[g].slot < call[k].slot
          BY <1>1, <4>1, <5>2
        <5> QED BY <5>1, <5>2 DEF GaveUpBetween
      <4> QED BY <4>2, <4>3
    <3> QED BY <3>4, <3>5
  <2>2. CASE call[k].pc \in Holding
    BY <1>5, <2>2 DEF Queue, FirstComeFirstServed, Holding, Finished
  <2> QED BY <2>1, <2>2 DEF CallGoesOn
<1>6. ASSUME NEW i \in Calls, NEW j \in Calls, call'[i].slot > 0,
             call'[i].slot < call'[j].slot, call'[j].pc \notin {"queued", "timedOut"}
      PROVE  call'[i].pc \in Finished \/ GaveUpBetween(i, j)'
  <2>1. call[i].slot > 0 /\ call[i].slot < call[j].slot
    BY <1>1, <1>6
  <2>2. call[i].pc \in Finished \/ GaveUpBetween(i, j)
    <3>1. CASE j = k
      BY <1>5, <2>1, <3>1
    <3>2. CASE j # k
      BY <1>1, <1>6, <2>1, <3>2 DEF Queue, FirstComeFirstServed
    <3> QED BY <3>1, <3>2
  <2>3. call[i].pc \in Finished => call'[i].pc \in Finished
    BY <1>1, <1>4
  <2>4. GaveUpBetween(i, j) => GaveUpBetween(i, j)'
    BY <1>1, <1>4 DEF GaveUpBetween
  <2> QED BY <2>2, <2>3, <2>4
<1> QED BY <1>3, <1>6 DEF FirstComeFirstServed

\* Slots stay numbered and served in order in every step.
LEMMA QueueStep == Queue /\ [Next]_vars => Queue'
<1> SUFFICES ASSUME Queue, [Next]_vars PROVE Queue'
  OBVIOUS
<1>1. TypeOK /\ TypeOK'
  BY TypeStep DEF Queue
<1>2. ASSUME NEW k \in Calls, QueueTimeout(k) PROVE QueueNumbered' /\ FirstComeFirstServed'
  <2>1. /\ slots' = slots /\ call'[k].pc = "timedOut"
        /\ \A j \in Calls : call'[j].slot = call[j].slot
        /\ \A j \in Calls \ {k} : call'[j] = call[j]
    BY <1>1, <1>2 DEF QueueTimeout, Goto, TypeOK, CallState
  <2>2. QueueNumbered'
    BY <2>1 DEF Queue, QueueNumbered, Holding, Finished
  <2>3. \A i, j \in Calls : GaveUpBetween(i, j) => GaveUpBetween(i, j)'
    BY <2>1 DEF GaveUpBetween
  <2>4. FirstComeFirstServed'
    BY <2>1, <2>3 DEF Queue, FirstComeFirstServed, Finished
  <2> QED BY <2>2, <2>4
<1>3. ASSUME NEW d \in Devices, LinkUp(d) PROVE QueueNumbered' /\ FirstComeFirstServed'
  <2>1. /\ slots' = slots /\ \A j \in Calls : call'[j].slot = call[j].slot
        /\ \A j \in Calls : \/ call'[j].pc = call[j].pc
                            \/ call[j].pc = "linking" /\ call'[j].pc = "discover"
    BY <1>1, <1>3, LinkUpMeans
  <2>2. "linking" \in Holding /\ "discover" \in Holding
    BY DEF Holding, Stages, InSetup, Finished
  <2>3. QueueNumbered'
    BY <2>1, <2>2 DEF Queue, QueueNumbered, Holding, Finished
  <2>4. FirstComeFirstServed'
    <3>1. \A i, j \in Calls : GaveUpBetween(i, j) => GaveUpBetween(i, j)'
      BY <2>1 DEF GaveUpBetween
    <3> QED BY <2>1, <3>1 DEF Queue, FirstComeFirstServed, Finished
  <2> QED BY <2>3, <2>4
<1>4. CASE UNCHANGED <<call, slots>>
  <2>1. call' = call /\ slots' = slots
    BY <1>4
  <2>2. QueueNumbered'
    BY <2>1 DEF Queue, QueueNumbered
  <2>3. \A i, j \in Calls : GaveUpBetween(i, j) => GaveUpBetween(i, j)'
    BY <2>1 DEF GaveUpBetween
  <2>4. FirstComeFirstServed'
    BY <2>1, <2>3 DEF Queue, FirstComeFirstServed
  <2> QED BY <1>1, <2>2, <2>4 DEF Queue
<1>5. UNCHANGED vars => UNCHANGED <<call, slots>>
  BY DEF vars
<1> QED BY <1>1, <1>2, <1>3, <1>4, <1>5, StepKinds, EnvironmentMeans, ArrivalJoins,
           QueueJoins, GoesOn, QueueGoesOn DEF Queue

\* At the start nobody has a slot.
LEMMA QueueInit == Init => Queue
  BY TypeInit DEF Init, Queue, QueueNumbered, FirstComeFirstServed, Holding

\* Discovery and subscription of two peripherals never run at once, but for
\* what a call that gives up waiting lets past: connectQueue serializes them,
\* and a slot that is given up frees the way for those behind it only.
THEOREM SetupsSerialized == Spec => []OneSetup
<1>1. Queue => OneSetup
  <2>1. InSetup \subseteq Holding
    BY DEF InSetup, Holding, Stages, Finished
  <2> QED BY <2>1, HoldersApart DEF OneSetup
<1> QED BY <1>1, QueueInit, QueueStep, PTL DEF Spec

-----------------------------------------------------------------------------
(* Sessions and the registry.                                              *)

\* What a step does to the peripheral of a session and to its registration.
Kept(s) == sess'[s].conn = sess[s].conn /\ sess'[s].mac = sess[s].mac
Emptied(s) == sess'[s].conn = None /\ sess'[s].mac = None

\* The steps that only give up: a session keeps what it has or loses all of it,
\* and a registry entry of a session stays or leaves together with the session.
Releases ==
  /\ \A s \in Sessions : Kept(s) \/ Emptied(s)
  /\ \A d \in Devices :
       \/ registry'[d] = registry[d]
       \/ registry[d] \notin Sessions /\ registry'[d] \notin Sessions
       \/ registry'[d] = None /\ \E s \in Sessions : registry[d] = s /\ Emptied(s)

\* A session table that has the peripherals and registrations of this.sessions.
SameHoldings(t) ==
  /\ t \in [Sessions -> SessionState]
  /\ \A s \in Sessions : t[s].conn = sess[s].conn /\ t[s].mac = sess[s].mac

\* The session table as it is, and reopened for a connection, has them.
LEMMA ReopenedSame ==
  ASSUME TypeOK, NEW k \in Calls PROVE SameHoldings(sess) /\ SameHoldings(Reopened(k))
<1>1. sess \in [Sessions -> SessionState]
  BY DEF TypeOK
<1>2. ASSUME NEW s \in Sessions PROVE [sess[s] EXCEPT !.closing = FALSE] \in SessionState
  BY <1>1 DEF SessionState
<1>3. Reopened(k) \in [Sessions -> SessionState]
  BY <1>1, <1>2 DEF Reopened
<1>4. \A s \in Sessions : /\ Reopened(k)[s].conn = sess[s].conn
                         /\ Reopened(k)[s].mac = sess[s].mac
  BY <1>1 DEF Reopened, SessionState
<1> QED BY <1>1, <1>3, <1>4 DEF SameHoldings

\* Clearing sessions gives up, and leaves them with no peripheral.
LEMMA WipedReleases ==
  ASSUME NEW t, SameHoldings(t), NEW S, sess' = Wiped(t, S)
  PROVE  /\ \A s \in Sessions : Kept(s) \/ Emptied(s)
         /\ \A s \in Sessions : s \in S => Emptied(s)
  BY DEF SameHoldings, Wiped, Cleared, Kept, Emptied

\* The start of a disconnect() gives up, and leaves the sessions it is for with
\* no peripheral.
LEMMA BeginDisconnectReleases ==
  ASSUME TypeOK, NEW t, SameHoldings(t), NEW S \in SUBSET Sessions, NEW by,
         BeginDisconnect(t, S, by)
  PROVE  Releases /\ \A s \in S : sess'[s].conn = None
<1> DEFINE A == {s \in S : Attached(s)}
<1>1. sess' = Wiped(t, A)
  BY DEF BeginDisconnect
<1>2. /\ \A s \in Sessions : Kept(s) \/ Emptied(s)
      /\ \A s \in A : Emptied(s)
  BY <1>1, WipedReleases
<1>3. \A s \in S : sess'[s].conn = None
  BY <1>2 DEF Attached, Kept, Emptied
<1>4. ASSUME NEW d \in Devices
      PROVE  \/ registry'[d] = registry[d]
             \/ registry'[d] = None /\ \E s \in Sessions : registry[d] = s /\ Emptied(s)
  <2>1. registry'[d] = IF \E s \in A : sess[s].mac = d /\ registry[d] = s
                       THEN None ELSE registry[d]
    BY DEF BeginDisconnect
  <2> QED BY <1>2, <2>1
<1> QED BY <1>2, <1>3, <1>4 DEF Releases

\* Registering a listener changes nobody's peripheral or registration.
LEMMA ListenReleases ==
  ASSUME TypeOK, NEW k \in Calls, call[k].pc # "idle", NEW t, SameHoldings(t), Listen(k, t),
         UNCHANGED registry
  PROVE  Releases /\ \A s \in Sessions : Kept(s)
<1>1. \A s \in Sessions : Kept(s)
  BY DEF Listen, SameHoldings, SessionState, Kept
<1> QED BY <1>1 DEF Releases

\* How a call changes stages: it opens a link only with its session emptied
\* first, is admitted only while nobody else has the peripheral registered, and
\* leaves its setup only with its session emptied.
Advances(k) ==
  LET s == call[k].session
      d == call[k].device
      to == call'[k].pc
  IN  /\ to \in Opening => \/ sess'[s].conn = None
                           \/ call[k].pc \in Opening /\ (to \in InSetup <=> call[k].pc \in InSetup)
      /\ to \in Admitted /\ d \in Addressed =>
           call[k].pc \in Admitted \/ registry[d] \notin Sessions \ {s}
      /\ call[k].pc \in InSetup => to \in InSetup \/ sess'[s].conn = None

\* connect() with the peripheral in hand gives up or is admitted.
LEMMA ProceedAdvances ==
  ASSUME TypeOK, NEW k \in Calls, call[k].pc \in {"unlink", "seek"},
         NEW t, SameHoldings(t), Proceed(k, t)
  PROVE  Releases /\ Advances(k)
<1> DEFINE s == call[k].session
           d == call[k].device
           others == {o \in Sessions \ {s} : sess[o].conn = d}
<1>1. s \in Sessions /\ d \in Devices /\ call[k] \in CallState
  BY DEF TypeOK
<1>2. /\ call[k].pc \in Opening /\ call[k].pc \notin InSetup
      /\ {"stopScan", "linking", "takeover", "stale"} \cap InSetup = {}
      /\ "done" \notin Opening \cup Admitted
  BY DEF Opening, Admitted, InSetup
<1>3. ASSUME AdmitsAddress(s, d), NEW to, call'[k].pc = to,
             to \in {"stopScan", "linking", "takeover", "stale"}
      PROVE  Advances(k)
  <2>1. d \in Addressed => registry[d] \notin Sessions \ {s}
    BY <1>3, NoneAssumption DEF AdmitsAddress
  <2> QED BY <1>2, <1>3, <2>1 DEF Advances
<1>4. CASE ~AdmitsAddress(s, d) /\ Abandon(k, t) /\ Goto(k, "done") /\ UNCHANGED registry
  <2>1. call'[k].pc = "done"
    BY <1>1, <1>4 DEF Goto, TypeOK, CallState
  <2>2. \A o \in Sessions : Kept(o) \/ Emptied(o)
    BY <1>4, WipedReleases DEF Abandon, Forget
  <2> QED BY <1>2, <1>4, <2>1, <2>2 DEF Releases, Advances
<1>5. CASE AdmitsAddress(s, d) /\ Listen(k, t) /\ UNCHANGED registry
  <2>1. call'[k].pc \in {"stopScan", "linking"}
    BY <1>1, <1>5 DEF Listen, Goto, TypeOK, CallState
  <2> QED BY <1>3, <1>5, <2>1, ListenReleases
<1>6. CASE /\ AdmitsAddress(s, d)
           /\ \E o \in others : BeginDisconnect(t, {o}, k)
           /\ Goto(k, "takeover")
  <2>1. call'[k].pc = "takeover"
    BY <1>1, <1>6 DEF Goto, TypeOK, CallState
  <2>2. PICK o \in others : BeginDisconnect(t, {o}, k)
    BY <1>6
  <2>3. Releases
    BY <2>2, BeginDisconnectReleases
  <2> QED BY <1>3, <1>6, <2>1, <2>3
<1>7. CASE AdmitsAddress(s, d) /\ sess' = t /\ Goto(k, "stale") /\ UNCHANGED registry
  <2>1. call'[k].pc = "stale"
    BY <1>1, <1>7 DEF Goto, TypeOK, CallState
  <2>2. Releases
    BY <1>7 DEF Releases, SameHoldings, Kept
  <2> QED BY <1>3, <1>7, <2>1, <2>2
<1> QED BY <1>4, <1>5, <1>6, <1>7 DEF Proceed

\* Every step of a call that has its turn, but the one that registers its
\* peripheral, gives up or is admitted.
LEMMA CallAdvances ==
  ASSUME TypeOK, NEW k \in Calls, CallNext(k), ~Coalesced(k), ~Established(k)
  PROVE  Releases /\ Advances(k)
<1> DEFINE s == call[k].session
           d == call[k].device
<1>1. call[k] \in CallState /\ (call[k].pc # "idle" => s \in Sessions /\ d \in Devices)
  BY DEF TypeOK
<1>2. SameHoldings(sess) /\ SameHoldings(Reopened(k))
  BY ReopenedSame
<1>3. ASSUME NEW pc, Goto(k, pc) PROVE call'[k].pc = pc
  BY <1>1, <1>3 DEF Goto, TypeOK, CallState
<1>4. ASSUME NEW t, SameHoldings(t), Forget(k, t), UNCHANGED registry, s \in Sessions
      PROVE  Releases /\ sess'[s].conn = None
  BY <1>4, WipedReleases DEF Forget, Releases, Emptied
<1>5. ASSUME UNCHANGED <<sess, registry>> PROVE Releases
  BY <1>5 DEF Releases, Kept
<1>6. "done" \notin Opening \cup Admitted \cup InSetup
  BY DEF Opening, Admitted, InSetup
<1>7. ASSUME TearDown(k), s \in Sessions, call[k].pc \notin InSetup PROVE Releases /\ Advances(k)
  <2>1. Releases /\ sess'[s].conn = None
    BY <1>2, <1>7, BeginDisconnectReleases DEF TearDown
  <2>2. call'[k].pc = "unlink"
    BY <1>3, <1>7 DEF TearDown
  <2>3. "unlink" \notin Admitted
    BY DEF Admitted, InSetup
  <2> QED BY <1>7, <2>1, <2>2, <2>3 DEF Advances
<1>8. CASE Refused(k)
  <2>1. Releases
    BY <1>1, <1>2, <1>4, <1>8 DEF Refused
  <2>2. call[k].pc \notin InSetup /\ call'[k].pc = "done"
    BY <1>3, <1>8 DEF Refused, InSetup
  <2> QED BY <1>6, <2>1, <2>2 DEF Advances
<1>9. CASE Begin(k)
  <2>1. call[k].pc \notin InSetup /\ s \in Sessions
    BY <1>1, <1>9 DEF Begin, InSetup
  <2>2. CASE Goto(k, "done") /\ UNCHANGED <<sess, registry>>
    BY <1>3, <1>5, <1>6, <2>1, <2>2 DEF Advances
  <2>3. CASE Await(k, "recoalesce", sess[s].gatt) /\ UNCHANGED <<sess, registry>>
    <3>1. call'[k].pc = "recoalesce"
      BY <1>1, <2>3 DEF Await, TypeOK, CallState
    <3>2. "recoalesce" \notin Opening \cup Admitted
      BY DEF Opening, Admitted, InSetup
    <3> QED BY <1>5, <2>1, <2>3, <3>1, <3>2 DEF Advances
  <2>4. CASE TearDown(k)
    BY <1>7, <2>1, <2>4
  <2> QED BY <1>9, <2>2, <2>3, <2>4 DEF Begin
<1>10. CASE Recoalesced(k)
  <2>1. call[k].pc \notin InSetup /\ s \in Sessions
    BY <1>1, <1>10 DEF Recoalesced, InSetup
  <2>2. CASE Goto(k, "done") /\ UNCHANGED <<sess, registry>>
    BY <1>3, <1>5, <1>6, <2>1, <2>2 DEF Advances
  <2>3. CASE TearDown(k)
    BY <1>7, <2>1, <2>3
  <2> QED BY <1>10, <2>2, <2>3 DEF Recoalesced
<1>11. CASE Prepared(k)
  <2>1. CASE Proceed(k, Reopened(k))
    BY <1>2, <1>11, <2>1, ProceedAdvances DEF Prepared
  <2>2. CASE sess' = Reopened(k) /\ Goto(k, "seek") /\ UNCHANGED registry
    <3>1. Releases
      BY <1>2, <2>2 DEF Releases, SameHoldings, Kept
    <3>2. call[k].pc = "unlink" /\ call'[k].pc = "seek"
      BY <1>3, <1>11, <2>2 DEF Prepared
    <3> QED BY <3>1, <3>2 DEF Advances, Opening, Admitted, InSetup
  <2> QED BY <1>11, <2>1, <2>2 DEF Prepared
<1>12. CASE SeekEnds(k)
  <2>1. CASE call[k].pc = "seek" /\ Proceed(k, sess)
    BY <1>2, <2>1, ProceedAdvances
  <2>2. CASE call[k].pc = "reseek" /\ Listen(k, sess) /\ UNCHANGED registry
    <3>1. call'[k].pc \in {"stopScan", "linking"}
      BY <1>3, <2>2 DEF Listen
    <3>2. Releases
      BY <1>2, <2>2, ListenReleases
    <3> QED BY <2>2, <3>1, <3>2 DEF Advances, Opening, Admitted, InSetup
  <2>3. CASE /\ call[k].pc \in {"seek", "reseek"}
             /\ Forget(k, sess) /\ Goto(k, "done") /\ UNCHANGED registry
    <3>1. Releases /\ call'[k].pc = "done" /\ call[k].pc \notin InSetup
      BY <1>1, <1>2, <1>3, <1>4, <2>3 DEF InSetup
    <3> QED BY <1>6, <3>1 DEF Advances
  <2> QED BY <1>12, <2>1, <2>2, <2>3 DEF SeekEnds, Abandon
<1>13. CASE LinkFreed(k)
  <2>1. CASE Listen(k, sess) /\ UNCHANGED registry
    <3>1. call'[k].pc \in {"stopScan", "linking"}
      BY <1>3, <2>1 DEF Listen
    <3>2. Releases
      BY <1>2, <1>13, <2>1, ListenReleases DEF LinkFreed
    <3> QED BY <1>13, <3>1, <3>2 DEF LinkFreed, Advances, Opening, Admitted, InSetup
  <2>2. CASE /\ \E pc \in {"stale", "reseek"} : Goto(k, pc)
             /\ UNCHANGED <<sess, registry>>
    <3>1. call'[k].pc \in {"stale", "reseek"}
      BY <1>3, <2>2
    <3> QED BY <1>5, <1>13, <2>2, <3>1 DEF LinkFreed, Advances, Opening, Admitted, InSetup
  <2> QED BY <1>13, <2>1, <2>2 DEF LinkFreed
<1>14. CASE Open(k) \/ LinkFails(k)
  <2>1. /\ UNCHANGED <<sess, registry>>
        /\ call[k].pc \in {"stopScan", "linking"} /\ call'[k].pc \in {"linking", "unlinkFailed"}
    BY <1>3, <1>14 DEF Open, LinkFails
  <2> QED BY <1>5, <2>1 DEF Advances, Opening, Admitted, InSetup
<1>15. CASE LinkFailed(k)
  <2>1. Releases
    BY <1>1, <1>2, <1>4, <1>15 DEF LinkFailed, Abandon
  <2>2. call[k].pc \notin InSetup /\ call'[k].pc = "done"
    BY <1>3, <1>15 DEF LinkFailed, InSetup
  <2> QED BY <1>6, <2>1, <2>2 DEF Advances
<1>16. CASE Discovered(k) \/ Subscribed(k)
  <2>1. call[k].pc \in InSetup /\ call'[k].pc \in {"subscribe", "settle"} /\ UNCHANGED registry
    BY <1>3, <1>16 DEF Discovered, Subscribed, InSetup
  <2>2. \A o \in Sessions : Kept(o)
    BY <1>16 DEF Discovered, Subscribed, Kept, TypeOK, SessionState
  <2> QED BY <2>1, <2>2 DEF Releases, Advances, Opening, Admitted, InSetup
<1>17. CASE SetupFails(k)
  <2>1. Releases /\ sess'[s].conn = None
    BY <1>1, <1>2, <1>4, <1>17 DEF SetupFails, Abandon, InSetup
  <2>2. call'[k].pc \in {"done", "failing"}
    BY <1>3, <1>17 DEF SetupFails
  <2> QED BY <2>1, <2>2 DEF Advances, Opening, Admitted, InSetup
<1>18. CASE SetupFailed(k)
  <2>1. /\ call[k].pc \notin InSetup /\ call'[k].pc = "done"
        /\ UNCHANGED <<sess, registry>>
    BY <1>3, <1>18 DEF SetupFailed, InSetup
  <2> QED BY <1>5, <1>6, <2>1 DEF Advances
<1> QED BY <1>8, <1>9, <1>10, <1>11, <1>12, <1>13, <1>14, <1>15, <1>16, <1>17, <1>18
        DEF CallNext

\* A step of the environment gives up.
LEMMA EnvironmentReleases == ASSUME TypeOK, Environment PROVE Releases
<1>1. SameHoldings(sess)
  BY DEF SameHoldings, TypeOK
<1>2. ASSUME UNCHANGED <<sess, registry>> PROVE Releases
  BY <1>2 DEF Releases, Kept
<1>3. CASE \E s \in Sessions : Disconnect(s)
  BY <1>1, <1>3, BeginDisconnectReleases DEF Disconnect
<1>4. CASE \E d \in Devices : Drops(d)
  BY <1>1, <1>4, WipedReleases DEF Drops, Releases
<1>5. CASE \E d \in Devices : ReticulumRegisters(d)
  <2>1. PICK d \in Devices : ReticulumRegisters(d)
    BY <1>5
  <2>2. registry[d] \notin Sessions /\ registry'[d] \notin Sessions
    BY <2>1, NoneAssumption, OwnersAssumption DEF ReticulumRegisters, TypeOK
  <2>3. \A e \in Devices \ {d} : registry'[e] = registry[e]
    BY <2>1 DEF ReticulumRegisters, TypeOK
  <2>4. \A s \in Sessions : Kept(s)
    BY <2>1 DEF ReticulumRegisters, Kept
  <2> QED BY <2>2, <2>3, <2>4 DEF Releases
<1>6. CASE Suspend
  BY <1>1, <1>6, BeginDisconnectReleases DEF Suspend
<1>7. CASE \/ \E d \in Devices : Discover(d)
           \/ CutNext \/ Yielded \/ Unyield
  BY <1>2, <1>7 DEF Discover, CutNext, CutUnsubscribed, CutEnds, Yielded, Unyield
<1> QED BY <1>3, <1>4, <1>5, <1>6, <1>7 DEF Environment

\* A link that comes up gives the peripheral to the sessions of the calls that
\* wait for it, and changes no registration.
LEMMA LinkUpHoldings ==
  ASSUME TypeOK, NEW d \in Devices, LinkUp(d)
  PROVE  /\ registry' = registry
         /\ \A s \in Sessions :
              /\ sess'[s].mac = sess[s].mac
              /\ IF \E k \in Calls : call[k].pc = "linking" /\ call[k].device = d
                                       /\ call[k].session = s
                 THEN sess'[s].conn = d ELSE sess'[s].conn = sess[s].conn
<1> DEFINE up == {k \in Calls : call[k].pc = "linking" /\ call[k].device = d}
           S == {call[k].session : k \in up}
<1>1. PICK last \in [S -> up] :
        sess' = [s \in Sessions |->
                   IF s \in S THEN [sess[s] EXCEPT !.conn = d, !.gatt = last[s]] ELSE sess[s]]
  BY DEF LinkUp
<1>2. registry' = registry
  BY DEF LinkUp
<1> SUFFICES ASSUME NEW s \in Sessions
             PROVE  /\ sess'[s].mac = sess[s].mac
                    /\ IF s \in S THEN sess'[s].conn = d ELSE sess'[s].conn = sess[s].conn
  BY <1>2
<1>3. sess[s] \in SessionState
  BY DEF TypeOK
<1> QED BY <1>1, <1>3 DEF SessionState

\* A call that registers its peripheral changes the registration of its own
\* session, to that peripheral if it has an address, and nobody's peripheral.
LEMMA EstablishedHoldings ==
  ASSUME TypeOK, NEW k \in Calls, Established(k)
  PROVE  LET s == call[k].session
             d == call[k].device
         IN  /\ s \in Sessions /\ d \in Devices
             /\ \A t \in Sessions : sess'[t].conn = sess[t].conn
             /\ \A t \in Sessions \ {s} : sess'[t].mac = sess[t].mac
             /\ \A e \in Devices \ {d} : registry'[e] = registry[e]
             /\ \/ /\ d \in Addressed /\ registry[d] \in {None, s}
                   /\ sess'[s].mac = d /\ registry'[d] = s
                \/ /\ d \notin Addressed
                   /\ sess'[s].mac = None /\ registry'[d] = registry[d]
<1> DEFINE s == call[k].session
           d == call[k].device
<1>1. s \in Sessions /\ d \in Devices
  BY DEF TypeOK, Established
<1>2. sess \in [Sessions -> SessionState]
  BY DEF TypeOK
<1>3. CASE /\ d \in Addressed /\ registry[d] \in {None, s}
           /\ registry' = [registry EXCEPT ![d] = s]
           /\ sess' = [sess EXCEPT ![s].gatt = None, ![s].mac = d]
  BY <1>1, <1>2, <1>3 DEF SessionState, TypeOK
<1>4. CASE /\ d \notin Addressed
           /\ sess' = [sess EXCEPT ![s].gatt = None, ![s].mac = None]
           /\ UNCHANGED registry
  BY <1>1, <1>2, <1>4 DEF SessionState
<1> QED BY <1>3, <1>4 DEF Established

\* A session's registration is its own in the registry after every step.
LEMMA ClaimStep == TypeOK /\ ClaimHeld /\ [Next]_vars => ClaimHeld'
<1> SUFFICES ASSUME TypeOK, ClaimHeld, [Next]_vars PROVE ClaimHeld'
  OBVIOUS
<1>1. ASSUME NEW s \in Sessions, sess[s].mac # None
      PROVE  sess[s].mac \in Devices /\ registry[sess[s].mac] = s
  BY <1>1 DEF TypeOK, SessionState, ClaimHeld
<1>2. CASE Releases
  <2> SUFFICES ASSUME NEW s \in Sessions, sess'[s].mac # None
               PROVE  registry'[sess'[s].mac] = s
    BY DEF ClaimHeld
  <2>1. Kept(s)
    BY <1>2 DEF Releases, Emptied
  <2>2. sess[s].mac \in Devices /\ registry[sess[s].mac] = s
    BY <1>1, <2>1 DEF Kept
  <2>3. registry'[sess[s].mac] = registry[sess[s].mac]
    BY <1>2, <2>2 DEF Releases, Emptied
  <2> QED BY <2>1, <2>2, <2>3 DEF Kept
<1>3. ASSUME NEW k \in Calls, Established(k) PROVE ClaimHeld'
  <2> DEFINE s == call[k].session
             d == call[k].device
  <2>1. ASSUME NEW t \in Sessions \ {s}, sess'[t].mac # None PROVE registry'[sess'[t].mac] = t
    <3>1. /\ sess'[t].mac = sess[t].mac /\ sess[t].mac \in Devices
          /\ registry[sess[t].mac] = t
      BY <1>1, <1>3, <2>1, EstablishedHoldings
    <3>2. registry'[sess[t].mac] = registry[sess[t].mac]
      BY <1>3, <2>1, <3>1, EstablishedHoldings, NoneAssumption
    <3> QED BY <3>1, <3>2
  <2>2. sess'[s].mac # None => registry'[sess'[s].mac] = s
    BY <1>3, EstablishedHoldings
  <2> QED BY <2>1, <2>2 DEF ClaimHeld
<1>4. CASE \A s \in Sessions : sess'[s].mac = sess[s].mac /\ registry' = registry
  BY <1>4 DEF ClaimHeld
<1>5. CASE UNCHANGED <<sess, registry>>
  BY <1>5 DEF ClaimHeld
<1>6. UNCHANGED vars => UNCHANGED <<sess, registry>>
  BY DEF vars
<1>7. ASSUME NEW k \in Calls,
             \/ \E s \in Sessions, d \in Devices : Connect(k, s, d)
             \/ Coalesced(k) \/ QueueTimeout(k)
      PROVE  UNCHANGED <<sess, registry>>
  BY <1>7 DEF Connect, Coalesced, QueueTimeout
<1> QED BY <1>2, <1>3, <1>4, <1>5, <1>6, <1>7, StepKinds, CallAdvances, LinkUpHoldings,
           EnvironmentReleases

\* The peripheral a session has registered is its own in the registry in every
\* reachable state, whoever else registers and unregisters: the entry that a
\* disconnect() removes is never another stack's.
THEOREM ClaimsHeld == Spec => []ClaimHeld
<1>1. Init => ClaimHeld
  BY DEF Init, ClaimHeld, Cleared
<1> QED BY <1>1, TypeInit, TypeStep, ClaimStep, PTL DEF Spec

-----------------------------------------------------------------------------
(* One session holds a peripheral.                                         *)

\* Who has given up waiting in the queue stays so.
LEMMA SerializedBefore ==
  ASSUME Queue, [Next]_vars, Serialized' PROVE Serialized
<1> SUFFICES ASSUME NEW j \in Calls, call[j].pc = "timedOut" PROVE FALSE
  BY DEF Serialized
<1>1. call'[j].pc # "timedOut"
  BY DEF Serialized
<1>2. ASSUME NEW k \in Calls, Joins(k) PROVE FALSE
  BY <1>1, <1>2 DEF Joins
<1>3. ASSUME NEW k \in Calls, CallGoesOn(k) PROVE FALSE
  <2>1. j # k
    BY <1>3 DEF CallGoesOn, Holding, Finished
  <2>2. call'[j] = call[j]
    BY <1>3, <2>1, MovesMeans DEF CallGoesOn, Queue
  <2> QED BY <1>1, <2>2
<1>4. ASSUME NEW k \in Calls, QueueTimeout(k) PROVE FALSE
  <2>1. call'[k].pc = "timedOut"
    BY <1>4 DEF QueueTimeout, Goto, Queue, TypeOK, CallState
  <2> QED BY <2>1 DEF Serialized
<1>5. ASSUME NEW d \in Devices, LinkUp(d) PROVE FALSE
  <2>1. call'[j].pc = call[j].pc
    BY <1>5, LinkUpMeans DEF Queue
  <2> QED BY <1>1, <2>1
<1>6. CASE UNCHANGED call
  BY <1>1, <1>6
<1>7. UNCHANGED vars => UNCHANGED call
  BY DEF vars
<1> QED BY <1>2, <1>3, <1>4, <1>5, <1>6, <1>7, StepKinds, ArrivalJoins, GoesOn,
           EnvironmentMeans DEF Queue

\* A call that keeps its stage advances in the sense above.
LEMMA StillAdvances ==
  ASSUME NEW k \in Calls, call'[k].pc = call[k].pc PROVE Advances(k)
  BY DEF Advances, Opening

Holders == SessionIsCalls /\ NotAnothers /\ HeldIsClaimed

\* A step that gives up, with every call that opens a link advancing, keeps the
\* three invariants.
LEMMA ReleasesKeep ==
  ASSUME IInv, Serialized, Releases,
         \A j \in Calls : call'[j].pc \in Opening \/ call[j].pc \in InSetup =>
           /\ call'[j].session = call[j].session /\ call'[j].device = call[j].device
           /\ call[j].session \in Sessions /\ call[j].device \in Devices
           /\ Advances(j)
  PROVE  Holders'
<1>1. /\ InSetup \subseteq Admitted /\ Admitted \subseteq Opening
      /\ None \notin Addressed
  BY NoneAssumption, AddressedAssumption DEF InSetup, Admitted, Opening
<1>2. \A s \in Sessions : sess'[s].conn \in {sess[s].conn, None}
  BY DEF Releases, Kept, Emptied
<1>3. SessionIsCalls'
  <2> SUFFICES ASSUME NEW j \in Calls, call'[j].pc \in Opening
               PROVE  sess'[call'[j].session].conn \in
                        {None} \cup (IF call'[j].pc \in InSetup THEN {call'[j].device} ELSE {})
    BY DEF SessionIsCalls
  <2>1. CASE sess'[call[j].session].conn = None
    BY <2>1
  <2>2. CASE call[j].pc \in Opening /\ (call'[j].pc \in InSetup <=> call[j].pc \in InSetup)
    BY <1>2, <2>2 DEF IInv, SessionIsCalls
  <2> QED BY <2>1, <2>2 DEF Advances
<1>4. NotAnothers'
  <2> SUFFICES ASSUME NEW j \in Calls, call'[j].pc \in Admitted, call'[j].device \in Addressed
               PROVE  registry'[call'[j].device] \notin Sessions \ {call'[j].session}
    BY DEF NotAnothers
  <2>1. /\ call'[j].session = call[j].session /\ call'[j].device = call[j].device
        /\ call[j].device \in Devices
        /\ call[j].pc \in Admitted \/ registry[call[j].device] \notin Sessions \ {call[j].session}
    BY <1>1 DEF Advances
  <2>2. registry[call[j].device] \notin Sessions \ {call[j].session}
    BY <2>1 DEF IInv, NotAnothers
  <2> QED BY <2>1, <2>2, NoneAssumption DEF Releases
<1>5. HeldIsClaimed'
  <2> SUFFICES ASSUME NEW s \in Sessions, sess'[s].conn \in Addressed
               PROVE  \/ sess'[s].mac = sess'[s].conn
                      \/ \E j \in Calls : /\ call'[j].pc \in InSetup
                                          /\ call'[j].session = s
                                          /\ call'[j].device = sess'[s].conn
    BY DEF HeldIsClaimed
  <2>1. sess'[s].conn = sess[s].conn /\ sess'[s].mac = sess[s].mac
    BY <1>1 DEF Releases, Kept, Emptied
  <2>2. CASE sess[s].mac = sess[s].conn
    BY <2>1, <2>2
  <2>3. CASE \E j \in Calls : /\ call[j].pc \in InSetup
                              /\ call[j].session = s /\ call[j].device = sess[s].conn
    <3>1. PICK j \in Calls : /\ call[j].pc \in InSetup
                             /\ call[j].session = s /\ call[j].device = sess[s].conn
      BY <2>3
    <3>2. call'[j].pc \in InSetup
      BY <1>1, <3>1 DEF Advances
    <3> QED BY <2>1, <3>1, <3>2
  <2> QED BY <2>1, <2>2, <2>3 DEF IInv, HeldIsClaimed
<1> QED BY <1>3, <1>4, <1>5 DEF Holders

\* The stages at which a call opens a link are among those that hold the queue.
LEMMA OpeningHolds == Opening \subseteq Holding /\ InSetup \subseteq Admitted /\ Admitted \subseteq Opening
  BY DEF Opening, Admitted, InSetup, Holding, Stages, Finished

\* A link that comes up for the one call that waits for it keeps them.
LEMMA LinkUpKeeps ==
  ASSUME IInv, Serialized, NEW d \in Devices, LinkUp(d) PROVE Holders'
<1> DEFINE Waits(k) == call[k].pc = "linking" /\ call[k].device = d
<1>1. /\ Queue
      /\ SessionIsCalls /\ NotAnothers /\ HeldIsClaimed
  BY DEF IInv, Queue
<1>2. \A j \in Calls : /\ call'[j].session = call[j].session
                      /\ call'[j].device = call[j].device
                      /\ IF Waits(j) THEN call'[j].pc = "discover"
                                     ELSE call'[j].pc = call[j].pc
  BY <1>1, LinkUpMeans DEF Queue
<1>3. /\ registry' = registry
      /\ \A s \in Sessions : sess'[s].mac = sess[s].mac
      /\ \A s \in Sessions :
           IF \E k \in Calls : Waits(k) /\ call[k].session = s
           THEN sess'[s].conn = d ELSE sess'[s].conn = sess[s].conn
  BY <1>1, LinkUpHoldings DEF Queue
<1>4. /\ "linking" \in Admitted /\ "discover" \in Admitted
      /\ "linking" \notin InSetup /\ "discover" \in InSetup
  BY DEF Admitted, InSetup
<1>5. ASSUME NEW j \in Calls, NEW k \in Calls, call[j].pc \in Opening, Waits(k) PROVE j = k
  BY <1>1, <1>4, <1>5, OneAtATime, OpeningHolds
<1>6. ASSUME NEW j \in Calls, call'[j].pc \in Opening PROVE call[j].pc \in Opening
  BY <1>2, <1>4, <1>6, OpeningHolds
<1>7. \A j \in Calls : call[j].pc # "idle" => call[j].session \in Sessions /\ call[j].device \in Devices
  BY <1>1 DEF Queue, TypeOK
<1>8. SessionIsCalls'
  <2> SUFFICES ASSUME NEW j \in Calls, call'[j].pc \in Opening
               PROVE  sess'[call'[j].session].conn \in
                        {None} \cup (IF call'[j].pc \in InSetup THEN {call'[j].device} ELSE {})
    BY DEF SessionIsCalls
  <2>1. call[j].pc \in Opening /\ call[j].session \in Sessions
    BY <1>6, <1>7 DEF Opening, Admitted, InSetup
  <2>2. CASE Waits(j)
    BY <1>2, <1>3, <1>4, <2>1, <2>2
  <2>3. CASE ~Waits(j)
    <3>1. \A k \in Calls : ~Waits(k)
      BY <1>5, <2>1, <2>3
    <3>2. sess'[call[j].session].conn = sess[call[j].session].conn
      BY <1>3, <2>1, <3>1
    <3> QED BY <1>1, <1>2, <2>1, <2>3, <3>2 DEF SessionIsCalls
  <2> QED BY <2>2, <2>3
<1>9. NotAnothers'
  BY <1>1, <1>2, <1>3, <1>4 DEF NotAnothers
<1>10. HeldIsClaimed'
  <2> SUFFICES ASSUME NEW s \in Sessions, sess'[s].conn \in Addressed
               PROVE  \/ sess'[s].mac = sess'[s].conn
                      \/ \E j \in Calls : /\ call'[j].pc \in InSetup
                                          /\ call'[j].session = s
                                          /\ call'[j].device = sess'[s].conn
    BY DEF HeldIsClaimed
  <2>1. CASE \E k \in Calls : Waits(k) /\ call[k].session = s
    <3>1. PICK k \in Calls : Waits(k) /\ call[k].session = s
      BY <2>1
    <3>2. sess'[s].conn = d /\ call'[k].pc \in InSetup /\ call'[k].session = s /\ call'[k].device = d
      BY <1>2, <1>3, <1>4, <3>1
    <3> QED BY <3>2
  <2>2. CASE ~ \E k \in Calls : Waits(k) /\ call[k].session = s
    <3>1. sess'[s].conn = sess[s].conn /\ sess'[s].mac = sess[s].mac
      BY <1>3, <2>2
    <3>2. \A j \in Calls : call[j].pc \in InSetup => call'[j].pc \in InSetup
      BY <1>2, <1>4
    <3> QED BY <1>1, <1>2, <3>1, <3>2 DEF HeldIsClaimed
  <2> QED BY <2>1, <2>2
<1> QED BY <1>8, <1>9, <1>10 DEF Holders

\* The one call that registers its peripheral keeps them.
LEMMA EstablishedKeeps ==
  ASSUME IInv, Serialized, NEW k \in Calls, Established(k) PROVE Holders'
<1> DEFINE s == call[k].session
           d == call[k].device
<1>1. /\ Queue /\ TypeOK
      /\ SessionIsCalls /\ NotAnothers /\ HeldIsClaimed
  BY DEF IInv, Queue
<1>2. /\ \A j \in Calls \ {k} : call'[j] = call[j]
      /\ call'[k].pc = "done"
  BY <1>1 DEF Established, Goto, TypeOK, CallState
<1>3. call[k].pc \in InSetup /\ "done" \notin Opening
  BY DEF Established, InSetup, Opening, Admitted
<1>4. ASSUME NEW j \in Calls, call[j].pc \in Opening PROVE j = k
  BY <1>1, <1>3, <1>4, OneAtATime, OpeningHolds
<1>5. \A j \in Calls : call'[j].pc \notin Opening
  BY <1>2, <1>3, <1>4
<1>6. SessionIsCalls' /\ NotAnothers'
  BY <1>5, OpeningHolds DEF SessionIsCalls, NotAnothers
<1>7. HeldIsClaimed'
  <2> SUFFICES ASSUME NEW t \in Sessions, sess'[t].conn \in Addressed
               PROVE  sess'[t].mac = sess'[t].conn
    BY DEF HeldIsClaimed
  <2>1. sess'[t].conn = sess[t].conn
    BY <1>1, EstablishedHoldings
  <2>2. CASE t = s
    <3>1. sess[s].conn = d
      BY <1>1, <1>3, <2>1, <2>2, OpeningHolds, NoneAssumption, AddressedAssumption DEF SessionIsCalls
    <3>2. sess'[s].mac = d
      BY <1>1, <2>1, <2>2, <3>1, EstablishedHoldings
    <3> QED BY <2>1, <2>2, <3>1, <3>2
  <2>3. CASE t # s
    <3>1. sess'[t].mac = sess[t].mac
      BY <1>1, <2>3, EstablishedHoldings
    <3>2. \A j \in Calls : call[j].pc \in InSetup => call[j].session # t
      BY <1>4, <2>3, OpeningHolds
    <3> QED BY <1>1, <2>1, <3>1, <3>2 DEF HeldIsClaimed
  <2> QED BY <2>2, <2>3
<1> QED BY <1>6, <1>7 DEF Holders

\* Every step keeps them.
LEMMA HoldersStep ==
  ASSUME IInv, [Next]_vars, Serialized, TypeOK' PROVE Holders'
<1>1. TypeOK /\ Queue
  BY DEF IInv, Queue
<1>2. \A j \in Calls : call[j].pc # "idle" => call[j].session \in Sessions /\ call[j].device \in Devices
  BY <1>1 DEF TypeOK
<1>3. "idle" \notin Opening \cup InSetup /\ InSetup \subseteq Opening
  BY DEF Opening, Admitted, InSetup
<1>4. ASSUME Releases, \A j \in Calls : call'[j] = call[j] PROVE Holders'
  <2>1. \A j \in Calls : Advances(j)
    BY <1>4, StillAdvances
  <2> QED BY <1>2, <1>3, <1>4, <2>1, ReleasesKeep
<1>5. ASSUME UNCHANGED <<sess, registry>> PROVE Releases
  BY <1>5 DEF Releases, Kept
<1>6. ASSUME NEW k \in Calls,
             \/ \E s \in Sessions, d \in Devices : Connect(k, s, d)
             \/ Coalesced(k)
      PROVE  Holders'
  <2>1. Joins(k)
    BY <1>1, <1>6, ArrivalJoins
  <2>2. /\ \A j \in Calls \ {k} : call'[j] = call[j]
        /\ call[k].pc \notin InSetup /\ call'[k].pc \notin Opening
    BY <2>1 DEF Joins, Opening, Admitted, InSetup
  <2>3. \A j \in Calls \ {k} : Advances(j)
    BY <2>2, StillAdvances
  <2>4. Releases
    BY <1>5, <1>6 DEF Connect, Coalesced
  <2> QED BY <1>2, <1>3, <2>2, <2>3, <2>4, ReleasesKeep
<1>7. ASSUME NEW k \in Calls, CallNext(k), ~Coalesced(k), ~Established(k) PROVE Holders'
  <2>1. CallGoesOn(k) /\ Releases /\ Advances(k)
    BY <1>1, <1>7, GoesOn, CallAdvances
  <2>2. /\ \A j \in Calls \ {k} : call'[j] = call[j]
        /\ call'[k].session = call[k].session /\ call'[k].device = call[k].device
    BY <1>1, <2>1, MovesMeans DEF CallGoesOn
  <2>3. \A j \in Calls : Advances(j)
    BY <2>1, <2>2, StillAdvances
  <2>4. call[k].pc # "idle"
    BY <2>1 DEF CallGoesOn, Holding
  <2> QED BY <1>2, <1>3, <2>1, <2>2, <2>3, <2>4, ReleasesKeep
<1>8. ASSUME NEW k \in Calls, QueueTimeout(k) PROVE Holders'
  <2>1. /\ \A j \in Calls \ {k} : call'[j] = call[j]
        /\ call[k].pc = "queued" /\ call'[k].pc = "timedOut"
    BY <1>1, <1>8 DEF QueueTimeout, Goto, TypeOK, CallState
  <2>2. call[k].pc \notin InSetup /\ call'[k].pc \notin Opening
    BY <2>1 DEF Opening, Admitted, InSetup
  <2>3. \A j \in Calls \ {k} : Advances(j)
    BY <2>1, StillAdvances
  <2>4. Releases
    BY <1>5, <1>8 DEF QueueTimeout
  <2> QED BY <1>2, <1>3, <2>1, <2>2, <2>3, <2>4, ReleasesKeep
<1>9. CASE Environment
  <2>1. Releases /\ call' = call
    BY <1>1, <1>9, EnvironmentReleases, EnvironmentMeans
  <2> QED BY <1>4, <2>1
<1>10. CASE UNCHANGED vars
  BY <1>4, <1>5, <1>10 DEF vars
<1> QED BY <1>6, <1>7, <1>8, <1>9, <1>10, StepKinds, LinkUpKeeps, EstablishedKeeps

-----------------------------------------------------------------------------
(* The GATT setup in flight.                                               *)

\* The steps that only settle setups: a session keeps its setup in flight as
\* long as that is not settled.
SettlesOnly ==
  /\ gattOpen' \subseteq gattOpen
  /\ \A s \in Sessions : sess'[s].gatt = sess[s].gatt \/ sess[s].gatt \notin gattOpen'

\* A session table that has the setups of this.sessions.
SameSetups(t) ==
  /\ t \in [Sessions -> SessionState]
  /\ \A s \in Sessions : t[s].gatt = sess[s].gatt

\* The session table as it is, and reopened for a connection, has them.
LEMMA ReopenedSetups ==
  ASSUME TypeOK, NEW k \in Calls PROVE SameSetups(sess) /\ SameSetups(Reopened(k))
<1>1. SameHoldings(sess) /\ SameHoldings(Reopened(k))
  BY ReopenedSame
<1>2. \A s \in Sessions : Reopened(k)[s].gatt = sess[s].gatt
  BY DEF Reopened, TypeOK, SessionState
<1> QED BY <1>1, <1>2 DEF SameHoldings, SameSetups

\* Clearing sessions settles their setups.
LEMMA WipedSettles ==
  ASSUME NEW t, SameSetups(t), NEW S \in SUBSET Sessions,
         sess' = Wiped(t, S), gattOpen' = Settled(S)
  PROVE  SettlesOnly
<1>1. gattOpen' \subseteq gattOpen
  BY DEF Settled
<1>2. ASSUME NEW s \in S PROVE sess[s].gatt \notin gattOpen'
  BY <1>2 DEF Settled
<1>3. ASSUME NEW s \in Sessions \ S PROVE sess'[s].gatt = sess[s].gatt
  BY <1>3 DEF Wiped, SameSetups
<1> QED BY <1>1, <1>2, <1>3 DEF SettlesOnly

\* So does the start of a disconnect().
LEMMA BeginDisconnectSettles ==
  ASSUME NEW t, SameSetups(t), NEW S \in SUBSET Sessions, NEW by, BeginDisconnect(t, S, by)
  PROVE  SettlesOnly
<1> DEFINE A == {s \in S : Attached(s)}
<1>1. A \in SUBSET Sessions /\ sess' = Wiped(t, A) /\ gattOpen' = Settled(A)
  BY DEF BeginDisconnect
<1> HIDE DEF A
<1> QED BY <1>1, WipedSettles

\* Registering a listener settles nothing.
LEMMA ListenSettles ==
  ASSUME NEW k \in Calls, NEW t, SameSetups(t), Listen(k, t), UNCHANGED gattOpen
  PROVE  SettlesOnly
  BY DEF Listen, SameSetups, SettlesOnly, SessionState

\* connect() with the peripheral in hand settles setups and begins none.
LEMMA ProceedSettles ==
  ASSUME TypeOK, NEW k \in Calls, call[k].pc # "idle", NEW t, SameSetups(t), Proceed(k, t)
  PROVE  SettlesOnly
<1>1. call[k].session \in Sessions
  BY DEF TypeOK
<1>2. CASE Abandon(k, t)
  BY <1>1, <1>2, WipedSettles DEF Abandon, Forget
<1>3. CASE Listen(k, t) /\ UNCHANGED gattOpen
  BY <1>3, ListenSettles
<1>4. CASE \E o \in Sessions : BeginDisconnect(t, {o}, k)
  BY <1>4, BeginDisconnectSettles
<1>5. CASE sess' = t /\ UNCHANGED gattOpen
  BY <1>5 DEF SameSetups, SettlesOnly
<1> QED BY <1>2, <1>3, <1>4, <1>5 DEF Proceed

\* So does every other step of a call that has its turn, and a call does not
\* leave its setup before that is settled.
LEMMA CallSettles ==
  ASSUME TypeOK, NEW k \in Calls, CallNext(k), ~Coalesced(k),
         k \in gattOpen => sess[call[k].session].gatt = k
  PROVE  /\ SettlesOnly
         /\ call[k].pc \in InSetup => call'[k].pc \in InSetup \/ k \notin gattOpen'
<1> DEFINE s == call[k].session
<1>1. call[k] \in CallState /\ (call[k].pc # "idle" => s \in Sessions)
  BY DEF TypeOK
<1>2. SameSetups(sess) /\ SameSetups(Reopened(k))
  BY ReopenedSetups
<1>3. ASSUME NEW pc, Goto(k, pc) PROVE call'[k].pc = pc
  BY <1>1, <1>3 DEF Goto, TypeOK, CallState
<1>4. ASSUME UNCHANGED <<sess, gattOpen>> PROVE SettlesOnly
  BY <1>4 DEF SettlesOnly
<1>5. ASSUME Forget(k, sess), s \in Sessions PROVE SettlesOnly /\ (k \in gattOpen => k \notin gattOpen')
  <2>1. SettlesOnly
    BY <1>2, <1>5, WipedSettles DEF Forget
  <2> QED BY <1>5, <2>1 DEF Forget, Settled
<1>6. ASSUME TearDown(k), s \in Sessions PROVE SettlesOnly
  BY <1>2, <1>6, BeginDisconnectSettles DEF TearDown
<1>7. CASE Refused(k)
  BY <1>1, <1>5, <1>7 DEF Refused, InSetup
<1>8. CASE Begin(k)
  BY <1>1, <1>4, <1>6, <1>8 DEF Begin, InSetup
<1>9. CASE Recoalesced(k)
  BY <1>1, <1>4, <1>6, <1>9 DEF Recoalesced, InSetup
<1>10. CASE Prepared(k)
  <2>1. call[k].pc = "unlink"
    BY <1>10 DEF Prepared
  <2>2. CASE Proceed(k, Reopened(k))
    BY <1>2, <2>1, <2>2, ProceedSettles DEF InSetup
  <2>3. CASE sess' = Reopened(k) /\ UNCHANGED gattOpen
    BY <1>2, <2>1, <2>3 DEF SameSetups, SettlesOnly, InSetup
  <2> QED BY <1>10, <2>2, <2>3 DEF Prepared
<1>11. CASE SeekEnds(k)
  <2>1. call[k].pc \in {"seek", "reseek"} /\ s \in Sessions
    BY <1>1, <1>11 DEF SeekEnds
  <2>2. CASE Proceed(k, sess)
    BY <1>2, <2>1, <2>2, ProceedSettles DEF InSetup
  <2>3. CASE Listen(k, sess) /\ UNCHANGED gattOpen
    BY <1>2, <2>1, <2>3, ListenSettles DEF InSetup
  <2>4. CASE Forget(k, sess)
    BY <1>5, <2>1, <2>4 DEF InSetup
  <2> QED BY <1>11, <2>2, <2>3, <2>4 DEF SeekEnds, Abandon
<1>12. CASE LinkFreed(k)
  <2>1. call[k].pc \notin InSetup /\ UNCHANGED gattOpen
    BY <1>12 DEF LinkFreed, InSetup
  <2>2. CASE Listen(k, sess)
    BY <1>2, <2>1, <2>2, ListenSettles
  <2>3. CASE UNCHANGED sess
    BY <1>4, <2>1, <2>3
  <2> QED BY <1>12, <2>1, <2>2, <2>3 DEF LinkFreed
<1>13. CASE Open(k) \/ LinkFails(k) \/ SetupFailed(k)
  BY <1>4, <1>13 DEF Open, LinkFails, SetupFailed, InSetup
<1>14. CASE LinkFailed(k)
  BY <1>1, <1>5, <1>14 DEF LinkFailed, Abandon, InSetup
<1>15. CASE Discovered(k) \/ Subscribed(k)
  <2>1. call'[k].pc \in InSetup
    BY <1>3, <1>15 DEF Discovered, Subscribed, InSetup
  <2>2. SettlesOnly
    BY <1>15 DEF Discovered, Subscribed, SettlesOnly, TypeOK, SessionState
  <2> QED BY <2>1, <2>2
<1>16. CASE SetupFails(k)
  <2>1. call[k].pc # "idle"
    BY <1>16 DEF SetupFails, InSetup
  <2> QED BY <1>1, <1>5, <1>16, <2>1 DEF SetupFails, Abandon, SettlesOnly
<1>17. CASE Established(k)
  <2>1. gattOpen' = Settled({s}) /\ s \in Sessions
    BY <1>1, <1>17 DEF Established
  <2>2. \A o \in Sessions \ {s} : sess'[o].gatt = sess[o].gatt
    BY <1>17 DEF Established, TypeOK, SessionState
  <2>3. sess[s].gatt \notin gattOpen' /\ gattOpen' \subseteq gattOpen
    BY <2>1 DEF Settled
  <2> QED BY <2>2, <2>3 DEF SettlesOnly
<1> QED BY <1>7, <1>8, <1>9, <1>10, <1>11, <1>12, <1>13, <1>14, <1>15, <1>16, <1>17
        DEF CallNext

\* A step of the environment settles setups and begins none.
LEMMA EnvironmentSettles == ASSUME TypeOK, Environment PROVE SettlesOnly
<1>1. SameSetups(sess)
  BY DEF SameSetups, TypeOK
<1>2. ASSUME UNCHANGED <<sess, gattOpen>> PROVE SettlesOnly
  BY <1>2 DEF SettlesOnly
<1>3. CASE \E s \in Sessions : Disconnect(s)
  BY <1>1, <1>3, BeginDisconnectSettles DEF Disconnect
<1>4. CASE \E d \in Devices : Drops(d)
  <2>1. PICK d \in Devices : Drops(d)
    BY <1>4
  <2> DEFINE heard == {k \in listening : call[k].device = d}
             S == {call[k].session : k \in heard} \cap Sessions
  <2>2. \A s \in Sessions : s \in {call[k].session : k \in heard} <=> s \in S
    OBVIOUS
  <2>3. sess' = Wiped(sess, S)
    BY <2>1 DEF Drops, Wiped
  <2>4. gattOpen' \subseteq Settled(S)
    BY <2>1 DEF Drops, Settled
  <2>5. gattOpen' \subseteq gattOpen
    BY <2>1 DEF Drops, Settled
  <2>6. \A s \in S : sess[s].gatt \notin gattOpen'
    BY <2>4 DEF Settled
  <2>7. \A s \in Sessions \ S : sess'[s].gatt = sess[s].gatt
    BY <2>3 DEF Wiped
  <2> QED BY <2>5, <2>6, <2>7 DEF SettlesOnly
<1>5. CASE Suspend
  BY <1>1, <1>5, BeginDisconnectSettles DEF Suspend
<1>6. CASE \/ \E d \in Devices : Discover(d) \/ ReticulumRegisters(d)
           \/ CutNext \/ Yielded \/ Unyield
  BY <1>2, <1>6
  DEF Discover, ReticulumRegisters, CutNext, CutUnsubscribed, CutEnds, Yielded, Unyield
<1> QED BY <1>3, <1>4, <1>5, <1>6 DEF Environment

\* Settling keeps every setup in flight attended, if no call leaves its setup
\* before that is settled.
LEMMA SettlesKeep ==
  ASSUME TypeOK, SetupAttended, Serialized, SettlesOnly,
         \A j \in gattOpen : /\ call'[j].session = call[j].session
                             /\ call'[j].pc \in InSetup \/ j \notin gattOpen'
  PROVE  SetupAttended'
<1> SUFFICES ASSUME NEW j \in gattOpen'
             PROVE  call'[j].pc \in InSetup /\ sess'[call'[j].session].gatt = j
  BY DEF SetupAttended
<1>1. j \in gattOpen /\ j \in Calls
  BY DEF SettlesOnly, TypeOK
<1>2. call[j].pc \in InSetup /\ sess[call[j].session].gatt = j
  BY <1>1 DEF SetupAttended
<1>3. call[j].session \in Sessions
  BY <1>1, <1>2 DEF TypeOK, InSetup
<1>4. sess'[call[j].session].gatt = j
  BY <1>2, <1>3 DEF SettlesOnly
<1> QED BY <1>1, <1>4

\* A link that comes up for the one call that waits for it finds no setup in
\* flight, and begins that call's.
LEMMA LinkUpAttended ==
  ASSUME Queue, SetupAttended, Serialized, NEW d \in Devices, LinkUp(d)
  PROVE  SetupAttended'
<1> DEFINE up == {k \in Calls : call[k].pc = "linking" /\ call[k].device = d}
           S == {call[k].session : k \in up}
<1>1. /\ TypeOK
      /\ gattOpen' = gattOpen \cup up
  BY DEF Queue, LinkUp
<1>2. \A j \in Calls : /\ call'[j].session = call[j].session
                      /\ IF j \in up THEN call'[j].pc = "discover" ELSE call'[j].pc = call[j].pc
  BY <1>1, LinkUpMeans
<1>3. PICK last \in [S -> up] :
        sess' = [s \in Sessions |->
                   IF s \in S THEN [sess[s] EXCEPT !.conn = d, !.gatt = last[s]] ELSE sess[s]]
  BY DEF LinkUp
<1>4. InSetup \subseteq Holding /\ "linking" \in Holding /\ "linking" \notin InSetup
  BY DEF Holding, Stages, InSetup, Finished
<1>5. \A j \in gattOpen : j \in Calls /\ call[j].pc \in InSetup
  BY <1>1 DEF TypeOK, SetupAttended
<1>6. CASE up = {}
  <2>1. gattOpen' = gattOpen /\ \A s \in Sessions : sess'[s].gatt = sess[s].gatt
    BY <1>1, <1>3, <1>6
  <2>2. SettlesOnly
    BY <2>1 DEF SettlesOnly
  <2>3. \A j \in gattOpen : call'[j].session = call[j].session /\ call'[j].pc \in InSetup
    BY <1>2, <1>5, <1>6
  <2> QED BY <1>1, <2>2, <2>3, SettlesKeep
<1>7. CASE up # {}
  <2>1. PICK k \in up : TRUE
    BY <1>7
  <2>2. \A j \in up : j = k
    BY <1>4, <2>1, OneAtATime
  <2>3. gattOpen = {}
    BY <1>4, <1>5, <2>1, OneAtATime
  <2>4. gattOpen' = {k}
    BY <1>1, <2>1, <2>2, <2>3
  <2>5. call[k].session \in Sessions /\ call[k].session \in S
    BY <1>1, <2>1 DEF TypeOK
  <2>6. last[call[k].session] = k
    BY <1>3, <2>2, <2>5
  <2>7. sess[call[k].session] \in SessionState
    BY <1>1, <2>5 DEF TypeOK
  <2>8. sess'[call[k].session].gatt = k
    BY <1>3, <2>5, <2>6, <2>7 DEF SessionState
  <2>9. call'[k].pc = "discover" /\ call'[k].session = call[k].session
    BY <1>2, <2>1
  <2> QED BY <2>4, <2>8, <2>9 DEF SetupAttended, InSetup
<1> QED BY <1>6, <1>7

\* Every step keeps the setups in flight attended.
LEMMA AttendedStep ==
  ASSUME Queue, SetupAttended, Serialized, [Next]_vars PROVE SetupAttended'
<1>1. TypeOK /\ gattOpen \subseteq Calls
  BY DEF Queue, TypeOK
<1>2. \A j \in gattOpen : call[j].pc \in InSetup /\ sess[call[j].session].gatt = j
  BY DEF SetupAttended
<1>3. ASSUME SettlesOnly, NEW k \in Calls, call[k].pc \notin InSetup,
             \A j \in Calls \ {k} : call'[j] = call[j]
      PROVE  SetupAttended'
  BY <1>1, <1>2, <1>3, SettlesKeep
<1>4. ASSUME UNCHANGED <<sess, gattOpen>> PROVE SettlesOnly
  BY <1>4 DEF SettlesOnly
<1>5. ASSUME SettlesOnly, call' = call PROVE SetupAttended'
  BY <1>1, <1>2, <1>5, SettlesKeep
<1>6. ASSUME NEW k \in Calls,
             \/ \E s \in Sessions, d \in Devices : Connect(k, s, d)
             \/ Coalesced(k)
      PROVE  SetupAttended'
  <2>1. Joins(k)
    BY <1>1, <1>6, ArrivalJoins
  <2>2. (\A j \in Calls \ {k} : call'[j] = call[j]) /\ call[k].pc \notin InSetup
    BY <2>1 DEF Joins, InSetup
  <2>3. SettlesOnly
    BY <1>4, <1>6 DEF Connect, Coalesced
  <2> QED BY <1>3, <2>2, <2>3
<1>7. ASSUME NEW k \in Calls, CallNext(k), ~Coalesced(k) PROVE SetupAttended'
  <2>1. SettlesOnly /\ (call[k].pc \in InSetup => call'[k].pc \in InSetup \/ k \notin gattOpen')
    BY <1>1, <1>2, <1>7, CallSettles
  <2>2. CallGoesOn(k)
    BY <1>1, <1>7, GoesOn
  <2>3. /\ \A j \in Calls \ {k} : call'[j] = call[j]
        /\ call'[k].session = call[k].session
    BY <1>1, <2>2, MovesMeans DEF CallGoesOn
  <2> QED BY <1>1, <1>2, <2>1, <2>3, SettlesKeep
<1>8. ASSUME NEW k \in Calls, QueueTimeout(k) PROVE SetupAttended'
  <2>1. call[k].pc \notin InSetup /\ \A j \in Calls \ {k} : call'[j] = call[j]
    BY <1>1, <1>8 DEF QueueTimeout, Goto, TypeOK, InSetup
  <2> QED BY <1>3, <1>4, <1>8, <2>1 DEF QueueTimeout
<1>9. CASE Environment
  BY <1>1, <1>5, <1>9, EnvironmentMeans, EnvironmentSettles
<1>10. CASE UNCHANGED vars
  BY <1>4, <1>5, <1>10 DEF vars
<1> QED BY <1>6, <1>7, <1>8, <1>9, <1>10, StepKinds, LinkUpAttended

-----------------------------------------------------------------------------
(* The inductive invariant.                                                *)

\* The inductive invariant holds at the start and in every step.
LEMMA InvariantInit == Init => IInv
<1>1. ASSUME Init PROVE SessionIsCalls /\ NotAnothers /\ ClaimHeld /\ HeldIsClaimed
  BY <1>1, NoneAssumption, AddressedAssumption
     DEF Init, SessionIsCalls, NotAnothers, ClaimHeld, HeldIsClaimed, Cleared,
         Opening, Admitted, InSetup
<1>2. Init => SetupAttended
  BY DEF Init, SetupAttended
<1> QED BY <1>1, <1>2, QueueInit DEF IInv, Queue

\* It is inductive: the steps of a queue that nobody gave up keep every part.
LEMMA InvariantStep == IInv /\ [Next]_vars => IInv'
<1> SUFFICES ASSUME IInv, [Next]_vars PROVE IInv'
  OBVIOUS
<1>1. Queue /\ TypeOK /\ ClaimHeld
  BY DEF IInv, Queue
<1>2. Queue' /\ ClaimHeld' /\ TypeOK'
  BY <1>1, QueueStep, ClaimStep DEF Queue
<1>3. CASE Serialized'
  <2>1. Serialized
    BY <1>1, <1>3, SerializedBefore
  <2>2. Holders'
    BY <1>2, <2>1, HoldersStep
  <2>3. SetupAttended'
    BY <1>1, <2>1, AttendedStep DEF IInv
  <2> QED BY <1>2, <2>2, <2>3 DEF IInv, Queue, Holders
<1>4. CASE ~Serialized'
  BY <1>2, <1>4 DEF IInv, Queue, SessionIsCalls, NotAnothers, HeldIsClaimed, SetupAttended
<1> QED BY <1>3, <1>4

\* Two sessions never hold the same peripheral with an address while nobody
\* gives up waiting: of two holders both have it registered, which the registry
\* excludes, or one registered it and the other was admitted past it, or both
\* are in their GATT setup, which the queue excludes.
THEOREM HoldersAreOne == Spec => []OneHolder
<1>1. ASSUME IInv PROVE OneHolder
  <2> SUFFICES ASSUME Serialized, NEW s \in Sessions, NEW t \in Sessions,
                      sess[s].conn \in Addressed, sess[s].conn = sess[t].conn
               PROVE  s = t
    BY DEF OneHolder
  <2> DEFINE SetsUp(k, u) == /\ call[k].pc \in InSetup /\ call[k].session = u
                             /\ call[k].device = sess[s].conn
  <2>1. ASSUME NEW u \in {s, t}
        PROVE  sess[u].mac = sess[s].conn \/ \E k \in Calls : SetsUp(k, u)
    BY <1>1 DEF IInv, HeldIsClaimed
  <2>2. ASSUME NEW u \in Sessions, sess[u].mac = sess[s].conn PROVE registry[sess[s].conn] = u
    BY <1>1, <2>2, NoneAssumption, AddressedAssumption DEF IInv, ClaimHeld
  <2>3. ASSUME NEW u \in Sessions, NEW v \in Sessions, sess[u].mac = sess[s].conn,
               NEW k \in Calls, SetsUp(k, v)
        PROVE  u = v
    BY <1>1, <2>2, <2>3, OpeningHolds DEF IInv, NotAnothers
  <2>4. ASSUME NEW j \in Calls, NEW k \in Calls, SetsUp(j, s), SetsUp(k, t) PROVE s = t
    BY <1>1, <2>4, OneAtATime, OpeningHolds DEF IInv, Queue
  <2> QED BY <2>1, <2>2, <2>3, <2>4
<1> QED BY <1>1, InvariantInit, InvariantStep, PTL DEF Spec

\* Nobody waits for a call that waits for it: a duplicate's setup is in the
\* hands of a call at its GATT setup, which the session still names, and the
\* queue hands over from front to back.  Against the source's caution, the
\* second look for a duplicate never finds a setup to wait for while nobody
\* gave up: its owner would hold the queue together with the call that looks.
THEOREM WaitersAreAttended == Spec => []WaitersAttended
<1>1. ASSUME IInv PROVE WaitersAttended
  <2> SUFFICES ASSUME Serialized, NEW k \in Calls
               PROVE  /\ call[k].pc = "coalesce" /\ call[k].on \in gattOpen =>
                           /\ call[call[k].on].pc \in InSetup
                           /\ sess[call[call[k].on].session].gatt = call[k].on
                      /\ call[k].pc = "queued" /\ ~SlotFree(k) =>
                           \E j \in Calls : /\ call[j].slot < call[k].slot
                                            /\ call[j].pc \notin {"idle", "coalesce", "done"}
                      /\ call[k].pc = "recoalesce" => call[k].on \notin gattOpen
    BY DEF WaitersAttended
  <2>1. Queue /\ TypeOK /\ SetupAttended /\ gattOpen \subseteq Calls
    BY <1>1 DEF IInv, Queue, TypeOK
  <2>2. ASSUME call[k].on \in gattOpen
        PROVE  /\ call[call[k].on].pc \in InSetup
               /\ sess[call[call[k].on].session].gatt = call[k].on
    BY <2>1, <2>2 DEF SetupAttended
  <2>3. ASSUME ~SlotFree(k)
        PROVE  \E j \in Calls : /\ call[j].slot < call[k].slot
                                /\ call[j].pc \notin {"idle", "coalesce", "done"}
    <3>1. PICK j \in Calls : /\ call[j].slot > 0 /\ call[j].slot + 1 = call[k].slot
                             /\ call[j].pc \notin Finished
      BY <2>3 DEF SlotFree
    <3>2. call[j].slot \in Nat /\ call[k].slot \in Nat
      BY <2>1 DEF TypeOK, CallState
    <3>3. call[j].pc \notin {"idle", "coalesce"}
      BY <2>1, <3>1, <3>2 DEF Queue, QueueNumbered
    <3> QED BY <3>1, <3>2, <3>3 DEF Finished
  <2>4. ASSUME call[k].pc = "recoalesce", call[k].on \in gattOpen PROVE FALSE
    <3>1. call[k].on \in Calls /\ call[call[k].on].pc \in InSetup
      BY <2>1, <2>2, <2>4
    <3>2. InSetup \subseteq Holding /\ "recoalesce" \in Holding /\ "recoalesce" \notin InSetup
      BY DEF Holding, Stages, Waiting, InSetup, Finished
    <3>3. call[k].on = k
      BY <2>1, <2>4, <3>1, <3>2, OneAtATime
    <3> QED BY <2>4, <3>1, <3>2, <3>3
  <2> QED BY <2>2, <2>3, <2>4
<1> QED BY <1>1, InvariantInit, InvariantStep, PTL DEF Spec
=============================================================================
