----------------------- MODULE SidecarLifecycleProofs -----------------------
(***************************************************************************)
(* Proofs about SidecarLifecycle, for any number of children and callers.  *)
(***************************************************************************)
EXTENDS SidecarLifecycle, TLAPS

\* The neutral records have the types of their sets.
LEMMA NeutralTypes ==
  /\ NoWatchdog \in Watchdog
  /\ NoFrame \in Frame /\ NoFrame.pc = "none"
  /\ IdleRun \in Run /\ IdleRun.pc = "idle"
<1>1. NoWatchdog \in Watchdog
  BY DEF NoWatchdog, Watchdog, WatchdogPc, HungThreshold
<1>2. NoFrame \in Frame /\ NoFrame.pc = "none"
  BY DEF NoFrame, Frame, FramePc
<1>3. IdleRun \in Run /\ IdleRun.pc = "idle"
  BY DEF IdleRun, Run, RunPc
<1> QED BY <1>1, <1>2, <1>3

\* A stopped watchdog, and one back between two polls, have the type of one.
LEMMA DisarmedType ==
  ASSUME NEW w \in Watchdog
  PROVE  Disarmed(w) \in Watchdog
<1>1. [w EXCEPT !.stopped = TRUE] \in Watchdog
  BY DEF Watchdog
<1> QED BY <1>1, NeutralTypes DEF Disarmed

\* A watchdog that waits for its next poll is a watchdog.
LEMMA RestingType ==
  ASSUME NEW w \in Watchdog, NEW n \in 0..HungThreshold
  PROVE  Resting(w, n) \in Watchdog
<1>1. [w EXCEPT !.pc = "idle", !.fails = n] \in Watchdog
  BY DEF Watchdog, WatchdogPc
<1> QED BY <1>1, NeutralTypes DEF Resting

\* The watchdogs keep their type when they are disarmed or answered.
LEMMA DisarmType ==
  ASSUME watchdog \in [Children -> Watchdog], DisarmWatchdogs
  PROVE  watchdog' \in [Children -> Watchdog]
  BY DisarmedType DEF DisarmWatchdogs

\* Answering the restarts that wait for a start() keeps the watchdogs typed.
LEMMA AnsweredType ==
  ASSUME NEW w \in [Children -> Watchdog]
  PROVE  AnsweredRestarts(w) \in [Children -> Watchdog]
  BY NeutralTypes DEF AnsweredRestarts

\* The callers and the attempt keep their types when the attempt ends.
LEMMA EndRunType ==
  ASSUME caller \in [Callers -> CallerState], EndRun
  PROVE  caller' \in [Callers -> CallerState] /\ run' = IdleRun
  BY DEF EndRun, CallerState

\* The end of a stop keeps the callers typed.
LEMMA AfterStopType ==
  ASSUME NEW f, caller \in [Callers -> CallerState], AfterStop(f)
  PROVE  caller' \in [Callers -> CallerState]
  BY DEF AfterStop, CallerState

\* startOnce()'s first step leaves a well-formed attempt and frames.
LEMMA ChooseBeginType ==
  ASSUME TypeOK, NEW reuse \in BOOLEAN, ChooseBegin(reuse)
  PROVE  /\ run' \in Run
         /\ stopping' \in [Frames -> Frame]
         /\ run'.pc \in {"health", "reusePoll"} => run'.child # NoChild
         /\ \A f \in Frames : stopping'[f].pc = "term" => stopping'[f].target # NoChild
<1> USE DEF TypeOK
<1>1. run' \in Run /\ (run'.pc \in {"health", "reusePoll"} => run'.child # NoChild)
  <2>1. CASE run' = [IdleRun EXCEPT !.pc = "reusePoll", !.child = proc, !.reuse = TRUE] /\ proc # NoChild
    BY <2>1 DEF IdleRun, Run, RunPc
  <2>2. CASE \E pc \in {"preStop", "build"} : run' = [IdleRun EXCEPT !.pc = pc, !.reuse = reuse]
    BY <2>2 DEF IdleRun, Run, RunPc
  <2> QED BY <2>1, <2>2 DEF ChooseBegin
<1>2. \/ stopping' = stopping
      \/ stopping' = [stopping EXCEPT !["start"].pc = "enter"]
  BY DEF ChooseBegin
<1>3. stopping' \in [Frames -> Frame]
  BY <1>2 DEF Frame, FramePc
<1>4. \A f \in Frames : stopping'[f].pc = "term" => stopping'[f].target # NoChild
  BY <1>2 DEF Frame, FramePc
<1> QED BY <1>1, <1>3, <1>4

\* Every variable keeps its type, and a stopProc() that kills and a health poll
\* always have a child, whatever start(), stop(), exits and polls come in.
THEOREM TypeCorrect == Spec => []TypeOK
<1>1. Init => TypeOK
  <2> SUFFICES ASSUME Init PROVE TypeOK
    OBVIOUS
  <2>1. child \in [Children -> ChildState] /\ caller \in [Callers -> CallerState]
    BY DEF Init, ChildState, CallerState
  <2>2. run \in Run /\ stopping \in [Frames -> Frame] /\ watchdog \in [Children -> Watchdog]
    BY NeutralTypes DEF Init
  <2>3. generation \in Nat /\ calls \in 0..MaxCalls
    BY BoundAssumption DEF Init
  <2>4. \A f \in Frames : stopping[f].pc # "term"
    BY NeutralTypes DEF Init
  <2> QED BY <2>1, <2>2, <2>3, <2>4, NeutralTypes DEF Init, TypeOK
<1>2. TypeOK /\ [Next]_vars => TypeOK'
  <2> SUFFICES ASSUME TypeOK, [Next]_vars PROVE TypeOK'
    OBVIOUS
  <2> USE DEF TypeOK
  <2>1. ASSUME NEW f \in Frames, StopEnter(f) PROVE TypeOK'
    BY <2>1, DisarmType DEF StopEnter, Frames, Frame, FramePc
  <2>2. ASSUME NEW f \in Frames, StopTake(f) PROVE TypeOK'
    <3>1. CASE proc = NoChild
      BY <2>2, <3>1, DisarmType, AfterStopType, NeutralTypes DEF StopTake, FinishStop
    <3>2. CASE proc # NoChild
      <4>1. [pc |-> "term", target |-> proc] \in Frame
        BY DEF Frame, FramePc
      <4> QED BY <2>2, <3>2, <4>1 DEF StopTake
    <3> QED BY <3>1, <3>2
  <2>3. CASE RunAfterStop
    <3>1. CASE startAbort
      BY <2>3, <3>1, EndRunType, AnsweredType, NeutralTypes DEF RunAfterStop
    <3>2. CASE ~startAbort
      <4>1. run.reuse \in BOOLEAN
        BY DEF Run
      <4> QED BY <2>3, <3>2, <4>1, ChooseBeginType DEF RunAfterStop
    <3> QED BY <3>1, <3>2
  <2>4. CASE RunAfterOwnStop
    <3>1. CASE run.pc = "preStop"
      BY <2>4, <3>1 DEF RunAfterOwnStop, Run, RunPc
    <3>2. CASE run.pc = "failStop"
      BY <2>4, <3>2, EndRunType, AnsweredType, NeutralTypes DEF RunAfterOwnStop
    <3> QED BY <2>4, <3>1, <3>2 DEF RunAfterOwnStop
  <2>5. ASSUME NEW x \in Callers, NEW reuse \in BOOLEAN, JoinOrLaunch(x, reuse)
        PROVE  /\ caller' \in [Callers -> CallerState]
               /\ startAbort' \in BOOLEAN /\ quitFast' \in BOOLEAN /\ generation' \in Nat
               /\ run' \in Run /\ stopping' \in [Frames -> Frame]
               /\ run'.pc \in {"health", "reusePoll"} => run'.child # NoChild
               /\ \A f \in Frames : stopping'[f].pc = "term" => stopping'[f].target # NoChild
    <3>1. caller' \in [Callers -> CallerState]
      BY <2>5 DEF JoinOrLaunch, CallerState
    <3>2. CASE UNCHANGED <<startAbort, quitFast, generation, run, stopping>>
      BY <3>1, <3>2
    <3>3. CASE StopInFlight /\ ~StartInFlight
      <4>1. run' = [IdleRun EXCEPT !.pc = "awaitStop", !.reuse = reuse]
        BY <2>5, <3>3 DEF JoinOrLaunch
      <4>2. run' \in Run /\ run'.pc = "awaitStop"
        BY <4>1, NeutralTypes DEF Run, RunPc
      <4>3. startAbort' = FALSE /\ quitFast' = FALSE /\ generation' = generation + 1
            /\ stopping' = stopping
        BY <2>5, <3>3 DEF JoinOrLaunch
      <4>4. startAbort' \in BOOLEAN /\ quitFast' \in BOOLEAN
        BY <4>3
      <4>5. generation' \in Nat
        BY <4>3
      <4>6. stopping' \in [Frames -> Frame]
        BY <4>3
      <4>7. \A f \in Frames : stopping'[f].pc = "term" => stopping'[f].target # NoChild
        BY <4>3
      <4> QED BY <3>1, <4>2, <4>4, <4>5, <4>6, <4>7
    <3>4. CASE ~StopInFlight /\ ~StartInFlight
      <4>1. startAbort' = FALSE /\ quitFast' = FALSE /\ generation' = generation + 1
            /\ ChooseBegin(reuse)
        BY <2>5, <3>4 DEF JoinOrLaunch
      <4>2. startAbort' \in BOOLEAN /\ quitFast' \in BOOLEAN
        BY <4>1
      <4>3. generation' \in Nat
        BY <4>1
      <4> QED BY <3>1, <4>1, <4>2, <4>3, ChooseBeginType
    <3> QED BY <2>5, <3>2, <3>3, <3>4 DEF JoinOrLaunch
  <2>6. ASSUME NEW x \in Callers, ResumeStart(x) PROVE TypeOK'
    <3>1. PICK reuse \in BOOLEAN : JoinOrLaunch(x, reuse)
      BY <2>6 DEF ResumeStart
    <3> QED BY <2>5, <2>6, <3>1 DEF ResumeStart
  <2>7. ASSUME NEW x \in Callers, NEW reuse \in BOOLEAN, EnterStart(x, reuse)
        PROVE  /\ caller' \in [Callers -> CallerState]
               /\ startAbort' \in BOOLEAN /\ quitFast' \in BOOLEAN /\ generation' \in Nat
               /\ run' \in Run /\ stopping' \in [Frames -> Frame]
               /\ lastCall' \in {"none", "start", "stop"}
               /\ run'.pc \in {"health", "reusePoll"} => run'.child # NoChild
               /\ \A f \in Frames : stopping'[f].pc = "term" => stopping'[f].target # NoChild
    BY <2>5, <2>7 DEF EnterStart, CallerState
  <2>8. ASSUME NEW c \in Children, WatchdogStart(c) PROVE TypeOK'
    BY <2>7, <2>8 DEF WatchdogStart, Callers
  <2>9. ASSUME NEW u \in Users, NEW reuse \in BOOLEAN, StartCall(u, reuse) PROVE TypeOK'
    BY <2>7, <2>9, BoundAssumption DEF StartCall, Callers
  <2>10. ASSUME NEW q \in BOOLEAN, RequestStop(q)
         PROVE  /\ quitFast' \in BOOLEAN /\ startAbort' \in BOOLEAN /\ generation' \in Nat
                /\ stopping' \in [Frames -> Frame] /\ drainAbort' \in Frames \cup {"none"}
                /\ lastCall' \in {"none", "start", "stop"}
                /\ \A f \in Frames : stopping'[f].pc = "term" => stopping'[f].target # NoChild
    BY <2>10 DEF RequestStop, Frames, Frame, FramePc
  <2>11. ASSUME NEW q \in BOOLEAN, StopCall(q) PROVE TypeOK'
    BY <2>10, <2>11, BoundAssumption DEF StopCall
  <2>12. ASSUME NEW f \in Frames, DrainDone(f) PROVE TypeOK'
    BY <2>12 DEF DrainDone, Frames, Frame, FramePc
  <2>13. ASSUME NEW f \in Frames, KillTimer(f) PROVE TypeOK'
    BY <2>13, DisarmType, AfterStopType, NeutralTypes DEF KillTimer, FinishStop, ChildState
  <2>14. ASSUME NEW c \in Children, ChildDies(c) PROVE TypeOK'
    BY <2>14 DEF ChildDies, ChildState
  <2>15. ASSUME NEW c \in Children, ExitEvent(c) PROVE TypeOK'
    BY <2>15, DisarmType, AfterStopType, NeutralTypes DEF ExitEvent, ChildState
  <2>16. CASE BuildFails
    BY <2>16, EndRunType, AnsweredType, NeutralTypes DEF BuildFails
  <2>17. ASSUME NEW c \in Children, Spawn(c) PROVE TypeOK'
    BY <2>17, NoChildAssumption DEF Spawn, ChildState, Run, RunPc
  <2>18. CASE HealthAnswered
    BY <2>18 DEF HealthAnswered, Run
  <2>19. CASE HealthOk
    <3>1. [c \in Children |-> Disarmed(watchdog[c])] \in [Children -> Watchdog]
      BY DisarmedType
    <3>2. AnsweredRestarts([c \in Children |-> Disarmed(watchdog[c])]) \in [Children -> Watchdog]
      BY <3>1, AnsweredType
    <3>3. [NoWatchdog EXCEPT !.stopped = FALSE] \in Watchdog
      BY NeutralTypes DEF Watchdog
    <3>4. watchdog' \in [Children -> Watchdog]
      BY <2>19, <3>2, <3>3, AnsweredType DEF HealthOk
    <3> QED BY <2>19, <3>4, EndRunType, NeutralTypes DEF HealthOk
  <2>20. CASE ReuseOk
    BY <2>20, EndRunType, AnsweredType, NeutralTypes DEF ReuseOk
  <2>21. CASE HealthTimeout
    BY <2>21 DEF HealthTimeout, Run, RunPc, Frames, Frame, FramePc
  <2>22. ASSUME NEW c \in Children, WatchdogTick(c) PROVE TypeOK'
    BY <2>22 DEF WatchdogTick, Watchdog, WatchdogPc, HungThreshold
  <2>23. ASSUME NEW c \in Children, WatchdogOk(c) PROVE TypeOK'
    BY <2>23, RestingType DEF WatchdogOk, HungThreshold
  <2>24. ASSUME NEW c \in Children, WatchdogFails(c) PROVE TypeOK'
    <3>1. watchdog' \in [Children -> Watchdog]
      <4>1. CASE watchdog[c].fails + 1 < HungThreshold
        <5>1. watchdog[c].fails + 1 \in 0..HungThreshold
          BY <4>1 DEF Watchdog, HungThreshold
        <5> QED BY <2>24, <4>1, <5>1, RestingType DEF WatchdogFails
      <4>2. CASE ~(watchdog[c].fails + 1 < HungThreshold)
        BY <2>24, <4>2 DEF WatchdogFails, Watchdog, WatchdogPc, HungThreshold
      <4> QED BY <4>1, <4>2
    <3> QED BY <2>10, <2>24, <3>1 DEF WatchdogFails
  <2>25. CASE UNCHANGED vars
    BY <2>25 DEF vars
  <2> QED
    BY <2>1, <2>2, <2>3, <2>4, <2>6, <2>8, <2>9, <2>11, <2>12, <2>13, <2>14, <2>15,
       <2>16, <2>17, <2>18, <2>19, <2>20, <2>21, <2>22, <2>23, <2>24, <2>25
       DEF Next, Jobs, Events
<1> QED
  BY <1>1, <1>2, PTL DEF Spec

-----------------------------------------------------------------------------
(* The control part of the inductive invariant.                            *)

\* What an attempt's first step leaves behind.
LEMMA ChooseBeginControl ==
  ASSUME TypeOK, NEW reuse \in BOOLEAN, ChooseBegin(reuse),
         stopping["stop"].pc = "none", stopping["start"].pc = "none"
  PROVE  /\ run'.pc = "build" => proc = NoChild
         /\ stopping'["stop"] = stopping["stop"]
         /\ \/ run'.pc \in {"reusePoll", "build"} /\ stopping'["start"].pc = "none"
            \/ run'.pc = "preStop" /\ stopping'["start"].pc = "enter"
<1> USE DEF TypeOK, Frames
<1>1. CASE run' = [IdleRun EXCEPT !.pc = "reusePoll", !.child = proc, !.reuse = TRUE]
           /\ UNCHANGED stopping
  BY <1>1 DEF IdleRun
<1>2. CASE run' = [IdleRun EXCEPT !.pc = "preStop", !.reuse = reuse]
           /\ stopping' = [stopping EXCEPT !["start"].pc = "enter"]
  <2>1. run'.pc = "preStop"
    BY <1>2 DEF IdleRun
  <2>2. stopping'["stop"] = stopping["stop"] /\ stopping'["start"].pc = "enter"
    BY <1>2 DEF Frame
  <2> QED BY <2>1, <2>2
<1>3. CASE run' = [IdleRun EXCEPT !.pc = "build", !.reuse = reuse]
           /\ proc = NoChild /\ UNCHANGED stopping
  BY <1>3 DEF IdleRun
<1> QED BY <1>1, <1>2, <1>3 DEF ChooseBegin

\* Every step keeps the control part of the invariant.
LEMMA ControlStep ==
  ASSUME TypeOK, TypeOK', Control, [Next]_vars
  PROVE  Control'
<1> USE DEF Control, DrainLatched, OwnStopAwaited, RoomMade, AbortLatched, ProcSpawned, RunningIsOwned, StopHolds,
            StartWanted, KillsAlone
<1>0. Frames = {"stop", "start"}
  BY DEF Frames
<1>1. ASSUME NEW f \in Frames, StopEnter(f) PROVE Control'
  BY <1>0, <1>1 DEF TypeOK, StopEnter, Frame
<1>2. ASSUME NEW f \in Frames, StopTake(f) PROVE Control'
  BY <1>0, <1>2, NeutralTypes DEF TypeOK, StopTake, FinishStop, Frame
<1>3. CASE RunAfterStop
  BY <1>0, <1>3, NeutralTypes, ChooseBeginControl DEF TypeOK, RunAfterStop, EndRun, StopInFlight, Run
<1>4. CASE RunAfterOwnStop
  BY <1>0, <1>4, NeutralTypes DEF TypeOK, RunAfterOwnStop, EndRun, Run
<1>5. ASSUME NEW x \in Callers, NEW reuse \in BOOLEAN, JoinOrLaunch(x, reuse), lastCall' = "start",
             UNCHANGED <<child, proc, running, drainAbort>>
      PROVE  Control'
  <2>1. CASE run.pc # "idle"
    BY <1>5, <2>1 DEF JoinOrLaunch, StartInFlight
  <2>2. CASE run.pc = "idle" /\ stopping["stop"].pc # "none"
    <3>1. run'.pc = "awaitStop" /\ stopping' = stopping
      BY <1>5, <2>2 DEF JoinOrLaunch, StartInFlight, StopInFlight, IdleRun
    <3> QED BY <1>5, <2>2, <3>1
  <2>3. CASE run.pc = "idle" /\ stopping["stop"].pc = "none"
    <3>1. ChooseBegin(reuse)
      BY <1>5, <2>3 DEF JoinOrLaunch, StartInFlight, StopInFlight
    <3>2. stopping["start"].pc = "none"
      BY <2>3
    <3>3. /\ run'.pc = "build" => proc = NoChild
          /\ stopping'["stop"] = stopping["stop"]
          /\ \/ run'.pc \in {"reusePoll", "build"} /\ stopping'["start"].pc = "none"
             \/ run'.pc = "preStop" /\ stopping'["start"].pc = "enter"
      BY <2>3, <3>1, <3>2, ChooseBeginControl
    <3> QED BY <1>0, <1>5, <2>3, <3>3 DEF TypeOK
  <2> QED BY <2>1, <2>2, <2>3
<1>6. ASSUME NEW x \in Callers, ResumeStart(x) PROVE Control'
  BY <1>5, <1>6 DEF ResumeStart
<1>7. ASSUME NEW x \in Callers, NEW reuse \in BOOLEAN, EnterStart(x, reuse),
             UNCHANGED <<child, proc, running, drainAbort>>
      PROVE  Control'
  BY <1>5, <1>7 DEF EnterStart
<1>8. ASSUME NEW c \in Children, WatchdogStart(c) PROVE Control'
  BY <1>7, <1>8 DEF WatchdogStart, Callers
<1>9. ASSUME NEW u \in Users, NEW reuse \in BOOLEAN, StartCall(u, reuse) PROVE Control'
  BY <1>7, <1>9 DEF StartCall, Callers
<1>10. ASSUME NEW q \in BOOLEAN, RequestStop(q), UNCHANGED <<child, proc, running, run>>
       PROVE  Control'
  <2>1. startAbort' /\ lastCall' = "stop"
    BY <1>10 DEF RequestStop
  <2>2. CASE stopping["stop"].pc = "none"
    <3>1. /\ stopping'["stop"].pc = "enter" /\ stopping'["start"] = stopping["start"]
          /\ drainAbort' = drainAbort /\ drainAbort \in Frames \cup {"none"}
      BY <1>0, <1>10, <2>2 DEF TypeOK, RequestStop, StopInFlight, Frame
    <3> QED BY <1>0, <1>10, <2>1, <2>2, <3>1
  <2>3. CASE stopping["stop"].pc # "none" /\ q /\ drainAbort # "none"
    <3>1. /\ stopping' = [stopping EXCEPT ![drainAbort].pc = "take"]
          /\ drainAbort \in Frames /\ drainAbort' = "none"
      BY <1>10, <2>3 DEF TypeOK, RequestStop, StopInFlight
    <3>2. \A f \in Frames : stopping'[f].pc = "take" \/ stopping'[f] = stopping[f]
      BY <3>1 DEF TypeOK, Frame
    <3>3. stopping'[drainAbort].pc = "take" /\ stopping[drainAbort].pc = "drain"
      BY <2>3, <3>1 DEF TypeOK, Frame
    <3> QED BY <1>0, <1>10, <2>1, <2>3, <3>1, <3>2, <3>3
  <2>4. CASE stopping["stop"].pc # "none" /\ ~(q /\ drainAbort # "none")
    <3>1. UNCHANGED <<stopping, drainAbort>>
      BY <1>10, <2>4 DEF RequestStop, StopInFlight
    <3> QED BY <1>0, <1>10, <2>1, <2>4, <3>1
  <2> QED BY <2>2, <2>3, <2>4
<1>11. ASSUME NEW q \in BOOLEAN, StopCall(q) PROVE Control'
  BY <1>10, <1>11 DEF StopCall
<1>12. ASSUME NEW f \in Frames, DrainDone(f) PROVE Control'
  BY <1>0, <1>12 DEF TypeOK, DrainDone, Frame
<1>13. ASSUME NEW f \in Frames, KillTimer(f) PROVE Control'
  BY <1>0, <1>13, NeutralTypes DEF TypeOK, KillTimer, FinishStop, Frame
<1>14. ASSUME NEW c \in Children, ChildDies(c) PROVE Control'
  BY <1>14 DEF TypeOK, ChildDies
<1>15. ASSUME NEW c \in Children, ExitEvent(c) PROVE Control'
  BY <1>0, <1>15, NeutralTypes DEF TypeOK, ExitEvent
<1>16. CASE BuildFails
  BY <1>0, <1>16, NeutralTypes DEF TypeOK, BuildFails, EndRun
<1>17. ASSUME NEW c \in Children, Spawn(c) PROVE Control'
  BY <1>0, <1>17 DEF TypeOK, Spawn, Run
<1>18. CASE HealthAnswered
  BY <1>18 DEF TypeOK, HealthAnswered, Run
<1>19. CASE HealthOk
  BY <1>19, NeutralTypes DEF TypeOK, HealthOk, EndRun
<1>20. CASE ReuseOk
  BY <1>20, NeutralTypes DEF TypeOK, ReuseOk, EndRun
<1>21. CASE HealthTimeout
  BY <1>0, <1>21 DEF TypeOK, HealthTimeout, Run, Frame
<1>22. ASSUME NEW c \in Children, WatchdogTick(c) \/ WatchdogOk(c) PROVE Control'
  BY <1>22 DEF WatchdogTick, WatchdogOk
<1>23. ASSUME NEW c \in Children, WatchdogFails(c) PROVE Control'
  BY <1>10, <1>23 DEF WatchdogFails
<1>24. CASE UNCHANGED vars
  BY <1>24 DEF vars
<1> QED
  BY <1>1, <1>2, <1>3, <1>4, <1>6, <1>8, <1>9, <1>11, <1>12, <1>13, <1>14, <1>15, <1>16,
     <1>17, <1>18, <1>19, <1>20, <1>21, <1>22, <1>23, <1>24 DEF Next, Jobs, Events

-----------------------------------------------------------------------------
(* The part about the children.                                            *)

\* What a live child needs: to be this.proc or the target of a stopProc().
LEMMA OwnershipMeans ==
  NoOrphan <=> \A c \in Children : child[c] = "live" =>
                 c = proc \/ \E f \in Frames : stopping[f].pc = "term" /\ stopping[f].target = c
  BY DEF NoOrphan, Live, Targets

\* What one live sidecar means, child by child.
LEMMA OneLiveMeans ==
  AtMostOneLive <=> \A c, d \in Children : child[c] = "live" /\ child[d] = "live" => c = d
  BY DEF AtMostOneLive, Live

\* A step that touches neither the children nor a stopProc() that is killing.
LEMMA OwnershipKept ==
  ASSUME Ownership, UNCHANGED <<child, proc>>,
         \A f \in Frames : stopping[f].pc = "term" => stopping'[f] = stopping[f]
  PROVE  Ownership'
  BY OwnershipMeans, OneLiveMeans DEF Ownership, NoneBesideDead, NoOrphan, AtMostOneLive, Live, Targets

\* Choosing how a start begins leaves a stopProc() that kills alone.
LEMMA ChooseBeginKeepsTerm ==
  ASSUME TypeOK, NEW reuse \in BOOLEAN, ChooseBegin(reuse),
         stopping["start"].pc # "term"
  PROVE  \A f \in Frames : stopping[f].pc = "term" => stopping'[f] = stopping[f]
  BY DEF TypeOK, ChooseBegin

\* Every step keeps the ownership part when exit events are not overtaken.
LEMMA OwnershipStep ==
  ASSUME ~LateExit, TypeOK, Control, Ownership, [Next]_vars
  PROVE  Ownership'
<1> USE DEF Control
<1>0. Frames = {"stop", "start"}
  BY DEF Frames
<1>1. ASSUME NEW f \in Frames, StopEnter(f) PROVE Ownership'
  BY <1>1, OwnershipKept DEF TypeOK, StopEnter
<1>2. ASSUME NEW f \in Frames, StopTake(f) PROVE Ownership'
  <2>1. CASE proc = NoChild
    BY <1>2, <2>1, OwnershipKept DEF TypeOK, StopTake, FinishStop
  <2>2. CASE proc # NoChild
    <3>1. /\ stopping'[f].pc = "term" /\ stopping'[f].target = proc
          /\ \A g \in Frames : stopping[g].pc = "term" => stopping'[g] = stopping[g]
          /\ child' = child
      BY <1>2, <2>2 DEF TypeOK, StopTake
    <3>2. \A c \in Children : child'[c] = "live" =>
            \E g \in Frames : stopping'[g].pc = "term" /\ stopping'[g].target = c
      BY <3>1, OwnershipMeans DEF Ownership
    <3>3. NoOrphan'
      BY <3>2 DEF NoOrphan, Live, Targets
    <3> QED BY <3>1, <3>3 DEF Ownership, NoneBesideDead, AtMostOneLive, Live
  <2> QED BY <2>1, <2>2
<1>3. CASE RunAfterStop
  <2>1. stopping["start"].pc # "term" /\ run.reuse \in BOOLEAN
    BY <1>3 DEF RunAfterStop, OwnStopAwaited, TypeOK, Run
  <2> QED BY <1>3, <2>1, OwnershipKept, ChooseBeginKeepsTerm DEF RunAfterStop
<1>4. CASE RunAfterOwnStop
  BY <1>4, OwnershipKept DEF RunAfterOwnStop
<1>5. ASSUME NEW x \in Callers, NEW reuse \in BOOLEAN, JoinOrLaunch(x, reuse),
             UNCHANGED <<child, proc>>
      PROVE  Ownership'
  <2>1. StartInFlight \/ stopping["start"].pc # "term"
    BY DEF StartInFlight, OwnStopAwaited
  <2>2. \A f \in Frames : stopping[f].pc = "term" => stopping'[f] = stopping[f]
    BY <1>5, <2>1, ChooseBeginKeepsTerm DEF JoinOrLaunch
  <2> QED BY <1>5, <2>2, OwnershipKept
<1>6. ASSUME NEW x \in Callers, ResumeStart(x) PROVE Ownership'
  BY <1>5, <1>6 DEF ResumeStart
<1>7. ASSUME NEW x \in Callers, NEW reuse \in BOOLEAN, EnterStart(x, reuse),
             UNCHANGED <<child, proc>>
      PROVE  Ownership'
  BY <1>5, <1>7, OwnershipKept DEF EnterStart
<1>8. ASSUME NEW c \in Children, WatchdogStart(c) PROVE Ownership'
  BY <1>7, <1>8 DEF WatchdogStart, Callers
<1>9. ASSUME NEW u \in Users, NEW reuse \in BOOLEAN, StartCall(u, reuse) PROVE Ownership'
  BY <1>7, <1>9 DEF StartCall, Callers
<1>10. ASSUME NEW q \in BOOLEAN, RequestStop(q), UNCHANGED <<child, proc>>
       PROVE  Ownership'
  <2>1. \A f \in Frames : stopping[f].pc = "term" => stopping'[f] = stopping[f]
    BY <1>10 DEF TypeOK, RequestStop, StopInFlight, DrainLatched
  <2> QED BY <1>10, <2>1, OwnershipKept
<1>11. ASSUME NEW q \in BOOLEAN, StopCall(q) PROVE Ownership'
  BY <1>10, <1>11 DEF StopCall
<1>12. ASSUME NEW f \in Frames, DrainDone(f) PROVE Ownership'
  BY <1>12, OwnershipKept DEF TypeOK, DrainDone
<1>13. ASSUME NEW f \in Frames, KillTimer(f) PROVE Ownership'
  <2> DEFINE t == stopping[f].target
  <2>1. t \in Children
    BY <1>13 DEF TypeOK, KillTimer, Frame
  <2>2. /\ \A c \in Children : c # t => child'[c] = child[c]
        /\ child'[t] # "live"
        /\ child'[t] = "dead" => child[t] \in {"live", "dead"}
        /\ \A g \in Frames : g # f => stopping'[g] = stopping[g]
        /\ proc' = proc
    BY <1>13, <2>1 DEF TypeOK, KillTimer, FinishStop, ChildState
  <2>3. NoOrphan'
    BY <1>13, <2>2, OwnershipMeans DEF Ownership, NoOrphan, Live, Targets
  <2>4. AtMostOneLive'
    BY <2>2, OneLiveMeans DEF Ownership, AtMostOneLive, Live
  <2>5. NoneBesideDead'
    BY <2>2, OneLiveMeans DEF Ownership, NoneBesideDead
  <2> QED BY <2>3, <2>4, <2>5 DEF Ownership
<1>14. ASSUME NEW d \in Children, ChildDies(d) PROVE Ownership'
  <2>1. /\ child[d] = "live" /\ child'[d] = "dead"
        /\ \A c \in Children : c # d => child'[c] = child[c]
        /\ UNCHANGED <<proc, stopping>>
    BY <1>14 DEF TypeOK, ChildDies
  <2>2. NoOrphan'
    BY <2>1, OwnershipMeans DEF Ownership, NoOrphan, Live, Targets
  <2>3. AtMostOneLive'
    BY <2>1, OneLiveMeans DEF Ownership, AtMostOneLive, Live
  <2>4. NoneBesideDead'
    BY <2>1, OneLiveMeans DEF Ownership, NoneBesideDead
  <2> QED BY <2>2, <2>3, <2>4 DEF Ownership
<1>15. ASSUME NEW d \in Children, ExitEvent(d) PROVE Ownership'
  <2>1. \A c \in Children : child[c] # "live"
    BY <1>15 DEF ExitEvent, Ownership, NoneBesideDead
  <2>2. \A c \in Children : child'[c] # "live"
    BY <1>15, <2>1 DEF TypeOK, ExitEvent
  <2> QED BY <2>2 DEF Ownership, NoneBesideDead, AtMostOneLive, NoOrphan, Live
<1>16. ASSUME NEW d \in Children, Spawn(d) PROVE Ownership'
  <2>1. proc = NoChild /\ \A f \in Frames : stopping[f].pc = "none"
    BY <1>0, <1>16 DEF Spawn, RoomMade, AbortLatched, OwnStopAwaited
  <2>2. \A c \in Children : child[c] \notin {"live", "dead"}
    BY <1>16, <2>1, OwnershipMeans, NoChildAssumption DEF Spawn, Ownership
  <2>3. /\ child'[d] = "live" /\ proc' = d
        /\ \A c \in Children : c # d => child'[c] \notin {"live", "dead"}
    BY <1>16, <2>2 DEF TypeOK, Spawn
  <2> QED BY <2>3 DEF Ownership, NoneBesideDead, AtMostOneLive, NoOrphan, Live
<1>17. CASE BuildFails \/ HealthAnswered \/ HealthOk \/ ReuseOk
  BY <1>17, OwnershipKept DEF BuildFails, HealthAnswered, HealthOk, ReuseOk
<1>18. CASE HealthTimeout
  <2>1. stopping["start"].pc # "term"
    BY <1>18 DEF HealthTimeout, OwnStopAwaited
  <2> QED BY <1>18, <2>1, OwnershipKept DEF HealthTimeout, TypeOK
<1>19. ASSUME NEW c \in Children, WatchdogTick(c) \/ WatchdogOk(c) PROVE Ownership'
  BY <1>19, OwnershipKept DEF WatchdogTick, WatchdogOk
<1>20. ASSUME NEW c \in Children, WatchdogFails(c) PROVE Ownership'
  BY <1>10, <1>20, OwnershipKept DEF WatchdogFails
<1>21. CASE UNCHANGED vars
  BY <1>21, OwnershipKept DEF vars
<1> QED
  BY <1>1, <1>2, <1>3, <1>4, <1>6, <1>8, <1>9, <1>11, <1>12, <1>13, <1>14, <1>15, <1>16,
     <1>17, <1>18, <1>19, <1>20, <1>21 DEF Next, Jobs, Events

-----------------------------------------------------------------------------
(* The theorems.                                                           *)

\* Both parts hold at the start.
LEMMA InitInvariant == Init => Control /\ Ownership
<1> SUFFICES ASSUME Init PROVE Control /\ Ownership
  OBVIOUS
<1>1. Control
  BY NeutralTypes DEF Init, Control, DrainLatched, OwnStopAwaited, RoomMade, AbortLatched, ProcSpawned,
     RunningIsOwned, StopHolds, StartWanted, KillsAlone, Frames
<1>2. Ownership
  BY DEF Init, Ownership, NoneBesideDead, AtMostOneLive, NoOrphan, Live
<1> QED BY <1>1, <1>2

\* The control part holds of every run of the manager, whenever the exit events
\* of killed children come.
THEOREM ControlCorrect == Spec => []Control
<1>1. Init => Control
  BY InitInvariant
<1>2. TypeOK /\ TypeOK' /\ Control /\ [Next]_vars => Control'
  BY ControlStep
<1> QED
  BY <1>1, <1>2, TypeCorrect, PTL DEF Spec

\* The status never says running without a child the manager holds or kills.
THEOREM RunningOwned == Spec => []RunningIsOwned
<1>1. Control => RunningIsOwned
  BY DEF Control
<1> QED
  BY <1>1, ControlCorrect, PTL

\* Success is reported only of the child in this.proc and with no stop under way:
\* the two guards after pollSidecarHealth() are enough, whatever overlapped.
THEOREM SuccessUndisturbed == Spec => SuccessIsUndisturbed
<1> DEFINE Step == ~running /\ running' =>
                     /\ proc = run.child /\ proc \in Children
                     /\ child[proc] \in {"live", "dead"}
                     /\ \A f \in Frames : stopping[f].pc = "none"
<1>1. TypeOK /\ Control /\ [Next]_vars => [Step]_vars
  <2> SUFFICES ASSUME TypeOK, Control, Next, ~running, running' PROVE Step
    OBVIOUS
  <2>1. HealthOk
    BY DEF Next, Jobs, Events, StopEnter, StopTake, FinishStop, RunAfterStop, RunAfterOwnStop,
       ResumeStart, WatchdogStart, StartCall, StopCall, DrainDone, KillTimer, ChildDies, ExitEvent,
       BuildFails, Spawn, HealthAnswered, ReuseOk, HealthTimeout, WatchdogTick, WatchdogOk,
       WatchdogFails
  <2>2. run.pc = "health" /\ ~startAbort /\ proc = run.child
    BY <2>1 DEF HealthOk
  <2>3. proc \in Children
    BY <2>2 DEF TypeOK
  <2>4. child[proc] \in {"live", "dead"}
    BY <2>3, NoChildAssumption DEF Control, ProcSpawned
  <2>5. \A f \in Frames : stopping[f].pc = "none"
    BY <2>2 DEF Control, AbortLatched, OwnStopAwaited, Frames
  <2> QED BY <2>2, <2>3, <2>4, <2>5
<1>2. Spec => [][Step]_vars
  BY <1>1, TypeCorrect, ControlCorrect, PTL DEF Spec
<1> QED
  BY <1>2 DEF SuccessIsUndisturbed

\* If exit events are not overtaken by the next spawn, two sidecars never run at
\* once, none is lost, and a stop that was not overridden leaves none.
THEOREM OwnershipCorrect ==
  ASSUME ~LateExit
  PROVE  Spec => []Ownership
<1>1. Init => Ownership
  BY InitInvariant
<1>2. TypeOK /\ Control /\ Ownership /\ [Next]_vars => Ownership'
  BY OwnershipStep
<1> QED
  BY <1>1, <1>2, TypeCorrect, ControlCorrect, PTL DEF Spec

\* stop() and start() never leave two sidecars running, as long as a killed
\* child's exit event is handled before the next spawn.
THEOREM OneSidecar ==
  ASSUME ~LateExit
  PROVE  Spec => []AtMostOneLive
<1>1. Ownership => AtMostOneLive
  BY DEF Ownership
<1> QED
  BY <1>1, OwnershipCorrect, PTL

\* Every running sidecar is this.proc or is being stopped, as long as a killed
\* child's exit event is handled before the next spawn.
THEOREM NoneLost ==
  ASSUME ~LateExit
  PROVE  Spec => []NoOrphan
<1>1. Ownership => NoOrphan
  BY DEF Ownership
<1> QED
  BY <1>1, OwnershipCorrect, PTL

\* A stop() is not undone by the attempt it overtook, wherever in its build or
\* its health poll that attempt was: the abort mark keeps it from spawning and
\* from reporting success, whenever exit events come.
THEOREM StopPrevailing == Spec => StopPrevails
<1> DEFINE Step == lastCall = "stop" /\ lastCall' = "stop" =>
                     Live' \subseteq Live /\ (running' => running)
<1>1. TypeOK /\ Control /\ [Next]_vars => [Step]_vars
  <2> SUFFICES ASSUME TypeOK, Control, Next, lastCall = "stop", lastCall' = "stop"
               PROVE  Live' \subseteq Live /\ (running' => running)
    OBVIOUS
  <2>1. startAbort
    BY DEF Control, StopHolds
  <2>2. Live' \subseteq Live
    <3>1. CASE UNCHANGED child
      BY <3>1 DEF Live
    <3>2. CASE \E f \in Frames : KillTimer(f)
      BY <3>2 DEF KillTimer, Live, TypeOK
    <3>3. CASE \E c \in Children : ChildDies(c) \/ ExitEvent(c)
      BY <3>3 DEF ChildDies, ExitEvent, Live, TypeOK
    <3>4. \A c \in Children : ~Spawn(c)
      BY <2>1 DEF Spawn
    <3> QED
      BY <3>1, <3>2, <3>3, <3>4 DEF Next, Jobs, Events, StopEnter, StopTake, RunAfterStop,
         RunAfterOwnStop, ResumeStart, WatchdogStart, StartCall, StopCall, DrainDone, BuildFails,
         HealthAnswered, HealthOk, ReuseOk, HealthTimeout, WatchdogTick, WatchdogOk, WatchdogFails
  <2>3. running' => running
    <3>1. HealthOk => UNCHANGED running
      BY <2>1 DEF HealthOk
    <3> QED
      BY <3>1 DEF Next, Jobs, Events, StopEnter, StopTake, FinishStop, RunAfterStop,
         RunAfterOwnStop, ResumeStart, WatchdogStart, StartCall, StopCall, DrainDone, KillTimer,
         ChildDies, ExitEvent, BuildFails, Spawn, HealthAnswered, ReuseOk, HealthTimeout,
         WatchdogTick, WatchdogOk, WatchdogFails
  <2> QED BY <2>2, <2>3
<1>2. Spec => [][Step]_vars
  BY <1>1, TypeCorrect, ControlCorrect, PTL DEF Spec
<1> QED
  BY <1>2 DEF StopPrevails

\* When everything has settled and the last request that took effect is a stop(),
\* no sidecar runs and the status says so, as long as exit events are not
\* overtaken.  A start() takes effect when it launches or joins an attempt: one
\* that waits for an aborted attempt to clear does so after a stop() that came
\* meanwhile, and is then the last request.
THEOREM StopFinal ==
  ASSUME ~LateExit
  PROVE  Spec => []StopIsFinal
<1>1. Control /\ Ownership => StopIsFinal
  <2> SUFFICES ASSUME Control, Ownership, Quiet, lastCall = "stop"
               PROVE  ~running /\ Live = {}
    BY DEF StopIsFinal
  <2>1. ~running /\ proc = NoChild
    BY DEF Control, StopHolds, Quiet, Frames
  <2>2. Targets = {}
    BY DEF Quiet, Targets
  <2>3. Live = {}
    BY <2>1, <2>2, NoChildAssumption DEF Ownership, NoOrphan, Live
  <2> QED BY <2>1, <2>3
<1> QED
  BY <1>1, ControlCorrect, OwnershipCorrect, PTL

-----------------------------------------------------------------------------
(* The refinement of SidecarService.                                       *)

\* What the callers of the manager see.
View == <<Stage, Live, running, lastCall>>
Stutter == UNCHANGED View

\* The stage is read off this.proc and the stopProc() calls that kill.
LEMMA StageOf ==
  /\ Stage = "held" <=> proc # NoChild
  /\ Stage = "stopping" <=> proc = NoChild /\ \E f \in Frames : stopping[f].pc = "term"
  /\ Stage = "off" <=> proc = NoChild /\ \A f \in Frames : stopping[f].pc # "term"
  BY DEF Stage

\* The same after a step.
LEMMA StageOfNext ==
  /\ Stage' = "held" <=> proc' # NoChild
  /\ Stage' = "stopping" <=> proc' = NoChild /\ \E f \in Frames : stopping'[f].pc = "term"
  /\ Stage' = "off" <=> proc' = NoChild /\ \A f \in Frames : stopping'[f].pc # "term"
  BY DEF Stage

\* No stopProc() begins or ends to kill.
KillsKept == \A f \in Frames : stopping'[f].pc = "term" <=> stopping[f].pc = "term"

\* Only this.proc, the children and the stopProc() calls that kill set the scene.
LEMMA SceneKept ==
  ASSUME UNCHANGED <<child, proc>>, KillsKept
  PROVE  UNCHANGED <<Stage, Live>>
  BY DEF KillsKept, Stage, Live

\* A request takes effect, or is not even a new one.
LEMMA RequestView ==
  ASSUME UNCHANGED <<child, proc, running>>, KillsKept,
         lastCall' \in {lastCall, "start", "stop"}
  PROVE  Service!Next \/ Stutter
<1>1. UNCHANGED <<Stage, Live, running>>
  BY SceneKept
<1> QED BY <1>1 DEF Service!Next, Service!Request, Stutter, View

\* An attempt ends with the status reset: nothing is held by then.
LEMMA ResetView ==
  ASSUME UNCHANGED <<child, proc, lastCall>>, KillsKept, RunningIsOwned,
         proc = NoChild, running' = FALSE, running \in BOOLEAN
  PROVE  Service!Next \/ Stutter
<1>1. UNCHANGED <<Stage, Live, lastCall>>
  BY SceneKept
<1>2. CASE running
  <2>1. Stage = "stopping"
    BY <1>2, StageOf DEF RunningIsOwned
  <2> QED BY <1>1, <2>1 DEF Service!Next, Service!Withdraw
<1>3. CASE ~running
  BY <1>1, <1>3 DEF Stutter, View
<1> QED BY <1>2, <1>3

\* The first step of an attempt leaves the kills alone.
LEMMA ChooseBeginKills ==
  ASSUME TypeOK, NEW reuse \in BOOLEAN, ChooseBegin(reuse), stopping["start"].pc # "term"
  PROVE  KillsKept
  BY DEF TypeOK, ChooseBegin, KillsKept, Frame

\* start() leaves the kills alone.
LEMMA JoinKills ==
  ASSUME TypeOK, OwnStopAwaited, NEW x \in Callers, NEW reuse \in BOOLEAN,
         JoinOrLaunch(x, reuse)
  PROVE  KillsKept
<1>1. CASE UNCHANGED stopping
  BY <1>1 DEF KillsKept
<1>2. CASE ~StartInFlight /\ ChooseBegin(reuse)
  BY <1>2, ChooseBeginKills DEF StartInFlight, OwnStopAwaited
<1> QED BY <1>1, <1>2 DEF JoinOrLaunch

\* start() and stop() are requests.
LEMMA StartView ==
  ASSUME TypeOK, Control, NEW x \in Callers, NEW reuse \in BOOLEAN,
         EnterStart(x, reuse), UNCHANGED <<child, proc, running>>
  PROVE  Service!Next \/ Stutter
<1>1. KillsKept /\ lastCall' \in {lastCall, "start"}
  BY JoinKills DEF EnterStart, Control, KillsKept
<1> QED BY <1>1, RequestView

LEMMA StopView ==
  ASSUME TypeOK, Control, NEW q \in BOOLEAN, RequestStop(q),
         UNCHANGED <<child, proc, running>>
  PROVE  Service!Next \/ Stutter
<1>1. KillsKept
  BY DEF TypeOK, Control, DrainLatched, RequestStop, StopInFlight, KillsKept, Frames, Frame
<1>2. lastCall' = "stop"
  BY DEF RequestStop
<1> QED BY <1>1, <1>2, RequestView

\* stopProc() takes this.proc, or has nothing to take.
LEMMA TakeView ==
  ASSUME TypeOK, Control, NEW f \in Frames, StopTake(f)
  PROVE  Service!Next \/ Stutter
<1>1. UNCHANGED <<child, lastCall>> /\ proc' = NoChild /\ stopping[f].pc = "take"
  BY DEF StopTake
<1>2. CASE proc = NoChild
  <2>1. running' = FALSE /\ stopping' = [stopping EXCEPT ![f] = NoFrame]
    BY <1>2 DEF StopTake, FinishStop
  <2>2. KillsKept
    BY <1>1, <2>1, NeutralTypes DEF TypeOK, KillsKept
  <2> QED BY <1>1, <1>2, <2>1, <2>2, ResetView DEF TypeOK, Control
<1>3. CASE proc # NoChild
  <2>1. UNCHANGED <<Live, running, lastCall>>
    BY <1>1, <1>3 DEF StopTake, Live
  <2>2. stopping'[f].pc = "term"
    BY <1>3 DEF StopTake, TypeOK
  <2>3. Stage = "held" /\ Stage' = "stopping"
    BY <1>1, <1>3, <2>2, StageOf, StageOfNext
  <2> QED BY <2>1, <2>3 DEF Service!Next, Service!Take
<1> QED BY <1>2, <1>3

\* SIGKILL: the one stopProc() that kills is over, and its child was the last.
LEMMA KillView ==
  ASSUME TypeOK, Control, Ownership, NEW f \in Frames, KillTimer(f)
  PROVE  Service!Next \/ Stutter
<1> DEFINE t == stopping[f].target
<1>1. t \in Children /\ stopping[f].pc = "term"
  BY DEF TypeOK, KillTimer, Frame
<1>2. proc = NoChild /\ \A g \in Frames : stopping[g].pc = "term" => g = f
  BY <1>1 DEF Control, RoomMade, KillsAlone
<1>3. UNCHANGED <<proc, lastCall>> /\ running' = FALSE
      /\ stopping' = [stopping EXCEPT ![f] = NoFrame]
  BY DEF KillTimer, FinishStop
<1>4. Stage = "stopping" /\ Stage' = "off"
  <2>1. \A g \in Frames : stopping'[g].pc # "term"
    BY <1>2, <1>3, NeutralTypes DEF TypeOK
  <2> QED BY <1>1, <1>2, <1>3, <2>1, StageOf, StageOfNext
<1>5. Live' = {}
  <2>1. \A c \in Children : child[c] = "live" => c = t
    BY <1>2, NoChildAssumption, OwnershipMeans DEF Ownership
  <2>2. \A c \in Children : child'[c] # "live"
    BY <1>1, <2>1 DEF KillTimer, TypeOK, ChildState
  <2> QED BY <2>2 DEF Live
<1> QED BY <1>3, <1>4, <1>5 DEF Service!Next, Service!Clear

\* A child exits; it was the only one.
LEMMA DieView ==
  ASSUME TypeOK, Ownership, NEW c \in Children, ChildDies(c)
  PROVE  Service!Next \/ Stutter
<1>1. UNCHANGED <<Stage, running, lastCall>>
  BY DEF ChildDies, Stage
<1>2. \A d \in Children : child'[d] # "live"
  BY OneLiveMeans DEF TypeOK, ChildDies, Ownership
<1>3. Live' = {}
  BY <1>2 DEF Live
<1> QED BY <1>1, <1>3 DEF Service!Next, Service!Die

\* The exit event: whatever was held or killed is off, and none is live.
LEMMA ExitView ==
  ASSUME TypeOK, Control, Ownership, NEW c \in Children, ExitEvent(c)
  PROVE  Service!Next \/ Stutter
<1>1. \A d \in Children : child[d] # "live" /\ child'[d] # "live"
  BY DEF TypeOK, ExitEvent, Ownership, NoneBesideDead
<1>2. Live = {} /\ Live' = {}
  BY <1>1 DEF Live
<1>3. running' = FALSE /\ lastCall' = lastCall /\ proc' = NoChild
  BY DEF ExitEvent
<1>4. \A f \in Frames : stopping'[f].pc = "term" => stopping[f].pc = "term"
  BY NeutralTypes DEF ExitEvent, TypeOK
<1>5. CASE Stage' = "off" /\ Stage # "off"
  <2>1. Stage \in {"held", "stopping"}
    BY <1>5 DEF Stage
  <2> QED BY <1>2, <1>3, <1>5, <2>1 DEF Service!Next, Service!Clear
<1>6. CASE Stage' = "off" /\ Stage = "off"
  <2>1. running = FALSE
    BY <1>6, StageOf DEF Control, RunningIsOwned, TypeOK
  <2> QED BY <1>2, <1>3, <1>6, <2>1 DEF Stutter, View
<1>7. CASE Stage' = "stopping"
  <2>1. PICK f \in Frames : stopping[f].pc = "term"
    BY <1>4, <1>7, StageOfNext
  <2>2. Stage = "stopping"
    BY <2>1, StageOf DEF Control, RoomMade
  <2> QED BY <1>2, <1>3, <1>7, <2>2 DEF Service!Next, Service!Withdraw
<1> QED BY <1>3, <1>5, <1>6, <1>7 DEF Stage

\* The spawn: the stage is empty and the last request a start.
LEMMA SpawnView ==
  ASSUME ~LateExit, TypeOK, Control, Ownership, NEW c \in Children, Spawn(c)
  PROVE  Service!Next \/ Stutter
<1>1. proc = NoChild /\ \A f \in Frames : stopping[f].pc = "none"
  BY DEF Spawn, Control, RoomMade, AbortLatched, OwnStopAwaited, Frames
<1>2. Stage = "off" /\ Stage' = "held"
  BY <1>1, StageOf, StageOfNext, NoChildAssumption DEF Spawn
<1>3. running = FALSE /\ UNCHANGED <<running, lastCall>>
  BY <1>1 DEF Control, RunningIsOwned, TypeOK, Spawn
<1>4. lastCall = "start"
  BY DEF Spawn, Control, StartWanted
<1>5. \A d \in Children : child[d] # "live"
  BY <1>1, OwnershipMeans, NoChildAssumption DEF Ownership
<1>6. Live = {} /\ Live' = {c}
  BY <1>5 DEF TypeOK, Spawn, Live
<1>7. \E p \in Children : Live' = {p}
  BY <1>6
<1> QED BY <1>2, <1>3, <1>4, <1>6, <1>7 DEF Service!Next, Service!Launch

\* A health poll that resolves: success, or the attempt rejects.
LEMMA HealthView ==
  ASSUME TypeOK, Control, HealthOk
  PROVE  Service!Next \/ Stutter
<1>1. UNCHANGED <<Stage, Live, lastCall>>
  BY DEF HealthOk, Stage, Live
<1>2. CASE running' = running
  BY <1>1, <1>2 DEF Stutter, View
<1>3. CASE running' # running
  <2>1. ~startAbort /\ proc = run.child /\ run.pc = "health" /\ running' = TRUE
    BY <1>3 DEF HealthOk
  <2>2. Stage = "held" /\ running = FALSE
    BY <1>3, <2>1, StageOf DEF TypeOK
  <2>3. lastCall = "start"
    BY <2>1 DEF Control, StartWanted
  <2> QED BY <1>1, <2>1, <2>2, <2>3 DEF Service!Next, Service!Report
<1> QED BY <1>2, <1>3

\* Every step of the manager is one that the service promises, or none to see.
LEMMA ServiceStep ==
  ASSUME ~LateExit, TypeOK, Control, Ownership, [Next]_vars
  PROVE  Service!Next \/ Stutter
<1>1. ASSUME NEW f \in Frames, StopEnter(f) PROVE Service!Next \/ Stutter
  <2>1. KillsKept
    BY <1>1 DEF TypeOK, StopEnter, KillsKept, Frame
  <2> QED BY <1>1, <2>1, RequestView DEF StopEnter
<1>2. CASE RunAfterStop
  <2>1. run.reuse \in BOOLEAN /\ stopping["start"].pc # "term"
    BY <1>2 DEF RunAfterStop, TypeOK, Run, Control, OwnStopAwaited
  <2>2. KillsKept
    BY <1>2, <2>1, ChooseBeginKills DEF RunAfterStop, KillsKept
  <2> QED BY <1>2, <2>2, RequestView DEF RunAfterStop
<1>3. CASE RunAfterOwnStop
  <2>1. KillsKept /\ proc = NoChild
    BY <1>3 DEF RunAfterOwnStop, KillsKept, Control, RoomMade
  <2>2. CASE run.pc = "preStop"
    BY <1>3, <2>1, <2>2, RequestView DEF RunAfterOwnStop
  <2>3. CASE run.pc = "failStop"
    BY <1>3, <2>1, <2>3, ResetView DEF RunAfterOwnStop, TypeOK, Control
  <2> QED BY <1>3, <2>2, <2>3 DEF RunAfterOwnStop
<1>4. ASSUME NEW x \in Callers, ResumeStart(x) PROVE Service!Next \/ Stutter
  <2>1. PICK reuse \in BOOLEAN : JoinOrLaunch(x, reuse)
    BY <1>4 DEF ResumeStart
  <2>2. KillsKept
    BY <2>1, JoinKills DEF Control
  <2> QED BY <1>4, <2>2, RequestView DEF ResumeStart
<1>5. ASSUME NEW c \in Children, WatchdogStart(c) PROVE Service!Next \/ Stutter
  BY <1>5, StartView DEF WatchdogStart, Callers
<1>6. ASSUME NEW u \in Users, NEW reuse \in BOOLEAN, StartCall(u, reuse)
      PROVE  Service!Next \/ Stutter
  BY <1>6, StartView DEF StartCall, Callers
<1>7. ASSUME NEW q \in BOOLEAN, StopCall(q) PROVE Service!Next \/ Stutter
  BY <1>7, StopView DEF StopCall
<1>8. ASSUME NEW f \in Frames, DrainDone(f) PROVE Service!Next \/ Stutter
  <2>1. KillsKept
    BY <1>8 DEF TypeOK, DrainDone, KillsKept, Frame
  <2> QED BY <1>8, <2>1, RequestView DEF DrainDone
<1>9. CASE BuildFails
  <2>1. KillsKept /\ proc = NoChild
    BY <1>9 DEF BuildFails, KillsKept, Control, RoomMade
  <2> QED BY <1>9, <2>1, ResetView DEF BuildFails, TypeOK, Control
<1>10. CASE HealthAnswered \/ ReuseOk
  BY <1>10, RequestView DEF HealthAnswered, ReuseOk, KillsKept
<1>11. CASE HealthTimeout
  <2>1. KillsKept
    BY <1>11 DEF TypeOK, HealthTimeout, KillsKept, Frame, Control, OwnStopAwaited
  <2> QED BY <1>11, <2>1, RequestView DEF HealthTimeout
<1>12. ASSUME NEW c \in Children, WatchdogTick(c) \/ WatchdogOk(c)
       PROVE  Service!Next \/ Stutter
  BY <1>12, RequestView DEF WatchdogTick, WatchdogOk, KillsKept
<1>13. ASSUME NEW c \in Children, WatchdogFails(c) PROVE Service!Next \/ Stutter
  <2>1. CASE watchdog[c].fails + 1 < HungThreshold
    BY <1>13, <2>1, RequestView DEF WatchdogFails, KillsKept
  <2>2. CASE ~(watchdog[c].fails + 1 < HungThreshold)
    BY <1>13, <2>2, StopView DEF WatchdogFails
  <2> QED BY <2>1, <2>2
<1>14. CASE UNCHANGED vars
  BY <1>14 DEF vars, Stutter, View, Stage, Live
<1> QED
  BY <1>1, <1>2, <1>3, <1>4, <1>5, <1>6, <1>7, <1>8, <1>9, <1>10, <1>11, <1>12, <1>13,
     <1>14, TakeView, KillView, DieView, ExitView, SpawnView, HealthView
     DEF Next, Jobs, Events

\* ReticulumSidecarManager keeps the promises of SidecarService, as long as a
\* killed child's exit event is handled before the next spawn: one process at a
\* time, launched on an empty stage while the last request is a start, and gone
\* before the stage is empty again.
THEOREM ServiceImplemented ==
  ASSUME ~LateExit
  PROVE  Spec => ImplementsService
<1>1. Init => Service!Init
  BY DEF Init, Service!Init, Stage, Live, NoFrame
<1>2. TypeOK /\ Control /\ Ownership /\ [Next]_vars => [Service!Next]_View
  BY ServiceStep DEF Stutter
<1>3. Spec => Service!Init /\ [][Service!Next]_View
  BY <1>1, <1>2, TypeCorrect, ControlCorrect, OwnershipCorrect, PTL DEF Spec
<1> QED BY <1>3 DEF ImplementsService, Service!Spec, View
=============================================================================
