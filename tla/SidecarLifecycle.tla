-------------------------- MODULE SidecarLifecycle --------------------------
(***************************************************************************)
(* The life of the Reticulum sidecar as ReticulumSidecarManager            *)
(* (src/main/reticulum-sidecar-manager.ts) drives it in the Electron main  *)
(* process: start() and stop() calls that overlap, the child processes     *)
(* they spawn and kill, the exit events of those children, and the hung    *)
(* watchdog (src/main/reticulumSidecarWatchdog.ts) that restarts.          *)
(*                                                                         *)
(* JavaScript runs to completion: between two awaits nothing interferes,   *)
(* and promise continuations run before the next event.  Continuations     *)
(* are the actions under Jobs; everything that comes from outside (an IPC  *)
(* call, a timer, a socket, the operating system) is under Events and is   *)
(* guarded by ~JobsPending.                                                *)
(*                                                                         *)
(* The WebSocket bridge, the log trackers and status text are left out;    *)
(* the Bluetooth lease the manager takes is added by SidecarBleYield.      *)
(***************************************************************************)
EXTENDS Naturals, FiniteSets

CONSTANTS
  Children,   \* the child processes that may be spawned, one per spawn
  Users,      \* the renderer's callers of start()
  NoChild,    \* this.proc === null
  MaxCalls,   \* bound on calls of start() and stop()
  LateExit,   \* may the exit event of a killed child come after the next spawn?
  PollsFail   \* may a poll of the watchdog fail?

ASSUME NoChildAssumption == NoChild \notin Children
ASSUME UsersAssumption == Users \cap Children = {}
ASSUME BoundAssumption == MaxCalls \in Nat
ASSUME FlagAssumption == LateExit \in BOOLEAN /\ PollsFail \in BOOLEAN

VARIABLES
  child,        \* [Children -> ChildState]: the operating system's view
  proc,         \* this.proc
  running,      \* this._status.running
  startAbort,   \* this.startAbortRequested
  generation,   \* this.startAttemptGeneration
  quitFast,     \* this.quitFastRequested
  run,          \* the startOnce() behind this.startPromise
  stopping,     \* the stopProc() calls in flight, by who awaits them
  drainAbort,   \* whose controller this.stopPrepareAbort holds
  caller,       \* where each start() call is
  watchdog,     \* the watchdog armed for each child
  lastCall,     \* history: the last start or stop that took effect
  calls         \* number of user calls, to bound the model

vars == <<child, proc, running, startAbort, generation, quitFast, run,
          stopping, drainAbort, caller, watchdog, lastCall, calls>>

\* A child is dead once it has exited, reaped once its exit event was handled.
ChildState == {"unborn", "live", "dead", "reaped"}

\* stopProc() runs on behalf of stop() (this.stopPromise) or of startOnce().
Frames == {"stop", "start"}
FramePc == {"none", "enter", "drain", "take", "term"}
Frame == [pc : FramePc, target : Children \cup {NoChild}]
NoFrame == [pc |-> "none", target |-> NoChild]

\* Each await of startOnce(); "idle" is this.startPromise === null.
RunPc == {"idle", "awaitStop", "reusePoll", "preStop", "build", "health", "failStop"}
Run == [pc : RunPc, child : Children \cup {NoChild}, reuse : BOOLEAN, answered : BOOLEAN]
IdleRun == [pc |-> "idle", child |-> NoChild, reuse |-> FALSE, answered |-> FALSE]

Callers == Users \cup Children
CallerState == {"idle", "call", "waitDoomed", "resume", "joined"}

\* HungThreshold is SIDECAR_WATCHDOG_HUNG_FAILURE_THRESHOLD.
HungThreshold == 2
WatchdogPc == {"idle", "polling", "restarting"}
Watchdog == [pc : WatchdogPc, fails : 0..HungThreshold, stopped : BOOLEAN]
NoWatchdog == [pc |-> "idle", fails |-> 0, stopped |-> TRUE]

TypeOK ==
  /\ child \in [Children -> ChildState]
  /\ proc \in Children \cup {NoChild}
  /\ running \in BOOLEAN
  /\ startAbort \in BOOLEAN
  /\ generation \in Nat
  /\ quitFast \in BOOLEAN
  /\ run \in Run
  /\ stopping \in [Frames -> Frame]
  /\ drainAbort \in Frames \cup {"none"}
  /\ caller \in [Callers -> CallerState]
  /\ watchdog \in [Children -> Watchdog]
  /\ lastCall \in {"none", "start", "stop"}
  /\ calls \in 0..MaxCalls
  /\ run.pc \in {"health", "reusePoll"} => run.child # NoChild
  /\ \A f \in Frames : stopping[f].pc = "term" => stopping[f].target # NoChild

Init ==
  /\ child = [c \in Children |-> "unborn"]
  /\ proc = NoChild
  /\ running = FALSE
  /\ startAbort = FALSE
  /\ generation = 0
  /\ quitFast = FALSE
  /\ run = IdleRun
  /\ stopping = [f \in Frames |-> NoFrame]
  /\ drainAbort = "none"
  /\ caller = [x \in Callers |-> "idle"]
  /\ watchdog = [c \in Children |-> NoWatchdog]
  /\ lastCall = "none"
  /\ calls = 0

-----------------------------------------------------------------------------
(* Shared pieces of the handlers.                                          *)

StopInFlight == stopping["stop"].pc # "none"
StartInFlight == run.pc # "idle"

\* A continuation is ready to run.
JobsPending ==
  \/ \E f \in Frames : stopping[f].pc \in {"enter", "take"}
  \/ run.pc = "awaitStop" /\ ~StopInFlight
  \/ run.pc \in {"preStop", "failStop"} /\ stopping["start"].pc = "none"
  \/ \E x \in Callers : caller[x] \in {"call", "resume"}

\* A watchdog back between two polls; a stopped one polls no more.
Resting(w, fails) == IF w.stopped THEN NoWatchdog ELSE [w EXCEPT !.pc = "idle", !.fails = fails]

\* stopWatchdog(): the timer of the armed watchdog is cleared; a poll or a
\* restart already in flight is not interrupted.
Disarmed(w) == IF w.pc = "idle" THEN NoWatchdog ELSE [w EXCEPT !.stopped = TRUE]
DisarmWatchdogs == watchdog' = [c \in Children |-> Disarmed(watchdog[c])]

\* this.startPromise settles: joined callers return, those that waited for the
\* aborted attempt go on.
EndRun ==
  /\ run' = IdleRun
  /\ caller' = [x \in Callers |->
                 CASE caller[x] = "joined" -> "idle"
                   [] caller[x] = "waitDoomed" -> "resume"
                   [] OTHER -> caller[x]]
\* A restarting watchdog whose start() was answered is done.
AnsweredRestarts(w) ==
  [c \in Children |->
     IF w[c].pc = "restarting" /\ caller[c] = "joined" THEN NoWatchdog ELSE w[c]]

\* startOnce() after the guards on stopPromise and abort.
ChooseBegin(reuse) ==
  \/ /\ reuse /\ running /\ proc # NoChild
     /\ run' = [IdleRun EXCEPT !.pc = "reusePoll", !.child = proc, !.reuse = TRUE]
     /\ UNCHANGED stopping
  \/ /\ ~(reuse /\ running) /\ proc # NoChild
     /\ run' = [IdleRun EXCEPT !.pc = "preStop", !.reuse = reuse]
     /\ stopping' = [stopping EXCEPT !["start"].pc = "enter"]
  \/ /\ proc = NoChild
     /\ run' = [IdleRun EXCEPT !.pc = "build", !.reuse = reuse]
     /\ UNCHANGED stopping

\* Mutant of JoinOrLaunch: startOnce() does not wait for this.stopPromise.
JoinOrLaunchEagerly(x, reuse) ==
  /\ caller' = [caller EXCEPT ![x] = "joined"]
  /\ \/ StartInFlight /\ UNCHANGED <<startAbort, quitFast, generation, run, stopping>>
     \/ /\ ~StartInFlight
        /\ startAbort' = FALSE
        /\ quitFast' = FALSE
        /\ generation' = generation + 1
        /\ ChooseBegin(reuse)

\* start() once it is not waiting for an aborted attempt: join the promise in
\* flight or run startOnce() up to its first await.
JoinOrLaunch(x, reuse) ==
  /\ caller' = [caller EXCEPT ![x] = "joined"]
  /\ \/ StartInFlight /\ UNCHANGED <<startAbort, quitFast, generation, run, stopping>>
     \/ /\ ~StartInFlight
        /\ startAbort' = FALSE
        /\ quitFast' = FALSE
        /\ generation' = generation + 1
        /\ \/ /\ StopInFlight
              /\ run' = [IdleRun EXCEPT !.pc = "awaitStop", !.reuse = reuse]
              /\ UNCHANGED stopping
           \/ ~StopInFlight /\ ChooseBegin(reuse)

\* start(): wait for an aborted attempt to settle before anything else.
EnterStart(x, reuse) ==
  \/ /\ StartInFlight /\ startAbort
     /\ caller' = [caller EXCEPT ![x] = "waitDoomed"]
     /\ UNCHANGED <<startAbort, quitFast, generation, run, stopping, lastCall>>
  \/ /\ ~(StartInFlight /\ startAbort)
     /\ JoinOrLaunch(x, reuse)
     /\ lastCall' = "start"

\* The body of stop(): quit escalates a stop that is already draining.
RequestStop(forQuit) ==
  /\ quitFast' = (quitFast \/ forQuit)
  /\ startAbort' = TRUE
  /\ generation' = generation + 1
  /\ lastCall' = "stop"
  /\ \/ /\ ~StopInFlight
        /\ stopping' = [stopping EXCEPT !["stop"].pc = "enter"]
        /\ UNCHANGED drainAbort
     \/ /\ StopInFlight /\ forQuit /\ drainAbort # "none"
        /\ stopping' = [stopping EXCEPT ![drainAbort].pc = "take"]
        /\ drainAbort' = "none"
     \/ /\ StopInFlight /\ ~(forQuit /\ drainAbort # "none")
        /\ UNCHANGED <<stopping, drainAbort>>

\* this.stopPromise settles: a watchdog that awaited stop() goes on to start().
AfterStop(f) ==
  caller' = [x \in Callers |->
               IF f = "stop" /\ x \in Children /\ watchdog[x].pc = "restarting"
                  /\ caller[x] = "idle"
               THEN "call" ELSE caller[x]]

\* stopProc() returns on behalf of f, by way of finalizeStopped().
FinishStop(f) ==
  /\ running' = FALSE
  /\ stopping' = [stopping EXCEPT ![f] = NoFrame]
  /\ DisarmWatchdogs
  /\ AfterStop(f)

-----------------------------------------------------------------------------
(* Jobs.                                                                   *)

\* stopProc() up to its first await.
StopEnter(f) ==
  /\ stopping[f].pc = "enter"
  /\ DisarmWatchdogs
  /\ IF ~quitFast /\ running /\ proc # NoChild
     THEN /\ stopping' = [stopping EXCEPT ![f].pc = "drain"]
          /\ drainAbort' = f
     ELSE /\ stopping' = [stopping EXCEPT ![f].pc = "take"]
          /\ UNCHANGED drainAbort
  /\ UNCHANGED <<child, proc, running, startAbort, generation, quitFast, run,
                 caller, lastCall, calls>>

\* Mutants of StopTake: the early return without a child is missing; it also
\* returns early while the child is not yet reported running.
StopTakeUnchecked(f) ==
  /\ stopping[f].pc = "take"
  /\ proc' = NoChild
  /\ stopping' = [stopping EXCEPT ![f] = [pc |-> "term", target |-> proc]]
  /\ UNCHANGED <<child, running, startAbort, generation, quitFast, run, drainAbort,
                 caller, watchdog, lastCall, calls>>
StopTakeRunningOnly(f) ==
  /\ stopping[f].pc = "take"
  /\ proc' = NoChild
  /\ \/ /\ proc = NoChild \/ ~running
        /\ FinishStop(f)
     \/ /\ proc # NoChild /\ running
        /\ stopping' = [stopping EXCEPT ![f] = [pc |-> "term", target |-> proc]]
        /\ UNCHANGED <<running, watchdog, caller>>
  /\ UNCHANGED <<child, startAbort, generation, quitFast, run, drainAbort,
                 lastCall, calls>>

\* stopProc() after prepareStopBestEffort(): take this.proc and SIGTERM it.
StopTake(f) ==
  /\ stopping[f].pc = "take"
  /\ proc' = NoChild
  /\ \/ /\ proc = NoChild
        /\ FinishStop(f)
     \/ /\ proc # NoChild
        /\ stopping' = [stopping EXCEPT ![f] = [pc |-> "term", target |-> proc]]
        /\ UNCHANGED <<running, watchdog, caller>>
  /\ UNCHANGED <<child, startAbort, generation, quitFast, run, drainAbort,
                 lastCall, calls>>

\* startOnce() after awaiting this.stopPromise.
RunAfterStop ==
  /\ run.pc = "awaitStop" /\ ~StopInFlight
  /\ \/ /\ startAbort
        /\ EndRun
        /\ watchdog' = AnsweredRestarts(watchdog)
        /\ UNCHANGED stopping
     \/ /\ ~startAbort
        /\ ChooseBegin(run.reuse)
        /\ UNCHANGED <<caller, watchdog>>
  /\ UNCHANGED <<child, proc, running, startAbort, generation, quitFast,
                 drainAbort, lastCall, calls>>

\* startOnce() after awaiting its own stopProc().
RunAfterOwnStop ==
  /\ stopping["start"].pc = "none"
  /\ \/ /\ run.pc = "preStop"
        /\ run' = [run EXCEPT !.pc = "build"]
        /\ UNCHANGED <<running, caller, watchdog>>
     \/ /\ run.pc = "failStop"
        /\ running' = FALSE
        /\ EndRun
        /\ watchdog' = AnsweredRestarts(watchdog)
  /\ UNCHANGED <<child, proc, startAbort, generation, quitFast, stopping,
                 drainAbort, lastCall, calls>>

\* start() after the aborted attempt it waited for has settled.
ResumeStart(x) ==
  /\ caller[x] = "resume"
  /\ \E reuse \in (IF x \in Users THEN BOOLEAN ELSE {FALSE}) : JoinOrLaunch(x, reuse)
  /\ lastCall' = "start"
  /\ UNCHANGED <<child, proc, running, drainAbort, watchdog, calls>>

\* The watchdog's restartFn() after its stop().
WatchdogStart(c) ==
  /\ caller[c] = "call"
  /\ EnterStart(c, FALSE)
  /\ UNCHANGED <<child, proc, running, drainAbort, watchdog, calls>>

Jobs ==
  \/ \E f \in Frames : StopEnter(f) \/ StopTake(f)
  \/ RunAfterStop
  \/ RunAfterOwnStop
  \/ \E x \in Callers : ResumeStart(x)
  \/ \E c \in Children : WatchdogStart(c)

-----------------------------------------------------------------------------
(* Events.                                                                 *)

\* start() called over IPC.
StartCall(u, reuse) ==
  /\ ~JobsPending /\ calls < MaxCalls /\ caller[u] = "idle"
  /\ EnterStart(u, reuse)
  /\ calls' = calls + 1
  /\ UNCHANGED <<child, proc, running, drainAbort, watchdog>>

\* stop() called over IPC or by the quitting app.
StopCall(forQuit) ==
  /\ ~JobsPending /\ calls < MaxCalls
  /\ RequestStop(forQuit)
  /\ calls' = calls + 1
  /\ UNCHANGED <<child, proc, running, run, caller, watchdog>>

\* The prepare-stop request was answered, failed or timed out.
DrainDone(f) ==
  /\ ~JobsPending /\ stopping[f].pc = "drain"
  /\ stopping' = [stopping EXCEPT ![f].pc = "take"]
  /\ drainAbort' = "none"
  /\ UNCHANGED <<child, proc, running, startAbort, generation, quitFast, run,
                 caller, watchdog, lastCall, calls>>

\* Mutant of KillTimer: no SIGKILL, stopProc() waits for the exit event.
KillTimerPolite(f) ==
  /\ ~JobsPending /\ stopping[f].pc = "term"
  /\ child[stopping[f].target] # "live"
  /\ FinishStop(f)
  /\ UNCHANGED <<child, proc, startAbort, generation, quitFast, run, drainAbort,
                 lastCall, calls>>

\* The grace after SIGTERM is over: SIGKILL, and stopProc() returns.
KillTimer(f) ==
  /\ ~JobsPending /\ stopping[f].pc = "term"
  /\ child' = [child EXCEPT ![stopping[f].target] = IF @ = "live" THEN "dead" ELSE @]
  /\ FinishStop(f)
  /\ UNCHANGED <<proc, startAbort, generation, quitFast, run, drainAbort,
                 lastCall, calls>>

\* A child exits: on SIGTERM, or because it crashed.
ChildDies(c) ==
  /\ ~JobsPending /\ child[c] = "live"
  /\ child' = [child EXCEPT ![c] = "dead"]
  /\ UNCHANGED <<proc, running, startAbort, generation, quitFast, run, stopping,
                 drainAbort, caller, watchdog, lastCall, calls>>

\* Mutant of ExitEvent: the status is not reset.
ExitEventKeepsStatus(c) ==
  /\ ~JobsPending /\ child[c] = "dead"
  /\ child' = [child EXCEPT ![c] = "reaped"]
  /\ proc' = NoChild
  /\ DisarmWatchdogs
  /\ stopping' = [f \in Frames |->
                    IF stopping[f].pc = "term" /\ stopping[f].target = c
                    THEN NoFrame ELSE stopping[f]]
  /\ AfterStop(IF stopping["stop"].pc = "term" /\ stopping["stop"].target = c
               THEN "stop" ELSE "start")
  /\ UNCHANGED <<running, startAbort, generation, quitFast, run, drainAbort,
                 lastCall, calls>>

\* The exit event of c: the handler of startOnce(), then the one of stopProc().
ExitEvent(c) ==
  /\ ~JobsPending /\ child[c] = "dead"
  /\ child' = [child EXCEPT ![c] = "reaped"]
  /\ proc' = NoChild
  /\ running' = FALSE
  /\ DisarmWatchdogs
  /\ stopping' = [f \in Frames |->
                    IF stopping[f].pc = "term" /\ stopping[f].target = c
                    THEN NoFrame ELSE stopping[f]]
  /\ AfterStop(IF stopping["stop"].pc = "term" /\ stopping["stop"].target = c
               THEN "stop" ELSE "start")
  /\ UNCHANGED <<startAbort, generation, quitFast, run, drainAbort, lastCall, calls>>

\* startOnce() ends before the spawn: no port, no binary, or a stop asked for.
BuildFails ==
  /\ ~JobsPending /\ run.pc = "build"
  /\ running' = FALSE
  /\ EndRun
  /\ watchdog' = AnsweredRestarts(watchdog)
  /\ UNCHANGED <<child, proc, startAbort, generation, quitFast, stopping,
                 drainAbort, lastCall, calls>>
\* Mutant of Spawn: no abort checkpoint after the build.
SpawnUnchecked(c) ==
  /\ ~JobsPending /\ run.pc = "build"
  /\ child[c] = "unborn"
  /\ LateExit \/ \A d \in Children : child[d] # "dead"
  /\ child' = [child EXCEPT ![c] = "live"]
  /\ proc' = c
  /\ run' = [run EXCEPT !.pc = "health", !.child = c]
  /\ UNCHANGED <<running, startAbort, generation, quitFast, stopping, drainAbort,
                 caller, watchdog, lastCall, calls>>

\* The build is there and no stop was asked for: the child is spawned.
Spawn(c) ==
  /\ ~JobsPending /\ run.pc = "build" /\ ~startAbort
  /\ child[c] = "unborn"
  /\ LateExit \/ \A d \in Children : child[d] # "dead"
  /\ child' = [child EXCEPT ![c] = "live"]
  /\ proc' = c
  /\ run' = [run EXCEPT !.pc = "health", !.child = c]
  /\ UNCHANGED <<running, startAbort, generation, quitFast, stopping, drainAbort,
                 caller, watchdog, lastCall, calls>>

\* The polled child answers; the answer is still to be handled.
HealthAnswered ==
  /\ ~JobsPending /\ run.pc \in {"health", "reusePoll"} /\ ~run.answered
  /\ child[run.child] = "live"
  /\ run' = [run EXCEPT !.answered = TRUE]
  /\ UNCHANGED <<child, proc, running, startAbort, generation, quitFast, stopping,
                 drainAbort, caller, watchdog, lastCall, calls>>

\* Mutant of HealthOk: the answer is trusted, whatever happened meanwhile.
HealthOkTrusting ==
  /\ ~JobsPending /\ run.pc = "health" /\ run.answered
  /\ EndRun
  /\ running' = TRUE
  /\ watchdog' = [AnsweredRestarts([c \in Children |-> Disarmed(watchdog[c])])
                    EXCEPT ![run.child] = [NoWatchdog EXCEPT !.stopped = FALSE]]
  /\ UNCHANGED <<child, proc, startAbort, generation, quitFast, stopping,
                 drainAbort, lastCall, calls>>

\* pollSidecarHealth() resolves in a fresh start: guards, then the child is
\* reported running and its watchdog armed.
HealthOk ==
  /\ ~JobsPending /\ run.pc = "health" /\ run.answered
  /\ EndRun
  /\ IF startAbort \/ proc # run.child
     THEN /\ watchdog' = AnsweredRestarts(watchdog)
          /\ UNCHANGED running
     ELSE /\ running' = TRUE
          /\ watchdog' = [AnsweredRestarts([c \in Children |-> Disarmed(watchdog[c])])
                            EXCEPT ![run.child] = [NoWatchdog EXCEPT !.stopped = FALSE]]
  /\ UNCHANGED <<child, proc, startAbort, generation, quitFast, stopping,
                 drainAbort, lastCall, calls>>

\* pollSidecarHealth() resolves for reuseIfRunning: the status is returned.
ReuseOk ==
  /\ ~JobsPending /\ run.pc = "reusePoll" /\ run.answered
  /\ EndRun
  /\ watchdog' = AnsweredRestarts(watchdog)
  /\ UNCHANGED <<child, proc, running, startAbort, generation, quitFast, stopping,
                 drainAbort, lastCall, calls>>

\* Mutant of HealthTimeout: only the poll of reuseIfRunning has a deadline.
HealthTimeoutReuseOnly ==
  /\ ~JobsPending /\ run.pc = "reusePoll"
  /\ run' = [run EXCEPT !.pc = "preStop"]
  /\ stopping' = [stopping EXCEPT !["start"].pc = "enter"]
  /\ UNCHANGED <<child, proc, running, startAbort, generation, quitFast,
                 drainAbort, caller, watchdog, lastCall, calls>>

\* pollSidecarHealth() gives up: stop whatever is there.
HealthTimeout ==
  /\ ~JobsPending /\ run.pc \in {"health", "reusePoll"}
  /\ run' = [run EXCEPT !.pc = IF @ = "health" THEN "failStop" ELSE "preStop"]
  /\ stopping' = [stopping EXCEPT !["start"].pc = "enter"]
  /\ UNCHANGED <<child, proc, running, startAbort, generation, quitFast,
                 drainAbort, caller, watchdog, lastCall, calls>>

\* The watchdog's interval: poll while a child is there and reported running.
WatchdogTick(c) ==
  /\ ~JobsPending /\ watchdog[c].pc = "idle" /\ ~watchdog[c].stopped
  /\ watchdog' = [watchdog EXCEPT ![c] =
                    IF proc # NoChild /\ running THEN [@ EXCEPT !.pc = "polling"]
                                                  ELSE [@ EXCEPT !.fails = 0]]
  /\ UNCHANGED <<child, proc, running, startAbort, generation, quitFast, run,
                 stopping, drainAbort, caller, lastCall, calls>>
WatchdogOk(c) ==
  /\ ~JobsPending /\ watchdog[c].pc = "polling"
  /\ watchdog' = [watchdog EXCEPT ![c] = Resting(@, 0)]
  /\ UNCHANGED <<child, proc, running, startAbort, generation, quitFast, run,
                 stopping, drainAbort, caller, lastCall, calls>>

\* A poll fails; the second failure in a row restarts the sidecar.
WatchdogFails(c) ==
  /\ ~JobsPending /\ PollsFail /\ watchdog[c].pc = "polling"
  /\ IF watchdog[c].fails + 1 < HungThreshold
     THEN /\ watchdog' = [watchdog EXCEPT ![c] = Resting(@, @.fails + 1)]
          /\ UNCHANGED <<startAbort, generation, quitFast, stopping, drainAbort, lastCall>>
     ELSE /\ watchdog' = [watchdog EXCEPT ![c].pc = "restarting", ![c].fails = HungThreshold]
          /\ RequestStop(FALSE)
  /\ UNCHANGED <<child, proc, running, run, caller, calls>>

Events ==
  \/ \E u \in Users, reuse \in BOOLEAN : StartCall(u, reuse)
  \/ \E forQuit \in BOOLEAN : StopCall(forQuit)
  \/ \E f \in Frames : DrainDone(f) \/ KillTimer(f)
  \/ \E c \in Children : ChildDies(c) \/ ExitEvent(c) \/ Spawn(c)
  \/ BuildFails \/ HealthAnswered \/ HealthOk \/ ReuseOk \/ HealthTimeout
  \/ \E c \in Children : WatchdogTick(c) \/ WatchdogOk(c) \/ WatchdogFails(c)

Next == Jobs \/ Events

Spec == Init /\ [][Next]_vars

\* Promises settle, timers fire and jobs run: only the user, the crashes, a
\* failing poll and the answer of a child are not bound to happen.
Fairness ==
  /\ WF_vars(Jobs)
  /\ \A f \in Frames : WF_vars(DrainDone(f)) /\ WF_vars(KillTimer(f))
  /\ \A c \in Children : WF_vars(ExitEvent(c))
  /\ WF_vars(BuildFails \/ \E c \in Children : Spawn(c))
  /\ WF_vars(HealthOk \/ ReuseOk \/ HealthTimeout)

FairSpec == Spec /\ Fairness

-----------------------------------------------------------------------------
(* Properties.                                                             *)

Live == {c \in Children : child[c] = "live"}
Targets == {stopping[f].target : f \in {g \in Frames : stopping[g].pc = "term"}}
Quiet == ~JobsPending /\ ~StartInFlight /\ \A f \in Frames : stopping[f].pc = "none"

\* However start(), stop(), quit, crashes and the watchdog overlap, two
\* sidecars never run at once (they would share one configuration and one
\* storage directory): startOnce() spawns only what stopProc() made room for.
AtMostOneLive == \A c, d \in Live : c = d

\* A live child is never lost: it is this.proc, or a stopProc() holds it and
\* will kill it.
NoOrphan == Live \subseteq {proc} \cup Targets

\* The status says running only of a child the manager holds, or of one a
\* stopProc() has taken and is about to report stopped.
RunningIsOwned == running => proc # NoChild \/ \E f \in Frames : stopping[f].pc = "term"

\* A fresh start reports success only for the child that is still this.proc,
\* with no stop in flight that would take it away again (the guards of
\* startOnce() after pollSidecarHealth()).
SuccessIsUndisturbed ==
  [][ ~running /\ running' =>
        /\ proc = run.child /\ proc \in Children
        /\ child[proc] \in {"live", "dead"}
        /\ \A f \in Frames : stopping[f].pc = "none" ]_vars

\* The last request that took effect decides: once everything has settled
\* after a stop(), whoever asked for it, nothing runs.  A start() takes effect
\* when it launches or joins an attempt, which may be later than its call.
StopIsFinal == Quiet /\ lastCall = "stop" => ~running /\ Live = {}

\* A stop() is not undone by the attempt it overtook: until a start() launches
\* or joins an attempt after it, no child is spawned and none is reported
\* running.  A start() that was waiting for the aborted attempt counts as such
\* a later one ("wait for it to clear, then start fresh").
StopPrevails ==
  [][ lastCall = "stop" /\ lastCall' = "stop" =>
        Live' \subseteq Live /\ (running' => running) ]_vars

\* The watchdog restarts only a hung child, never one already gone: it "no-ops
\* once proc is null" (comment in the exit handler of startOnce()).
WatchdogNeedsProc ==
  [][ \A c \in Children :
        watchdog[c].pc = "polling" /\ watchdog'[c].pc = "restarting" => proc # NoChild ]_vars

\* What the callers see of all this: this.proc or a stopProc() that kills.
Stage ==
  IF proc # NoChild THEN "held"
  ELSE IF \E f \in Frames : stopping[f].pc = "term" THEN "stopping" ELSE "off"

Service == INSTANCE SidecarService
             WITH Processes <- Children, stage <- Stage, alive <- Live,
                  reported <- running, wanted <- lastCall

\* ReticulumSidecarManager keeps the promises of SidecarService.
ImplementsService == Service!Spec

\* Every start() call is answered and every stop() returns, however they and
\* the crashes interleave.
StartsAnswered == \A u \in Users : caller[u] # "idle" ~> caller[u] = "idle"
StopsReturn == StopInFlight ~> ~StopInFlight

-----------------------------------------------------------------------------
(* The inductive invariant behind the safety properties.                   *)

\* startOnce() waits for the stopProc() it called.
OwnStopAwaited == stopping["start"].pc # "none" => run.pc \in {"preStop", "failStop"}

\* The controller behind this.stopPrepareAbort is that of a request in flight.
DrainLatched == drainAbort # "none" => stopping[drainAbort].pc = "drain"

\* A stopProc() that is killing has taken this.proc, and an attempt that is
\* past its own stopProc() found or left none.
RoomMade ==
  /\ \A f \in Frames : stopping[f].pc = "term" => proc = NoChild
  /\ run.pc \in {"preStop", "failStop"} /\ stopping["start"].pc = "none" => proc = NoChild
  /\ run.pc = "build" => proc = NoChild

\* Past the wait for this.stopPromise, a stop() leaves its mark on the attempt.
AbortLatched ==
  run.pc \notin {"idle", "awaitStop"} /\ ~startAbort => stopping["stop"].pc = "none"

\* A child that died was the only one.
NoneBesideDead == \A c, d \in Children : ~(child[c] = "dead" /\ child[d] = "live")

\* this.proc is nulled by the exit event of the child.
ProcSpawned == proc # NoChild => child[proc] \in {"live", "dead"}

\* An attempt that was not aborted was asked for by the last request.
StartWanted == run.pc # "idle" /\ ~startAbort => lastCall = "start"

\* Two stopProc() calls never kill at once: the first has taken this.proc.
KillsAlone == \A f, g \in Frames : stopping[f].pc = "term" /\ stopping[g].pc = "term" => f = g

\* A stop() that was not overridden has emptied this.proc once it gets to kill.
StopHolds ==
  lastCall = "stop" =>
    /\ startAbort
    /\ stopping["stop"].pc \in {"none", "term"} => proc = NoChild
    /\ stopping["stop"].pc = "none" => ~running

\* The part that holds whenever the exit events come, and the part about the
\* children, which needs them to come before the next spawn.
Control ==
  /\ DrainLatched /\ OwnStopAwaited /\ RoomMade /\ AbortLatched /\ ProcSpawned
  /\ RunningIsOwned /\ StopHolds /\ StartWanted /\ KillsAlone
Ownership == NoneBesideDead /\ AtMostOneLive /\ NoOrphan

IInv == TypeOK /\ Control /\ Ownership
=============================================================================
