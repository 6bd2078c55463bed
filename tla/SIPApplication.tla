--------------------------- MODULE SIPApplication ---------------------------
(***************************************************************************)
(* The life cycle of the application: start() and stop() on the threads of *)
(* the user, the reactor thread with its green threads, and the thread of  *)
(* the engine, which may fail at any time.                                 *)
(*                                                                         *)
(* A step of the reactor thread ends where another thread may see what it  *)
(* did: at the lock of the state, at a notification, at a wait.            *)
(***************************************************************************)
EXTENDS Naturals, Sequences

VARIABLES
  state,           \* SIPApplication.state, "none" for None
  stopPending,     \* SIPApplication._stop_pending
  timer,           \* SIPApplication._timer is armed
  starter,         \* the thread in start(): "idle", "loading"
  stopper,         \* a thread in stop(): "idle", "ending"
  reactor,         \* where _run_reactor is
  calls,           \* calls queued for the reactor thread
  init,            \* where the green thread of _initialize_subsystems is
  shutdown,        \* where the green thread of _shutdown_subsystems is
  failure,         \* where _NH_SIPEngineDidFail is, once it has to act
  engine,          \* where Engine.run is
  engineStopping,  \* Engine._thread_stopping
  failed,          \* the engine has failed
  posted           \* how often each notification of the life cycle was posted

userVars   == <<starter, stopper>>
stateVars  == <<state, stopPending>>
greenVars  == <<init, shutdown, failure>>
engineVars == <<engine, failed>>
vars == <<stateVars, timer, userVars, reactor, calls, greenVars, engineVars,
          engineStopping, posted>>

States == {"none", "starting", "started", "stopping", "stopped"}
Names  == {"WillStart", "DidStart", "WillEnd", "DidEnd"}
Calls  == {"EngineDidStart", "EngineDidFail", "Shutdown"}

Init == /\ state = "none" /\ stopPending = FALSE /\ timer = FALSE
        /\ starter = "idle" /\ stopper = "idle" /\ reactor = "none"
        /\ calls = <<>>
        /\ init = "none" /\ shutdown = "none" /\ failure = "none"
        /\ engine = "idle" /\ engineStopping = FALSE /\ failed = FALSE
        /\ posted = [n \in Names |-> 0]

Post(n) == posted' = [posted EXCEPT ![n] = @ + 1]

\* Nothing else runs on the reactor thread: engine.join() blocks it, waiting
\* for subsystems or accounts does not.
ReactorFree ==
    /\ reactor \in {"running", "stopping"}
    /\ init \notin {"building", "started", "stop", "ending", "joining"}
    /\ shutdown \notin {"engine", "joining"}
    /\ failure \notin {"ending", "joining"}

-----------------------------------------------------------------------------
(***************************************************************************)
(* The threads of the user.                                                *)
(***************************************************************************)

start == /\ starter = "idle" /\ state = "none"
         /\ state' = "starting" /\ starter' = "loading"
         /\ UNCHANGED <<stopPending, stopper, reactor, calls, posted>>

\* Loading the configuration, the accounts and the address book may raise.
LoadFails == /\ starter = "loading" /\ starter' = "idle"
             /\ state' = "none"
             /\ UNCHANGED <<stopPending, stopper, reactor, calls, posted>>

Loaded == /\ starter = "loading" /\ starter' = "idle"
          /\ reactor' = "begin"
          /\ UNCHANGED <<stateVars, stopper, calls, posted>>

\* Faulty: does not look at a stop that is under way or done.
StopWheneverStarted ==
    /\ stopper = "idle"
    /\ \/ /\ state = "starting" /\ stopPending' = TRUE
          /\ UNCHANGED <<state, stopper>>
       \/ /\ state \in {"started", "stopping", "stopped"}
          /\ state' = "stopping" /\ stopper' = "ending"
          /\ UNCHANGED stopPending
    /\ UNCHANGED <<starter, reactor, calls, posted>>

stop == /\ stopper = "idle"
        /\ \/ /\ state = "starting" /\ stopPending' = TRUE
              /\ UNCHANGED <<state, stopper>>
           \/ /\ state = "started"
              /\ state' = "stopping" /\ stopper' = "ending"
              /\ UNCHANGED stopPending
        /\ UNCHANGED <<starter, reactor, calls, posted>>

StopAnnounces == /\ stopper = "ending" /\ stopper' = "idle"
                 /\ Post("WillEnd")
                 /\ calls' = Append(calls, "Shutdown")
                 /\ UNCHANGED <<stateVars, starter, reactor>>

UserSteps == /\ start \/ LoadFails \/ Loaded \/ stop \/ StopAnnounces
             /\ UNCHANGED <<timer, greenVars, engineVars, engineStopping>>

-----------------------------------------------------------------------------
(***************************************************************************)
(* The reactor thread.                                                     *)
(***************************************************************************)

RunReactor == /\ reactor = "begin"
              /\ Post("WillStart")
              /\ \/ stopPending /\ state' = "stopping" /\ reactor' = "ending"
                 \/ ~stopPending /\ reactor' = "core" /\ UNCHANGED state
              /\ UNCHANGED engine

EndEarly == /\ reactor = "ending" /\ reactor' = "leaving"
            /\ Post("WillEnd")
            /\ UNCHANGED <<state, engine>>

InitializeCore == /\ reactor = "core" /\ reactor' = "running"
                  /\ engine' = "init"
                  /\ UNCHANGED <<state, posted>>

\* After reactor.stop() whatever is ready in the same turn of the reactor may
\* still run, or not.
ReactorLeaves == /\ \/ reactor = "leaving"
                    \/ reactor = "stopping" /\ ReactorFree
                 /\ state' = "stopped" /\ reactor' = "over"
                 /\ Post("DidEnd")
                 /\ UNCHANGED engine

ReactorSteps ==
    /\ RunReactor \/ EndEarly \/ InitializeCore \/ ReactorLeaves
    /\ UNCHANGED <<stopPending, timer, userVars, calls, greenVars, failed,
                   engineStopping>>

\* run_in_green_thread only schedules the green thread, also on the reactor
\* thread itself.
SIPEngineDidStart == /\ Head(calls) = "EngineDidStart"
                     /\ init' = "spawned"
                     /\ UNCHANGED <<state, shutdown, failure>>

SIPEngineDidFail ==
    /\ Head(calls) = "EngineDidFail"
    /\ \/ state = "stopping" /\ UNCHANGED <<state, failure>>
       \/ state # "stopping" /\ state' = "stopping" /\ failure' = "ending"
    /\ UNCHANGED <<init, shutdown>>

ShutdownCalled == /\ Head(calls) = "Shutdown"
                  /\ shutdown' = "spawned"
                  /\ UNCHANGED <<state, init, failure>>

Handlers == /\ ReactorFree /\ calls # <<>> /\ calls' = Tail(calls)
            /\ SIPEngineDidStart \/ SIPEngineDidFail \/ ShutdownCalled
            /\ UNCHANGED <<stopPending, timer, userVars, reactor, engineVars,
                           engineStopping, posted>>

StopReactor == reactor' = "stopping"

FailureAnnounced == /\ failure = "ending" /\ failure' = "joining"
                    /\ Post("WillEnd")
                    /\ engineStopping' = TRUE
                    /\ UNCHANGED reactor

\* Faulty: leaves the reactor running.
FailureJoinedOnly == /\ failure = "joining" /\ failure' = "done"
                     /\ UNCHANGED <<reactor, engineStopping, posted>>

\* engine.join(timeout=5): the engine has ended, or has not after 5 seconds.
FailureJoined == /\ failure = "joining" /\ failure' = "done"
                 /\ StopReactor
                 /\ UNCHANGED <<engineStopping, posted>>

FailureSteps == /\ FailureAnnounced \/ FailureJoined
                /\ UNCHANGED <<stateVars, timer, userVars, calls, init, shutdown,
                               engineVars>>

\* The system wakes up or its address changes.
NetworkConditionsChanged == /\ ReactorFree /\ state = "started" /\ ~timer
                            /\ timer' = TRUE

\* notify(); what it announces is left to the models of its observers.
TimerFires == /\ ReactorFree /\ timer /\ timer' = FALSE

Network == /\ NetworkConditionsChanged \/ TimerFires
           /\ UNCHANGED <<stateVars, userVars, reactor, calls, greenVars,
                          engineVars, engineStopping, posted>>

-----------------------------------------------------------------------------
(***************************************************************************)
(* The green thread of _initialize_subsystems.                             *)
(***************************************************************************)

InitChecksStop ==
    /\ ReactorFree /\ init = "spawned"
    /\ \/ stopPending /\ state' = "stopping" /\ init' = "ending"
       \/ ~stopPending /\ init' = "building" /\ UNCHANGED state
    /\ UNCHANGED <<reactor, shutdown, engineStopping, posted>>

InitEnds == /\ init = "ending" /\ init' = "joining"
            /\ Post("WillEnd")
            /\ engineStopping' = TRUE
            /\ UNCHANGED <<state, reactor, shutdown>>

InitJoined == /\ init = "joining" /\ init' = "done"
              /\ StopReactor
              /\ UNCHANGED <<state, shutdown, engineStopping, posted>>

\* Subsystems can be set up with a working engine, and raise without one.
InitBuilds == /\ init = "building"
              /\ \/ engine # "ended" /\ init' = "waiting"
                 \/ engine # "running" /\ init' = "dead"
              /\ UNCHANGED <<state, reactor, shutdown, engineStopping, posted>>

\* account_manager.start() waits over several turns of the reactor.
AccountsStarted ==
    /\ reactor = "running" /\ ReactorFree
    /\ init = "waiting" /\ init' = "resumed"
    /\ UNCHANGED <<state, reactor, shutdown, engineStopping, posted>>

InitFinishes == /\ ReactorFree /\ init = "resumed" /\ init' = "started"
                /\ state' = "started"
                /\ UNCHANGED <<reactor, shutdown, engineStopping, posted>>

\* Faulty: does not read _stop_pending again.
InitForgetsStop == /\ init = "started" /\ init' = "done"
                   /\ Post("DidStart")
                   /\ UNCHANGED <<state, reactor, shutdown, engineStopping>>

\* _stop_pending is read together with the change of the state, after which
\* stop() does not set it any more.
InitAnnounces == /\ init = "started"
                 /\ init' = IF stopPending THEN "stop" ELSE "done"
                 /\ Post("DidStart")
                 /\ UNCHANGED <<state, reactor, shutdown, engineStopping>>

InitStops == /\ init = "stop" /\ init' = "done"
             /\ \/ state # "started" /\ UNCHANGED <<state, shutdown, posted>>
                \/ /\ state = "started" /\ state' = "stopping"
                   /\ Post("WillEnd") /\ shutdown' = "spawned"
             /\ UNCHANGED <<reactor, engineStopping>>

InitFrame == UNCHANGED <<stopPending, timer, userVars, calls, failure, engineVars>>

InitSteps == /\ \/ InitChecksStop \/ InitEnds \/ InitJoined \/ InitBuilds
                \/ InitFinishes \/ InitAnnounces \/ InitStops
             /\ InitFrame

-----------------------------------------------------------------------------
(***************************************************************************)
(* The green thread of _shutdown_subsystems.                               *)
(***************************************************************************)

ShutdownStarts == /\ ReactorFree
                  /\ shutdown = "spawned" /\ shutdown' = "waiting"
                  /\ timer' = FALSE
                  /\ UNCHANGED <<reactor, engineStopping>>

SubsystemsStopped == /\ reactor = "running" /\ ReactorFree
                     /\ shutdown = "waiting" /\ shutdown' = "engine"
                     /\ UNCHANGED <<timer, reactor, engineStopping>>

ShutdownStopsEngine == /\ shutdown = "engine" /\ shutdown' = "joining"
                       /\ engineStopping' = TRUE
                       /\ UNCHANGED <<timer, reactor>>

ShutdownJoined == /\ shutdown = "joining" /\ shutdown' = "done"
                  /\ StopReactor
                  /\ UNCHANGED <<timer, engineStopping>>

ShutdownFrame ==
    UNCHANGED <<stateVars, userVars, calls, init, failure, engineVars, posted>>

ShutdownSteps == /\ ShutdownStarts \/ ShutdownStopsEngine \/ ShutdownJoined
                 /\ ShutdownFrame

Waits == \/ AccountsStarted /\ InitFrame
         \/ SubsystemsStopped /\ ShutdownFrame

-----------------------------------------------------------------------------
(***************************************************************************)
(* The thread of the engine.                                               *)
(***************************************************************************)

EngineStarts == /\ engine = "init" /\ engine' = "running"
                /\ calls' = Append(calls, "EngineDidStart")
                /\ UNCHANGED failed

EngineCannotStart == /\ engine = "init" /\ engine' = "ended" /\ failed' = TRUE
                     /\ calls' = Append(calls, "EngineDidFail")

PollFails == /\ engine = "running" /\ engine' = "closing" /\ failed' = TRUE
             /\ calls' = Append(calls, "EngineDidFail")

EngineStops == /\ engine = "running" /\ engineStopping /\ engine' = "closing"
               /\ UNCHANGED <<failed, calls>>

EngineEnds == /\ engine = "closing" /\ engine' = "ended"
              /\ UNCHANGED <<failed, calls>>

EngineFrame == UNCHANGED <<stateVars, timer, userVars, reactor, greenVars,
                           engineStopping, posted>>

EngineSteps == /\ EngineStarts \/ EngineCannotStart \/ EngineStops \/ EngineEnds
               /\ EngineFrame

-----------------------------------------------------------------------------
Next == \/ UserSteps \/ ReactorSteps \/ Handlers \/ FailureSteps \/ Network
        \/ InitSteps \/ ShutdownSteps \/ Waits
        \/ EngineSteps \/ (PollFails /\ EngineFrame)

Spec == Init /\ [][Next]_vars

(***************************************************************************)
(* All threads run on.  Accounts start and subsystems stop as long as the  *)
(* engine works: what they wait for are answers that the engine delivers   *)
(* or times out.  Nothing makes the user start or stop the application.    *)
(***************************************************************************)
FairSpec == /\ Spec
            /\ WF_vars(StopAnnounces /\ UserSteps)
            /\ WF_vars(ReactorSteps)
            /\ WF_vars(Handlers)
            /\ WF_vars(FailureSteps)
            /\ WF_vars(InitSteps)
            /\ WF_vars(ShutdownSteps)
            /\ WF_vars(engine = "running" /\ Waits)
            /\ WF_vars(EngineSteps)

-----------------------------------------------------------------------------
(***************************************************************************)
(* Correctness.                                                            *)
(***************************************************************************)

TypeOK ==
    /\ state \in States /\ stopPending \in BOOLEAN /\ timer \in BOOLEAN
    /\ starter \in {"idle", "loading"} /\ stopper \in {"idle", "ending"}
    /\ reactor \in {"none", "begin", "core", "running", "stopping", "ending",
                    "leaving", "over"}
    /\ calls \in Seq(Calls)
    /\ init \in {"none", "spawned", "building", "waiting", "resumed", "started",
                 "stop", "ending", "joining", "done", "dead"}
    /\ shutdown \in {"none", "spawned", "waiting", "engine", "joining", "done"}
    /\ failure \in {"none", "ending", "joining", "done"}
    /\ engine \in {"idle", "init", "running", "closing", "ended"}
    /\ engineStopping \in BOOLEAN /\ failed \in BOOLEAN
    /\ posted \in [Names -> 0..2]

\* The failure of the engine has not been handled while the green thread of
\* _initialize_subsystems was there to go on regardless.
Undisturbed == failure = "none" \/ init = "none"

\* The application announces its end once, before it has ended and after it was
\* started: however many calls of stop(), pending stops and failures of the
\* engine there are.
EndsOnce == Undisturbed => /\ posted["WillEnd"] <= 1
                           /\ posted["DidEnd"] <= posted["WillEnd"]
                           /\ posted["WillEnd"] <= posted["WillStart"]

\* Whichever way the application has ended, its engine does not run on: it has
\* ended by itself, was never started, or has been told to stop.
EngineEndsToo ==
    reactor = "over" => engineStopping \/ engine \in {"idle", "ended"}

\* Once the shutdown has begun no timer is armed, whatever the network does.
NoTimerAfterShutdown ==
    shutdown \in {"waiting", "engine", "joining", "done"} => ~timer

Successors == [none     |-> {"none", "starting"},
               starting |-> States \ {"stopped"},
               started  |-> {"started", "stopping"},
               stopping |-> {"stopping", "stopped"},
               stopped  |-> {"stopped"}]

\* The state only moves on, from starting to started, stopping and stopped;
\* only a start that cannot load the configuration goes back.
StateMovesOn == [][state' \in Successors[state]]_state

\* The same as long as no failure of the engine interferes with starting.
StateMovesOnUndisturbed ==
    [][Undisturbed => state' \in Successors[state]]_vars

\* The life of the application is in order: one announced end, no timer of the
\* network that outlives the shutdown, and states that only move on.
LifeInOrder == [](EndsOnce /\ NoTimerAfterShutdown) /\ StateMovesOnUndisturbed

\* A stop is never lost, wherever start() is when it is called; and once the
\* application is stopping it ends, unless the engine fails meanwhile.
StopIsCarriedOut ==
    (reactor # "none" /\ (stopPending \/ state = "stopping"))
       ~> (state = "stopped" \/ failed)

\* A failure of the engine that the application acts on ends it.
FailureEnds == failure = "ending" ~> state = "stopped"

=============================================================================
