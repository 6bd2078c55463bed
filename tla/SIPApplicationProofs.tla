------------------------ MODULE SIPApplicationProofs ------------------------
(***************************************************************************)
(* The life cycle of the application: its types, that its end is announced *)
(* once, that the engine does not outlive it, and that its state moves on. *)
(*                                                                         *)
(* The invariant says how often the end has been announced: once by each   *)
(* of the four ways that lead to it.  EndsOnce follows because each way is *)
(* taken once, and because all but the failure of the engine exclude each  *)
(* other.                                                                  *)
(***************************************************************************)
EXTENDS SIPApplication, TLAPS

\* A queue of calls that holds each call at most once.
In(q, c) == \E i \in 1..Len(q) : q[i] = c
Once(q)  == \A i, j \in 1..Len(q) : q[i] = q[j] => i = j

Waiting(c) == In(calls, c)

BeforeRunning == {"none", "begin", "core", "ending", "leaving"}
Starting      == {"spawned", "building", "waiting", "resumed"}
Finished      == {"started", "stop", "done"}

\* The end was announced by stop(), by the green thread of
\* _initialize_subsystems before it had finished, by _run_reactor before the
\* engine was started.
Shut  == Waiting("Shutdown") \/ shutdown # "none"
Cut   == init \in {"joining", "done"} /\ posted["DidStart"] = 0
Early == reactor = "leaving" \/ (reactor = "over" /\ engine = "idle")

Times(b) == IF b THEN 1 ELSE 0

TypesOK ==
    /\ state \in States /\ stopPending \in BOOLEAN /\ timer \in BOOLEAN
    /\ starter \in {"idle", "loading"} /\ stopper \in {"idle", "ending"}
    /\ reactor \in {"none", "begin", "core", "running", "stopping", "ending",
                    "leaving", "over"}
    /\ calls \in Seq(Calls)
    /\ init \in {"none", "spawned", "building", "waiting", "resumed", "started",
                 "stop", "ending", "joining", "done", "dead"}
    /\ shutdown \in {"none", "spawned", "waiting", "engine", "joining", "done"}
    /\ failure \in {"none", "ending", "joining", "done"}
    /\ engine \in {"idle", "init", "running", "closing", "ended"}
    /\ engineStopping \in BOOLEAN /\ failed \in BOOLEAN
    /\ posted \in [Names -> Nat]

\* Each call is queued once, and not after it was handled.
QueueInv ==
    /\ Once(calls)
    /\ Waiting("EngineDidStart") => init = "none" /\ engine \notin {"idle", "init"}
    /\ engine = "init" => init = "none"
    /\ Waiting("EngineDidFail") => failure = "none" /\ failed
    /\ failure # "none" => failed
    /\ engine \in {"idle", "init", "running"} => ~failed
    /\ Waiting("Shutdown") => shutdown = "none"

\* Until the engine is started nothing else happens.
EarlyInv ==
    /\ reactor \in BeforeRunning => engine = "idle"
    /\ reactor \in {"running", "stopping"} => engine # "idle"
    /\ engine = "idle" => /\ ~Waiting("EngineDidStart") /\ ~Waiting("EngineDidFail")
                          /\ ~Waiting("Shutdown")
                          /\ init = "none" /\ shutdown = "none"
                          /\ failure = "none" /\ stopper = "idle"

\* What the threads do, given the state.
StateInv ==
    /\ starter = "loading" <=> (reactor = "none" /\ state = "starting")
    /\ reactor = "none" => state \in {"none", "starting"}
    /\ state = "none" => reactor = "none"
    /\ reactor \in {"begin", "core"} => state = "starting"
    /\ reactor \in {"ending", "leaving"} => state = "stopping"
    /\ state = "stopped" <=> reactor = "over"
    /\ state = "starting" => /\ init \in {"none", "dead"} \union Starting
                             /\ failure = "none"
    /\ state = "started" => /\ init \in Finished /\ ~Cut
                            /\ ~Shut /\ stopper = "idle"
                            /\ failure \in {"none", "done"}
    /\ (/\ init \in {"none"} \union Starting /\ failure = "none"
        /\ reactor \in {"running", "stopping"})
         => state = "starting"

\* What runs on the reactor thread runs before it has ended.
ReactorInv ==
    /\ init \in {"building", "started", "stop", "ending", "joining"}
         => reactor \in {"running", "stopping"}
    /\ shutdown \in {"engine", "joining"} => reactor \in {"running", "stopping"}
    /\ failure \in {"ending", "joining"} => reactor \in {"running", "stopping"}

\* A stop by the user follows a start that was completed.
StopInv ==
    (stopper = "ending" \/ Shut) => /\ init \in Finished /\ ~Cut
                                    /\ state \in {"stopping", "stopped"}

ShutOnce == stopper = "ending" => ~Shut

\* Who may have stopped the reactor, and has stopped the engine before.
EndInv ==
    /\ reactor \in {"stopping", "over"} /\ engine # "idle"
         => failure = "done" \/ (init = "done" /\ Cut) \/ shutdown = "done"
    /\ failure \in {"joining", "done"} => engineStopping
    /\ Cut => engineStopping
    /\ shutdown \in {"joining", "done"} => engineStopping
    /\ shutdown \in {"waiting", "engine", "joining", "done"} => ~timer

CountInv ==
    /\ posted["WillStart"] = Times(reactor \notin {"none", "begin"})
    /\ posted["DidEnd"] = Times(reactor = "over")
    /\ posted["DidStart"] <= 1
    /\ init \notin {"stop", "done"} => posted["DidStart"] = 0
    /\ init = "stop" => posted["DidStart"] = 1
    /\ posted["WillEnd"] = Times(failure \in {"joining", "done"}) + Times(Shut)
                           + Times(Cut) + Times(Early)

LifeInv == /\ TypesOK /\ QueueInv /\ EarlyInv /\ StateInv /\ ReactorInv
           /\ StopInv /\ ShutOnce /\ EndInv /\ CountInv

-----------------------------------------------------------------------------
(***************************************************************************)
(* The queue.                                                              *)
(***************************************************************************)

\* A call that is appended is in the queue, with those that were.
LEMMA AppendCall ==
    ASSUME NEW q \in Seq(Calls), NEW c \in Calls
    PROVE  /\ Append(q, c) \in Seq(Calls)
           /\ \A d : In(Append(q, c), d) <=> (In(q, d) \/ d = c)
           /\ Once(q) /\ ~In(q, c) => Once(Append(q, c))
<1> DEFINE r == Append(q, c)
<1>1. /\ r \in Seq(Calls) /\ Len(r) = Len(q) + 1 /\ r[Len(r)] = c
      /\ \A i \in 1..Len(q) : r[i] = q[i]
  OBVIOUS
<1>2. Len(q) \in Nat
  OBVIOUS
<1> HIDE DEF r
<1>3. \A d : In(r, d) <=> (In(q, d) \/ d = c)
  <2> SUFFICES ASSUME NEW d PROVE In(r, d) <=> (In(q, d) \/ d = c)
    OBVIOUS
  <2>1. ASSUME In(r, d) PROVE In(q, d) \/ d = c
    <3>1. PICK i \in 1..Len(r) : r[i] = d
      BY <2>1 DEF In
    <3>2. CASE i = Len(r)
      BY <1>1, <3>1, <3>2
    <3>3. CASE i # Len(r)
      BY <1>1, <1>2, <3>1, <3>3 DEF In
    <3> QED BY <3>2, <3>3
  <2>2. ASSUME In(q, d) PROVE In(r, d)
    BY <1>1, <1>2, <2>2 DEF In
  <2>3. ASSUME d = c PROVE In(r, d)
    BY <1>1, <1>2, <2>3 DEF In
  <2> QED BY <2>1, <2>2, <2>3
<1>4. ASSUME Once(q), ~In(q, c) PROVE Once(r)
  BY <1>1, <1>2, <1>4 DEF Once, In
<1> QED BY <1>1, <1>3, <1>4 DEF r

\* The call at the head is handled, the others remain; it is not queued twice.
LEMMA TakeCall ==
    ASSUME NEW q \in Seq(Calls), q # <<>>, Once(q)
    PROVE  /\ Tail(q) \in Seq(Calls)
           /\ In(q, Head(q))
           /\ \A d : In(Tail(q), d) <=> (In(q, d) /\ d # Head(q))
           /\ Once(Tail(q))
<1> DEFINE r == Tail(q)
<1>1. /\ r \in Seq(Calls) /\ Len(r) = Len(q) - 1 /\ Head(q) = q[1]
      /\ \A i \in 1..Len(r) : r[i] = q[i + 1]
  OBVIOUS
<1>2. Len(q) \in Nat \ {0}
  OBVIOUS
<1> HIDE DEF r
<1>3. In(q, Head(q))
  BY <1>1, <1>2 DEF In
<1>4. Once(r)
  BY <1>1, <1>2 DEF Once
<1>5. \A d : In(r, d) => In(q, d) /\ d # Head(q)
  <2> SUFFICES ASSUME NEW d, In(r, d) PROVE In(q, d) /\ d # Head(q)
    OBVIOUS
  <2>1. PICK i \in 1..Len(r) : r[i] = d
    BY DEF In
  <2>2. i + 1 \in 1..Len(q) /\ q[i + 1] = d /\ i + 1 # 1
    BY <1>1, <1>2, <2>1
  <2> QED BY <1>1, <1>2, <2>2 DEF In, Once
<1>6. \A d : In(q, d) /\ d # Head(q) => In(r, d)
  <2> SUFFICES ASSUME NEW d, In(q, d), d # Head(q) PROVE In(r, d)
    OBVIOUS
  <2>1. PICK i \in 1..Len(q) : q[i] = d
    BY DEF In
  <2>2. i - 1 \in 1..Len(r) /\ r[i - 1] = d
    BY <1>1, <1>2, <2>1
  <2> QED BY <2>2 DEF In
<1> QED BY <1>1, <1>3, <1>4, <1>5, <1>6 DEF r

\* The reactor thread starts and ends.
LEMMA ReactorStep == LifeInv /\ ReactorSteps => LifeInv'
<1> SUFFICES ASSUME LifeInv, ReactorSteps PROVE LifeInv'
  OBVIOUS
<1> USE DEF LifeInv, TypesOK, QueueInv, EarlyInv, StateInv, ReactorInv, StopInv,
            ShutOnce, EndInv, CountInv
<1> USE DEF Post, Names, States, BeforeRunning, Starting, Finished, Shut, Cut,
            Early, Times, ReactorFree, stateVars, userVars, greenVars, engineVars
<1>0. Once(calls)' /\ \A c : Waiting(c)' <=> Waiting(c)
  BY DEF ReactorSteps, Waiting
<1>1. CASE RunReactor
  BY <1>0, <1>1 DEF ReactorSteps, RunReactor
<1>2. CASE EndEarly
  BY <1>0, <1>2 DEF ReactorSteps, EndEarly
<1>3. CASE InitializeCore
  BY <1>0, <1>3 DEF ReactorSteps, InitializeCore
<1>4. CASE ReactorLeaves
  BY <1>0, <1>4 DEF ReactorSteps, ReactorLeaves
<1> QED BY <1>1, <1>2, <1>3, <1>4 DEF ReactorSteps

\* A failure of the engine is handled.
LEMMA FailureStep == LifeInv /\ FailureSteps => LifeInv'
<1> SUFFICES ASSUME LifeInv, FailureSteps PROVE LifeInv'
  OBVIOUS
<1> USE DEF LifeInv, TypesOK, QueueInv, EarlyInv, StateInv, ReactorInv, StopInv,
            ShutOnce, EndInv, CountInv
<1> USE DEF Post, Names, States, BeforeRunning, Starting, Finished, Shut, Cut,
            Early, Times, ReactorFree, stateVars, userVars, greenVars, engineVars
<1>0. Once(calls)' /\ \A c : Waiting(c)' <=> Waiting(c)
  BY DEF FailureSteps, Waiting
<1>1. CASE FailureAnnounced
  BY <1>0, <1>1 DEF FailureSteps, FailureAnnounced
<1>2. CASE FailureJoined
  BY <1>0, <1>2 DEF FailureSteps, FailureJoined, StopReactor
<1> QED BY <1>1, <1>2 DEF FailureSteps

\* The network changes.
LEMMA NetworkStep == LifeInv /\ Network => LifeInv'
<1> SUFFICES ASSUME LifeInv, Network PROVE LifeInv'
  OBVIOUS
<1> USE DEF LifeInv, TypesOK, QueueInv, EarlyInv, StateInv, ReactorInv, StopInv,
            ShutOnce, EndInv, CountInv
<1> USE DEF Post, Names, States, BeforeRunning, Starting, Finished, Shut, Cut,
            Early, Times, ReactorFree, stateVars, userVars, greenVars, engineVars
<1>0. Once(calls)' /\ \A c : Waiting(c)' <=> Waiting(c)
  BY DEF Network, Waiting
<1>1. CASE NetworkConditionsChanged
  BY <1>0, <1>1 DEF Network, NetworkConditionsChanged
<1>2. CASE TimerFires
  <2>1. ~timer' /\ timer' \in BOOLEAN
    BY <1>2, Zenon DEF TimerFires
  <2>2. UNCHANGED <<stateVars, userVars, reactor, calls, greenVars, engineVars,
                    engineStopping, posted>>
    BY DEF Network
  <2> QED BY <1>0, <2>1, <2>2
<1> QED BY <1>1, <1>2 DEF Network

\* The subsystems are initialised.
LEMMA InitStep == LifeInv /\ InitSteps => LifeInv'
<1> SUFFICES ASSUME LifeInv, InitSteps PROVE LifeInv'
  OBVIOUS
<1> USE DEF LifeInv, TypesOK, QueueInv, EarlyInv, StateInv, ReactorInv, StopInv,
            ShutOnce, EndInv, CountInv
<1> USE DEF Post, Names, States, BeforeRunning, Starting, Finished, Shut, Cut,
            Early, Times, ReactorFree, stateVars, userVars, greenVars, engineVars
<1>0. Once(calls)' /\ \A c : Waiting(c)' <=> Waiting(c)
  BY DEF InitSteps, InitFrame, Waiting
<1>1. CASE InitChecksStop
  BY <1>0, <1>1 DEF InitSteps, InitChecksStop, InitFrame
<1>2. CASE InitEnds
  BY <1>0, <1>2 DEF InitSteps, InitEnds, InitFrame
<1>3. CASE InitJoined
  BY <1>0, <1>3 DEF InitSteps, InitJoined, InitFrame, StopReactor
<1>4. CASE InitBuilds
  BY <1>0, <1>4 DEF InitSteps, InitBuilds, InitFrame
<1>5. CASE InitFinishes
  BY <1>0, <1>5 DEF InitSteps, InitFinishes, InitFrame
<1>6. CASE InitAnnounces
  BY <1>0, <1>6 DEF InitSteps, InitAnnounces, InitFrame
<1>7. CASE InitStops
  BY <1>0, <1>7 DEF InitSteps, InitStops, InitFrame
<1> QED BY <1>1, <1>2, <1>3, <1>4, <1>5, <1>6, <1>7 DEF InitSteps

\* The subsystems are shut down.
LEMMA ShutdownStep == LifeInv /\ ShutdownSteps => LifeInv'
<1> SUFFICES ASSUME LifeInv, ShutdownSteps PROVE LifeInv'
  OBVIOUS
<1> USE DEF LifeInv, TypesOK, QueueInv, EarlyInv, StateInv, ReactorInv, StopInv,
            ShutOnce, EndInv, CountInv
<1> USE DEF Post, Names, States, BeforeRunning, Starting, Finished, Shut, Cut,
            Early, Times, ReactorFree, stateVars, userVars, greenVars, engineVars
<1>0. Once(calls)' /\ \A c : Waiting(c)' <=> Waiting(c)
  BY DEF ShutdownSteps, ShutdownFrame, Waiting
<1>1. CASE ShutdownStarts
  BY <1>0, <1>1 DEF ShutdownSteps, ShutdownStarts, ShutdownFrame
<1>2. CASE ShutdownStopsEngine
  BY <1>0, <1>2 DEF ShutdownSteps, ShutdownStopsEngine, ShutdownFrame
<1>3. CASE ShutdownJoined
  BY <1>0, <1>3 DEF ShutdownSteps, ShutdownJoined, ShutdownFrame, StopReactor
<1> QED BY <1>1, <1>2, <1>3 DEF ShutdownSteps

\* The user starts and stops the application.
LEMMA UserStep == LifeInv /\ UserSteps => LifeInv'
<1> SUFFICES ASSUME LifeInv, UserSteps PROVE LifeInv'
  OBVIOUS
<1> USE DEF LifeInv, TypesOK, QueueInv, EarlyInv, StateInv, ReactorInv, StopInv,
            ShutOnce, EndInv, CountInv
<1> USE DEF Post, Names, States, BeforeRunning, Starting, Finished, Shut, Cut,
            Early, Times, ReactorFree, stateVars, userVars, greenVars, engineVars
<1>1. CASE start \/ LoadFails \/ Loaded \/ stop
  <2>0. Once(calls)' /\ \A c : Waiting(c)' <=> Waiting(c)
    BY <1>1 DEF start, LoadFails, Loaded, stop, Waiting
  <2>1. CASE start
    BY <2>0, <2>1 DEF UserSteps, start
  <2>2. CASE LoadFails
    BY <2>0, <2>2 DEF UserSteps, LoadFails
  <2>3. CASE Loaded
    BY <2>0, <2>3 DEF UserSteps, Loaded
  <2>4. CASE stop
    <3>1. /\ stopPending' \in BOOLEAN
          /\ \/ state = "starting" /\ UNCHANGED <<state, stopper>>
             \/ state = "started" /\ state' = "stopping" /\ stopper' = "ending"
      BY <2>4 DEF stop
    <3>2. UNCHANGED <<starter, reactor, calls, posted, timer, greenVars,
                      engineVars, engineStopping>>
      BY <2>4 DEF UserSteps, stop
    <3> QED BY <2>0, <3>1, <3>2
  <2> QED BY <1>1, <2>1, <2>2, <2>3, <2>4
<1>2. CASE StopAnnounces
  <2>1. ~Waiting("Shutdown") /\ shutdown = "none"
    BY <1>2 DEF StopAnnounces
  <2>2. /\ calls' \in Seq(Calls) /\ Once(calls)'
        /\ \A c : Waiting(c)' <=> (Waiting(c) \/ c = "Shutdown")
    BY <1>2, <2>1, AppendCall DEF StopAnnounces, Waiting, Calls
  <2> QED BY <1>2, <2>1, <2>2 DEF UserSteps, StopAnnounces
<1> QED BY <1>1, <1>2 DEF UserSteps

\* The reactor thread handles a call.
LEMMA HandlerStep == LifeInv /\ Handlers => LifeInv'
<1> SUFFICES ASSUME LifeInv, Handlers PROVE LifeInv'
  OBVIOUS
<1> USE DEF LifeInv, TypesOK, QueueInv, EarlyInv, StateInv, ReactorInv, StopInv,
            ShutOnce, EndInv, CountInv
<1> USE DEF Post, Names, States, BeforeRunning, Starting, Finished, Shut, Cut,
            Early, Times, ReactorFree, stateVars, userVars, greenVars, engineVars
<1>0. /\ calls' \in Seq(Calls) /\ Once(calls)' /\ Waiting(Head(calls))
      /\ \A c : Waiting(c)' <=> (Waiting(c) /\ c # Head(calls))
  BY TakeCall DEF Handlers, Waiting
<1>1. CASE SIPEngineDidStart
  BY <1>0, <1>1 DEF Handlers, SIPEngineDidStart
<1>2. CASE SIPEngineDidFail
  BY <1>0, <1>2 DEF Handlers, SIPEngineDidFail
<1>3. CASE ShutdownCalled
  BY <1>0, <1>3 DEF Handlers, ShutdownCalled
<1> QED BY <1>1, <1>2, <1>3 DEF Handlers

\* Accounts have started, subsystems have stopped.
LEMMA WaitStep == LifeInv /\ Waits => LifeInv'
<1> SUFFICES ASSUME LifeInv, Waits PROVE LifeInv'
  OBVIOUS
<1> USE DEF LifeInv, TypesOK, QueueInv, EarlyInv, StateInv, ReactorInv, StopInv,
            ShutOnce, EndInv, CountInv
<1> USE DEF Post, Names, States, BeforeRunning, Starting, Finished, Shut, Cut,
            Early, Times, ReactorFree, stateVars, userVars, greenVars, engineVars
<1>0. Once(calls)' /\ \A c : Waiting(c)' <=> Waiting(c)
  BY DEF Waits, InitFrame, ShutdownFrame, Waiting
<1>1. CASE AccountsStarted /\ InitFrame
  BY <1>0, <1>1 DEF AccountsStarted, InitFrame
<1>2. CASE SubsystemsStopped /\ ShutdownFrame
  BY <1>0, <1>2 DEF SubsystemsStopped, ShutdownFrame
<1> QED BY <1>1, <1>2 DEF Waits

\* The engine starts, fails and ends.
LEMMA EngineStep ==
    LifeInv /\ (EngineSteps \/ (PollFails /\ EngineFrame)) => LifeInv'
<1> SUFFICES ASSUME LifeInv, EngineFrame,
                    \/ EngineStarts \/ EngineCannotStart \/ EngineStops
                    \/ EngineEnds \/ PollFails
             PROVE  LifeInv'
  BY DEF EngineSteps
<1> USE DEF LifeInv, TypesOK, QueueInv, EarlyInv, StateInv, ReactorInv, StopInv,
            ShutOnce, EndInv, CountInv
<1> USE DEF Post, Names, States, BeforeRunning, Starting, Finished, Shut, Cut,
            Early, Times, ReactorFree, stateVars, userVars, greenVars, engineVars
<1>1. CASE EngineStarts
  <2>1. ~Waiting("EngineDidStart")
    BY <1>1 DEF EngineStarts
  <2>2. /\ calls' \in Seq(Calls) /\ Once(calls)'
        /\ \A c : Waiting(c)' <=> (Waiting(c) \/ c = "EngineDidStart")
    BY <1>1, <2>1, AppendCall DEF EngineStarts, Waiting, Calls
  <2> QED BY <1>1, <2>2 DEF EngineStarts, EngineFrame
<1>2. CASE EngineCannotStart
  <2>1. ~failed /\ ~Waiting("EngineDidFail") /\ failure = "none"
    BY <1>2 DEF EngineCannotStart
  <2>2. /\ calls' \in Seq(Calls) /\ Once(calls)'
        /\ \A c : Waiting(c)' <=> (Waiting(c) \/ c = "EngineDidFail")
    BY <1>2, <2>1, AppendCall DEF EngineCannotStart, Waiting, Calls
  <2> QED BY <1>2, <2>1, <2>2 DEF EngineCannotStart, EngineFrame
<1>3. CASE PollFails
  <2>1. ~failed /\ ~Waiting("EngineDidFail") /\ failure = "none"
    BY <1>3 DEF PollFails
  <2>2. /\ calls' \in Seq(Calls) /\ Once(calls)'
        /\ \A c : Waiting(c)' <=> (Waiting(c) \/ c = "EngineDidFail")
    BY <1>3, <2>1, AppendCall DEF PollFails, Waiting, Calls
  <2> QED BY <1>3, <2>1, <2>2 DEF PollFails, EngineFrame
<1>4. CASE EngineStops \/ EngineEnds
  <2>1. Once(calls)' /\ \A c : Waiting(c)' <=> Waiting(c)
    BY <1>4 DEF EngineStops, EngineEnds, Waiting
  <2> QED BY <1>4, <2>1 DEF EngineStops, EngineEnds, EngineFrame
<1> QED BY <1>1, <1>2, <1>3, <1>4

-----------------------------------------------------------------------------
(***************************************************************************)
(* The theorems.                                                           *)
(***************************************************************************)

\* The invariant holds throughout: the life cycle keeps account of who has
\* announced its end and who has stopped what.
THEOREM LifeCycleInvariant == Spec => []LifeInv
<1>1. Init => LifeInv
  <2> SUFFICES ASSUME Init PROVE LifeInv
    OBVIOUS
  <2>1. /\ calls \in Seq(Calls) /\ Once(calls)
        /\ \A c : ~Waiting(c)
    BY DEF Init, Once, In, Waiting
  <2>2. /\ posted \in [Names -> Nat]
        /\ \A n \in Names : posted[n] = 0
    BY DEF Init
  <2>3. TypesOK /\ QueueInv /\ EarlyInv
    BY <2>1, <2>2 DEF Init, TypesOK, QueueInv, EarlyInv, States
  <2>4. StateInv /\ ReactorInv /\ StopInv /\ ShutOnce /\ EndInv
    BY <2>1 DEF Init, StateInv, ReactorInv, StopInv, ShutOnce, EndInv, Starting,
                Shut, Cut
  <2>5. CountInv
    BY <2>1, <2>2 DEF Init, CountInv, Names, Shut, Cut, Early, Times
  <2> QED BY <2>3, <2>4, <2>5 DEF LifeInv
<1>2. LifeInv /\ [Next]_vars => LifeInv'
  <2> SUFFICES ASSUME LifeInv, [Next]_vars PROVE LifeInv'
    OBVIOUS
  <2>1. CASE UNCHANGED vars
    BY <2>1 DEF vars, stateVars, userVars, greenVars, engineVars, LifeInv,
         TypesOK, QueueInv, EarlyInv, StateInv, ReactorInv, StopInv, ShutOnce,
         EndInv, CountInv, Shut, Cut, Early, Once, In, Waiting
  <2>2. CASE Next
    BY <2>2, UserStep, ReactorStep, HandlerStep, FailureStep, NetworkStep,
       InitStep, ShutdownStep, WaitStep, EngineStep DEF Next
  <2> QED BY <2>1, <2>2
<1> QED BY <1>1, <1>2, PTL DEF Spec

\* The variables of the life cycle keep their types; in particular the end is
\* announced twice at most, even if the engine fails while starting goes on.
THEOREM LifeCycleTypeCorrect == Spec => []TypeOK
<1>1. LifeInv => TypeOK
  <2> SUFFICES ASSUME LifeInv PROVE TypeOK
    OBVIOUS
  <2>1. posted["WillEnd"] <= 2 /\ posted["DidStart"] <= 1
        /\ posted["WillStart"] <= 1 /\ posted["DidEnd"] <= 1
    BY DEF LifeInv, CountInv, Times, Early, Shut, Cut, StopInv, EarlyInv,
           ReactorInv, BeforeRunning, Finished
  <2>2. posted \in [Names -> 0..2]
    BY <2>1 DEF LifeInv, TypesOK, Names
  <2> QED BY <2>2 DEF LifeInv, TypesOK, TypeOK
<1> QED BY <1>1, LifeCycleInvariant, PTL

\* The end of the application is announced once, before it has ended, unless
\* the engine fails while the subsystems are initialised.
THEOREM LifeEndsOnce == Spec => []EndsOnce
<1>1. LifeInv => EndsOnce
  BY DEF LifeInv, TypesOK, EarlyInv, StateInv, ReactorInv, StopInv, EndInv,
         CountInv, EndsOnce, Undisturbed, Shut, Cut, Early, Times, BeforeRunning,
         Finished, Starting, Names
<1> QED BY <1>1, LifeCycleInvariant, PTL

\* However the application has ended, its engine has ended, was never started
\* or has been told to stop.
THEOREM EngineEndsWithIt == Spec => []EngineEndsToo
<1>1. LifeInv => EngineEndsToo
  BY DEF LifeInv, EndInv, EngineEndsToo
<1> QED BY <1>1, LifeCycleInvariant, PTL

\* Once the shutdown has begun the timer of the network stays disarmed.
THEOREM ShutdownDisarms == Spec => []NoTimerAfterShutdown
<1>1. LifeInv => NoTimerAfterShutdown
  BY DEF LifeInv, EndInv, NoTimerAfterShutdown
<1> QED BY <1>1, LifeCycleInvariant, PTL

\* The state moves on from starting to started, stopping and stopped, unless
\* the engine fails while the subsystems are initialised.
THEOREM LifeMovesOn == Spec => StateMovesOnUndisturbed
<1>1. LifeInv /\ [Next]_vars
        => [Undisturbed => state' \in Successors[state]]_vars
  <2> SUFFICES ASSUME LifeInv, Next, Undisturbed
               PROVE  state' \in Successors[state]
    OBVIOUS
  <2>1. \/ state' = state
        \/ state = "none" /\ state' = "starting"
        \/ state = "starting" /\ state' \in {"none", "started", "stopping"}
        \/ state = "started" /\ state' = "stopping"
        \/ state = "stopping" /\ state' = "stopped"
    <3>1. CASE UserSteps
      BY <3>1 DEF UserSteps, start, LoadFails, Loaded, stop, StopAnnounces,
                  stateVars, LifeInv, StateInv
    <3>2. CASE ReactorSteps
      <4>1. CASE ReactorLeaves
        <5>1. state \in States
          BY DEF LifeInv, TypesOK
        <5>2. reactor = "stopping" => state = "stopping"
          BY <5>1 DEF LifeInv, EarlyInv, StateInv, StopInv, EndInv, Undisturbed,
                 Shut, Cut, Starting, Finished, States, CountInv
        <5> QED BY <4>1, <5>2 DEF ReactorLeaves, LifeInv, StateInv
      <4>2. CASE RunReactor \/ EndEarly \/ InitializeCore
        BY <4>2 DEF RunReactor, EndEarly, InitializeCore, LifeInv, StateInv
      <4> QED BY <3>2, <4>1, <4>2 DEF ReactorSteps
    <3>3. CASE Handlers
      <4>1. state \in States /\ state \notin {"none", "stopped"}
        BY <3>3 DEF Handlers, ReactorFree, LifeInv, TypesOK, StateInv
      <4> QED BY <3>3, <4>1 DEF Handlers, SIPEngineDidStart, SIPEngineDidFail,
                                ShutdownCalled, States
    <3>4. CASE InitSteps
      <4>1. CASE InitChecksStop \/ InitFinishes
        BY <4>1 DEF InitChecksStop, InitFinishes, ReactorFree, LifeInv, StateInv,
                    Starting, Undisturbed
      <4>2. CASE InitEnds \/ InitJoined \/ InitBuilds \/ InitAnnounces \/ InitStops
        BY <4>2 DEF InitEnds, InitJoined, InitBuilds, InitAnnounces, InitStops
      <4> QED BY <3>4, <4>1, <4>2 DEF InitSteps
    <3>5. CASE FailureSteps \/ Network \/ ShutdownSteps
      BY <3>5 DEF FailureSteps, Network, ShutdownSteps, ShutdownFrame, stateVars
    <3>6. CASE Waits \/ EngineSteps \/ (PollFails /\ EngineFrame)
      BY <3>6 DEF Waits, AccountsStarted, InitFrame, SubsystemsStopped,
                  ShutdownFrame, EngineSteps, EngineFrame, stateVars
    <3> QED BY <3>1, <3>2, <3>3, <3>4, <3>5, <3>6 DEF Next
  <2>2. state \in States
    BY DEF LifeInv, TypesOK
  <2> QED BY <2>1, <2>2 DEF Successors, States
<1> QED BY <1>1, LifeCycleInvariant, PTL DEF Spec, StateMovesOnUndisturbed

\* The announcements, the timer and the states together, as the run checks them.
THEOREM LifeIsInOrder == Spec => LifeInOrder
<1> QED BY LifeEndsOnce, ShutdownDisarms, LifeMovesOn, PTL DEF LifeInOrder

=============================================================================
