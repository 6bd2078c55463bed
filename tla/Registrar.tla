------------------------------ MODULE Registrar ------------------------------
(***************************************************************************)
(* The registration handler of an account (account/registration.py): a     *)
(* green thread (_run) that takes commands from _command_channel one at a  *)
(* time, looks the registrar up, tries its routes in turn through a        *)
(* Registration object and waits for the outcome on _data_channel.         *)
(*                                                                         *)
(* Everything here runs on the reactor thread, where only one green thread *)
(* runs until it waits; the requests and their events (SIPRegistration)    *)
(* belong to the engine thread and interleave with every step.             *)
(***************************************************************************)
EXTENDS SIPRegistration

CONSTANTS
    FinalCodes,   \* the failures that end an attempt without another route: 401, 423
    MaxRoutes,    \* bound: routes a DNS lookup returns
    MaxCommands,  \* bound: commands waiting when the environment adds one
    MaxSettings,  \* bound: settings notifications waiting to be handled
    MaxBacklog,   \* bound: what waits in the queues when a binding nears expiry
    MaxLag        \* bound: notifications that wait for the reactor thread

ASSUME RegistrarAssumption ==
    /\ FinalCodes \subseteq Codes
    /\ MaxRoutes \in Nat /\ MaxCommands \in Nat
    /\ MaxSettings \in Nat /\ MaxBacklog \in Nat /\ MaxLag \in Nat

VARIABLES
    want,        \* account.sip.register, the user's setting
    settings,    \* CFGSettingsObjectDidChange notifications on their way here
    started,     \* Registrar.started
    active,      \* Registrar.active
    registered,  \* Registrar.registered
    reg,         \* Registrar._registration
    timer,       \* is _registration_timer armed?
    commands,    \* _command_channel
    data,        \* _data_channel
    pc,          \* where _run is
    cmd,         \* the command it is handling
    routes       \* routes it has not tried yet

flags == <<started, active, want, settings>>
runVars == <<registered, reg, timer, data, pc, cmd, routes>>
registrarVars == <<flags, runVars, commands>>
vars == <<requestVars, registrationVars, registrarVars>>

CommandName == {"register", "unregister", "terminate"}

(***************************************************************************)
(* off: no green thread; idle: waiting for a command; dns: waiting for the *)
(* lookup; answer, ending: waiting on _data_channel in _CH_register and    *)
(* _CH_unregister; dead: killed by an exception no handler catches.  At    *)
(* the other places it is running: route, about to try the next route;     *)
(* read and end, about to read a _data_channel that is not empty, which    *)
(* does not make it wait.                                                  *)
(***************************************************************************)
Place == {"off", "idle", "dns", "answer", "ending", "dead",
          "route", "read", "end"}

\* Nothing else runs on the reactor thread while _run does.
ReactorFree == pc \notin {"route", "read", "end"}

\* Reaching a wait() on _data_channel.
WaitForData(running, waiting) ==
    pc' = IF data' = <<>> THEN waiting ELSE running

RegistrarTypeOK ==
    /\ want \in BOOLEAN /\ started \in BOOLEAN /\ active \in BOOLEAN
    /\ settings \in Seq({"sip.register", "other"})
    /\ registered \in BOOLEAN /\ timer \in BOOLEAN
    /\ reg \in Registrations \cup {NoRegistration}
    /\ commands \in Seq(CommandName)
    /\ data \in Seq(Notification)
    /\ pc \in Place
    /\ cmd \in CommandName \cup {"none"}
    /\ routes \in 0..MaxRoutes

TypeOK == RequestTypeOK /\ RegistrationTypeOK /\ RegistrarTypeOK

Init ==
    /\ RequestInit /\ RegistrationInit /\ observed = {}
    /\ want \in BOOLEAN /\ settings = <<>>
    /\ started = FALSE /\ active = FALSE /\ registered = FALSE
    /\ reg = NoRegistration /\ timer = FALSE
    /\ commands = <<>> /\ data = <<>>
    /\ pc = "off" /\ cmd = "none" /\ routes = 0

-----------------------------------------------------------------------------
(***************************************************************************)
(* The account starts and stops its registrar under its activation lock,   *)
(* so that start() never runs while stop() is waiting for _run to end.     *)
(***************************************************************************)
start ==
    /\ ~started /\ pc = "off" /\ ReactorFree
    /\ started' = TRUE /\ pc' = "idle"
    /\ active' = want
    /\ commands' = IF want THEN Append(commands, "register") ELSE commands
    /\ UNCHANGED <<requestVars, registrationVars, want, settings,
                   registered, reg, timer, data, cmd, routes>>

\* The caller waits until the command is signalled: until pc = "off".
stop ==
    /\ started /\ ReactorFree
    /\ started' = FALSE /\ active' = FALSE
    /\ commands' = Append(commands, "terminate")
    /\ UNCHANGED <<requestVars, registrationVars, want, settings, runVars>>

\* The user changes a setting of the account; the registrar observes it
\* while it is started.
SaveSettings ==
    /\ Len(settings) < MaxSettings
    /\ \/ want' = ~want
          /\ settings' = IF started THEN Append(settings, "sip.register")
                                    ELSE settings
       \/ /\ started /\ UNCHANGED want
          /\ settings' = Append(settings, "other")
    /\ UNCHANGED <<requestVars, registrationVars, runVars, started, active, commands>>

\* Faulty: the register command is forgotten.
RestartedHalf == Append(commands, "unregister")

\* reregister(), and every handler that restarts the registration.
Restarted == Append(Append(commands, "unregister"), "register")

CFGSettingsObjectDidChange ==
    /\ settings # <<>> /\ Len(commands) < MaxCommands /\ ReactorFree
    /\ settings' = Tail(settings)
    /\ CASE ~started -> UNCHANGED <<active, commands>>
         [] started /\ Head(settings) = "sip.register" ->
               /\ active' = want
               /\ commands' = Append(commands, IF want THEN "register"
                                                       ELSE "unregister")
         [] started /\ Head(settings) = "other" ->
               /\ commands' = IF active THEN Restarted ELSE commands
               /\ UNCHANGED active
    /\ UNCHANGED <<requestVars, registrationVars, runVars, want, started>>

\* NetworkConditionsDidChange, or a call of reregister().
NetworkConditionsDidChange ==
    /\ active /\ Len(commands) < MaxCommands /\ ReactorFree
    /\ commands' = Restarted
    /\ UNCHANGED <<requestVars, registrationVars, flags, runVars>>

\* _registration_timer fires.
Retry ==
    /\ timer /\ ReactorFree
    /\ timer' = FALSE
    /\ commands' = IF active THEN Append(commands, "register") ELSE commands
    /\ UNCHANGED <<requestVars, registrationVars, flags, registered, reg, data,
                   pc, cmd, routes>>

(***************************************************************************)
(* A notification of a Registration reaches the reactor thread.  The       *)
(* answers of a Registration that was dropped meanwhile are ignored; its   *)
(* expiry warning is not, since that handler does not look at the sender.  *)
(* A green thread that waits on _data_channel is resumed after the calls   *)
(* that were queued together, so that it may find more than one item.      *)
(***************************************************************************)
Expected(n) == n.obj = reg

Resuming == pc \in {"answer", "ending"} /\ data # <<>>

HandleNotification ==
    /\ posted # <<>> /\ ReactorFree
    /\ Resuming => MaxLag > 1
    /\ posted' = Tail(posted)
    /\ LET n == Head(posted) IN
       IF n.name = "SIPRegistrationWillExpire"
       THEN /\ commands' = IF active THEN Append(commands, "register") ELSE commands
            /\ UNCHANGED data
       ELSE /\ data' = IF Expected(n) THEN Append(data, n) ELSE data
            /\ UNCHANGED commands
    /\ UNCHANGED <<requestVars, registration, owner, observed, flags,
                   registered, reg, timer, pc, cmd, routes>>

-----------------------------------------------------------------------------
(***************************************************************************)
(* _run takes the next command.                                            *)
(***************************************************************************)
Taking(names) == pc = "idle" /\ commands # <<>> /\ Head(commands) \in names

\* A Registration whose notifications can no longer arrive; preferably one that
\* left none in _data_channel either, to tell its notifications from new ones.
FreeRegistration(g) == /\ g # reg
                       /\ \A r \in Requests : owner[r] # g
                       /\ \A i \in 1..Len(posted) : posted[i].obj # g

LeftNothing(g) == \A i \in 1..Len(data) : data[i].obj # g

CreateRegistration ==
    LET free == {h \in Registrations : FreeRegistration(h)}
        clean == {h \in free : LeftNothing(h)}
        g == CHOOSE h \in IF clean # {} THEN clean ELSE free : TRUE
    IN  /\ free # {}
        /\ reg' = g
        /\ registration' = [registration EXCEPT ![g] = NewRegistration]
        /\ observed' = observed \cup {g}

CancelTimer == timer' = FALSE

TakeRegister ==
    /\ Taking({"register"})
    /\ commands' = Tail(commands) /\ cmd' = "register"
    /\ CancelTimer
    /\ \/ reg = NoRegistration /\ CreateRegistration
       \/ reg # NoRegistration /\ UNCHANGED <<reg, registration, observed>>
    /\ pc' = "dns"
    /\ UNCHANGED <<requestVars, owner, posted, flags, registered, data, routes>>

\* Faulty: the handler does not arm the timer.
RegistrationAbandoned ==
    /\ registered' = FALSE
    /\ observed' = observed \ {reg}
    /\ reg' = NoRegistration
    /\ pc' = "idle" /\ cmd' = "none" /\ routes' = 0
    /\ UNCHANGED <<requestVars, registration, owner, posted, flags, commands, timer>>

\* The RegistrationError handler: drop the Registration and arm the timer.
RegistrationFailed ==
    /\ registered' = FALSE
    /\ observed' = observed \ {reg}
    /\ reg' = NoRegistration
    /\ timer' = TRUE
    /\ pc' = "idle" /\ cmd' = "none" /\ routes' = 0
    /\ UNCHANGED <<requestVars, registration, owner, posted, flags, commands>>

DNSLookupFailed == pc = "dns" /\ RegistrationFailed /\ UNCHANGED data

DNSLookupDone ==
    /\ pc = "dns"
    /\ \E n \in 0..MaxRoutes : routes' = n
    /\ pc' = "route"
    /\ UNCHANGED <<requestVars, registrationVars, flags, commands,
                   registered, reg, timer, data, cmd>>

\* register() on the next route.  A SIPCoreError is reported on the spot.
TryRoute ==
    /\ pc = "route" /\ routes > 0
    /\ routes' = routes - 1
    /\ \/ SendRequest(reg, TRUE) /\ UNCHANGED data
       \/ /\ SendError(reg)
          /\ data' = Append(data, Note("SIPRegistrationDidFail", reg, Transport))
    /\ WaitForData("read", "answer")
    /\ UNCHANGED <<observed, posted, flags, commands, registered, reg, timer, cmd>>

\* No route is left, or those left have no contact or come after the 30 s.
NoMoreRoutes == pc = "route" /\ RegistrationFailed /\ UNCHANGED data

Answer == Head(data)

RegisterAnswered ==
    /\ pc \in {"answer", "read"} /\ data # <<>>
    /\ data' = Tail(data)
    /\ \/ /\ Answer.name = "SIPRegistrationDidSucceed"
          /\ registered' = TRUE
          /\ pc' = "idle" /\ cmd' = "none" /\ routes' = 0
          /\ UNCHANGED <<requestVars, registrationVars, flags, commands, reg, timer>>
       \/ /\ Answer.name = "SIPRegistrationDidFail" /\ Answer.code \notin FinalCodes
          /\ pc' = "route"
          /\ UNCHANGED <<requestVars, registrationVars, flags, commands,
                         registered, reg, timer, cmd, routes>>
       \/ /\ \/ Answer.name = "SIPRegistrationDidFail" /\ Answer.code \in FinalCodes
             \/ Answer.name = "SIPRegistrationDidEnd"
          /\ RegistrationFailed
       \/ /\ Answer.name = "SIPRegistrationDidNotEnd"
          /\ pc' = "dead"
          /\ UNCHANGED <<requestVars, registrationVars, flags, commands,
                         registered, reg, timer, cmd, routes>>

-----------------------------------------------------------------------------
\* Where _CH_unregister and _CH_terminate leave the green thread.
Finished(c) == /\ pc' = IF c = "terminate" THEN "off" ELSE "idle"
               /\ cmd' = "none"

\* Faulty: the Registration is no longer observed, but kept.
KeepRegistration == /\ observed' = observed \ {reg}
                    /\ UNCHANGED reg

DropRegistration == /\ observed' = observed \ {reg}
                    /\ reg' = NoRegistration

TakeUnregister ==
    /\ Taking({"unregister", "terminate"})
    /\ commands' = Tail(commands)
    /\ CancelTimer
    /\ registered' = FALSE
    /\ IF reg # NoRegistration /\ registered
       THEN /\ \/ /\ NothingToEnd(reg)
                  /\ UNCHANGED <<requestVars, registration, owner, data>>
               \/ /\ ~NothingToEnd(reg) /\ SendRequest(reg, FALSE)
                  /\ UNCHANGED data
               \/ /\ ~NothingToEnd(reg) /\ SendError(reg)
                  /\ data' = Append(data, Note("SIPRegistrationDidNotEnd",
                                               reg, Transport))
            /\ WaitForData("end", "ending") /\ cmd' = Head(commands)
            /\ UNCHANGED <<reg, observed>>
       ELSE /\ Finished(Head(commands)) /\ DropRegistration
            /\ UNCHANGED <<requestVars, registration, owner, data>>
    /\ UNCHANGED <<posted, flags, routes>>

UnregisterAnswered ==
    /\ pc \in {"ending", "end"} /\ data # <<>>
    /\ data' = Tail(data)
    /\ \/ /\ Answer.name # "SIPRegistrationDidSucceed"
          /\ Finished(cmd) /\ DropRegistration
       \/ /\ Answer.name = "SIPRegistrationDidSucceed"
          /\ WaitForData("end", "ending")
          /\ UNCHANGED <<cmd, observed, reg>>
    /\ UNCHANGED <<requestVars, registration, owner, posted, flags, commands,
                   registered, timer, routes>>

-----------------------------------------------------------------------------
Run == \/ TakeRegister \/ DNSLookupFailed \/ DNSLookupDone \/ TryRoute
       \/ NoMoreRoutes \/ RegisterAnswered \/ TakeUnregister \/ UnregisterAnswered

(***************************************************************************)
(* The engine thread.  Two bounds relate its speed to that of the reactor  *)
(* thread: at most MaxLag notifications wait for the reactor, and the      *)
(* clock of a binding is slower than the queues, so that an expiry warning *)
(* the registrar will hear comes when fewer than MaxBacklog items wait.    *)
(***************************************************************************)
Backlog == Len(events) + Len(posted) + Len(commands) + Len(data)

Warned(r) == /\ active /\ request[r].rest /\ ~request'[r].rest
             /\ reg # NoRegistration /\ registration[reg].last = r

Engine == /\ \/ HandleEvent /\ Len(posted) < MaxLag
             \/ PjsipStep /\ ((\E r \in Requests : Warned(r))
                               => Backlog < MaxBacklog)
          /\ UNCHANGED registrarVars

Reactor == HandleNotification \/ CFGSettingsObjectDidChange \/ Retry

Environment == start \/ stop \/ SaveSettings \/ NetworkConditionsDidChange

Next == Run \/ Engine \/ Reactor \/ Environment

Spec == Init /\ [][Next]_vars

(***************************************************************************)
(* The two threads keep running, requests are answered or time out, DNS    *)
(* lookups return, the retry timer fires.  Nothing is assumed of the       *)
(* account, the user or the network.                                       *)
(***************************************************************************)
FairSpec == /\ Spec
            /\ WF_vars(Run)
            /\ WF_vars(HandleNotification)
            /\ WF_vars(Retry)
            /\ WF_vars(HandleEvent /\ Engine)
            /\ \A r \in Requests : WF_vars(RequestTimer(r) /\ Engine)

-----------------------------------------------------------------------------
(***************************************************************************)
(* Correctness.                                                            *)
(***************************************************************************)

\* The command loop only reads outcomes it has a handler for: an uncaught
\* SIPRegistrationDidNotEnd would kill the green thread for good.
NeverDead == pc # "dead"

\* Between two commands the registrar holds a Registration exactly when it
\* considers itself registered.
IdleConsistent == pc = "idle" => (registered <=> reg # NoRegistration)

\* An armed retry timer and a Registration exclude each other: the retry starts
\* from a new Registration, and no command leaves the timer behind.
RetryFromScratch ==
    timer => pc = "idle" /\ reg = NoRegistration /\ ~registered

\* An active registrar never gives up: when nothing is left to do it is
\* registered or it will try again.
NeverGivesUp ==
    active /\ pc = "idle" /\ commands = <<>> => registered \/ timer

\* stop() leaves nothing behind that could register the account again.
QuietWhenOff ==
    pc = "off" => /\ commands = <<>> /\ ~timer /\ reg = NoRegistration
                  /\ ~registered /\ ~active

\* The registrar is at work or at rest: when it is active it is registered or will
\* try again, and when it was stopped nothing is left to wake it.
AtWorkOrAtRest == NeverGivesUp /\ QuietWhenOff

AnswerNames == NotificationName \ {"SIPRegistrationWillExpire"}

AnswerPosted(g) == \E i \in 1..Len(posted) :
                      posted[i].obj = g /\ posted[i].name \in AnswerNames

\* The green thread is never killed by an outcome it has no handler for, and
\* whenever it waits for an outcome, one is coming: in the channel, on its way to
\* the reactor, or to be posted by the request under way.
OutcomeIsComing ==
    /\ NeverDead
    /\ pc \in {"answer", "ending"} =>
          \/ data # <<>>
          \/ AnswerPosted(reg)
          \/ registration[reg].current # NoRequest /\ WillBeAnswered(reg)

\* However late the reactor is, the wait ends with the binding at the latest.
OutcomeComesInTheEnd ==
    pc \in {"answer", "ending"} =>
        \/ data # <<>>
        \/ AnswerPosted(reg)
        \/ registration[reg].current # NoRequest /\ WillBeAnswered(reg)
        \/ registration[reg].last # NoRequest /\ WillEnd(reg)

\* Nothing moves any more but the clock of the bindings.
Settled == /\ pc \in {"idle", "off"} /\ commands = <<>> /\ ~timer
           /\ events = <<>> /\ posted = <<>> /\ settings = <<>>
           /\ \A r \in Requests : request[r].state # "IN_PROGRESS"

\* Once everything has settled, the account is registered if and only if the
\* registrar runs and the user wants it to be: whatever the interleaving of
\* settings, network changes, expiries and answers.
SettledAsWanted ==
    Settled => LET live == reg # NoRegistration
                           /\ registration[reg].last # NoRequest
               IN  /\ live <=> (started /\ want)
                   /\ registered <=> (started /\ want)

\* A registration that is reported as expired did expire "while we were trying
\* to re-register": the expiry that _CH_register reads is not that of an earlier
\* Registration.
ExpiryIsOwn ==
    pc \in {"read", "answer"} /\ data # <<>>
        => (Head(data).name = "SIPRegistrationDidEnd" => Head(data).obj = reg)

\* stop() returns.
StopReturns == ~started ~> (pc = "off" \/ started)

\* An account that is deactivated is un-registered, unless it is activated again.
DeactivationCompletes ==
    ~active ~> (active \/ (~registered /\ reg = NoRegistration))

\* Whoever stops or deactivates an account is not kept waiting, and the account
\* does not stay registered.
StopsForGood == StopReturns /\ DeactivationCompletes

=============================================================================
