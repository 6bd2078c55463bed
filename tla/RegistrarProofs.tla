--------------------------- MODULE RegistrarProofs ---------------------------
(***************************************************************************)
(* Proofs about the registrar for any number of requests, routes and       *)
(* commands, and however late the reactor thread is: its Registration      *)
(* objects keep their invariant under it, and its control state (flags,    *)
(* timer, command queue and the place of the green thread) is consistent.  *)
(***************************************************************************)
EXTENDS Registrar, SIPRegistrationProofs

-----------------------------------------------------------------------------
(***************************************************************************)
(* The command queue.                                                      *)
(***************************************************************************)
LastIs(q, c) == q # <<>> /\ q[Len(q)] = c

\* No terminate is queued.
Clean(q) == \A i \in 1..Len(q) : q[i] # "terminate"

\* One terminate is queued, behind everything else.
TerminateIsLast(q) == /\ LastIs(q, "terminate")
                      /\ \A i \in 1..(Len(q) - 1) : q[i] # "terminate"

LEMMA AppendCommand ==
    ASSUME NEW q \in Seq(CommandName), NEW c \in CommandName
    PROVE  /\ Append(q, c) \in Seq(CommandName)
           /\ LastIs(Append(q, c), c)
           /\ Clean(q) /\ c # "terminate" => Clean(Append(q, c))
           /\ Clean(q) /\ c = "terminate" => TerminateIsLast(Append(q, c))
  <1> DEFINE p == Append(q, c)
  <1>1. /\ p \in Seq(CommandName) /\ Len(q) \in Nat /\ Len(p) = Len(q) + 1
        /\ \A i \in 1..Len(q) : p[i] = q[i]
        /\ p[Len(q) + 1] = c
        /\ p # <<>>
    OBVIOUS
  <1> HIDE DEF p
  <1>2. LastIs(p, c)
    BY <1>1 DEF LastIs
  <1>3. Clean(q) /\ c # "terminate" => Clean(p)
    BY <1>1 DEF Clean
  <1>4. Clean(q) /\ c = "terminate" => TerminateIsLast(p)
    BY <1>1, <1>2 DEF Clean, TerminateIsLast
  <1> QED  BY <1>1, <1>2, <1>3, <1>4 DEF p

LEMMA TailCommand ==
    ASSUME NEW q \in Seq(CommandName), q # <<>>
    PROVE  /\ Tail(q) \in Seq(CommandName) /\ Head(q) \in CommandName
           /\ Tail(q) = <<>> => LastIs(q, Head(q))
           /\ \A c : Tail(q) # <<>> /\ LastIs(q, c) => LastIs(Tail(q), c)
           /\ Clean(q) => Clean(Tail(q)) /\ Head(q) # "terminate"
           /\ TerminateIsLast(q) => IF Tail(q) = <<>> THEN Head(q) = "terminate"
                                    ELSE /\ Head(q) # "terminate"
                                         /\ TerminateIsLast(Tail(q))
  <1> DEFINE t == Tail(q)
             n == Len(q) - 1
  <1>a. /\ n \in Nat /\ Len(q) = n + 1 /\ Len(t) = n /\ Head(q) = q[1]
        /\ \A i \in 1..n : t[i] = q[i + 1]
        /\ t \in Seq(CommandName) /\ Head(q) \in CommandName
    OBVIOUS
  <1>b. \A s \in Seq(CommandName) : s = <<>> <=> Len(s) = 0
    OBVIOUS
  <1> HIDE DEF t, n
  <1>1. /\ n \in Nat /\ Len(q) = n + 1 /\ Len(t) = n /\ Head(q) = q[1]
        /\ \A i \in 1..n : t[i] = q[i + 1]
        /\ t \in Seq(CommandName) /\ Head(q) \in CommandName
        /\ t = <<>> <=> n = 0
    BY <1>a, <1>b
  <1>2. t = <<>> => LastIs(q, Head(q))
    BY <1>1 DEF LastIs
  <1>3. \A c : t # <<>> /\ LastIs(q, c) => LastIs(t, c)
    BY <1>1 DEF LastIs
  <1>4. Clean(q) => Clean(t) /\ Head(q) # "terminate"
    BY <1>1 DEF Clean
  <1>5. ASSUME TerminateIsLast(q)
        PROVE  IF t = <<>> THEN Head(q) = "terminate"
               ELSE Head(q) # "terminate" /\ TerminateIsLast(t)
    <2>1. CASE t = <<>>
      BY <1>1, <1>5, <2>1 DEF TerminateIsLast, LastIs
    <2>2. CASE t # <<>>
      <3>1. LastIs(t, "terminate")
        BY <1>3, <1>5, <2>2 DEF TerminateIsLast
      <3>2. \A i \in 1..(Len(t) - 1) : t[i] # "terminate"
        BY <1>1, <1>5 DEF TerminateIsLast
      <3>3. Head(q) # "terminate"
        BY <1>1, <1>5, <2>2 DEF TerminateIsLast
      <3> QED  BY <2>2, <3>1, <3>2, <3>3 DEF TerminateIsLast
    <2> QED  BY <2>1, <2>2
  <1> QED  BY <1>1, <1>2, <1>3, <1>4, <1>5 DEF t

\* reregister() and the handlers that restart the registration.
LEMMA RestartCommands ==
    ASSUME commands \in Seq(CommandName)
    PROVE  /\ Restarted \in Seq(CommandName)
           /\ LastIs(Restarted, "register")
           /\ Clean(commands) => Clean(Restarted)
  <1>1. "unregister" \in CommandName /\ "register" \in CommandName
    BY DEF CommandName
  <1> QED  BY <1>1, AppendCommand DEF Restarted

-----------------------------------------------------------------------------
(***************************************************************************)
(* The control state.  RegisterPlace is where _run is inside _CH_register, *)
(* UnregisterPlace inside _CH_unregister or _CH_terminate.                 *)
(***************************************************************************)
RegisterPlace == {"dns", "route", "answer", "read"}
UnregisterPlace == {"ending", "end"}

\* The green thread works on a Registration and on a command that fits its place.
Working ==
    /\ pc \in RegisterPlace \cup UnregisterPlace => reg # NoRegistration
    /\ pc \in UnregisterPlace => ~registered
    /\ cmd = "terminate" => pc \in UnregisterPlace
    /\ registered => reg # NoRegistration

\* While the registrar is active the last word is to register: the last command
\* that waits, the one that is handled, or its outcome.
LastWordIsRegister ==
    active => IF commands # <<>> THEN LastIs(commands, "register")
              ELSE \/ pc \in RegisterPlace \cup {"dead"}
                   \/ pc = "idle" /\ (registered \/ timer)

\* Once it is stopped, terminate is the last command it will ever handle.
StopComesLast ==
    /\ active => started
    /\ started => Clean(commands) /\ cmd # "terminate" /\ pc # "off"
    /\ ~started /\ pc # "off" =>
            \/ cmd = "terminate" /\ commands = <<>>
            \/ cmd # "terminate" /\ TerminateIsLast(commands)

Control == /\ Working /\ IdleConsistent /\ RetryFromScratch
           /\ LastWordIsRegister /\ StopComesLast /\ QuietWhenOff

RegistrarInv == CoreInv /\ OutboxOK /\ RegistrarTypeOK /\ Control

-----------------------------------------------------------------------------
(***************************************************************************)
(* The Registration objects under the registrar.                           *)
(***************************************************************************)
LEMMA CoreStutter ==
    ASSUME CoreInv, UNCHANGED <<request, events, registration, owner>>
    PROVE  CoreInv'
  BY DEF CoreInv, CoreTypeOK, RequestTypeOK, ObjectInv,
         CurrentIsAnswered, WillBeAnswered, LastWillEnd, WillEnd,
         OneRequestUnderWay, UnregisteringIsBound, Owned,
         AnswerComesFirst, EndAfterAnswer, AcceptedWillEnd,
         EndAfterSuccess, UnderWayIsSilent, Queued, Has

\* A Registration that observes no request refers to none, so that a new object
\* may take its identity.
LEMMA NewRegistrationPreserves ==
    ASSUME CoreInv, NEW g \in Registrations, FreeRegistration(g),
           registration' = [registration EXCEPT ![g] = NewRegistration],
           UNCHANGED <<request, events, owner>>
    PROVE  CoreInv'
  <1>1. /\ registration \in [Registrations -> RegistrationRecord]
        /\ registration[g].current \in Requests \cup {NoRequest}
        /\ registration[g].last \in Requests \cup {NoRequest}
    BY DEF CoreInv, CoreTypeOK, RegistrationRecord
  <1>2. registration[g].current = NoRequest /\ registration[g].last = NoRequest
    BY <1>1 DEF CoreInv, ObjectInv, Owned, FreeRegistration
  <1>3. /\ NewRegistration \in RegistrationRecord
        /\ NewRegistration.current = NoRequest /\ NewRegistration.last = NoRequest
    BY DEF NewRegistration, RegistrationRecord
  <1>4. /\ registration' \in [Registrations -> RegistrationRecord]
        /\ \A h \in Registrations :
              /\ registration'[h].current = registration[h].current
              /\ registration'[h].last = registration[h].last
              /\ registration[h].current # NoRequest
                    => registration'[h].unregistering = registration[h].unregistering
    BY <1>1, <1>2, <1>3
  <1>5. UNCHANGED <<request, events, owner>>
    OBVIOUS
  <1> USE DEF CoreInv, ObjectInv
  <1>6. CoreTypeOK'
    BY <1>4, <1>5 DEF CoreTypeOK, RequestTypeOK
  <1>7. CurrentIsAnswered' /\ LastWillEnd'
    BY <1>4, <1>5 DEF CurrentIsAnswered, WillBeAnswered, LastWillEnd, WillEnd,
                      Queued, Has
  <1>8. OneRequestUnderWay' /\ UnregisteringIsBound' /\ Owned'
    BY <1>4, <1>5 DEF OneRequestUnderWay, UnregisteringIsBound, Owned, CoreTypeOK
  <1>9. AnswerComesFirst'
    BY <1>4, <1>5 DEF AnswerComesFirst, EndAfterAnswer
  <1>10. AcceptedWillEnd' /\ UnderWayIsSilent'
    BY <1>5 DEF AcceptedWillEnd, EndAfterSuccess, UnderWayIsSilent, Queued, Has
  <1> QED  BY <1>6, <1>7, <1>8, <1>9, <1>10

LEMMA CreateRegistrationPreserves ==
    ASSUME CoreInv, CreateRegistration, UNCHANGED <<request, events, owner>>
    PROVE  /\ CoreInv'
           /\ reg' \in Registrations /\ reg' # NoRegistration
           /\ observed' = observed \cup {reg'}
  <1> DEFINE free == {h \in Registrations : FreeRegistration(h)}
             clean == {h \in free : LeftNothing(h)}
             g == CHOOSE h \in IF clean # {} THEN clean ELSE free : TRUE
  <1>1. /\ free # {} /\ reg' = g
        /\ registration' = [registration EXCEPT ![g] = NewRegistration]
        /\ observed' = observed \cup {g}
    BY DEF CreateRegistration
  <1>2. g \in free
    <2>1. CASE clean # {}
      BY <2>1
    <2>2. CASE clean = {}
      BY <1>1, <2>2
    <2> QED  BY <2>1, <2>2
  <1> HIDE DEF clean, g
  <1>3. g \in Registrations /\ FreeRegistration(g)
    BY <1>2
  <1> HIDE DEF free
  <1> QED  BY <1>1, <1>3, NewRegistrationPreserves, RegistrationAssumption

LEMMA RegistrarStepCore ==
    ASSUME RegistrarInv, Next
    PROVE  CoreInv'
  <1> USE DEF RegistrarInv
  <1>1. pc \in RegisterPlace \cup UnregisterPlace => reg \in Registrations
    BY DEF Control, Working, RegistrarTypeOK
  <1>2. CASE TakeRegister
    BY <1>2, CoreStutter, CreateRegistrationPreserves
       DEF TakeRegister, requestVars
  <1>3. CASE DNSLookupFailed \/ DNSLookupDone \/ NoMoreRoutes \/ RegisterAnswered
                \/ UnregisterAnswered
    BY <1>3, CoreStutter
       DEF DNSLookupFailed, DNSLookupDone, NoMoreRoutes, RegisterAnswered,
           UnregisterAnswered, RegistrationFailed, requestVars, registrationVars
  <1>4. CASE TryRoute
    BY <1>1, <1>4, SendRequestPreserves, SendErrorPreserves
       DEF TryRoute, RegisterPlace
  <1>5. CASE TakeUnregister
    <2>1. reg \in Registrations \cup {NoRegistration}
      BY DEF RegistrarTypeOK
    <2>2. CASE UNCHANGED <<requestVars, registration, owner>>
      BY <2>2, CoreStutter DEF requestVars
    <2>3. CASE /\ reg # NoRegistration /\ ~NothingToEnd(reg)
               /\ SendRequest(reg, FALSE) \/ SendError(reg)
      BY <2>1, <2>3, SendRequestPreserves, SendErrorPreserves
    <2> QED  BY <1>5, <2>2, <2>3 DEF TakeUnregister
  <1>6. CASE Engine
    <2>1. CASE HandleEvent
      BY <2>1, HandleEventPreserves
    <2>2. CASE PjsipStep
      BY <2>2, PjsipPreserves DEF PjsipStep, registrationVars
    <2> QED  BY <1>6, <2>1, <2>2 DEF Engine
  <1>7. CASE Reactor \/ Environment
    BY <1>7, CoreStutter
       DEF Reactor, HandleNotification, CFGSettingsObjectDidChange, Retry,
           Environment, start, stop, SaveSettings, NetworkConditionsDidChange,
           requestVars, registrationVars
  <1> QED  BY <1>2, <1>3, <1>4, <1>5, <1>6, <1>7 DEF Next, Run

-----------------------------------------------------------------------------
(***************************************************************************)
(* Type correctness.                                                       *)
(***************************************************************************)
LEMMA NotesAreTyped ==
    ASSUME NEW g \in Registrations
    PROVE  /\ Note("SIPRegistrationDidFail", g, Transport) \in Notification
           /\ Note("SIPRegistrationDidNotEnd", g, Transport) \in Notification
  BY RequestAssumption DEF Note, Notification, NotificationName

LEMMA AppendNote ==
    ASSUME NEW q \in Seq(Notification), NEW n \in Notification
    PROVE  Append(q, n) \in Seq(Notification)
  OBVIOUS

LEMMA TailNote ==
    ASSUME NEW q \in Seq(Notification), q # <<>>
    PROVE  Tail(q) \in Seq(Notification) /\ Head(q) \in Notification
  OBVIOUS

\* The two settings notifications.
LEMMA SettingsHandled ==
    ASSUME RegistrarTypeOK, CFGSettingsObjectDidChange
    PROVE  /\ settings # <<>> /\ settings' = Tail(settings)
           /\ \/ UNCHANGED <<active, commands>>
              \/ /\ started /\ active' = want
                 /\ commands' = Append(commands, IF want THEN "register"
                                                         ELSE "unregister")
              \/ /\ started /\ UNCHANGED active
                 /\ commands' = IF active THEN Restarted ELSE commands
           /\ UNCHANGED <<started, want, runVars>>
  <1>1. settings # <<>> /\ started \in BOOLEAN
    BY DEF RegistrarTypeOK, CFGSettingsObjectDidChange
  <1>2. Head(settings) \in {"sip.register", "other"}
    <2>1. \A q \in Seq({"sip.register", "other"}) :
             q # <<>> => Head(q) \in {"sip.register", "other"}
      OBVIOUS
    <2> QED  BY <1>1, <2>1 DEF RegistrarTypeOK
  <1>3. CASE ~started
    BY <1>1, <1>3 DEF CFGSettingsObjectDidChange
  <1>4. CASE started /\ Head(settings) = "sip.register"
    BY <1>1, <1>4 DEF CFGSettingsObjectDidChange
  <1>5. CASE started /\ Head(settings) = "other"
    BY <1>1, <1>5 DEF CFGSettingsObjectDidChange
  <1> QED  BY <1>1, <1>2, <1>3, <1>4, <1>5

LEMMA RegistrarStepOutbox ==
    ASSUME RegistrarInv, Next
    PROVE  OutboxOK'
  <1> USE DEF RegistrarInv
  <1>1. CASE Engine /\ HandleEvent
    BY <1>1, HandleEventOutbox
  <1>2. CASE HandleNotification
    BY <1>2, TailNote DEF HandleNotification, OutboxOK
  <1>3. CASE TakeRegister
    <2>1. observed' = observed \/ CreateRegistration
      BY <1>3 DEF TakeRegister
    <2>2. ASSUME CreateRegistration
          PROVE  observed' \subseteq Registrations
      <3>1. UNCHANGED <<request, events, owner>>
        BY <1>3 DEF TakeRegister, requestVars
      <3> QED  BY <2>2, <3>1, CreateRegistrationPreserves DEF OutboxOK
    <2> QED  BY <1>3, <2>1, <2>2 DEF TakeRegister, OutboxOK
  <1>4. CASE /\ Next /\ posted' = posted
             /\ observed' \in {observed, observed \ {reg}}
    BY <1>4 DEF OutboxOK
  <1> QED
    BY <1>1, <1>2, <1>3, <1>4
       DEF Next, Run, DNSLookupFailed, DNSLookupDone, TryRoute, NoMoreRoutes,
           RegisterAnswered, TakeUnregister, UnregisterAnswered,
           RegistrationFailed, DropRegistration, Engine, PjsipStep, Reactor,
           CFGSettingsObjectDidChange, Retry, Environment, start, stop,
           SaveSettings, NetworkConditionsDidChange, registrationVars

LEMMA RegistrarStepTypes ==
    ASSUME RegistrarInv, Next
    PROVE  RegistrarTypeOK'
  <1> USE DEF RegistrarInv
  <1>1. /\ want \in BOOLEAN /\ started \in BOOLEAN /\ active \in BOOLEAN
        /\ settings \in Seq({"sip.register", "other"})
        /\ registered \in BOOLEAN /\ timer \in BOOLEAN
        /\ reg \in Registrations \cup {NoRegistration}
        /\ commands \in Seq(CommandName)
        /\ data \in Seq(Notification)
        /\ pc \in Place
        /\ cmd \in CommandName \cup {"none"}
        /\ routes \in 0..MaxRoutes
    BY DEF RegistrarTypeOK
  <1>a. CASE Engine
    <2>1. UNCHANGED registrarVars
      BY <1>a DEF Engine
    <2> QED  BY <1>1, <2>1 DEF registrarVars, flags, runVars, RegistrarTypeOK
  <1>b. CASE CFGSettingsObjectDidChange
    <2>1. /\ settings' \in Seq({"sip.register", "other"})
          /\ active' \in BOOLEAN
          /\ UNCHANGED <<started, want, runVars>>
      <3>1. \A q \in Seq({"sip.register", "other"}) :
               q # <<>> => Tail(q) \in Seq({"sip.register", "other"})
        OBVIOUS
      <3> QED  BY <1>1, <1>b, <3>1, SettingsHandled
    <2>2. commands' \in Seq(CommandName)
      BY <1>1, <1>b, SettingsHandled, AppendCommand, RestartCommands DEF CommandName
    <2> QED  BY <1>1, <2>1, <2>2 DEF runVars, RegistrarTypeOK
  <1>c. SUFFICES ASSUME \/ Run \/ HandleNotification \/ Retry \/ Environment
                 PROVE  RegistrarTypeOK'
    BY <1>a, <1>b DEF Next, Reactor
  <1>2. want' \in BOOLEAN /\ started' \in BOOLEAN /\ active' \in BOOLEAN
    BY <1>1, <1>c DEF Run, TakeRegister, DNSLookupFailed, DNSLookupDone, TryRoute,
           NoMoreRoutes, RegisterAnswered, TakeUnregister, UnregisterAnswered,
           RegistrationFailed, HandleNotification, Retry, Environment, start, stop,
           SaveSettings, NetworkConditionsDidChange, registrarVars, flags
  <1>3. settings' \in Seq({"sip.register", "other"})
    <2>1. \/ settings' = settings
          \/ settings # <<>> /\ settings' = Tail(settings)
          \/ \E s \in {"sip.register", "other"} : settings' = Append(settings, s)
      BY <1>c DEF Run, TakeRegister, DNSLookupFailed, DNSLookupDone, TryRoute,
           NoMoreRoutes, RegisterAnswered, TakeUnregister, UnregisterAnswered,
           RegistrationFailed, HandleNotification, Retry, Environment, start, stop,
           SaveSettings, NetworkConditionsDidChange, registrarVars, flags
    <2>2. \A q \in Seq({"sip.register", "other"}) :
             /\ q # <<>> => Tail(q) \in Seq({"sip.register", "other"})
             /\ \A s \in {"sip.register", "other"} :
                   Append(q, s) \in Seq({"sip.register", "other"})
      OBVIOUS
    <2> QED  BY <1>1, <2>1, <2>2
  <1>4. registered' \in BOOLEAN /\ timer' \in BOOLEAN
    BY <1>1, <1>c DEF Run, TakeRegister, DNSLookupFailed, DNSLookupDone, TryRoute,
           NoMoreRoutes, RegisterAnswered, TakeUnregister, UnregisterAnswered,
           RegistrationFailed, CancelTimer, HandleNotification, Retry, Environment, start, stop,
           SaveSettings, NetworkConditionsDidChange, registrarVars, runVars
  <1>5. reg' \in Registrations \cup {NoRegistration}
    <2>1. \/ reg' \in {reg, NoRegistration}
          \/ CreateRegistration /\ UNCHANGED <<requestVars, owner>>
      BY <1>c DEF Run, TakeRegister, DNSLookupFailed, DNSLookupDone, TryRoute,
           NoMoreRoutes, RegisterAnswered, TakeUnregister, UnregisterAnswered,
           RegistrationFailed, DropRegistration, HandleNotification, Retry, Environment,
           start, stop, SaveSettings, NetworkConditionsDidChange,
           registrarVars, runVars
    <2> QED  BY <1>1, <2>1, CreateRegistrationPreserves DEF requestVars
  <1>6. commands' \in Seq(CommandName)
    <2>1. \/ commands' \in {commands, Restarted}
          \/ commands # <<>> /\ commands' = Tail(commands)
          \/ \E c \in CommandName : commands' = Append(commands, c)
      BY <1>c DEF Run, TakeRegister, DNSLookupFailed, DNSLookupDone, TryRoute,
           NoMoreRoutes, RegisterAnswered, TakeUnregister, UnregisterAnswered,
           RegistrationFailed, Taking, HandleNotification, Retry, Environment, start, stop,
           SaveSettings, NetworkConditionsDidChange, registrarVars, CommandName
    <2> QED  BY <1>1, <2>1, AppendCommand, TailCommand, RestartCommands
  <1>7. data' \in Seq(Notification)
    <2>1. pc \in RegisterPlace => reg \in Registrations
      BY <1>1 DEF Control, Working
    <2>2. CASE TryRoute
      BY <1>1, <2>1, <2>2, NotesAreTyped, AppendNote DEF TryRoute, RegisterPlace
    <2>3. CASE TakeUnregister
      BY <1>1, <2>3, NotesAreTyped, AppendNote DEF TakeUnregister
    <2>4. CASE HandleNotification
      BY <1>1, <2>4, TailNote, AppendNote DEF HandleNotification, OutboxOK
    <2>5. CASE RegisterAnswered \/ UnregisterAnswered
      BY <1>1, <2>5, TailNote DEF RegisterAnswered, UnregisterAnswered
    <2>6. CASE data' = data
      BY <1>1, <2>6
    <2> QED
      BY <1>c, <2>2, <2>3, <2>4, <2>5, <2>6
         DEF Run, TakeRegister, DNSLookupFailed, DNSLookupDone, NoMoreRoutes,
             Retry, Environment,
             start, stop, SaveSettings, NetworkConditionsDidChange,
             registrarVars, runVars
  <1>8. pc' \in Place
    BY <1>1, <1>c DEF Run, TakeRegister, DNSLookupFailed, DNSLookupDone, TryRoute,
           NoMoreRoutes, RegisterAnswered, TakeUnregister, UnregisterAnswered,
           RegistrationFailed, WaitForData, Finished, HandleNotification, Retry, Environment,
           start, stop, SaveSettings, NetworkConditionsDidChange, registrarVars,
           runVars, Place
  <1>9. cmd' \in CommandName \cup {"none"}
    <2>1. commands # <<>> => Head(commands) \in CommandName
      BY <1>1, TailCommand
    <2> QED
      BY <1>1, <1>c, <2>1 DEF Run, TakeRegister, DNSLookupFailed, DNSLookupDone,
           TryRoute, NoMoreRoutes, RegisterAnswered, TakeUnregister, Taking,
           UnregisterAnswered, RegistrationFailed, Finished, HandleNotification, Retry, Environment,
           start, stop, SaveSettings, NetworkConditionsDidChange, registrarVars,
           runVars, CommandName
  <1>10. routes' \in 0..MaxRoutes
    <2>1. \/ routes' \in {routes, 0} \/ routes' \in 0..MaxRoutes
          \/ routes > 0 /\ routes' = routes - 1
      BY <1>c DEF Run, TakeRegister, DNSLookupFailed, DNSLookupDone, TryRoute,
           NoMoreRoutes, RegisterAnswered, TakeUnregister, UnregisterAnswered,
           RegistrationFailed, HandleNotification, Retry, Environment, start, stop,
           SaveSettings, NetworkConditionsDidChange, registrarVars, runVars
    <2> QED  BY <1>1, <2>1, RegistrarAssumption
  <1> QED
    BY <1>2, <1>3, <1>4, <1>5, <1>6, <1>7, <1>8, <1>9, <1>10 DEF RegistrarTypeOK

-----------------------------------------------------------------------------
(***************************************************************************)
(* The control state.  The facts about the command queue that a step needs *)
(* come first; what is left is propositional.                              *)
(***************************************************************************)

\* A command that is added while the registrar runs.
LEMMA ControlAfterAdding ==
    ASSUME RegistrarTypeOK, Control, started, UNCHANGED <<started, pc, cmd, reg, registered>>,
           timer' => timer,
           commands' = Restarted
             \/ \E c \in {"register", "unregister"} : commands' = Append(commands, c),
           active' => LastIs(commands', "register")
    PROVE  Control'
  <1>1. Clean(commands) /\ commands \in Seq(CommandName)
    BY DEF Control, StopComesLast, RegistrarTypeOK
  <1>2. Clean(commands') /\ commands' # <<>>
    <2>1. CASE commands' = Restarted
      BY <1>1, <2>1, RestartCommands DEF LastIs
    <2>2. ASSUME NEW c \in {"register", "unregister"}, commands' = Append(commands, c)
          PROVE  Clean(commands') /\ commands' # <<>>
      <3>1. c \in CommandName /\ c # "terminate"
        BY DEF CommandName
      <3> QED  BY <1>1, <2>2, <3>1, AppendCommand DEF LastIs
    <2> QED  BY <2>1, <2>2
  <1>3. Working'
    BY DEF Control, Working
  <1>4. IdleConsistent' /\ RetryFromScratch'
    BY DEF Control, IdleConsistent, RetryFromScratch
  <1>5. LastWordIsRegister'
    BY <1>2 DEF LastWordIsRegister
  <1>6. StopComesLast' /\ QuietWhenOff'
    BY <1>2 DEF Control, StopComesLast, QuietWhenOff
  <1> QED  BY <1>3, <1>4, <1>5, <1>6 DEF Control

LEMMA ControlStutter ==
    ASSUME Control, UNCHANGED <<started, active, registered, reg, timer, commands, pc, cmd>>
    PROVE  Control'
  BY DEF Control, Working, IdleConsistent, RetryFromScratch, LastWordIsRegister,
         StopComesLast, QuietWhenOff

LEMMA ReactorControl ==
    ASSUME RegistrarInv, Reactor
    PROVE  Control'
  <1> USE DEF RegistrarInv
  <1>1. /\ commands \in Seq(CommandName) /\ timer \in BOOLEAN
        /\ active => started
    BY DEF RegistrarTypeOK, Control, StopComesLast
  <1>2. CASE HandleNotification
    <2>1. UNCHANGED <<started, active, pc, cmd, reg, registered, timer>>
      BY <1>2 DEF HandleNotification, flags
    <2>2. CASE commands' = commands
      BY <2>1, <2>2, ControlStutter
    <2>3. CASE active /\ commands' = Append(commands, "register")
      BY <1>1, <2>1, <2>3, AppendCommand, ControlAfterAdding DEF CommandName
    <2> QED  BY <1>2, <2>2, <2>3 DEF HandleNotification
  <1>3. CASE CFGSettingsObjectDidChange
    <2>1. UNCHANGED <<started, pc, cmd, reg, registered, timer>>
      BY <1>3, SettingsHandled DEF runVars
    <2>2. CASE UNCHANGED <<active, commands>>
      BY <2>1, <2>2, ControlStutter
    <2>3. CASE /\ started /\ active' = want
               /\ commands' = Append(commands, IF want THEN "register"
                                                       ELSE "unregister")
      <3>1. active' => LastIs(commands', "register")
        BY <1>1, <2>3, AppendCommand DEF CommandName
      <3>2. \E c \in {"register", "unregister"} : commands' = Append(commands, c)
        BY <2>3
      <3> QED  BY <2>1, <2>3, <3>1, <3>2, ControlAfterAdding
    <2>4. CASE /\ started /\ UNCHANGED active /\ active
               /\ commands' = Restarted
      BY <1>1, <2>1, <2>4, RestartCommands, ControlAfterAdding
    <2> QED  BY <1>3, <2>2, <2>3, <2>4, SettingsHandled
  <1>4. CASE Retry
    <2>1. /\ UNCHANGED <<started, active, pc, cmd, reg, registered>>
          /\ timer /\ timer' = FALSE
      BY <1>4 DEF Retry, flags
    <2>2. CASE active /\ commands' = Append(commands, "register")
      BY <1>1, <2>1, <2>2, AppendCommand, ControlAfterAdding DEF CommandName
    <2>3. CASE ~active /\ commands' = commands
      BY <2>1, <2>3 DEF Control, Working, IdleConsistent, RetryFromScratch,
                        LastWordIsRegister, StopComesLast, QuietWhenOff
    <2> QED  BY <1>4, <2>2, <2>3 DEF Retry
  <1> QED  BY <1>2, <1>3, <1>4 DEF Reactor

LEMMA EnvironmentControl ==
    ASSUME RegistrarInv, Environment
    PROVE  Control'
  <1> USE DEF RegistrarInv
  <1>1. /\ commands \in Seq(CommandName)
        /\ active => started
    BY DEF RegistrarTypeOK, Control, StopComesLast
  <1>2. CASE start
    <2>1. /\ commands = <<>> /\ ~timer /\ ~registered /\ reg = NoRegistration
          /\ cmd # "terminate"
      BY <1>2 DEF start, Control, QuietWhenOff, Working, UnregisterPlace
    <2>2. Clean(<<>>) /\ <<>> \in Seq(CommandName)
      BY DEF Clean
    <2>3. /\ Clean(commands') /\ (want => LastIs(commands', "register"))
          /\ ~want => commands' = <<>>
      BY <1>2, <2>1, <2>2, AppendCommand DEF start, CommandName
    <2>4. /\ started' /\ pc' = "idle" /\ active' = want
          /\ UNCHANGED <<timer, registered, reg, cmd>>
      BY <1>2 DEF start
    <2>5. commands' = <<>> => ~LastIs(commands', "register")
      BY DEF LastIs
    <2> QED
      BY <2>1, <2>3, <2>4, <2>5
         DEF Control, Working, IdleConsistent, RetryFromScratch, RegisterPlace,
             UnregisterPlace, LastWordIsRegister, StopComesLast, QuietWhenOff
  <1>3. CASE stop
    <2>1. started /\ Clean(commands) /\ cmd # "terminate" /\ pc # "off"
      BY <1>3 DEF stop, Control, StopComesLast
    <2>2. TerminateIsLast(commands')
      <3>1. "terminate" \in CommandName /\ commands' = Append(commands, "terminate")
        BY <1>3 DEF stop, CommandName
      <3>2. TerminateIsLast(Append(commands, "terminate"))
        BY <1>1, <2>1, <3>1, AppendCommand
      <3> QED  BY <3>1, <3>2
    <2>3. ~started' /\ ~active' /\ UNCHANGED <<timer, registered, reg, cmd, pc>>
      BY <1>3 DEF stop, runVars
    <2> QED
      BY <2>1, <2>2, <2>3
         DEF Control, Working, IdleConsistent, RetryFromScratch,
             LastWordIsRegister, StopComesLast, QuietWhenOff
  <1>4. CASE SaveSettings
    BY <1>4, ControlStutter DEF SaveSettings, runVars
  <1>5. CASE NetworkConditionsDidChange
    <2>1. /\ UNCHANGED <<started, active, pc, cmd, reg, registered, timer>>
          /\ active /\ commands' = Restarted
      BY <1>5 DEF NetworkConditionsDidChange, flags, runVars
    <2>2. started /\ LastIs(commands', "register")
      BY <1>1, <2>1, RestartCommands
    <2> QED  BY <2>1, <2>2, ControlAfterAdding
  <1> QED  BY <1>2, <1>3, <1>4, <1>5 DEF Environment

\* _run takes a command: what is left in the queue.
LEMMA TakeCommand ==
    ASSUME RegistrarTypeOK, Control, NEW names, Taking(names), commands' = Tail(commands)
    PROVE  /\ Head(commands) \in names /\ pc = "idle" /\ cmd # "terminate"
           /\ active => IF commands' # <<>> THEN LastIs(commands', "register")
                        ELSE Head(commands) = "register"
           /\ started => Clean(commands') /\ Head(commands) # "terminate"
           /\ ~started => IF commands' = <<>> THEN Head(commands) = "terminate"
                          ELSE /\ Head(commands) # "terminate"
                               /\ TerminateIsLast(commands')
           /\ active => started
  <1>1. /\ commands \in Seq(CommandName) /\ commands # <<>>
        /\ Head(commands) \in names /\ pc = "idle"
    BY DEF RegistrarTypeOK, Taking
  <1>2. cmd # "terminate"
    BY <1>1 DEF Control, Working, UnregisterPlace
  <1>3. /\ active => started
        /\ active => LastIs(commands, "register")
        /\ started => Clean(commands)
        /\ ~started => TerminateIsLast(commands)
    BY <1>1, <1>2 DEF Control, LastWordIsRegister, StopComesLast
  <1>4. active => IF commands' # <<>> THEN LastIs(commands', "register")
                  ELSE Head(commands) = "register"
    <2>1. \A c, d : LastIs(commands, c) /\ LastIs(commands, d) => c = d
      BY DEF LastIs
    <2> QED  BY <1>1, <1>3, <2>1, TailCommand
  <1> QED  BY <1>1, <1>2, <1>3, <1>4, TailCommand

LEMMA RegisterControl ==
    ASSUME RegistrarInv,
           \/ TakeRegister \/ DNSLookupFailed \/ DNSLookupDone \/ TryRoute
           \/ NoMoreRoutes \/ RegisterAnswered
    PROVE  Control'
  <1> USE DEF RegistrarInv
  <1>1. active => started
    BY DEF Control, StopComesLast
  <1>2. CASE TakeRegister
    <2>1. /\ Taking({"register"}) /\ commands' = Tail(commands)
          /\ UNCHANGED <<started, active, registered>> /\ ~timer'
          /\ pc' = "dns" /\ cmd' = "register"
      BY <1>2 DEF TakeRegister, flags, CancelTimer
    <2>2. reg' # NoRegistration
      BY <1>2, CreateRegistrationPreserves DEF TakeRegister, requestVars
    <2>3. /\ active => IF commands' # <<>> THEN LastIs(commands', "register")
                       ELSE TRUE
          /\ started => Clean(commands')
          /\ ~started => commands' # <<>> /\ TerminateIsLast(commands')
          /\ active => started
      BY <2>1, TakeCommand
    <2> QED
      BY <2>1, <2>2, <2>3
         DEF Control, Working, IdleConsistent, RetryFromScratch, RegisterPlace,
             UnregisterPlace, LastWordIsRegister, StopComesLast, QuietWhenOff
  <1>3. ASSUME pc \in RegisterPlace, RegistrationFailed
        PROVE  Control'
    <2>1. /\ ~registered' /\ reg' = NoRegistration /\ timer'
          /\ pc' = "idle" /\ cmd' = "none"
          /\ UNCHANGED <<started, active, commands>>
      BY <1>3 DEF RegistrationFailed, flags
    <2>2. pc # "off" /\ cmd # "terminate"
      BY <1>3 DEF Control, Working, RegisterPlace, UnregisterPlace
    <2> QED
      BY <1>3, <2>1, <2>2
         DEF Control, Working, IdleConsistent, RetryFromScratch, RegisterPlace,
             UnregisterPlace, LastWordIsRegister, StopComesLast, QuietWhenOff
  <1>4. ASSUME pc \in RegisterPlace, pc' \in RegisterPlace \cup {"dead"},
               UNCHANGED <<started, active, registered, reg, timer, commands, cmd>>
        PROVE  Control'
    BY <1>4
       DEF Control, Working, IdleConsistent, RetryFromScratch, RegisterPlace,
           UnregisterPlace, LastWordIsRegister, StopComesLast, QuietWhenOff
  <1>5. CASE DNSLookupFailed \/ NoMoreRoutes
    BY <1>3, <1>5 DEF DNSLookupFailed, NoMoreRoutes, RegisterPlace
  <1>6. CASE DNSLookupDone \/ TryRoute
    BY <1>4, <1>6 DEF DNSLookupDone, TryRoute, RegisterPlace, WaitForData, flags
  <1>7. CASE RegisterAnswered
    <2>1. pc \in RegisterPlace
      BY <1>7 DEF RegisterAnswered, RegisterPlace
    <2>2. CASE /\ registered' = TRUE /\ pc' = "idle" /\ cmd' = "none"
               /\ UNCHANGED <<flags, commands, reg, timer>>
      <3>1. UNCHANGED <<started, active, commands, reg, timer>>
        BY <2>2 DEF flags
      <3>2. reg # NoRegistration /\ ~timer /\ cmd # "terminate" /\ pc # "off"
        BY <2>1 DEF Control, Working, RetryFromScratch, RegisterPlace, UnregisterPlace
      <3> QED
        BY <2>2, <3>1, <3>2
           DEF Control, Working, IdleConsistent, RetryFromScratch, RegisterPlace,
               UnregisterPlace, LastWordIsRegister, StopComesLast, QuietWhenOff
    <2>3. CASE RegistrationFailed
      BY <1>3, <2>1, <2>3
    <2>4. CASE /\ pc' \in {"route", "dead"}
               /\ UNCHANGED <<flags, commands, registered, reg, timer, cmd>>
      BY <1>4, <2>1, <2>4 DEF RegisterPlace, flags
    <2> QED  BY <1>7, <2>2, <2>3, <2>4 DEF RegisterAnswered
  <1> QED  BY <1>2, <1>5, <1>6, <1>7

LEMMA UnregisterControl ==
    ASSUME RegistrarInv, TakeUnregister \/ UnregisterAnswered
    PROVE  Control'
  <1> USE DEF RegistrarInv
  <1>1. CASE TakeUnregister
    <2> DEFINE c == Head(commands)
    <2>1. /\ Taking({"unregister", "terminate"}) /\ commands' = Tail(commands)
          /\ UNCHANGED <<started, active>> /\ ~timer' /\ ~registered'
      BY <1>1 DEF TakeUnregister, flags, CancelTimer
    <2>2. /\ c \in {"unregister", "terminate"}
          /\ active => commands' # <<>> /\ LastIs(commands', "register")
          /\ started => Clean(commands') /\ c # "terminate"
          /\ ~started => IF commands' = <<>> THEN c = "terminate"
                         ELSE c # "terminate" /\ TerminateIsLast(commands')
          /\ active => started
      BY <2>1, TakeCommand
    <2>3. CASE /\ reg # NoRegistration /\ reg' = reg
               /\ pc' \in UnregisterPlace /\ cmd' = c
      BY <2>1, <2>2, <2>3
         DEF Control, Working, IdleConsistent, RetryFromScratch, RegisterPlace,
             UnregisterPlace, LastWordIsRegister, StopComesLast, QuietWhenOff
    <2>4. CASE /\ reg' = NoRegistration /\ cmd' = "none"
               /\ pc' = IF c = "terminate" THEN "off" ELSE "idle"
      BY <2>1, <2>2, <2>4
         DEF Control, Working, IdleConsistent, RetryFromScratch, RegisterPlace,
             UnregisterPlace, LastWordIsRegister, StopComesLast, QuietWhenOff
    <2> QED
      BY <1>1, <2>3, <2>4 DEF TakeUnregister, WaitForData, Finished,
                              DropRegistration, UnregisterPlace
  <1>2. CASE UnregisterAnswered
    <2>1. /\ pc \in UnregisterPlace
          /\ UNCHANGED <<started, active, commands, registered, timer>>
      BY <1>2 DEF UnregisterAnswered, UnregisterPlace, flags
    <2>2. /\ ~registered /\ ~timer /\ reg # NoRegistration
          /\ active => commands # <<>> /\ LastIs(commands, "register")
          /\ active => started
          /\ started => Clean(commands) /\ cmd # "terminate"
          /\ ~started => \/ cmd = "terminate" /\ commands = <<>>
                         \/ cmd # "terminate" /\ TerminateIsLast(commands)
      BY <2>1 DEF Control, Working, RetryFromScratch, LastWordIsRegister,
                  StopComesLast, UnregisterPlace, RegisterPlace
    <2>3. CASE pc' \in UnregisterPlace /\ UNCHANGED <<cmd, reg>>
      BY <2>1, <2>2, <2>3
         DEF Control, Working, IdleConsistent, RetryFromScratch, RegisterPlace,
             UnregisterPlace, LastWordIsRegister, StopComesLast, QuietWhenOff
    <2>4. CASE /\ reg' = NoRegistration /\ cmd' = "none"
               /\ pc' = IF cmd = "terminate" THEN "off" ELSE "idle"
      BY <2>1, <2>2, <2>4
         DEF Control, Working, IdleConsistent, RetryFromScratch, RegisterPlace,
             UnregisterPlace, LastWordIsRegister, StopComesLast, QuietWhenOff
    <2> QED
      BY <1>2, <2>3, <2>4 DEF UnregisterAnswered, WaitForData, Finished,
                              DropRegistration, UnregisterPlace
  <1> QED  BY <1>1, <1>2

LEMMA RegistrarInvariant == Spec => []RegistrarInv
  <1>1. Init => RegistrarInv
    <2> SUFFICES ASSUME Init
                 PROVE  RegistrarInv
      OBVIOUS
    <2>1. CoreInv
      BY ObjectInitCore DEF Init
    <2>2. OutboxOK
      BY DEF Init, RegistrationInit, OutboxOK
    <2>3. RegistrarTypeOK
      <3>1. /\ settings \in Seq({"sip.register", "other"})
            /\ commands \in Seq(CommandName) /\ data \in Seq(Notification)
        BY DEF Init
      <3>2. routes \in 0..MaxRoutes
        BY RegistrarAssumption DEF Init
      <3> QED  BY <3>1, <3>2 DEF Init, RegistrarTypeOK, Place
    <2>4. Control
      BY DEF Init, Control, Working, IdleConsistent, RetryFromScratch,
             RegisterPlace, UnregisterPlace, LastWordIsRegister, StopComesLast,
             QuietWhenOff
    <2> QED  BY <2>1, <2>2, <2>3, <2>4 DEF RegistrarInv
  <1>2. RegistrarInv /\ [Next]_vars => RegistrarInv'
    <2> SUFFICES ASSUME RegistrarInv, [Next]_vars
                 PROVE  RegistrarInv'
      OBVIOUS
    <2>1. CASE Next
      <3>1. CASE Engine
        <4>1. UNCHANGED <<started, active, registered, reg, timer, commands, pc, cmd>>
          BY <3>1 DEF Engine, registrarVars, runVars, flags
        <4>2. Control'
          BY <4>1, ControlStutter DEF RegistrarInv
        <4> QED
          BY <2>1, <4>2, RegistrarStepCore, RegistrarStepOutbox, RegistrarStepTypes
             DEF RegistrarInv
      <3>2. CASE Run
        <4>1. Control'
          BY <3>2, RegisterControl, UnregisterControl DEF Run
        <4> QED
          BY <2>1, <4>1, RegistrarStepCore, RegistrarStepOutbox, RegistrarStepTypes
             DEF RegistrarInv
      <3>3. CASE Reactor \/ Environment
        <4>1. Control'
          BY <3>3, ReactorControl, EnvironmentControl
        <4> QED
          BY <2>1, <4>1, RegistrarStepCore, RegistrarStepOutbox, RegistrarStepTypes
             DEF RegistrarInv
      <3> QED  BY <2>1, <3>1, <3>2, <3>3 DEF Next
    <2>2. CASE UNCHANGED vars
      <3>1. UNCHANGED <<request, events, registration, owner, observed, posted,
                        want, settings, started, active, registered, reg, timer,
                        commands, data, pc, cmd, routes>>
        BY <2>2 DEF vars, requestVars, registrationVars, registrarVars, flags, runVars
      <3>2. CoreInv' /\ Control'
        BY <3>1, CoreStutter, ControlStutter DEF RegistrarInv
      <3> QED  BY <3>1, <3>2 DEF RegistrarInv, OutboxOK, RegistrarTypeOK
    <2> QED  BY <2>1, <2>2
  <1> QED  BY <1>1, <1>2, PTL DEF Spec

-----------------------------------------------------------------------------
\* The registrar, its Registrations and their requests keep their types.
THEOREM RegistrarTypeCorrect == Spec => []TypeOK
  <1>1. RegistrarInv => TypeOK
    BY DEF RegistrarInv, CoreInv, CoreTypeOK, OutboxOK, TypeOK, RegistrationTypeOK
  <1> QED  BY <1>1, RegistrarInvariant, PTL

\* The Registration objects are as correct under the registrar, which creates and
\* drops them, as on their own.
THEOREM RegistrarObjects == Spec => []ObjectInv
  <1>1. RegistrarInv => ObjectInv
    BY DEF RegistrarInv, CoreInv
  <1> QED  BY <1>1, RegistrarInvariant, PTL

\* Between two commands of _run, _registration is set exactly when registered is.
THEOREM IdleIsConsistent == Spec => []IdleConsistent
  <1>1. RegistrarInv => IdleConsistent
    BY DEF RegistrarInv, Control
  <1> QED  BY <1>1, RegistrarInvariant, PTL

\* _registration_timer is only armed while nothing is registered.
THEOREM RetriesFromScratch == Spec => []RetryFromScratch
  <1>1. RegistrarInv => RetryFromScratch
    BY DEF RegistrarInv, Control
  <1> QED  BY <1>1, RegistrarInvariant, PTL

\* An active registrar with nothing left to do is registered or will try again.
THEOREM GivesUpNever == Spec => []NeverGivesUp
  <1>1. RegistrarInv => NeverGivesUp
    BY DEF RegistrarInv, Control, LastWordIsRegister, RegisterPlace, NeverGivesUp
  <1> QED  BY <1>1, RegistrarInvariant, PTL

\* When stop() has returned, no command, timer or Registration is left.
THEOREM StopIsQuiet == Spec => []QuietWhenOff
  <1>1. RegistrarInv => QuietWhenOff
    BY DEF RegistrarInv, Control
  <1> QED  BY <1>1, RegistrarInvariant, PTL

\* A registrar is at work as long as it is active and at rest once stop() has
\* returned, however its commands, retries and expiries interleave.
THEOREM WorksOrRests == Spec => []AtWorkOrAtRest
  <1> QED  BY GivesUpNever, StopIsQuiet, PTL DEF AtWorkOrAtRest

=============================================================================
