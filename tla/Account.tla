------------------------------- MODULE Account -------------------------------
(***************************************************************************)
(* account/__init__.py: an account that is started and stopped, enabled    *)
(* and disabled, and with it one of its handlers: a publisher              *)
(* (account/publication.py) or a subscriber (account/subscription.py).     *)
(* Both take commands from a channel in a green thread, _run; this module  *)
(* has what they share, Publisher and Subscriber the commands themselves.  *)
(*                                                                         *)
(* All of it runs on the reactor thread.  _activate() and _deactivate()    *)
(* hold the account's activation lock; the latter waits for its handlers.  *)
(***************************************************************************)
EXTENDS Naturals, FiniteSets, Sequences, SequencesExt

CONSTANTS None,
          Scenes      \* what may happen in one behaviour: the kind of handler, the settings to begin
                      \* with, and bounds: changes (of settings and of the network), states (set by the
                      \* application), troubles (requests and lookups that fail), expiries, notifies
ASSUME AccountAssumption ==
  \A scene \in Scenes :
    /\ scene.kind \in {"publisher", "subscriber", "manager", "bonjour"} /\ "kind" \in DOMAIN scene
    /\ scene.enabled \in BOOLEAN /\ scene.wanted \in BOOLEAN /\ scene.discovered \in BOOLEAN
    /\ {scene.changes, scene.states, scene.troubles, scene.expiries, scene.notifies} \subseteq Nat

VARIABLES
  scene,      \* what is left of it
  enabled,    \* account.enabled
  wanted,     \* account.presence.enabled or message_summary.enabled
  discovered, \* account.xcap.discovered
  changes,    \* settings notifications on their way to the reactor thread
  running,    \* Account._started
  alive,      \* Account._active
  locked,     \* _deactivate() holds the activation lock
  waiting,    \* green threads that wait for the lock
  started, active,   \* of the handler
  state,      \* Publisher.state
  commands,   \* _command_channel
  data,       \* _data_channel
  posted,     \* notifications on their way to the reactor thread
  timer,      \* the timer of the next attempt is armed
  pc,         \* where _run is
  cmd,        \* the command it is handling
  slips       \* ways of getting out of step that this behaviour took (see the README)

accountVars == <<enabled, wanted, discovered, changes, running, alive, locked, waiting>>
handlerVars == <<started, active, state, commands, data, posted, timer, pc, cmd>>

Command(name, value) == [name |-> name, state |-> value]
NoCommand == Command("none", None)
Publishes == scene.kind = "publisher"
\* the commands of activate(), of deactivate() and of a change that needs another start
On == IF Publishes THEN <<Command("publish", state)>> ELSE <<Command("subscribe", None)>>
Off == IF Publishes THEN <<Command("unpublish", None)>> ELSE <<Command("unsubscribe", None)>>
Again == IF Publishes THEN Off \o On ELSE On
Told(more) == commands' = commands \o more

Spends(what) == scene[what] > 0 /\ scene' = [scene EXCEPT ![what] = @ - 1]

AccountInit ==
  /\ scene \in Scenes
  /\ enabled = scene.enabled /\ wanted = scene.wanted /\ discovered = scene.discovered
  /\ state = scene.state
  /\ changes = <<>> /\ waiting = <<>> /\ slips = {}
  /\ running = FALSE /\ alive = FALSE /\ locked = FALSE
  /\ started = FALSE /\ active = FALSE /\ timer = FALSE
  /\ commands = <<>> /\ data = <<>> /\ posted = <<>> /\ pc = "off" /\ cmd = NoCommand

-----------------------------------------------------------------------------
(* The handler is started, stopped, activated, deactivated.                *)

Wanted == wanted /\ (Publishes \/ discovered)
start ==
  /\ started' = TRUE /\ pc' = "idle"
  /\ IF Wanted THEN active' = TRUE /\ Told(On) ELSE UNCHANGED <<active, commands>>
  /\ UNCHANGED <<state, data, posted, timer, cmd>>
stop ==
  /\ started' = FALSE /\ active' = FALSE /\ Told(<<Command("terminate", None)>>)
  /\ UNCHANGED <<state, data, posted, timer, pc, cmd>>
activate == active' = TRUE /\ Told(On)
deactivate == active' = FALSE /\ Told(Off)

-----------------------------------------------------------------------------
(* The account.                                                            *)

Activates ==
  IF alive THEN UNCHANGED <<alive, locked, handlerVars>>
  ELSE alive' = TRUE /\ UNCHANGED locked /\ start
Deactivates ==
  IF ~alive THEN UNCHANGED <<alive, locked, handlerVars>>
  ELSE alive' = FALSE /\ locked' = TRUE /\ stop
Performs(op) == IF op = "activate" THEN Activates ELSE Deactivates
\* with self._activation_lock; the second form does without
EntersAnyhow(op) == Performs(op) /\ UNCHANGED waiting
Enters(op) ==
  IF locked \/ waiting # <<>> THEN waiting' = Append(waiting, op) /\ UNCHANGED <<alive, locked, handlerVars>>
  ELSE Performs(op) /\ UNCHANGED waiting

AccountStart ==
  /\ ~running /\ Spends("changes") /\ running' = TRUE
  /\ IF enabled THEN Enters("activate") ELSE UNCHANGED <<alive, locked, waiting, handlerVars>>
  /\ UNCHANGED <<enabled, wanted, discovered, changes, slips>>
AccountStop ==
  /\ running /\ Spends("changes") /\ running' = FALSE
  /\ Enters("deactivate")
  /\ UNCHANGED <<enabled, wanted, discovered, changes, slips>>

\* the handlers have stopped; the semaphore wakes one of those that wait for it
Unlocks ==
  /\ locked /\ pc = "off" /\ locked' = FALSE
  /\ UNCHANGED <<scene, enabled, wanted, discovered, changes, running, alive, waiting, handlerVars, slips>>
Wakes ==
  /\ ~locked
  /\ \E i \in DOMAIN waiting :
       /\ Performs(waiting[i]) /\ waiting' = RemoveAt(waiting, i)
       /\ slips' = IF i = 1 THEN slips ELSE slips \cup {"overtaken"}
  /\ UNCHANGED <<scene, enabled, wanted, discovered, changes, running>>

\* the user changes a setting and saves the account
ChangesSetting ==
  /\ Spends("changes")
  /\ \/ /\ enabled' = ~enabled /\ changes' = Append(changes, "enabled") /\ UNCHANGED wanted
     \/ /\ wanted' = ~wanted /\ changes' = Append(changes, "wanted") /\ UNCHANGED enabled
     \/ /\ changes' = Append(changes, "other") /\ UNCHANGED <<enabled, wanted>>
  /\ UNCHANGED <<discovered, running, alive, locked, waiting, handlerVars, slips>>

\* the account looks at enabled, its handler at everything else; one that is
\* not started, or whose account has no XCAP support, does not look at all
SettingsDidChange ==
  /\ changes # <<>> /\ changes' = Tail(changes)
  /\ IF Head(changes) = "enabled"
     THEN IF running THEN Enters(IF enabled THEN "activate" ELSE "deactivate")
          ELSE UNCHANGED <<alive, locked, waiting, handlerVars>>
     ELSE /\ UNCHANGED <<alive, locked, waiting, started, state, data, posted, timer, pc, cmd>>
          /\ IF ~started \/ ~(Publishes \/ discovered) THEN UNCHANGED <<active, commands>>
             ELSE IF Head(changes) = "wanted" THEN IF wanted THEN activate ELSE deactivate
             ELSE UNCHANGED active /\ Told(IF active THEN Again ELSE <<>>)
  /\ UNCHANGED <<scene, enabled, wanted, discovered, running, slips>>

NetworkConditionsDidChange ==
  /\ active /\ Spends("changes")
  /\ Told(Again)
  /\ UNCHANGED <<accountVars, started, active, state, data, posted, timer, pc, cmd, slips>>

\* XCAPManagerDidDiscoverServerCapabilities, and SIPAccountDidDiscoverXCAPSupport of it
Discovers ==
  /\ running /\ ~discovered /\ discovered' = TRUE
  /\ IF started /\ ~Publishes /\ wanted /\ ~active THEN activate ELSE UNCHANGED <<active, commands>>
  /\ UNCHANGED <<scene, enabled, wanted, changes, running, alive, locked, waiting, started, state, data, posted,
                 timer, pc, cmd, slips>>

\* the timer of an attempt that failed
Retries ==
  /\ timer /\ timer' = FALSE
  /\ Told(IF active THEN On ELSE <<>>)
  /\ UNCHANGED <<scene, accountVars, started, active, state, data, posted, pc, cmd, slips>>

AccountNext ==
  \/ AccountStart \/ AccountStop \/ Unlocks \/ Wakes \/ ChangesSetting \/ SettingsDidChange
  \/ NetworkConditionsDidChange \/ Discovers \/ Retries

-----------------------------------------------------------------------------
\* nothing is under way and nothing is on its way
Quiet ==
  /\ changes = <<>> /\ waiting = <<>> /\ ~locked /\ commands = <<>> /\ data = <<>> /\ posted = <<>>
  /\ ~timer /\ pc \in {"off", "idle"}
\* An account is active when it is started and enabled, whatever its settings went through
\* while it was being deactivated (_activate, _deactivate, _activation_lock).
ActiveAsEnabled ==
  Quiet /\ slips = {} =>
    /\ alive = (running /\ enabled)
    /\ started = alive /\ (pc = "idle") = alive
    /\ active = (alive /\ Wanted)
=============================================================================
