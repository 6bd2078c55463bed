--------------------------- MODULE BonjourServices ---------------------------
(***************************************************************************)
(* BonjourAccount (account/__init__.py) and its BonjourServices            *)
(* (account/bonjour/__init__.py): the account is registered with the       *)
(* service discovery daemon under each of its transports, and who else is  *)
(* there is shown as its neighbours.                                       *)
(*                                                                         *)
(* Two green threads serve the account: _process_files selects the files   *)
(* on which the daemon has something to tell, and _handle_commands takes   *)
(* one command after another.  A handler may be left only where it kills   *)
(* the select (RestartSelect) or between two files of process_results, and *)
(* nothing that happens there touches the files: a command is one step.    *)
(* Taking the next command does not wait when there is one.                *)
(***************************************************************************)
EXTENDS Naturals, FiniteSets, Sequences, SequencesExt

CONSTANTS Names,       \* the other services
          TransportOf, \* the transport in the record of each
          Lists,       \* the values sip.transport_list may have
          Courses      \* what may happen in one behaviour: bounds on turns (on or off), changes (of the
                       \* transports and of the network), states, troubles (failures), moves (of others)

VARIABLES
  act,         \* what is left of it
  going,       \* BonjourAccount._started
  holder,      \* its alive (_active), locked (_deactivate() holds the lock) and leaving (for stop())
  settings,    \* enabled, listed (sip.transport_list), certified (tls.certificate), state
               \* (presence_state)
  reports,     \* changes of settings on their way to the account
  turns,       \* calls that wait for the activation lock
  service,     \* started (BonjourServices._started) and returning: how far the answer of the stop
               \* command has come
  channel,     \* _command_channel
  batch,       \* the process_results command under way: its files, and those left
  files,       \* _files: per key active and what has come of it
  neighbours,  \* _neighbours
  timers,      \* _register_timer, _discover_timer, _update_timer
  there,       \* the services that are there
  lapses       \* ways of getting out of step that this behaviour took (see the README)
bonjourVars ==
  <<act, going, holder, settings, reports, turns, service, channel, batch, files, neighbours, timers, there, lapses>>

Registration(t) == <<"registration", t>>
Discovery(t) == <<"discovery", t>>
Resolution(n) == <<"resolution", n>>
Browsed(t) == IF t = "tls" THEN "tcp" ELSE t
Kind(k) == k[1]
OfKind(kind, keys) == {k \in keys : Kind(k) = kind}
\* altered: a browse that is closed leaves its resolutions
FoundByNone(k, keys) == {}
\* the resolutions that a browse began
FoundBy(k, keys) == {r \in OfKind("resolution", keys) : k = Discovery(Browsed(TransportOf[r[2]]))}

Supported == IF settings.certified THEN settings.listed ELSE settings.listed \ {"tls"}
Discoverable == {Browsed(t) : t \in Supported}

NewFile == [active |-> FALSE, told |-> FALSE, state |-> settings.state, seen |-> {}]
Opened(fs, keys) == [k \in DOMAIN fs \cup keys |-> IF k \in DOMAIN fs THEN fs[k] ELSE NewFile]
Left(fs, keys) == [k \in DOMAIN fs \ keys |-> fs[k]]
Command(name) == [name |-> name, files |-> {}]
Sends(names) == channel' = channel \o [i \in DOMAIN names |-> Command(names[i])]
\* a file that is closed is passed over by the results that wait for it
Forgets(cmds, keys) == [i \in DOMAIN cmds |-> [cmds[i] EXCEPT !.files = @ \ keys]]
Lapse(name, happened) == IF happened THEN {name} ELSE {}
NoBatch == [on |-> FALSE, files |-> {}, left |-> {}]
Spends(what) == act[what] > 0 /\ act' = [act EXCEPT ![what] = @ - 1]

BonjourInit ==
  /\ act \in Courses /\ going = FALSE
  /\ holder = [alive |-> FALSE, locked |-> FALSE, leaving |-> FALSE]
  /\ \E listed \in Lists : settings = [enabled |-> TRUE, listed |-> listed, certified |-> TRUE, state |-> 0]
  /\ service = [started |-> FALSE, returning |-> "no"]
  /\ reports = <<>> /\ turns = <<>> /\ channel = <<>> /\ batch = NoBatch
  /\ files = [k \in {} |-> NewFile] /\ neighbours = {} /\ there \in SUBSET Names /\ lapses = {}
  /\ timers = [what \in {"register", "discover", "update"} |-> "none"]

-----------------------------------------------------------------------------
(* The account.  A call is "activate", "deactivate" or "stop", which is a  *)
(* deactivation that ends the green threads.                               *)

daemonVars == <<batch, files, neighbours, timers, there>>

\* The green threads run from start() to the end of stop(), which leaves no command behind: those
\* that are left find the service not started.
Serving == going \/ holder.leaving \/ \E i \in DOMAIN turns : turns[i] = "stop"

Performs(op) ==
  IF op = "activate"
  THEN IF holder.alive THEN UNCHANGED <<holder, service, channel>>
       ELSE /\ holder' = [holder EXCEPT !.alive = TRUE]
            /\ service' = [service EXCEPT !.started = TRUE] /\ Sends(<<"register", "discover">>)
  ELSE /\ UNCHANGED service
       /\ IF holder.alive
          THEN holder' = [alive |-> FALSE, locked |-> TRUE, leaving |-> op = "stop"] /\ Sends(<<"stop">>)
          ELSE UNCHANGED holder /\ channel' = IF op = "stop" THEN <<>> ELSE channel
Enters(op) ==
  IF holder.locked \/ turns # <<>>
  THEN turns' = Append(turns, op) /\ UNCHANGED <<holder, service, channel, lapses>>
  ELSE Performs(op) /\ UNCHANGED <<turns, lapses>>
accountKept == UNCHANGED <<holder, turns, service, lapses>>

\* the semaphore wakes any of those that wait; the answer of stop wakes _deactivate() as soon as _handle_commands waits for anything
Free == service.returning # "ready" \/ channel = <<>>
DeactivateReturns ==
  /\ service.returning # "no" /\ Free
  /\ holder' = [holder EXCEPT !.locked = FALSE, !.leaving = FALSE]
  /\ service' = [started |-> FALSE, returning |-> "no"]
  /\ channel' = (IF holder.leaving THEN <<>> ELSE channel)
  /\ UNCHANGED <<act, going, settings, reports, turns, daemonVars, lapses>>
TakesTurn ==
  /\ ~holder.locked
  /\ \E i \in DOMAIN turns :
       /\ Performs(turns[i]) /\ turns' = RemoveAt(turns, i)
       /\ lapses' = lapses \cup Lapse("overtaken", i # 1)
  /\ UNCHANGED <<act, going, settings, reports, daemonVars>>

BonjourStart ==
  /\ Free /\ ~Serving /\ Spends("turns") /\ going' = TRUE
  /\ IF settings.enabled THEN Enters("activate") ELSE accountKept /\ UNCHANGED channel
  /\ UNCHANGED <<settings, reports, daemonVars>>
BonjourStop ==
  /\ Free /\ going /\ Spends("turns") /\ going' = FALSE /\ Enters("stop")
  /\ UNCHANGED <<settings, reports, daemonVars>>

\* A setting is changed in another thread; its notification is handled on the reactor thread.
SettingChanges ==
  /\ \/ Spends("turns") /\ settings' = [settings EXCEPT !.enabled = ~@] /\ reports' = Append(reports, "enabled")
     \/ /\ Spends("changes") /\ reports' = Append(reports, "transports")
        /\ \/ \E listed \in Lists \ {settings.listed} : settings' = [settings EXCEPT !.listed = listed]
           \/ settings' = [settings EXCEPT !.certified = ~@]
     \/ Spends("states") /\ settings' = [settings EXCEPT !.state = 1 - @] /\ reports' = Append(reports, "state")
  /\ UNCHANGED <<going, channel, daemonVars>> /\ accountKept
SettingDidChange ==
  /\ Free /\ reports # <<>> /\ reports' = Tail(reports)
  /\ CASE Head(reports) = "enabled" ->
            IF going THEN Enters(IF settings.enabled THEN "activate" ELSE "deactivate")
            ELSE accountKept /\ UNCHANGED channel
       [] Head(reports) = "transports" ->
            /\ UNCHANGED <<holder, turns, service>>
            /\ Sends(IF going /\ settings.enabled THEN <<"update", "discover">> ELSE <<>>)
            /\ lapses' = lapses \cup Lapse("missed", going /\ ~settings.enabled /\ holder.alive)
       [] Head(reports) = "state" -> accountKept /\ Sends(<<"update">>)
  /\ UNCHANGED <<act, going, settings, daemonVars>>
NetworkDidChange ==
  /\ Free /\ Serving /\ DOMAIN files # {} /\ Spends("changes")
  /\ Sends(<<"discover", "unregister", "register">>)
  /\ UNCHANGED <<going, settings, reports, daemonVars>> /\ accountKept

-----------------------------------------------------------------------------
(* The commands.                                                           *)

TimerFires ==
  /\ Free
  /\ \E what \in DOMAIN timers :
       timers[what] = "armed" /\ timers' = [timers EXCEPT ![what] = "fired"] /\ Sends(<<what>>)
  /\ UNCHANGED <<act, going, settings, reports, batch, files, neighbours, there>> /\ accountKept

\* some of what is tried fails
Tries(keys, failed) ==
  failed \subseteq keys /\ IF failed = {} THEN UNCHANGED act ELSE Spends("troubles")
Again(what, failed) == timers' = [timers EXCEPT ![what] = IF failed = {} THEN "none" ELSE "armed"]
Rest(gone) == channel' = Forgets(Tail(channel), gone)
Yields == service' = [service EXCEPT !.returning = IF @ = "ready" THEN "due" ELSE @]

_CH_register ==
  LET missing == {Registration(t) : t \in Supported} \ DOMAIN files
  IN \E failed \in SUBSET missing :
       /\ Tries(missing, failed) /\ Again("register", failed)
       /\ files' = Opened(files, missing \ failed) /\ Rest({}) /\ UNCHANGED <<batch, neighbours>>
       /\ IF missing = failed THEN UNCHANGED service ELSE Yields
       /\ lapses' = lapses \cup Lapse("after", service.returning = "ready" /\ missing # {})
_CH_unregister ==
  LET gone == OfKind("registration", DOMAIN files)
  IN /\ timers' = [timers EXCEPT !["register"] = "none", !["update"] = "none"]
     /\ files' = Left(files, gone) /\ Rest(gone) /\ Yields /\ UNCHANGED <<act, batch, neighbours, lapses>>
\* the transports that are listed count, with or without a certificate
_CH_update_registrations ==
  LET registered == OfKind("registration", DOMAIN files)
      gone == {k \in registered : k[2] \notin settings.listed}
      Updated(fs, keys) == [k \in DOMAIN fs |-> IF k \in keys THEN [fs[k] EXCEPT !.state = settings.state] ELSE fs[k]]
  IN \E failed \in SUBSET (registered \ gone) :
       /\ Tries(registered \ gone, failed) /\ Again("update", failed)
       /\ files' = Updated(Left(files, gone), registered \ (gone \cup failed))
       /\ channel' = Append(Forgets(Tail(channel), gone), Command("register"))
       /\ Yields /\ UNCHANGED <<batch, neighbours>>
       /\ lapses' = lapses \cup Lapse("uncertified", \E k \in registered \ gone : k[2] \notin Supported)
_CH_discover ==
  LET browsing == OfKind("discovery", DOMAIN files)
      gone == UNION {{k} \cup FoundBy(k, DOMAIN files) : k \in {d \in browsing : d[2] \notin Discoverable}}
      missing == {Discovery(t) : t \in Discoverable} \ browsing
      dropped == {n \in neighbours : TransportOf[n] \notin Supported}
  IN \E failed \in SUBSET missing :
       /\ Tries(missing, failed) /\ Again("discover", failed)
       /\ files' = Opened(Left(files, gone), missing \ failed) /\ Rest(gone) /\ Yields
       /\ neighbours' = neighbours \ dropped /\ UNCHANGED batch
       /\ lapses' = lapses \cup Lapse("forgotten", \E n \in dropped, k \in browsing \ gone : n \in files[k].seen)
            \cup Lapse("after", service.returning = "ready" /\ missing # {})
_CH_stop ==
  /\ timers' = [what \in DOMAIN timers |-> "none"]
  /\ files' = Left(files, DOMAIN files) /\ Rest(DOMAIN files) /\ neighbours' = {}
  /\ service' = [service EXCEPT !.returning = "ready"] /\ UNCHANGED <<act, batch, lapses>>
_CH_process_results ==
  /\ batch' = [on |-> TRUE, files |-> Head(channel).files, left |-> Head(channel).files] /\ Rest({})
  /\ UNCHANGED <<act, service, files, neighbours, timers, lapses>>

Handles(name) ==
  \/ name = "register" /\ _CH_register
  \/ name = "unregister" /\ _CH_unregister
  \/ name = "update" /\ _CH_update_registrations
  \/ name = "discover" /\ _CH_discover
  \/ name = "stop" /\ _CH_stop
  \/ name = "results" /\ _CH_process_results
\* a command that finds the service not started is dropped, and leaves its files active
TakesBonjourCommand ==
  /\ Serving /\ channel # <<>> /\ batch = NoBatch /\ service.returning # "due"
  /\ IF service.started THEN Handles(Head(channel).name)
     ELSE Rest({}) /\ UNCHANGED <<act, service, batch, files, neighbours, timers, lapses>>
  /\ UNCHANGED <<going, holder, settings, reports, turns, there>>

-----------------------------------------------------------------------------
(* The files, and what the daemon has to tell on them.                     *)

NamesOn(k) == {n \in Names : Discovery(Browsed(TransportOf[n])) = k}
Told(k) == IF Kind(k) = "discovery" THEN files[k].seen = there \cap NamesOn(k) ELSE files[k].told
\* _process_files: those that select() finds ready; an error may come at any time
Selects ==
  /\ Free /\ Serving
  /\ \E keys \in SUBSET {k \in DOMAIN files : ~files[k].active /\ (~Told(k) \/ act.troubles > 0)} :
       /\ keys # {} /\ channel' = Append(channel, [name |-> "results", files |-> keys])
       /\ files' = [k \in DOMAIN files |-> IF k \in keys THEN [files[k] EXCEPT !.active = TRUE] ELSE files[k]]
  /\ UNCHANGED <<act, going, settings, reports, batch, neighbours, timers, there>> /\ accountKept

Goes(k) == batch' = [batch EXCEPT !.left = @ \ {k}] /\ UNCHANGED channel
Closes(k, fs, keys) ==
  /\ files' = Left(fs, keys) /\ channel' = Forgets(channel, keys)
  /\ batch' = [batch EXCEPT !.files = @ \ keys, !.left = @ \ (keys \cup {k})]
RetriesLater(what) == timers' = [timers EXCEPT ![what] = IF @ = "none" THEN "armed" ELSE @]
\* neighbours that nobody watches any more although they have left
Ghosts(keys) == Lapse("ghost", \E n \in neighbours : Resolution(n) \in keys /\ n \notin there)

_register_cb(k) ==
  /\ Kind(k) = "registration" /\ UNCHANGED <<neighbours, lapses>>
  /\ \/ files' = [files EXCEPT ![k].told = TRUE] /\ Goes(k) /\ UNCHANGED <<act, timers>>
     \/ Spends("troubles") /\ Closes(k, files, {k}) /\ RetriesLater("register")

BrowseFails(k) ==
  LET gone == {k} \cup FoundBy(k, DOMAIN files)
  IN /\ Spends("troubles") /\ Closes(k, files, gone) /\ lapses' = lapses \cup Ghosts(gone)
     /\ RetriesLater("discover") /\ UNCHANGED neighbours
BrowseAdds(k, n) ==
  LET seen == [files EXCEPT ![k].seen = @ \cup {n}]
  IN /\ n \in NamesOn(k) \cap (there \ files[k].seen) /\ Goes(k) /\ UNCHANGED <<neighbours, timers>>
     /\ \/ files' = Opened(seen, {Resolution(n)}) /\ UNCHANGED <<act, lapses>>
        \/ /\ Resolution(n) \notin DOMAIN files /\ Spends("troubles")
           /\ files' = seen /\ lapses' = lapses \cup {"unresolved"}
\* without a resolution of it nothing is done
BrowseRemoves(k, n) ==
  LET gone == {Resolution(n)} \cap DOMAIN files
  IN /\ n \in files[k].seen \ there /\ UNCHANGED <<act, timers, lapses>>
     /\ Closes(k, [files EXCEPT ![k].seen = @ \ {n}], gone)
     /\ neighbours' = IF gone = {} THEN neighbours ELSE neighbours \ {n}
_browse_cb(k) ==
  /\ Kind(k) = "discovery"
  /\ \/ BrowseFails(k) \/ \E n \in Names : BrowseAdds(k, n) \/ BrowseRemoves(k, n)
     \/ Told(k) /\ Goes(k) /\ UNCHANGED <<act, files, neighbours, timers, lapses>>

_resolve_cb(k) ==
  /\ Kind(k) = "resolution" /\ UNCHANGED timers
  /\ LET n == k[2] IN
     \/ /\ files' = [files EXCEPT ![k].told = TRUE] /\ Goes(k) /\ UNCHANGED act
        /\ neighbours' = IF TransportOf[n] \in Supported THEN neighbours \cup {n} ELSE neighbours \ {n}
        /\ lapses' = lapses \cup Lapse("forgotten", TransportOf[n] \notin Supported)
     \/ /\ Spends("troubles") /\ Closes(k, files, {k}) /\ UNCHANGED neighbours
        /\ lapses' = lapses \cup Lapse("unresolved", n \notin neighbours) \cup Ghosts({k})

\* in the order of _files, where a resolution comes after its browse
Processes ==
  /\ \E k \in batch.left :
       /\ Kind(k) = "resolution" => OfKind("discovery", batch.left) = {}
       /\ _register_cb(k) \/ _browse_cb(k) \/ _resolve_cb(k)
  /\ UNCHANGED <<going, holder, settings, reports, turns, service, there>>
Processed ==
  /\ batch.on /\ batch.left = {} /\ batch' = NoBatch /\ Yields
  /\ files' = [k \in DOMAIN files |-> [files[k] EXCEPT !.active = @ /\ k \notin batch.files]]
  /\ UNCHANGED <<act, going, holder, settings, reports, turns, channel, neighbours, timers, there, lapses>>

\* another service comes or goes
OthersMove ==
  /\ Spends("moves")
  /\ \E n \in Names :
       /\ there' = IF n \in there THEN there \ {n} ELSE there \cup {n}
       /\ lapses' = lapses \cup Lapse("ghost", n \in there \cap neighbours /\ Resolution(n) \notin DOMAIN files)
  /\ UNCHANGED <<going, holder, settings, reports, turns, service, channel, batch, files, neighbours, timers>>

BonjourHandles ==
  \/ DeactivateReturns \/ TakesTurn \/ SettingDidChange \/ TimerFires \/ TakesBonjourCommand
  \/ Selects \/ Processes \/ Processed
BonjourNext == BonjourHandles \/ BonjourStart \/ BonjourStop \/ SettingChanges \/ NetworkDidChange \/ OthersMove

-----------------------------------------------------------------------------
BonjourQuiet ==
  /\ reports = <<>> /\ turns = <<>> /\ ~holder.locked /\ (channel = <<>> \/ ~Serving) /\ batch = NoBatch
  /\ \A what \in DOMAIN timers : timers[what] # "armed"
  /\ Serving => \A k \in DOMAIN files : Told(k) \/ files[k].active
\* When nothing is under way, an active account is registered under the transports it supports,
\* with its present state, and its neighbours are the others that are there and can be reached;
\* one that is not active has nothing registered, browses nothing and shows nobody.
ThereAsSet ==
  BonjourQuiet /\ lapses = {} =>
    /\ holder.alive = (going /\ settings.enabled)
    /\ {k[2] : k \in OfKind("registration", DOMAIN files)} = IF holder.alive THEN Supported ELSE {}
    /\ \A k \in OfKind("registration", DOMAIN files) : files[k].state = settings.state
    /\ neighbours = IF holder.alive THEN {n \in there : TransportOf[n] \in Supported} ELSE {}
    /\ ~holder.alive => DOMAIN files = {}
=============================================================================
