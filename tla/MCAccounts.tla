----------------------------- MODULE MCAccounts ------------------------------
(* Model checking of an account with its publisher or its subscriber, of    *)
(* the account manager, or of the Bonjour account: the scene tells which.   *)
EXTENDS AccountHandlers, AccountManager

CONSTANTS Names, TransportOf, Lists, Courses
VARIABLES act, going, holder, settings, reports, turns, service, channel, batch, files, neighbours, timers, there, lapses
Bonjour == INSTANCE BonjourServices

Managing == [kind |-> "manager", enabled |-> FALSE, wanted |-> FALSE, discovered |-> FALSE, state |-> None,
             changes |-> 0, states |-> 0, troubles |-> 0, expiries |-> 0, notifies |-> 0]
Base == [kind |-> "publisher", enabled |-> TRUE, wanted |-> TRUE, discovered |-> TRUE, state |-> None,
         changes |-> 0, states |-> 0, troubles |-> 0, expiries |-> 0, notifies |-> 0]
Publishing == [Base EXCEPT !.changes = 2, !.states = 2, !.troubles = 1]
Refreshing == [Base EXCEPT !.changes = 1, !.states = 2, !.troubles = 2, !.expiries = 1]
Subscribing == [Base EXCEPT !.kind = "subscriber", !.discovered = FALSE, !.changes = 3, !.troubles = 2]
Notified == [Base EXCEPT !.kind = "subscriber", !.changes = 2, !.notifies = 3]
Switched == [Base EXCEPT !.changes = 5]
Neighbouring == [Managing EXCEPT !.kind = "bonjour"]
ScenesDef == {Neighbouring, Publishing, Refreshing, Subscribing, Notified, Switched, Managing}

TransportOfDef == [n1 |-> "tls"]
ListsDef == {{"tcp", "tls"}, {"udp"}}
Act(turn, change, s, t, m) == [turns |-> turn, changes |-> change, states |-> s, troubles |-> t, moves |-> m]
CoursesDef == {Act(4, 0, 0, 0, 0), Act(3, 1, 0, 0, 0), Act(1, 2, 0, 0, 0), Act(2, 0, 1, 0, 0), Act(1, 1, 0, 1, 0),
            Act(1, 1, 0, 0, 1), Act(1, 0, 0, 1, 1), Act(1, 0, 0, 0, 2)}

theBonjourVars ==
  <<act, going, holder, settings, reports, turns, service, channel, batch, files, neighbours, timers, there, lapses>>
vars == <<handlersVars, managerVars, theBonjourVars>>
\* an account manager has no accounts yet when none of the scene is about it
NoManager ==
  /\ id = [object \in Objects |-> Nil] /\ on = [object \in Objects |-> FALSE] /\ saved = id
  /\ accounts = [i \in Ids |-> Nil] /\ default_account = Nil
  /\ jobs = <<>> /\ setting = Nil /\ edits = 0 /\ misses = {}
NoBonjour ==
  /\ act = <<>> /\ going = FALSE /\ holder = [locked |-> FALSE] /\ settings = <<>> /\ reports = <<>> /\ turns = <<>> /\ service = <<>>
  /\ channel = <<>> /\ batch = <<>> /\ files = <<>> /\ neighbours = {} /\ timers = <<>> /\ there = {} /\ lapses = {}
Init ==
  /\ HandlersInit
  /\ IF scene.kind = "manager" THEN ManagerInit ELSE NoManager
  /\ IF scene.kind = "bonjour" THEN Bonjour!BonjourInit ELSE NoBonjour
AccountsNext ==
  \/ HandlersNext /\ UNCHANGED managerVars
  \/ scene.kind = "manager" /\ ManagerNext /\ UNCHANGED handlersVars
Next ==
  \/ AccountsNext /\ UNCHANGED theBonjourVars
  \/ scene.kind = "bonjour" /\ Bonjour!BonjourNext /\ UNCHANGED <<handlersVars, managerVars>>
AccountsInternal ==
  \/ (Unlocks \/ Wakes \/ SettingsDidChange \/ Retries) /\ UNCHANGED <<publisherVars, subscriberVars, managerVars>>
  \/ Publishes /\ UNCHANGED <<subscriberVars, managerVars>>
     /\ (PublisherHandles \/ TakesCommand \/ LookupReturns \/ ReadsAnswer \/ ReadsEnd)
  \/ Subscribes /\ UNCHANGED <<publisherVars, managerVars>>
     /\ (TakesSubscribeCommand \/ Killed \/ RoutesReturn \/ ReadsStart \/ ReadsNotify \/ Interrupted \/ Terminated
         \/ ReadsEnding \/ SubscriberHandles)
Answers ==
  \/ Publishes /\ (RequestSucceeds \/ RequestFails) /\ UNCHANGED <<subscriberVars, managerVars>>
  \/ Subscribes /\ (Accepted \/ (Alive({"sent", "active"}) /\ subscription.want_end /\ Finishes))
     /\ UNCHANGED <<publisherVars, managerVars>>
Internal ==
  \/ AccountsInternal /\ UNCHANGED theBonjourVars
  \/ scene.kind = "bonjour" /\ Bonjour!BonjourHandles /\ UNCHANGED <<handlersVars, managerVars>>
Spec == Init /\ [][Next]_vars
FairSpec == Spec /\ WF_vars(Internal) /\ WF_vars(Answers /\ UNCHANGED theBonjourVars)

-----------------------------------------------------------------------------
\* When nothing is under way, the active Bonjour account is registered under the transports it
\* supports and shows the others that are there; one that is not active shows and leaves nothing.
NeighboursAsThere == scene.kind = "bonjour" => Bonjour!ThereAsSet

\* A deactivation ends, whatever the handlers were doing, and lets the next one of the account
\* begin (Publisher.stop, Subscriber.stop, Account._deactivate, BonjourServices.deactivate).
StopReturns ==
  (locked \/ holder.locked) ~> ((~locked /\ ~holder.locked) \/ "killed" \in slips \/ "overtaken" \in lapses)
=============================================================================
