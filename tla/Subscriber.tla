----------------------------- MODULE Subscriber ------------------------------
(***************************************************************************)
(* account/subscription.py, the engine's Subscription it uses, and the     *)
(* account's view of what the notifications carry (account/__init__.py).   *)
(*                                                                         *)
(* Each subscribe command runs in a green thread of its own, _subscription_*)
(* handler; the next command kills it, with InterruptSubscription or       *)
(* TerminateSubscription, and waits for it to end.                         *)
(***************************************************************************)
EXTENDS Account

VARIABLES
  handler,      \* where _subscription_proc is, "none" when there is none
  killed,       \* the exception it is being killed with
  subscription, \* Subscriber._subscription: None, or its stage, want_end (_want_end) and sent
                \* (how many versions its notifier has issued)
  subscribed,   \* Subscriber.subscribed
  view          \* of the account: version (_presence_version) and complete (nothing was missed)
subscriberVars == <<handler, killed, subscription, subscribed, view>>

Subscriptions == [stage : {"sent", "active", "gone"}, want_end : BOOLEAN, sent : Nat]
ASSUME SubscriptionAssumption == None \notin Subscriptions
NoView == [version |-> 0, complete |-> FALSE]   \* version 0: None
SubscriberInit ==
  handler = "none" /\ killed = "no" /\ subscription = None /\ subscribed = FALSE /\ view = NoView

Event(name, version, full) == [name |-> name, version |-> version, full |-> full]
Raises(name) == posted' = Append(posted, Event(name, 0, FALSE))

-----------------------------------------------------------------------------
(* _run: the commands.                                                     *)

Spawns == handler' = "dns" /\ pc' = "idle"
_CH_subscribe(command) ==
  /\ command.name = "subscribe"
  /\ IF handler = "none" THEN Spawns /\ UNCHANGED killed
     ELSE killed' = "interrupt" /\ pc' = "kill" /\ UNCHANGED handler
_CH_unsubscribe(command) ==
  /\ command.name \in {"unsubscribe", "terminate"} /\ UNCHANGED handler
  /\ IF handler = "none" THEN pc' = (IF command.name = "terminate" THEN "off" ELSE "idle") /\ UNCHANGED killed
     ELSE killed' = "terminate" /\ pc' = "kill"
TakesSubscribeCommand ==
  /\ pc = "idle" /\ commands # <<>> /\ commands' = Tail(commands)
  /\ timer' = FALSE /\ cmd' = Head(commands)
  /\ _CH_subscribe(Head(commands)) \/ _CH_unsubscribe(Head(commands))
  /\ UNCHANGED <<scene, accountVars, started, active, state, data, posted, subscription, subscribed, view, slips>>
\* subscription_proc.wait() returns
Killed ==
  /\ pc = "kill" /\ handler = "none"
  /\ IF cmd.name = "subscribe" THEN Spawns
     ELSE pc' = (IF cmd.name = "terminate" THEN "off" ELSE "idle") /\ UNCHANGED handler
  /\ UNCHANGED <<scene, accountVars, started, active, state, commands, data, posted, timer, cmd, killed, subscription,
                 subscribed, view, slips>>

-----------------------------------------------------------------------------
(* _subscription_handler.                                                  *)

\* finally; what the engine still tells of the subscription is not for this one any more
Ends ==
  /\ handler' = "none" /\ killed' = "no" /\ subscribed' = FALSE /\ subscription' = None /\ posted' = <<>>
\* except SubscriptionError: the account forgets its version, another attempt is made later
\* (in the first form it is not)
SubscribeGivesUp == Ends /\ view' = NoView /\ UNCHANGED timer
SubscribeFails == Ends /\ timer' = TRUE /\ view' = NoView
\* the next route; subscribe() may fail
TriesNextRoute ==
  \/ /\ subscription' = [stage |-> "sent", want_end |-> FALSE, sent |-> 0] /\ handler' = "answer" /\ posted' = <<>>
     /\ UNCHANGED <<scene, killed, subscribed, view, timer>>
  \/ SubscribeFails /\ Spends("troubles")

RoutesReturn ==
  /\ handler = "dns"
  /\ TriesNextRoute
  /\ UNCHANGED <<accountVars, started, active, state, commands, data, pc, cmd, slips>>

HandlerOnly == UNCHANGED <<accountVars, started, active, state, pc, cmd, slips>>
\* waits for SIPSubscriptionDidStart, whatever else arrives
ReadsStart ==
  /\ handler = "answer" /\ data # <<>> /\ data' = Tail(data)
  /\ LET item == Head(data) IN
     \/ /\ item.name = "DidStart" /\ subscribed' = TRUE /\ handler' = "subscribed"
        /\ UNCHANGED <<scene, killed, subscription, view, timer, posted>>
     \/ /\ item.name = "DidFail"
        /\ TriesNextRoute \/ (SubscribeFails /\ UNCHANGED scene)
     \/ /\ item.name \in {"DidEnd", "GotNotify"}
        /\ UNCHANGED <<scene, subscriberVars, timer, posted>>
  /\ UNCHANGED commands /\ HandlerOnly

\* _NH_PresenceSubscriptionGotNotify of the account, and the like: an older version is
\* ignored; one that does not follow from what it has makes it subscribe again
\* the second form does not mind where it starts
GotAnyNotify(item) ==
  LET gap == ~item.full /\ view.version > 0 /\ item.version > view.version + 1 IN
  IF item.version <= view.version THEN UNCHANGED <<view, commands>>
  ELSE /\ view' = [version |-> item.version, complete |-> item.full \/ (~gap /\ view.complete)]
       /\ Told(IF gap /\ active THEN On ELSE <<>>)
GotNotify(item) ==
  LET gap == ~item.full /\ (view.version = 0 \/ item.version > view.version + 1) IN
  IF item.version <= view.version THEN UNCHANGED <<view, commands>>
  ELSE /\ view' = [version |-> item.version, complete |-> item.full \/ (~gap /\ view.complete)]
       /\ Told(IF gap /\ active THEN On ELSE <<>>)
ReadsNotify ==
  /\ handler = "subscribed" /\ data # <<>> /\ data' = Tail(data)
  /\ LET item == Head(data) IN
     \/ item.name = "GotNotify" /\ GotNotify(item) /\ UNCHANGED <<handler, killed, subscription, subscribed, posted>>
     \/ item.name = "DidStart" /\ UNCHANGED <<subscriberVars, commands, posted>>
     \/ /\ item.name \in {"DidEnd", "DidFail"} /\ Ends /\ view' = NoView
        /\ Told(IF active THEN On ELSE <<>>)
  /\ UNCHANGED <<scene, timer>> /\ HandlerOnly

\* except InterruptSubscription: end() is not waited for.  The items that were on
\* their way to the green thread stay in the channel.
Interrupted ==
  /\ killed = "interrupt" /\ Ends
  /\ view' = IF subscription = None THEN view ELSE NoView
  /\ slips' = IF data = <<>> THEN slips ELSE slips \cup {"stale"}
  /\ UNCHANGED <<scene, accountVars, started, active, state, commands, data, timer, pc, cmd>>
\* except TerminateSubscription: end(), which does nothing when the subscription is over,
\* and wait for the answer
Terminated ==
  /\ killed = "terminate" /\ handler # "ending"
  /\ IF subscription = None THEN Ends /\ UNCHANGED view
     ELSE /\ handler' = "ending" /\ UNCHANGED <<killed, subscribed, posted, view>>
          /\ subscription' = [subscription EXCEPT !.want_end = TRUE]
  /\ UNCHANGED <<scene, commands, data, timer>> /\ HandlerOnly
ReadsEnding ==
  /\ handler = "ending" /\ data # <<>> /\ data' = Tail(data)
  /\ IF Head(data).name \in {"DidEnd", "DidFail"} THEN Ends /\ view' = NoView ELSE UNCHANGED <<subscriberVars, posted>>
  /\ UNCHANGED <<scene, commands, timer>> /\ HandlerOnly

\* _NH_SIPSubscription...: to the data channel
SubscriberHandles ==
  /\ posted # <<>> /\ posted' = Tail(posted) /\ data' = Append(data, Head(posted))
  /\ UNCHANGED <<scene, accountVars, started, active, state, commands, timer, pc, cmd, subscriberVars, slips>>

-----------------------------------------------------------------------------
(* The engine's Subscription.                                              *)

SubscriptionOnly ==
  UNCHANGED <<accountVars, started, active, state, commands, data, timer, pc, cmd, handler, killed, subscribed, view>>
Alive(stages) == subscription # None /\ subscription.stage \in stages
Turns(stage) == subscription' = [subscription EXCEPT !.stage = stage]
\* _cb_state ACCEPTED; a server may also accept for no time at all
Accepted ==
  /\ Alive({"sent"}) /\ Raises("DidStart") /\ UNCHANGED slips
  /\ \/ Turns("active") /\ UNCHANGED scene
     \/ Spends("troubles") /\ subscription' = [subscription EXCEPT !.stage = "active", !.want_end = TRUE]
  /\ SubscriptionOnly
\* a NOTIFY that comes before the answer makes the subscription active, so that it is never accepted
NotifiedEarly ==
  /\ Alive({"sent"}) /\ Spends("troubles") /\ Turns("active")
  /\ slips' = slips \cup {"early"}
  /\ SubscriptionOnly /\ UNCHANGED posted
\* _cb_state TERMINATED: refused, timed out, ended by the server or at our request
Finishes ==
  /\ Alive({"sent", "active"}) /\ Turns("gone") /\ UNCHANGED slips
  /\ IF subscription.want_end THEN Raises("DidEnd") /\ UNCHANGED scene
     ELSE Raises("DidFail") /\ Spends("troubles")
  /\ SubscriptionOnly
\* _cb_notify, and a notification that is lost; the first is full, unless the server does not do that
Notifies ==
  /\ Alive({"active"}) /\ Spends("notifies") /\ UNCHANGED slips
  /\ subscription' = [subscription EXCEPT !.sent = @ + 1]
  /\ \/ UNCHANGED posted
     \/ \E full \in BOOLEAN : posted' = Append(posted, Event("GotNotify", subscription.sent + 1, full))
  /\ SubscriptionOnly

SubscriberNext ==
  \/ TakesSubscribeCommand \/ Killed \/ RoutesReturn \/ ReadsStart \/ ReadsNotify \/ Interrupted \/ Terminated
  \/ ReadsEnding \/ SubscriberHandles \/ Accepted \/ NotifiedEarly \/ Finishes \/ Notifies

-----------------------------------------------------------------------------
\* When everything has settled an account that should be subscribed is, to a subscription the
\* server still has, and one that should not be is not (_CH_subscribe, _subscription_handler).
SubscribedAsWanted ==
  ~Publishes /\ Quiet /\ handler \in {"none", "subscribed"} /\ slips \subseteq {"stale"} =>
    /\ subscribed = active /\ (handler = "subscribed") = active
    /\ IF active THEN Alive({"active"} \cup {"sent" : slip \in slips}) ELSE subscription = None

\* A view that misses something is not kept: another subscription is on its way (the
\* version checks of the account's notification handlers).
GapIsRepaired ==
  ~Publishes /\ view.version > 0 /\ ~view.complete /\ active =>
    \/ \E i \in DOMAIN commands : commands[i].name = "subscribe"
    \/ killed # "no" \/ pc = "kill"
=============================================================================
