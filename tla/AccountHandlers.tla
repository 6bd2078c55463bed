--------------------------- MODULE AccountHandlers ---------------------------
(***************************************************************************)
(* An account with the handler the scene gives it: its publisher or its    *)
(* subscriber.  The other one has nothing to do in that behaviour.         *)
(***************************************************************************)
EXTENDS Publisher, Subscriber

handlersVars == <<scene, accountVars, handlerVars, publisherVars, subscriberVars, slips>>
Subscribes == scene.kind = "subscriber"

HandlersInit == AccountInit /\ PublisherInit /\ SubscriberInit
HandlersNext ==
  \/ (Publishes \/ Subscribes) /\ AccountNext /\ UNCHANGED <<publisherVars, subscriberVars>>
  \/ Publishes /\ PublisherNext /\ UNCHANGED subscriberVars
  \/ Subscribes /\ SubscriberNext /\ UNCHANGED publisherVars
HandlersSpec == HandlersInit /\ [][HandlersNext]_handlersVars

\* What is published, and what is subscribed to, is as wanted when nothing is under way
\* (Publisher and the account's subscriptions).
RequestedAsWanted == PublishedAsWanted /\ SubscribedAsWanted
=============================================================================
