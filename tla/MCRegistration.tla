--------------------------- MODULE MCRegistration ---------------------------
(***************************************************************************)
(* Registration objects and a client that calls them at any time.          *)
(***************************************************************************)
EXTENDS SIPRegistration

CONSTANT MaxPosted   \* bound: notifications that wait for the client

\* The engine thread pauses while the client has MaxPosted to handle.
Paced(A) == A /\ Len(posted') <= MaxPosted

MCNext == Paced(ObjectNext)

MCSpec == ObjectInit /\ [][MCNext]_objectVars

\* The engine thread drains its queue, pjsip's timers fire and the client
\* handles what it is told; whether it calls again is its own business.
MCFairSpec == /\ MCSpec
              /\ WF_objectVars(Paced(HandleEvent))
              /\ WF_objectVars(Deliver)
              /\ \A r \in Requests :
                    WF_objectVars(RequestTimer(r) /\ UNCHANGED registrationVars)

=============================================================================
