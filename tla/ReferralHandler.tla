-------------------------- MODULE ReferralHandler ---------------------------
(***************************************************************************)
(* A request to a conference to add or to remove a participant             *)
(* (session.py): a REFER on a route after the other, then the              *)
(* notifications of how the conference fares, until its last one.          *)
(***************************************************************************)
EXTENDS Naturals, Sequences

CONSTANTS
  MaxReferrals,   \* bound: routes that are tried
  MaxProgress     \* bound: notifications before the last

VARIABLES
  request,    \* the handler: at (where _run is), route, session (what it is heard of), told (SIPConference...)
  referral,   \* the engine's Referral: stage, want_end, observed, final (the conference's last answer),
               \* and notified (how often before)
  arriving,   \* notifications on their way to the reactor
  channel,    \* _channel
  amiss       \* what made this behaviour lose the answer (see the README)

referralVars == <<request, referral, arriving, channel, amiss>>

NoReferral == [stage |-> "none", want_end |-> FALSE, observed |-> FALSE, final |-> "none", notified |-> 0]
ReferralInit ==
  /\ request = [at |-> "new", route |-> 0, session |-> "up", told |-> <<>>]
  /\ referral = NoReferral /\ arriving = <<>> /\ channel = <<>> /\ amiss = {}

Done(answer) == request' = [request EXCEPT !.at = "done", !.told = Append(@, answer)]
Unwatched == referral' = [referral EXCEPT !.observed = FALSE]

-----------------------------------------------------------------------------
\* ReferralHandler(...).start(): the URI may be invalid, the other end not a focus
ReferralStarts ==
  /\ request.at = "new"
  /\ Done("DidNot") \/ request' = [request EXCEPT !.at = "dns"]
  /\ UNCHANGED <<referral, arriving, channel, amiss>>

\* the next route that can be used, if there is one and send_refer() does not fail
SendsRefer ==
  \/ /\ request.route < MaxReferrals
     /\ request' = [request EXCEPT !.at = "answer", !.route = @ + 1]
     /\ referral' = [NoReferral EXCEPT !.stage = "sent", !.observed = TRUE]
  \/ Done("DidNot") /\ Unwatched
ReferralRoutesReturn ==
  /\ request.at = "dns" /\ SendsRefer
  /\ UNCHANGED <<arriving, channel, amiss>>

Takes(at) == request.at = at /\ channel # <<>> /\ channel' = Tail(channel)
\* except TerminateReferral: end(), which does nothing to a referral that is over, and wait
EndsReferral ==
  /\ request' = [request EXCEPT !.at = "ending"]
  /\ referral' = IF referral.stage = "gone" THEN referral ELSE [referral EXCEPT !.want_end = TRUE]
\* until SIPReferralDidStart; an end is not looked for
ReferralReadsAnswer ==
  /\ Takes("answer") /\ UNCHANGED <<arriving, amiss>>
  /\ CASE Head(channel) = "DidStart" -> request' = [request EXCEPT !.at = "active"] /\ UNCHANGED referral
       [] Head(channel) = "DidFail" -> SendsRefer
       [] Head(channel) = "Terminate" -> EndsReferral
       [] OTHER -> UNCHANGED <<request, referral>>
\* self.active: progress, and the end
ReferralReadsNotify ==
  /\ Takes("active") /\ UNCHANGED <<arriving, amiss>>
  /\ CASE Head(channel) = "GotNotify" ->
            request' = [request EXCEPT !.told = Append(@, "Progress")] /\ UNCHANGED referral
       [] Head(channel) = "DidEnd" -> Done("Did") /\ Unwatched
       [] Head(channel) = "DidFail" -> Done("DidNot") /\ Unwatched
       [] Head(channel) = "Terminate" -> EndsReferral
       [] OTHER -> UNCHANGED <<request, referral>>
\* altered: an end is taken for success here as well
ReferralEndsWell ==
  /\ Takes("ending") /\ UNCHANGED <<arriving, amiss>>
  /\ CASE Head(channel) = "DidEnd" -> Done("Did") /\ Unwatched
       [] Head(channel) \in {"DidFail", "Terminate"} -> Done("DidNot") /\ Unwatched
       [] OTHER -> UNCHANGED <<request, referral>>
\* in except TerminateReferral: a second one is not expected, and leaves without an answer
ReferralReadsEnding ==
  /\ Takes("ending") /\ UNCHANGED arriving
  /\ CASE Head(channel) \in {"DidEnd", "DidFail"} -> Done("DidNot") /\ Unwatched /\ UNCHANGED amiss
       [] Head(channel) = "Terminate" ->
            request' = [request EXCEPT !.at = "done"] /\ Unwatched /\ amiss' = amiss \cup {"twice"}
       [] OTHER -> UNCHANGED <<request, referral, amiss>>
\* handle_notification
ReferralHandles ==
  /\ arriving # <<>> /\ arriving' = Tail(arriving) /\ channel' = Append(channel, Head(arriving))
  /\ UNCHANGED <<request, referral, amiss>>

-----------------------------------------------------------------------------
(* The session, which the handler listens to until it is done.             *)

Terminates == arriving' = IF request.at \in {"new", "done"} THEN arriving ELSE Append(arriving, "Terminate")
ReferralSessionWillEnd ==
  /\ request.session = "up" /\ Terminates
  /\ request' = [request EXCEPT !.session = "ending"]
  /\ UNCHANGED <<referral, channel, amiss>>
ReferralSessionDidFail ==
  /\ request.session \in {"up", "ending"} /\ Terminates
  /\ request' = [request EXCEPT !.session = "over"]
  /\ UNCHANGED <<referral, channel, amiss>>
ReferralSessionDidEnd ==
  /\ request.session = "ending" /\ request' = [request EXCEPT !.session = "over"]
  /\ UNCHANGED <<referral, arriving, channel, amiss>>

-----------------------------------------------------------------------------
(* The engine's Referral.                                                  *)

PostsReferral(name) == arriving' = IF referral.observed THEN Append(arriving, name) ELSE arriving
ReferralAccepted ==
  /\ referral.stage = "sent" /\ PostsReferral("DidStart")
  /\ referral' = [referral EXCEPT !.stage = "active"]
  /\ UNCHANGED <<request, channel, amiss>>
\* a NOTIFY that comes before the answer makes the referral active, so that it is never accepted
ReferralNotifiedEarly ==
  /\ referral.stage = "sent" /\ PostsReferral("GotNotify")
  /\ referral' = [referral EXCEPT !.stage = "active"] /\ amiss' = amiss \cup {"early"}
  /\ UNCHANGED <<request, channel>>
ReferralGotNotify ==
  /\ referral.stage = "active" /\ referral.notified < MaxProgress /\ PostsReferral("GotNotify")
  /\ referral' = [referral EXCEPT !.notified = @ + 1]
  /\ UNCHANGED <<request, channel, amiss>>
\* _cb_state TERMINATED: refused or timed out; ended by the last notification, or at our request
ReferralOver ==
  /\ referral.stage \in {"sent", "active"}
  /\ \E final \in {"yes", "no"} :
       /\ referral.stage = "sent" => final = "no"
       /\ referral' = [referral EXCEPT !.stage = "gone", !.final = final]
       /\ PostsReferral(IF referral.want_end \/ final = "yes" THEN "DidEnd" ELSE "DidFail")
  /\ UNCHANGED <<request, channel, amiss>>

ReferralRuns ==
  \/ ReferralRoutesReturn \/ ReferralReadsAnswer \/ ReferralReadsNotify \/ ReferralReadsEnding
  \/ ReferralHandles \/ ReferralOver
ReferralNext ==
  \/ ReferralStarts \/ ReferralRuns \/ ReferralSessionWillEnd \/ ReferralSessionDidFail \/ ReferralSessionDidEnd
  \/ ReferralAccepted \/ ReferralNotifiedEarly \/ ReferralGotNotify

-----------------------------------------------------------------------------
\* where the answer is among what was told
Answers == {i \in DOMAIN request.told : request.told[i] # "Progress"}
\* A request is answered once, as the last it tells and not before it is over, however the routes, the
\* conference's notifications and the end of the session come together; a participant is said to be added
\* or removed only when the conference said so of the referral that was asked last (_run).
RequestAnswered ==
  /\ Answers # {} => request.at = "done" /\ Answers = {Len(request.told)}
  /\ request.at = "done" /\ amiss = {} => Answers # {}
  /\ \A i \in Answers : request.told[i] = "Did" => referral.final = "yes"

ReferralGone == request.at \in {"new", "done"} \/ amiss # {}
=============================================================================
