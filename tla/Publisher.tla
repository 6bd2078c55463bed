------------------------------ MODULE Publisher ------------------------------
(***************************************************************************)
(* account/publication.py with the Publication object it uses              *)
(* (core/_primitives.py): the state of an account is published, refreshed  *)
(* and withdrawn at the presence server.                                   *)
(*                                                                         *)
(* A publish command looks the routes up, tries them in turn and waits for *)
(* each answer in the data channel; the state may be set meanwhile, from   *)
(* any thread.                                                             *)
(***************************************************************************)
EXTENDS Account

CONSTANTS Documents,   \* the presence documents
          SameState    \* publication.py: refresh what was published

ASSUME DocumentAssumption ==
  /\ None \notin Documents /\ SameState \notin Documents \cup {None}
  /\ \A s \in Scenes : s.state \in Documents \cup {None}

VARIABLES
  publication,  \* Publisher._publication: None, or the object's known (_last_request), etag
                \* (_last_etag), current (_current_request and _unpublishing), body (of the
                \* request that is out) and warned (its expiry was announced)
  publishing,   \* Publisher.publishing
  server        \* the document the server has of this publication
publisherVars == <<publication, publishing, server>>

Publications ==
  [known : BOOLEAN, etag : BOOLEAN, current : {"none", "publish", "unpublish"},
   body : Documents \cup {None, SameState}, warned : BOOLEAN]
ASSUME PublicationAssumption == None \notin Publications
NewPublication == [known |-> FALSE, etag |-> FALSE, current |-> "none", body |-> None, warned |-> FALSE]
PublisherInit == publication = None /\ publishing = FALSE /\ server = None

Item(name, code) == [name |-> name, code |-> code]
Posts(name, code) == posted' = Append(posted, Item(name, code))
\* what was posted by a publication the publisher has dropped is ignored when it arrives
Disowned(items) == [i \in DOMAIN items |-> IF items[i].name = "set" THEN items[i] ELSE Item("ignored", 0)]

-----------------------------------------------------------------------------
(* The state is set: the same state is not published again.  In another    *)
(* thread the call of _publish is queued behind what the reactor has.      *)

_publish(doc) ==
  Told(IF ~active THEN <<>> ELSE <<IF doc = None THEN Command("unpublish", None) ELSE Command("publish", doc)>>)

SetsState ==
  \E doc \in (Documents \cup {None}) \ {state} :
    /\ Spends("states") /\ state' = doc
    /\ \/ posted' = Append(posted, Item("set", doc)) /\ UNCHANGED <<commands, slips>>
       \/ /\ _publish(doc) /\ UNCHANGED posted
          /\ slips' = slips \cup {"reordered" : item \in {i \in DOMAIN posted : posted[i].name = "set"}}
    /\ UNCHANGED <<accountVars, started, active, data, timer, pc, cmd, publisherVars>>

\* _NH_SIPPublication...: the requests' outcomes go to the data channel
PublisherHandles ==
  /\ posted # <<>> /\ posted' = Tail(posted)
  /\ LET item == Head(posted) IN
     CASE item.name = "set" -> _publish(item.code) /\ UNCHANGED data
       [] item.name = "WillExpire" -> _publish(SameState) /\ UNCHANGED data
       [] item.name = "ignored" -> UNCHANGED <<commands, data>>
       [] OTHER -> data' = Append(data, item) /\ UNCHANGED commands
  /\ UNCHANGED <<scene, accountVars, started, active, state, timer, pc, cmd, publisherVars, slips>>

-----------------------------------------------------------------------------
(* _run and the command handlers.                                          *)

\* except PublicationError: try again later, with a new publication, which takes what is
\* left in the data channel for its own.
PublishFails ==
  /\ publishing' = FALSE /\ publication' = None /\ server' = None /\ timer' = TRUE /\ pc' = "idle"
  /\ posted' = Disowned(posted)
  /\ slips' = slips \cup {"orphan" : item \in {i \in DOMAIN data' : data'[i].name # "DidEnd"}}

\* Publication.publish, with a body or to refresh, and why it may not send anything
Requests(body) ==
  /\ publication' = [publication EXCEPT !.current = "publish", !.body = body]
  /\ pc' = "answer" /\ UNCHANGED <<publishing, server, timer, posted, slips>>
refused ==
  IF cmd.state # SameState THEN "no"
  ELSE IF ~publication.known THEN "ValueError" ELSE IF ~publication.etag THEN "PublicationETagError" ELSE "no"
\* the next route is tried; send() may fail
TriesRoute ==
  \/ refused = "ValueError" /\ PublishFails /\ UNCHANGED scene
  \/ /\ refused = "PublicationETagError" /\ UNCHANGED scene
     /\ IF state # None THEN Requests(state)
        ELSE pc' = "idle" /\ UNCHANGED <<publication, publishing, server, timer, posted, slips>>
  \/ /\ refused = "no"
     /\ (Requests(cmd.state) /\ UNCHANGED scene) \/ (PublishFails /\ Spends("troubles"))

\* the start of _CH_publish, up to the lookup
_CH_publish ==
  LET command == Head(commands) IN
  /\ command.name = "publish"
  /\ IF command.state = None \/ (publication = None /\ command.state = SameState)
     THEN UNCHANGED <<pc, cmd, timer, publication>>
     ELSE /\ timer' = FALSE /\ pc' = "dns" /\ cmd' = command
          /\ publication' = IF publication = None THEN NewPublication ELSE publication
  /\ UNCHANGED <<publishing, server, posted>>

\* the end of _CH_unpublish and _CH_terminate
Withdrawn(command) ==
  /\ publication' = None /\ server' = None /\ posted' = Disowned(posted)
  /\ pc' = IF command.name = "terminate" THEN "off" ELSE "idle"
\* Publication.end: nothing is sent when nothing is published
end == [publication EXCEPT !.current = IF publication.known THEN "unpublish" ELSE @]
_CH_unpublish ==
  LET command == Head(commands) IN
  /\ command.name \in {"unpublish", "terminate"} /\ timer' = FALSE /\ publishing' = FALSE /\ cmd' = command
  /\ IF publication # None /\ publishing
     THEN /\ pc' = "ending" /\ UNCHANGED <<posted, server>>
          /\ publication' = end
     ELSE Withdrawn(command)

TakesCommand ==
  /\ pc = "idle" /\ commands # <<>> /\ commands' = Tail(commands)
  /\ _CH_publish \/ _CH_unpublish
  /\ UNCHANGED <<scene, accountVars, started, active, state, data, slips>>

LookupReturns ==
  /\ pc = "dns" /\ UNCHANGED data
  /\ TriesRoute \/ (PublishFails /\ Spends("troubles"))
  /\ UNCHANGED <<accountVars, started, active, state, commands, cmd>>

\* 407, 412, 405...: try again later; 423: the handler raises AttributeError and
\* takes _run with it; all others: the next route, if there is one and time is left
GotFailure(code) ==
  \/ /\ code = 423 /\ pc' = "dead" /\ slips' = slips \cup {"killed"}
     /\ UNCHANGED <<publication, publishing, server, timer, posted, scene>>
  \/ /\ code = 412 /\ PublishFails /\ UNCHANGED scene
  \/ /\ code = 500 /\ TriesRoute
  \/ /\ code = 500 /\ PublishFails /\ UNCHANGED scene

ReadsAnswer ==
  /\ pc = "answer" /\ data # <<>> /\ data' = Tail(data)
  /\ LET item == Head(data) IN
     \/ /\ item.name = "DidSucceed" /\ publishing' = TRUE /\ pc' = "idle"
        /\ UNCHANGED <<publication, server, timer, posted, slips, scene>>
     \/ item.name = "DidEnd" /\ PublishFails /\ UNCHANGED scene
     \/ item.name = "DidFail" /\ GotFailure(item.code)
  /\ UNCHANGED <<accountVars, started, active, state, commands, cmd>>

\* the second form waits for SIPPublicationDidEnd alone
ReadsEndOnly ==
  /\ pc = "ending" /\ data # <<>> /\ data' = Tail(data)
  /\ IF Head(data).name # "DidEnd" THEN UNCHANGED <<publication, server, posted, pc>> ELSE Withdrawn(cmd)
  /\ UNCHANGED <<scene, accountVars, started, active, state, commands, cmd, timer, publishing, slips>>
ReadsEnd ==
  /\ pc = "ending" /\ data # <<>> /\ data' = Tail(data)
  /\ IF Head(data).name = "DidSucceed" THEN UNCHANGED <<publication, server, posted, pc>> ELSE Withdrawn(cmd)
  /\ UNCHANGED <<scene, accountVars, started, active, state, commands, cmd, timer, publishing, slips>>

-----------------------------------------------------------------------------
(* Publication: the requests it sends and their outcomes.                  *)

PublicationOnly == UNCHANGED <<accountVars, started, active, state, commands, data, timer, pc, cmd, publishing, slips>>
Out == publication # None /\ publication.current # "none"

\* _NH_SIPRequestDidSucceed; an answer may lack the SIP-ETag header
RequestSucceeds ==
  /\ Out
  /\ \/ /\ publication.current = "unpublish" /\ UNCHANGED scene
        /\ publication' = NewPublication /\ server' = None /\ Posts("DidEnd", 0)
     \/ /\ publication.current = "publish" /\ Posts("DidSucceed", 0)
        /\ server' = IF publication.body = SameState THEN server ELSE publication.body
        /\ \E etag \in BOOLEAN :
             /\ publication' = [NewPublication EXCEPT !.known = TRUE, !.etag = etag]
             /\ IF etag THEN UNCHANGED scene ELSE Spends("troubles")
  /\ PublicationOnly
\* _NH_SIPRequestDidFail
RequestFails ==
  /\ Out /\ Spends("troubles")
  /\ \E code \in {412, 423, 500} :
       /\ publication' = [publication EXCEPT !.current = "none", !.etag = @ /\ code # 412]
       /\ Posts(IF publication.current = "publish" THEN "DidFail" ELSE "DidNotEnd", code)
  /\ UNCHANGED server /\ PublicationOnly
\* _NH_SIPRequestWillExpire
WillExpire ==
  /\ publication # None /\ publication.known /\ ~publication.warned /\ Spends("expiries")
  /\ publication' = [publication EXCEPT !.warned = TRUE] /\ Posts("WillExpire", 0)
  /\ UNCHANGED server /\ PublicationOnly
\* _NH_SIPRequestDidEnd of the request that was answered: it cancels the one that is out
Expires ==
  /\ publication # None /\ publication.known /\ publication.warned
  /\ publication' = NewPublication /\ server' = None /\ Posts("DidEnd", 0)
  /\ UNCHANGED scene /\ PublicationOnly

PublisherNext ==
  \/ SetsState \/ PublisherHandles \/ TakesCommand \/ LookupReturns \/ ReadsAnswer \/ ReadsEnd
  \/ RequestSucceeds \/ RequestFails \/ WillExpire \/ Expires

-----------------------------------------------------------------------------
\* When everything has settled the server has the state of an account that publishes, and
\* nothing is published for one that does not or that has no state: whatever was set, and
\* whatever expired or failed, meanwhile (_set_state, _publish, _CH_publish, _CH_unpublish).
PublishedAsWanted ==
  Publishes /\ Quiet /\ slips = {} =>
    /\ publishing = (active /\ state # None)
    /\ IF publishing THEN server = state ELSE publication = None
=============================================================================
