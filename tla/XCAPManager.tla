----------------------------- MODULE XCAPManager -----------------------------
(***************************************************************************)
(* XCAPManager of account/xcap/__init__.py: the documents of an account on *)
(* an XCAP server, the journal of operations not yet on the server, the    *)
(* loop that executes one command after another (_run), and around them    *)
(* the application, the subscription that tells of changes, the server,    *)
(* another client of the same account, and crashes.                        *)
(*                                                                         *)
(* The loop is one green thread, so a handler is one step up to the point  *)
(* where it waits: for the server's capabilities, for each document of a   *)
(* fetch, for each document of an upload.                                  *)
(***************************************************************************)
EXTENDS XCAPContents

CONSTANTS Menus,         \* what may happen in one behaviour: the documents it may keep on the server
                         \* (supported), what the server has to begin with (base),
                         \* operations of the application (ours) and of the other client (theirs), each
                         \* once, and bounds on calls and on troubles (lost requests and answers, failed
                         \* subscriptions, crashes)
          Overlap        \* calls may be made while earlier ones wait in the channel

ASSUME XCAPAssumption ==
  /\ Overlap \in BOOLEAN
  /\ \A menu \in Menus :
       /\ {"resource-lists", "rls-services", "pres-rules"} \subseteq menu.supported
       /\ menu.supported \subseteq Documents /\ menu.calls \in Nat /\ menu.troubles \in Nat

VARIABLES
  state,        \* XCAPManager.state
  subscriber,   \* xcap_subscriber: "none", "started" or "active"
  timer,        \* the command the timer will send, or NoCommand
  missed,       \* not_executed_fetch
  level,        \* transaction_level
  journal,      \* operations, each with its applied flag
  channel,      \* command_channel
  loop,         \* where _run is: [at, command, todo, failed, batch]
  docs,         \* per document: content, etag (0: none), dirty, touched
  news,         \* a document was exchanged after last_update_time
  fetched,      \* last_fetch_time is set
  stored,       \* what the storage holds: the journal and the cached documents
  told,         \* the data of the last XCAPManagerDidReloadData
  server,       \* per document: content and version
  pending,      \* documents with a change that the subscription has not told of
  promised,     \* the operations the application has scheduled
  others,       \* the operations the other client has done
  scene,        \* the menu of this behaviour (base: what the present server began with)
  limits,       \* troubles and calls so far
  slips         \* ways of losing something that this behaviour took (see the README)

manager == <<state, subscriber, timer, missed, level, journal, channel, loop, docs, news, fetched, told>>
vars == <<manager, stored, server, pending, promised, others, scene, limits, slips>>

DocOrder == <<"resource-lists", "rls-services", "pres-rules", "dialog-rules", "pidf-manipulation", "status-icon">>

Command(name) == [name |-> name, documents |-> {}, newer |-> FALSE, modified |-> "nothing"]
Fetch(documents) == [Command("fetch") EXCEPT !.documents = documents]
NoCommand == Command("none")
Idle == [at |-> "idle", command |-> NoCommand, todo |-> {}, failed |-> FALSE, batch |-> 0]

Entry(op) == [op |-> op, applied |-> FALSE]
Ops(j) == [i \in DOMAIN j |-> j[i].op]
IsNormalize(op) == op.name = "Normalize"

NoDocument == [content |-> None, etag |-> 0, dirty |-> FALSE, touched |-> {}]
Cached(content, etag) == [NoDocument EXCEPT !.content = content, !.etag = etag]

Supported == scene.supported

Init ==
  /\ state = "stopped" /\ subscriber = "none" /\ timer = NoCommand /\ missed = NoCommand
  /\ level = 0 /\ journal = <<>> /\ channel = <<>> /\ loop = Idle
  /\ docs = [n \in Documents |-> NoDocument] /\ news = TRUE /\ fetched = FALSE
  /\ stored = [journal |-> <<>>, docs |-> docs] /\ told = None
  /\ scene \in Menus
  /\ server = [n \in Documents |-> [content |-> scene.base[n], version |-> 1]]
  /\ pending = {} /\ promised = <<>> /\ others = <<>>
  /\ limits = [troubles |-> 0, calls |-> 0] /\ slips = {}

-----------------------------------------------------------------------------
(* What the application calls, in any thread: the calls are queued.        *)

Calls == {"start", "stop", "reload", "cleanup"}
Queued(names) == \E i \in DOMAIN channel : channel[i].name \in names
MayCall ==
  /\ limits.calls < scene.calls /\ loop.at # "ended" /\ ~Queued({"cleanup"})
  /\ Overlap \/ ~Queued(Calls)
CallMade(commands) ==
  /\ MayCall
  /\ channel' = channel \o commands
  /\ limits' = [limits EXCEPT !.calls = @ + 1]
  /\ UNCHANGED <<state, subscriber, timer, missed, level, journal, loop, docs, news, fetched, told,
                 stored, server, pending, promised, others, scene, slips>>

start == CallMade(<<Command("start")>>)
stop == CallMade(<<Command("stop")>>)
SettingsChange(how) == CallMade(<<[Command("reload") EXCEPT !.modified = how]>>)
AccountDeleted == CallMade(<<Command("stop"), Command("cleanup")>>)

\* the journal is saved and an update is requested, unless a transaction is open
Purged == [journal |-> <<>>, docs |-> [n \in Documents |-> NoDocument]]
Save(j) == stored' = [stored EXCEPT !.journal = Ops(j)]
Schedule(op) ==
  /\ loop.at # "ended" /\ ~Queued({"cleanup"})
  /\ op \notin Range(promised)
  /\ promised' = Append(promised, op)
  /\ journal' = Append(journal, Entry(op))
  /\ IF level = 0 THEN Save(journal') /\ channel' = Append(channel, Command("update"))
                  ELSE UNCHANGED <<stored, channel>>
  /\ UNCHANGED <<state, subscriber, timer, missed, level, loop, docs, news, fetched, told,
                 server, pending, others, scene, limits, slips>>

start_transaction ==
  /\ level = 0 /\ loop.at # "ended" /\ level' = level + 1
  /\ limits.calls < scene.calls /\ limits' = [limits EXCEPT !.calls = @ + 1]
  /\ UNCHANGED <<state, subscriber, timer, missed, journal, channel, loop, docs, news, fetched, told,
                 stored, server, pending, promised, others, scene, slips>>
commit_transaction ==
  /\ level > 0 /\ level' = level - 1
  /\ IF level' = 0 /\ journal # <<>>
     THEN Save(journal) /\ channel' = Append(channel, Command("update"))
     ELSE UNCHANGED <<stored, channel>>
  /\ UNCHANGED <<state, subscriber, timer, missed, journal, loop, docs, news, fetched, told,
                 server, pending, promised, others, scene, limits, slips>>

-----------------------------------------------------------------------------
(* The loop takes the next command.                                        *)

Takes(name) == loop.at = "idle" /\ channel # <<>> /\ Head(channel).name = name
command == Head(channel)
Others == <<stored, server, pending, promised, others, scene, limits, slips>>
Ignored ==
  /\ channel' = Tail(channel)
  /\ UNCHANGED <<state, subscriber, timer, missed, level, journal, loop, docs, news, fetched, told, Others>>

CH_start ==
  /\ Takes("start")
  /\ IF state # "stopped" THEN Ignored
     ELSE /\ state' = "initializing" /\ subscriber' = "started"
          /\ channel' = Append(Tail(channel), Command("initialize"))
          /\ UNCHANGED <<timer, missed, level, journal, loop, docs, news, fetched, told, Others>>

CH_stop ==
  /\ Takes("stop")
  /\ IF state \in {"stopped", "terminated"} THEN Ignored
     ELSE /\ state' = "stopped" /\ subscriber' = "none" /\ timer' = NoCommand
          /\ Save(journal)
          /\ channel' = Tail(channel)
          /\ UNCHANGED <<missed, level, journal, loop, docs, news, fetched, told,
                         server, pending, promised, others, scene, limits, slips>>

CH_cleanup ==
  /\ Takes("cleanup")
  /\ IF state # "stopped" THEN Ignored
     ELSE /\ state' = "terminated" /\ journal' = <<>> /\ loop' = [Idle EXCEPT !.at = "ended"]
          /\ stored' = Purged
          /\ promised' = <<>> /\ channel' = Tail(channel)
          /\ UNCHANGED <<subscriber, timer, missed, level, docs, news, fetched, told,
                         server, pending, others, scene, limits, slips>>

\* whatever the state: the command may have been queued before a stop
CH_initialize ==
  /\ Takes("initialize")
  /\ state' = "initializing" /\ timer' = NoCommand
  /\ loop' = [Idle EXCEPT !.at = "discovering"] /\ channel' = Tail(channel)
  /\ slips' = IF \E i \in DOMAIN journal : journal[i].applied THEN slips \cup {"undone"} ELSE slips
  /\ UNCHANGED <<subscriber, missed, level, journal, docs, news, fetched, told,
                 stored, server, pending, promised, others, scene, limits>>

\* another account or another root: nothing of what was kept is valid there, and the
\* operations of another account are dropped
CH_reload ==
  /\ Takes("reload")
  /\ LET how == command.modified
         elsewhere == how \in {"id", "root"}
     IN /\ journal' = IF how = "id" THEN <<>> ELSE journal
        /\ docs' = IF elsewhere THEN [n \in Documents |-> NoDocument] ELSE docs
        /\ stored' = [journal |-> IF how = "id" THEN <<>> ELSE stored.journal,
                      docs |-> IF elsewhere THEN docs' ELSE stored.docs]
        /\ IF ~elsewhere THEN UNCHANGED <<server, scene, slips>>
           ELSE \E there \in {scene.base, [n \in Documents |-> None]} :
                  /\ server' = [n \in Documents |-> [content |-> there[n], version |-> server[n].version + 1]]
                  /\ scene' = [scene EXCEPT !.base = there]
                  /\ slips' = IF fetched /\ (\A n \in Documents : there[n] = None) THEN slips \cup {"empty"} ELSE slips
        /\ promised' = IF elsewhere THEN SelectSeq(Ops(journal'), LAMBDA op : ~IsNormalize(op)) ELSE promised
        /\ others' = IF elsewhere THEN <<>> ELSE others
        /\ IF state = "stopped"
           THEN channel' = Tail(channel) /\ UNCHANGED <<state, pending>>
           ELSE IF how = "interval"
           THEN channel' = Tail(channel) /\ pending' = Documents /\ UNCHANGED state
           ELSE /\ channel' = Append(Tail(channel), Command("initialize"))
                /\ state' = "initializing" /\ UNCHANGED pending
  /\ UNCHANGED <<subscriber, timer, missed, level, loop, news, fetched, told, limits>>

-----------------------------------------------------------------------------
(* Capabilities of the server, then the subscription.                      *)

Trouble == limits.troubles < scene.troubles /\ limits' = [limits EXCEPT !.troubles = @ + 1]

DiscoveryFails ==
  /\ loop.at = "discovering" /\ Trouble
  /\ timer' = Command("initialize") /\ loop' = Idle
  /\ UNCHANGED <<state, subscriber, missed, level, journal, channel, docs, news, fetched, told,
                 stored, server, pending, promised, others, scene, slips>>

\* without a subscriber activate() raises, and the exception ends _run
Discovers ==
  /\ loop.at = "discovering"
  /\ docs' = [n \in Documents |-> IF n \in Supported THEN docs[n] ELSE NoDocument]
  /\ stored' = [stored EXCEPT !.docs = [n \in Documents |-> IF n \in Supported THEN @[n] ELSE NoDocument]]
  /\ state' = "fetching" /\ channel' = Append(channel, Fetch(Documents))
  /\ IF subscriber = "none"
     THEN loop' = [Idle EXCEPT !.at = "dead"] /\ UNCHANGED <<subscriber, pending>>
     ELSE subscriber' = "active" /\ pending' = Documents /\ loop' = Idle
  /\ UNCHANGED <<timer, missed, level, journal, news, fetched, told, server, promised, others, scene, limits, slips>>

-----------------------------------------------------------------------------
(* Fetching.  newer: a document was fetched after the command was made.    *)

Merged(cmd, with) == [cmd EXCEPT !.documents = @ \cup with.documents]
Newer(cmd) == IF cmd.name = "fetch" THEN [cmd EXCEPT !.newer = TRUE] ELSE cmd

CH_fetch ==
  /\ Takes("fetch") /\ channel' = Tail(channel)
  /\ IF state \notin {"insync", "fetching"}
     THEN missed' = Merged(command, missed) /\ UNCHANGED <<state, timer, loop>>
     ELSE LET cmd == Merged(Merged(command, missed), timer)
          IN /\ missed' = NoCommand /\ timer' = NoCommand /\ state' = "fetching"
             /\ loop' = [Idle EXCEPT !.at = "fetching", !.command = cmd, !.todo = cmd.documents \cap Supported]
  /\ UNCHANGED <<subscriber, level, journal, docs, news, fetched, told, Others>>

GetAnswered(n) ==
  LET s == server[n]
      changed == IF s.content = None THEN docs[n].content # None ELSE docs[n].etag # s.version
      got == IF ~changed THEN docs[n] ELSE IF s.content = None THEN NoDocument ELSE Cached(s.content, s.version)
  IN /\ docs' = [docs EXCEPT ![n] = got]
     /\ stored' = IF changed THEN [stored EXCEPT !.docs[n] = got] ELSE stored
     /\ news' = (news \/ changed)
     /\ loop' = [loop EXCEPT !.todo = @ \ {n}, !.command.newer = @ \/ changed]
     /\ IF changed
        THEN /\ channel' = [i \in DOMAIN channel |-> Newer(channel[i])]
             /\ missed' = Newer(missed)
        ELSE UNCHANGED <<channel, missed>>
     /\ UNCHANGED limits
GetFails(n) ==
  /\ Trouble
  /\ loop' = [loop EXCEPT !.todo = @ \ {n}, !.failed = TRUE]
  /\ UNCHANGED <<docs, stored, news, channel, missed>>
\* the requests run together and each brings its own document, in whatever order: here in DocOrder
Get ==
  /\ loop.at = "fetching" /\ loop.todo # {}
  /\ LET n == SelectSeq(DocOrder, LAMBDA x : x \in loop.todo)[1] IN GetAnswered(n) \/ GetFails(n)
  /\ UNCHANGED <<state, subscriber, timer, level, journal, fetched, told, server, pending, promised, others, scene, slips>>

\* the retry is a new command, made after what this fetch did get
FetchFails ==
  /\ loop.failed
  /\ timer' = Fetch(loop.command.documents) /\ loop' = Idle
  /\ slips' = IF loop.command.newer THEN slips \cup {"unseen"} ELSE slips
  /\ UNCHANGED <<state, journal, channel, fetched>>
\* altered: when the documents were fetched is not looked at
NothingNewEver ==
  /\ ~loop.failed
  /\ journal = <<>> /\ fetched
  /\ state' = "insync" /\ loop' = Idle
  /\ UNCHANGED <<timer, journal, channel, fetched, slips>>
NothingNew ==
  /\ ~loop.failed
  /\ journal = <<>> /\ fetched /\ ~loop.command.newer
  /\ state' = "insync" /\ loop' = Idle
  /\ UNCHANGED <<timer, journal, channel, fetched, slips>>
SomethingNew ==
  /\ ~loop.failed
  /\ journal # <<>> \/ ~fetched \/ loop.command.newer
  /\ fetched' = TRUE /\ state' = "updating" /\ loop' = Idle
  /\ journal' = IF journal # <<>> /\ IsNormalize(journal[1].op) THEN journal
                ELSE <<Entry([name |-> "Normalize"])>> \o journal
  /\ channel' = Append(channel, Command("update"))
  /\ UNCHANGED <<timer, slips>>
FetchEnds ==
  /\ loop.at = "fetching" /\ loop.todo = {}
  /\ FetchFails \/ NothingNew \/ SomethingNew
  /\ UNCHANGED <<subscriber, missed, level, docs, news, told, stored, server, pending, promised, others, scene, limits>>

-----------------------------------------------------------------------------
(* Updating: the operations are applied, then every document that has      *)
(* changed is uploaded, each on the condition that nobody else changed it. *)

ToApply == SelectSeq(journal, LAMBDA entry : ~entry.applied)
CH_update ==
  /\ Takes("update")
  /\ IF state \notin {"insync", "updating"} \/ level # 0 THEN Ignored
     ELSE /\ state' = "updating" /\ timer' = NoCommand
          /\ docs' = ApplyAll(docs, Supported, Ops(ToApply))
          /\ journal' = [i \in DOMAIN journal |-> [journal[i] EXCEPT !.applied = TRUE]]
          /\ loop' = [Idle EXCEPT !.at = "uploading", !.batch = Len(journal)]
          /\ channel' = Tail(channel)
          /\ UNCHANGED <<subscriber, missed, level, news, fetched, told, Others>>

ToUpload == SelectSeq(DocOrder, LAMBDA n : n \in Supported /\ docs[n].dirty)
Uploaded(n) == IF n = "resource-lists" THEN Consolidated(docs[n]) ELSE docs[n]

\* If-Match with the etag of the last exchange, or If-None-Match when there was none
Fails412(n) ==
  IF server[n].content = None THEN docs[n].etag # 0 /\ docs[n].content # None
  ELSE docs[n].etag # server[n].version

ServerTakes(n) ==
  server' = [server EXCEPT ![n] = [content |-> Uploaded(n).content, version |-> @.version + 1]]
UploadOK(n) ==
  /\ ServerTakes(n)
  /\ docs' = [docs EXCEPT ![n] = IF Uploaded(n).content = None THEN NoDocument
                                 ELSE Cached(Uploaded(n).content, server'[n].version)]
  /\ stored' = [stored EXCEPT !.docs[n] = docs'[n]]
  /\ news' = TRUE
  /\ UNCHANGED <<state, timer, journal, channel, loop, limits>>
\* altered: the operations stay applied
UploadRefusedForgets ==
  /\ docs' = [n \in Documents |-> IF n \in Supported /\ docs[n].dirty THEN NoDocument ELSE docs[n]]
  /\ stored' = [stored EXCEPT !.docs = [n \in Documents |->
                  IF n \in Supported /\ docs[n].dirty /\ docs[n].content # None THEN NoDocument ELSE @[n]]]
  /\ journal' = [i \in DOMAIN journal |-> IF i <= loop.batch THEN journal[i] ELSE journal[i]]
  /\ state' = "fetching" /\ loop' = Idle
  /\ channel' = Append(channel, Fetch(Documents))
  /\ UNCHANGED <<timer, server, news, limits>>
UploadRefused ==
  /\ docs' = [n \in Documents |-> IF n \in Supported /\ docs[n].dirty THEN NoDocument ELSE docs[n]]
  /\ stored' = [stored EXCEPT !.docs = [n \in Documents |->
                  IF n \in Supported /\ docs[n].dirty /\ docs[n].content # None THEN NoDocument ELSE @[n]]]
  /\ journal' = [i \in DOMAIN journal |-> IF i <= loop.batch THEN Entry(journal[i].op) ELSE journal[i]]
  /\ state' = "fetching" /\ loop' = Idle
  /\ channel' = Append(channel, Fetch(Documents))
  /\ UNCHANGED <<timer, server, news, limits>>
\* the request or its answer is lost
UploadFails(n) ==
  /\ Trouble
  /\ UNCHANGED server \/ (~Fails412(n) /\ ServerTakes(n))
  /\ docs' = [docs EXCEPT ![n] = Uploaded(n)]
  /\ timer' = Command("update") /\ loop' = Idle
  /\ UNCHANGED <<state, journal, channel, stored, news>>
Upload ==
  /\ loop.at = "uploading" /\ ToUpload # <<>>
  /\ LET n == Head(ToUpload)
     IN \/ (~Fails412(n) /\ UploadOK(n))
        \/ (Fails412(n) /\ UploadRefused)
        \/ UploadFails(n)
  /\ UNCHANGED <<subscriber, missed, level, fetched, told, pending, promised, others, scene, slips>>

\* _load_data raises if a document it needs is not there
Loadable == \A n \in {"resource-lists", "pres-rules", "dialog-rules"} \cap Supported : docs[n].content # None
\* altered: the fetch that was put off is not sent
UpdateEndsKeepsMissed ==
  /\ loop.at = "uploading" /\ ToUpload = <<>>
  /\ journal' = SubSeq(journal, loop.batch + 1, Len(journal))
  /\ state' = IF journal' = <<>> THEN "insync" ELSE state
  /\ IF journal' = <<>> /\ news /\ ~Loadable
     THEN /\ loop' = [Idle EXCEPT !.at = "dead"]
          /\ UNCHANGED <<told, news, channel, missed, stored>>
     ELSE /\ loop' = Idle
          /\ told' = IF journal' = <<>> /\ news THEN LoadData(docs, Supported) ELSE told
          /\ news' = (news /\ journal' # <<>>)
          /\ UNCHANGED <<channel, missed>>
          /\ Save(journal')
  /\ UNCHANGED <<subscriber, timer, level, docs, fetched, server, pending, promised, others, scene, limits, slips>>

UpdateEnds ==
  /\ loop.at = "uploading" /\ ToUpload = <<>>
  /\ journal' = SubSeq(journal, loop.batch + 1, Len(journal))
  /\ state' = IF journal' = <<>> THEN "insync" ELSE state
  /\ IF journal' = <<>> /\ news /\ ~Loadable
     THEN /\ loop' = [Idle EXCEPT !.at = "dead"]
          /\ UNCHANGED <<told, news, channel, missed, stored>>
     ELSE /\ loop' = Idle
          /\ told' = IF journal' = <<>> /\ news THEN LoadData(docs, Supported) ELSE told
          /\ news' = (news /\ journal' # <<>>)
          /\ channel' = IF missed = NoCommand THEN channel ELSE Append(channel, missed)
          /\ missed' = NoCommand
          /\ Save(journal')
  /\ UNCHANGED <<subscriber, timer, level, docs, fetched, server, pending, promised, others, scene, limits, slips>>

-----------------------------------------------------------------------------
(* The surroundings.                                                       *)

TimerFires ==
  /\ timer # NoCommand
  /\ Overlap \/ ~Queued({"stop"})
  /\ channel' = Append(channel, timer) /\ timer' = NoCommand
  /\ UNCHANGED <<state, subscriber, missed, level, journal, loop, docs, news, fetched, told, Others>>

\* XCAPSubscriptionDidStart and GotNotify
SubscriptionTells ==
  /\ subscriber = "active" /\ pending # {}
  /\ channel' = Append(channel, Fetch(pending)) /\ pending' = {}
  /\ UNCHANGED <<state, subscriber, timer, missed, level, journal, loop, docs, news, fetched, told,
                 stored, server, promised, others, scene, limits, slips>>
\* XCAPSubscriptionDidFail: everything is fetched
SubscriptionFails ==
  /\ subscriber = "active" /\ Trouble
  /\ channel' = Append(channel, Fetch(Documents)) /\ pending' = {}
  /\ UNCHANGED <<state, subscriber, timer, missed, level, journal, loop, docs, news, fetched, told,
                 stored, server, promised, others, scene, slips>>

\* the other client writes a document without caring for what follows from it
OtherClient(op) ==
  /\ op \notin Range(others)
  /\ LET theirs == [n \in Documents |-> Cached(server[n].content, 0)]
         new == Apply(theirs, Supported, op)
         changed == {n \in Documents : new[n].content # server[n].content}
     IN /\ changed # {}
        /\ server' = [n \in Documents |-> IF n \in changed
                        THEN [content |-> new[n].content, version |-> server[n].version + 1] ELSE server[n]]
        /\ pending' = pending \cup changed
  /\ others' = Append(others, op)
  /\ UNCHANGED <<manager, stored, promised, scene, limits, slips>>

\* the program ends anywhere and is started again: __init__ with what was stored
Crash ==
  /\ Trouble /\ loop.at \notin {"ended", "dead"}
  /\ state' = "stopped" /\ subscriber' = "none" /\ timer' = NoCommand /\ missed' = NoCommand
  /\ level' = 0 /\ channel' = <<>> /\ loop' = Idle /\ told' = None
  /\ journal' = [i \in DOMAIN stored.journal |-> Entry(stored.journal[i])]
  /\ docs' = stored.docs /\ news' = TRUE /\ fetched' = FALSE
  /\ promised' = SelectSeq(promised, LAMBDA op :
                   op \notin Range(Ops(journal)) \/ op \in Range(stored.journal))
  /\ UNCHANGED <<stored, server, pending, others, scene, slips>>

-----------------------------------------------------------------------------
Loop ==
  \/ CH_start \/ CH_stop \/ CH_cleanup \/ CH_initialize \/ CH_reload
  \/ Discovers \/ DiscoveryFails
  \/ CH_fetch \/ Get \/ FetchEnds
  \/ CH_update \/ Upload \/ UpdateEnds
Application ==
  \/ start \/ stop \/ AccountDeleted \/ (\E how \in {"id", "root", "auth", "interval"} : SettingsChange(how))
  \/ (\E op \in scene.ours : Schedule(op)) \/ start_transaction \/ commit_transaction
Next ==
  \/ Loop \/ Application
  \/ TimerFires \/ SubscriptionTells \/ SubscriptionFails
  \/ (\E op \in scene.theirs : OtherClient(op)) \/ Crash

\* the loop runs, timers fire, transactions are closed (XCAPTransaction.__exit__) and the
\* subscription tells of changes; nobody has to call, fail or crash
Spec == Init /\ [][Next]_vars /\ WF_vars(Loop) /\ WF_vars(TimerFires)
             /\ WF_vars(SubscriptionTells) /\ WF_vars(commit_transaction)

-----------------------------------------------------------------------------
(* Properties.                                                             *)

\* The manager's own state keeps its types, the etags it knows were the server's, and a
\* document is dirty or in step with what was last exchanged (Document, XCAPManager.__init__).
TypeOK ==
  /\ state \in {"stopped", "initializing", "fetching", "insync", "updating", "terminated"}
  /\ subscriber \in {"none", "started", "active"} /\ level \in 0..1
  /\ loop.at \in {"idle", "discovering", "fetching", "uploading", "dead", "ended"}
  /\ loop.todo \subseteq loop.command.documents /\ loop.batch \in 0..Len(journal)
  /\ \A n \in Documents : docs[n].etag <= server[n].version
  /\ \A n \in Documents : stored.docs[n].etag \in {0, docs[n].etag} \/ docs[n].etag = 0
  /\ \A i \in DOMAIN journal : IsNormalize(journal[i].op) => i = 1

Quiet ==
  /\ state = "insync" /\ journal = <<>> /\ channel = <<>> /\ loop.at = "idle"
  /\ timer = NoCommand /\ missed = NoCommand /\ pending = {}

AsDocuments(contents) == [n \in Documents |-> Cached(contents[n], 0)]
Expected ==
  LET base == Normalize(AsDocuments(scene.base), Supported)
  IN LoadData(Normalize(ApplyAll(base, Supported, promised \o others), Supported), Supported)

\* No update is lost: once nothing is left to do, the server has the result of everything
\* that the application scheduled, in its order, and of everything the other client did,
\* whatever was refused with 412, lost on the way or interrupted by a crash
\* (_CH_update, _CH_fetch, the journal).
UpdatesKept ==
  Quiet /\ slips = {} =>
    LoadData([n \in Documents |-> Cached(server[n].content, 0)], Supported) = Expected

\* What the application was last told is what the documents say
\* (XCAPManagerDidReloadData is posted whenever they have changed).
ApplicationKnows == Quiet /\ slips = {} => told = LoadData(docs, Supported)

\* On the server, nobody is let through whom a contact blocks: the lists that the rules
\* refer to follow from the address book (ResourceListsDocument.update, NormalizeOperation).
BlockedStaysBlocked ==
  Quiet /\ slips = {} =>
           LET book == server["resource-lists"].content
           IN \A c \in DOMAIN book.contacts, e \in Events :
                book.contacts[c][Key(e, "policy")] = "block" =>
                  URIs(book.contacts[c]) \subseteq book.blocked[e] \ book.granted[e]

\* A manager that runs gets everything done: the troubles are over one day, and then the
\* journal is uploaded and every change that the subscription told of is fetched.
Settles == []<>(Quiet \/ state \in {"stopped", "terminated"} \/ slips # {})
=============================================================================
