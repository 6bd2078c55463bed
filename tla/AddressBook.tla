----------------------------- MODULE AddressBook -----------------------------
(***************************************************************************)
(* addressbook.py: contacts, groups and policies, kept in the local        *)
(* configuration and on the XCAP server of every account that supports it. *)
(*                                                                         *)
(* The application changes the settings of an object in its own thread;    *)
(* save(), delete() and what the XCAP managers report are executed one     *)
(* after another by the 'file-io' thread, where a nested call is executed  *)
(* at once.  So a job is a list of steps, and a nested call puts its steps *)
(* in front of those that are left.  Between two steps of the thread the   *)
(* application may change a setting and a manager may reach its server.    *)
(*                                                                         *)
(* An account is its XCAP manager as the address book knows it: a journal  *)
(* of operations that waits for the end of all transactions, a server that *)
(* another client may change, and the report of what is there              *)
(* (XCAPManager models how they get there).                                *)
(***************************************************************************)
EXTENDS Configuration

CONSTANTS Contacts, Groups, Policies,   \* the ids of the objects
          Accounts,
          Scenes                        \* what may happen in one behaviour: what the application
                                        \* calls (script), what the other client leaves on a server
                                        \* (others), the accounts whose XCAP support is known
                                        \* (discovered) or found out (discovers), the books to begin with (base, servers), bounds on
                                        \* troubles and on exchanges of two accounts (rounds)

Ids == Contacts \cup Groups \cup Policies
ASSUME AddressBookAssumption ==
  \A scene \in Scenes : scene.discovered \subseteq Accounts /\ scene.troubles \in Nat

VARIABLES
  objects,     \* per id: state, settings now and as saved, and the object's __xcap...__
  known,       \* the ids in AddressbookManager.contacts, groups and policies
  told,        \* __xcapaddressbook__
  config,      \* ConfigurationManager.data
  disk,        \* what the backend has stored
  jobs,        \* the queue of the file-io thread
  work,        \* the steps that are left of its present job
  accounts,    \* per account: discovered, gone, level, journal, server, news
  script,      \* calls the application has still to make
  scene,       \* the scene of this behaviour (others: books still to come, troubles: so many left)
  slips        \* ways of losing something that this behaviour took (see the README)

vars == <<objects, known, told, config, disk, jobs, work, accounts, script, scene, slips>>

-----------------------------------------------------------------------------
(* Operations of the XCAP managers, on a book: a function of ids.          *)

OpAdd(id, item) == [do |-> "add", id |-> id, item |-> item]
OpChange(id, changes) == [do |-> "change", id |-> id, changes |-> changes]
OpRemove(id) == [do |-> "remove", id |-> id]

Changed(item, changes) ==
  [fields |-> Over(changes.fields, item.fields),
   items |-> Over(Only(changes.changed, DOMAIN item.items),
                  Without(Over(changes.added, item.items), changes.removed))]
NoStrays(book) ==
  [id \in DOMAIN book |->
     IF id \in Groups THEN [book[id] EXCEPT !.items = Only(@, DOMAIN book)] ELSE book[id]]
Applied(book, op) ==
  CASE op.do = "add" -> Put(book, op.id, op.item)
    [] op.do = "remove" -> Without(book, {op.id})
    [] op.do = "change" /\ op.id \in DOMAIN book -> Put(book, op.id, Changed(book[op.id], op.changes))
    [] OTHER -> book
AllApplied(book, ops) == NoStrays(FoldLeft(Applied, book, ops))

\* the accounts with ops at the end of their journals
Told(these, ops) == [a \in Accounts |-> IF a \in these THEN [accounts[a] EXCEPT !.journal = @ \o ops] ELSE accounts[a]]
Levels(these, more) ==
  [a \in Accounts |-> IF a \in these THEN [accounts[a] EXCEPT !.level = IF more THEN @ + 1 ELSE @ - 1]
                      ELSE accounts[a]]
xcap_accounts == {a \in Accounts : accounts[a].discovered}
Gone(these) == {a \in these : accounts[a].gone}

-----------------------------------------------------------------------------
Step(do, id) == [do |-> do, id |-> id, account |-> None, item |-> None, these |-> {}, changes |-> Unmodified]
\* an object is saved because of the application (Local) or of a report (Remote)
Local(do, id) == Step(do, id)
Remote(do, id, account, item) == [Step(do, id) EXCEPT !.account = account, !.item = item]
Commit(these) == [Step("commit", None) EXCEPT !.these = these]
Reload(account, book) == [Step("reload", None) EXCEPT !.account = account, !.item = book]

NoObject(id) ==
  [fields |-> CASE id \in Contacts -> [f \in {"name", "policy", "default"} |-> IF f = "default" THEN None ELSE 0]
                [] id \in Groups -> [f \in {"name"} |-> 0]
                [] id \in Policies -> [f \in {"name", "policy"} |-> 0],
   items |-> Nothing]
Object(state, item, xcap) == [state |-> state, now |-> item, old |-> item, xcap |-> xcap]
Absent(id) == Object("absent", NoObject(id), None)

\* AddressbookManager.load; a group forgets the contacts that are not there
Read(stored) ==
  [id \in Ids |-> IF id \in DOMAIN stored THEN Object("active", NoStrays(stored)[id], NoStrays(stored)[id])
                  ELSE Absent(id)]
Init ==
  /\ scene \in Scenes /\ script = scene.script
  /\ config = scene.base /\ disk = scene.base
  /\ objects = Read(scene.base) /\ known = DOMAIN scene.base /\ told = None
  /\ jobs = <<>> /\ work = <<>> /\ slips = {}
  /\ accounts = [a \in Accounts |-> [discovered |-> a \in scene.discovered, gone |-> FALSE, level |-> 0,
                                     journal |-> <<>>, server |-> scene.servers[a], news |-> TRUE]]

-----------------------------------------------------------------------------
(* The application.                                                        *)

Calls(do) == script # <<>> /\ Head(script).do = do /\ script' = Tail(script)
call == Head(script)
App == <<known, told, config, disk, work, accounts, scene>>

New ==
  /\ Calls("new")
  /\ objects' = [objects EXCEPT ![call.id].state = IF @ = "absent" THEN "new" ELSE @]
  /\ UNCHANGED <<jobs, slips, App>>

\* altered: the default URI stays
RemovedAlone(item, x) == [item EXCEPT !.items = Without(@, {x})]
\* the default URI of a contact goes with the URI
Removed(item, x) ==
  [item EXCEPT !.items = Without(@, {x}),
               !.fields = IF "default" \in DOMAIN @ /\ @["default"] = x THEN [@ EXCEPT !["default"] = None] ELSE @]

Edited(object) ==
  CASE call.how = "set" -> Assigned(object, call.field, call.value)
    [] call.how = "add" -> [object EXCEPT !.now.items = Put(@, call.field, call.value)]
    [] call.how = "remove" -> [object EXCEPT !.now = Removed(@, call.field)]
    [] call.how = "undo" -> Undone(object)
\* a contact that is deleted cannot be added; only a URI that is there can be the default
MayEdit(object) ==
  /\ object.state # "absent"
  /\ call.how = "add" /\ call.id \in Groups => objects[call.field].state # "deleted"
  /\ call.how = "set" /\ call.field = "default" => call.value \in DOMAIN object.now.items \cup {None}
\* its changes are already taken down, or it is being saved for a report
Saving(id) == work # <<>> /\ Head(work).id = id /\ (Head(work).do = "store" \/ Head(work).account # None)
Edit ==
  /\ Calls("edit")
  /\ objects' = [objects EXCEPT ![call.id] = IF MayEdit(@) THEN Edited(@) ELSE @]
  /\ slips' = IF Saving(call.id) THEN slips \cup {"unpushed"} ELSE slips
  /\ UNCHANGED <<jobs, App>>

Save == Calls("save") /\ jobs' = Append(jobs, Local("save", call.id)) /\ UNCHANGED <<objects, slips, App>>
DeleteObject ==
  Calls("delete") /\ jobs' = Append(jobs, Local("delete", call.id)) /\ UNCHANGED <<objects, slips, App>>

\* Account.delete() takes the XCAP manager away; the account leaves the AccountManager
\* when the file-io thread gets to it
DeleteAccount ==
  /\ Calls("delete account") /\ ~accounts[call.id].gone
  /\ accounts' = [accounts EXCEPT ![call.id].gone = TRUE]
  /\ jobs' = Append(jobs, Step("delete account", call.id))
  /\ UNCHANGED <<objects, slips, known, told, config, disk, work, scene>>

-----------------------------------------------------------------------------
(* The file-io thread.                                                     *)

Begins ==
  /\ work = <<>> /\ jobs # <<>>
  /\ work' = <<Head(jobs)>> /\ jobs' = Tail(jobs)
  /\ UNCHANGED <<objects, known, told, config, disk, accounts, script, scene, slips>>

Does(do) == work # <<>> /\ Head(work).do = do
step == Head(work)
Then(steps) == work' = steps \o Tail(work)
\* an exception ends the job: of what is left only transactions are closed
Aborted == work' = SelectSeq(Tail(work), LAMBDA s : s.do = "commit")
\* configuration.save() reaches the disk, or the backend fails
Flushed ==
  \/ disk' = config' /\ UNCHANGED scene
  \/ scene.troubles > 0 /\ scene' = [scene EXCEPT !.troubles = @ - 1] /\ UNCHANGED disk

\* with MultiAccountTransaction(these): an account without a manager makes it fail, and
\* the accounts before that one stay in the transaction
Enters(these, steps) ==
  IF Gone(these) = {} THEN accounts' = Levels(these, TRUE) /\ Then(steps \o <<Commit(these)>>) /\ UNCHANGED slips
  ELSE \E before \in SUBSET (these \ Gone(these)) :
         accounts' = Levels(before, TRUE) /\ Aborted /\ slips' = slips \cup {"gone"}
Commits ==
  /\ Does("commit")
  /\ IF Gone(step.these) = {} THEN accounts' = Levels(step.these, FALSE) /\ Then(<<>>) /\ UNCHANGED slips
     ELSE /\ \E before \in SUBSET (step.these \ Gone(step.these)) : accounts' = Levels(before, FALSE)
          /\ Aborted /\ slips' = slips \cup {"gone"}
  /\ UNCHANGED <<objects, known, told, config, disk, jobs, script, scene>>

\* _internal_save, up to get_modified()
Living(item) == [item EXCEPT !.items = [c \in {x \in DOMAIN @ : objects[x].state # "deleted"} |-> @[c]]]
Saves ==
  /\ Does("save")
  /\ LET id == step.id
         object == IF id \in Groups THEN [objects[id] EXCEPT !.now = Living(@)] ELSE objects[id]
     IN IF objects[id].state \in {"deleted", "absent"} THEN Then(<<>>) /\ UNCHANGED objects
        ELSE /\ objects' = [objects EXCEPT ![id] = Saved(object)]
             /\ IF Modified(object) = Unmodified /\ object.state # "new" THEN Then(<<>>)
                ELSE Then(<<[step EXCEPT !.do = "store", !.changes = Modified(object)]>>)
  /\ UNCHANGED <<known, told, config, disk, jobs, accounts, script, scene, slips>>

\* a group with a contact that was never saved has no XCAP form
Unsaved(id) == id \in Groups /\ \E c \in DOMAIN objects[id].now.items : objects[c].xcap = None
\* altered: the account that reported the change is told as well
AllOutOfSync(previous) == xcap_accounts
outofsync_accounts(previous) ==
  IF objects[step.id].now # previous THEN xcap_accounts
  ELSE IF step.account = None THEN {} ELSE xcap_accounts \ {step.account}
previous_xcap == IF step.account = None THEN objects[step.id].xcap ELSE step.item

StoresNew ==
  /\ Does("store") /\ objects[step.id].state = "new" /\ ~Unsaved(step.id)
  /\ LET id == step.id
         item == objects[id].now
         these == xcap_accounts \ {step.account}
     IN /\ objects' = [objects EXCEPT ![id].xcap = item, ![id].state = "active"]
        /\ config' = Update(config, id, item)
        /\ IF Gone(these) = {}
           THEN /\ accounts' = Told(these, <<OpAdd(id, item)>>)
                /\ known' = known \cup {id} /\ Flushed /\ Then(<<>>) /\ UNCHANGED slips
           ELSE /\ \E before \in SUBSET (these \ Gone(these)) : accounts' = Told(before, <<OpAdd(id, item)>>)
                /\ Aborted /\ slips' = slips \cup {"gone"} /\ UNCHANGED <<known, disk, scene>>
  /\ UNCHANGED <<told, jobs, script>>

StoresChanges ==
  /\ Does("store") /\ objects[step.id].state = "active" /\ ~Unsaved(step.id)
  /\ LET id == step.id
         item == objects[id].now
         these == outofsync_accounts(previous_xcap)
         \* what is changed, with the values of the object as it is now
         changes == [step.changes EXCEPT !.fields = Only(item.fields, DOMAIN @),
                                         !.added = Only(item.items, DOMAIN @),
                                         !.changed = Only(item.items, DOMAIN @)]
     IN /\ objects' = [objects EXCEPT ![id].xcap = item]
        /\ config' = Update(config, id, item)
        /\ IF Gone(these) = {}
           THEN accounts' = Told(these, <<OpChange(id, changes)>>) /\ Flushed /\ Then(<<>>) /\ UNCHANGED slips
           ELSE /\ \E before \in SUBSET (these \ Gone(these)) :
                     accounts' = IF id \in Policies THEN Told(before, <<OpChange(id, changes)>>) ELSE Levels(before, TRUE)
                /\ Aborted /\ slips' = slips \cup {"gone"} /\ UNCHANGED <<disk, scene>>
  /\ UNCHANGED <<known, told, jobs, script>>

StoreFails ==
  /\ Does("store") /\ Unsaved(step.id)
  /\ Aborted /\ slips' = slips \cup {"unsaved"}
  /\ UNCHANGED <<objects, known, told, config, disk, jobs, accounts, script, scene>>

\* _internal_delete; a contact is first taken out of the groups that hold it
Holders(id) == {g \in known \cap Groups : id \in DOMAIN objects[g].now.items}
InOrder(ids) == SetToSeq(ids)
Deletes ==
  /\ Does("delete")
  /\ LET id == step.id
     IN IF objects[id].state \in {"deleted", "absent"}
        THEN Then(<<>>) /\ UNCHANGED <<objects, config, accounts, slips>>
        ELSE /\ objects' = [x \in Ids |->
                              IF x = id THEN [objects[x] EXCEPT !.state = "deleted"]
                              ELSE IF id \in Contacts /\ x \in Holders(id)
                              THEN [objects[x] EXCEPT !.now.items = Without(@, {id})] ELSE objects[x]]
             /\ config' = Delete(config, id)
             /\ LET rest == [step EXCEPT !.do = "unlist"]
                    groups == InOrder(Holders(id))
                IN IF id \notin Contacts THEN Then(<<rest>>) /\ UNCHANGED <<accounts, slips>>
                   ELSE Enters(xcap_accounts, [i \in DOMAIN groups |-> Local("save", groups[i])] \o <<rest>>)
  /\ UNCHANGED <<known, told, disk, jobs, script, scene>>

\* AddressbookManager raises KeyError for an object that was never activated, which
\* the notification center swallows
Unlists ==
  /\ Does("unlist")
  /\ UNCHANGED <<objects, told, config, jobs, script>>
  /\ LET these == xcap_accounts \ {step.account}
         ops == IF objects[step.id].xcap = None THEN <<>> ELSE <<OpRemove(step.id)>>
     IN IF Gone(these) = {}
        THEN /\ accounts' = Told(these, ops) /\ known' = known \ {step.id}
             /\ Flushed /\ Then(<<>>) /\ UNCHANGED slips
        ELSE /\ \E before \in SUBSET (these \ Gone(these)) : accounts' = Told(before, ops)
             /\ Aborted /\ slips' = slips \cup {"gone"} /\ UNCHANGED <<known, disk, scene>>

-----------------------------------------------------------------------------
(* _NH_XCAPManagerDidReloadData: the book of one account is taken over.    *)

Ordered(book, kind, account) ==
  LET ids == InOrder(DOMAIN book \cap kind) IN [i \in DOMAIN ids |-> Remote("take", ids[i], account, book[ids[i]])]
Reloads ==
  /\ Does("reload")
  /\ IF step.item = told THEN Then(<<>>) /\ UNCHANGED <<told, accounts, slips>>
     ELSE /\ told' = step.item
          /\ LET Of(kind) == Ordered(step.item, kind, step.account)
             IN Enters(xcap_accounts, Of(Contacts) \o Of(Groups) \o Of(Policies) \o <<[step EXCEPT !.do = "prune"]>>)
  /\ UNCHANGED <<objects, known, config, disk, jobs, script, scene>>

\* the object takes the settings of the report.  An id cannot be used again while an
\* object that has it, or had it since it was last saved, is alive.
Taken(object, id) ==
  LET fields == step.item.fields
      items == IF id \in Groups THEN step.item.items
               ELSE Without(step.item.items, DOMAIN object.old.items \ DOMAIN object.now.items)
  IN [object EXCEPT !.now =
        [fields |-> IF id \in Contacts /\ fields["default"] \notin DOMAIN items THEN [fields EXCEPT !["default"] = None]
                    ELSE fields,
         items |-> items]]
\* a group whose contacts are not all there: KeyError, after some have been added
Half(object) ==
  \E added \in SUBSET (DOMAIN step.item.items \cap known) :
    objects' = [objects EXCEPT ![step.id].now = IF object.state = "absent" THEN @
                  ELSE [fields |-> step.item.fields, items |-> Over(@.items, Only(step.item.items, added))]]
Takes ==
  /\ Does("take")
  /\ LET id == step.id
         object == objects[id]
         saves == [step EXCEPT !.do = "save"]
         Fresh == [Absent(id) EXCEPT !.state = "new"]
         free == id \in known \/ object.state = "absent"
         complete == id \in Groups => DOMAIN step.item.items \subseteq DOMAIN object.now.items \cup known
     IN \/ /\ free /\ ~complete /\ Half(object)
           /\ Aborted /\ slips' = slips \cup {"held"}
        \/ /\ free /\ complete
           /\ objects' = [objects EXCEPT ![id] = Taken(IF object.state = "absent" THEN Fresh ELSE @, id)]
           /\ Then(<<saves>>)
           /\ slips' = IF Modified(object) = Unmodified THEN slips ELSE slips \cup {"overwritten"}
        \/ /\ ~free /\ Then(<<>>) /\ UNCHANGED objects /\ slips' = slips \cup {"held"}
  /\ UNCHANGED <<known, told, config, disk, jobs, accounts, script, scene>>

\* an object that was deleted and that nobody refers to any more frees its id
Collected ==
  /\ \E id \in Ids :
       /\ objects[id].state = "deleted" /\ id \notin known
       /\ \A i \in DOMAIN script : script[i].id # id
       /\ \A i \in DOMAIN work : work[i].do \in {"take", "prune", "commit"} \/ work[i].id # id
       /\ \A i \in DOMAIN jobs : jobs[i].do = "reload" \/ jobs[i].id # id
       /\ \A g \in Groups : id \notin DOMAIN objects[g].now.items \cup DOMAIN objects[g].old.items
       /\ objects' = [objects EXCEPT ![id] = Absent(id)]
  /\ UNCHANGED <<known, told, config, disk, jobs, work, accounts, script, scene, slips>>

\* altered: contacts that are not in the report stay
MissingButContacts(kind) ==
  LET ids == InOrder((known \cap (kind \ Contacts)) \ DOMAIN step.item)
  IN [i \in DOMAIN ids |-> Remote("delete", ids[i], step.account, None)]
\* policies, groups and contacts that are not in the report go, in this order
Missing(kind) ==
  LET ids == InOrder((known \cap kind) \ DOMAIN step.item)
  IN [i \in DOMAIN ids |-> Remote("delete", ids[i], step.account, None)]
\* the application has changed it since it was saved, or will still use it
InUse(id) ==
  \/ Modified(objects[id]) # Unmodified
  \/ \E i \in DOMAIN script : id \in {script[i].id, script[i].field}
  \/ \E i \in DOMAIN jobs : jobs[i].id = id
Prunes ==
  /\ Does("prune")
  /\ Then(Missing(Policies) \o Missing(Groups) \o Missing(Contacts))
  /\ slips' = IF \E id \in known \ DOMAIN step.item : InUse(id) THEN slips \cup {"overwritten"} ELSE slips
  /\ UNCHANGED <<objects, known, told, config, disk, jobs, accounts, script, scene>>

\* _NH_SIPAccountDidDiscoverXCAPSupport: the account is told everything
Introduces ==
  /\ Does("introduce")
  /\ LET Of(kind) == LET ids == InOrder(known \cap kind) IN [i \in DOMAIN ids |-> OpAdd(ids[i], objects[ids[i]].xcap)]
     IN IF accounts[step.id].gone THEN Aborted /\ UNCHANGED accounts
        ELSE /\ accounts' = Told({step.id}, Of(Contacts) \o Of(Groups) \o Of(Policies))
             /\ Then(<<>>)
  /\ UNCHANGED <<objects, known, told, config, disk, jobs, script, scene, slips>>

\* SettingsObject.delete of an account: the AccountManager drops it
DropsAccount ==
  /\ Does("delete account")
  /\ accounts' = [accounts EXCEPT ![step.id].discovered = FALSE] /\ Then(<<>>)
  /\ UNCHANGED <<objects, known, told, config, disk, jobs, script, scene, slips>>

-----------------------------------------------------------------------------
(* The XCAP managers and the world.                                        *)

Reporting(a) == accounts[a].discovered /\ ~accounts[a].gone
World == <<objects, known, told, config, disk, work, script>>

Discovers ==
  \E a \in Accounts :
    /\ a \in scene.discovers /\ ~accounts[a].discovered /\ ~accounts[a].gone
    /\ accounts' = [accounts EXCEPT ![a].discovered = TRUE]
    /\ jobs' = Append(jobs, Step("introduce", a))
    /\ UNCHANGED <<World, scene, slips>>

\* the journal is uploaded, or a change is fetched; then the book is reported
Exchanges ==
  \E a \in Accounts :
    /\ Reporting(a) /\ accounts[a].level = 0 /\ (accounts[a].journal # <<>> \/ accounts[a].news)
    /\ LET book == AllApplied(accounts[a].server, accounts[a].journal)
       IN /\ accounts' = [accounts EXCEPT ![a].server = book, ![a].journal = <<>>, ![a].news = FALSE]
          /\ jobs' = Append(jobs, Reload(a, book))
    /\ IF Cardinality(xcap_accounts) = 1 THEN UNCHANGED scene
       ELSE scene.rounds > 0 /\ scene' = [scene EXCEPT !.rounds = @ - 1]
    /\ UNCHANGED <<World, slips>>

OtherClient ==
  /\ scene.others # <<>>
  /\ LET a == Head(scene.others).account
     IN accounts' = [accounts EXCEPT ![a].server = Head(scene.others).book, ![a].news = TRUE]
  /\ scene' = [scene EXCEPT !.others = Tail(@)]
  /\ UNCHANGED <<World, jobs, slips>>

\* the application ends at any point and is started again: the backend and the journals
\* remain, and with them perhaps that the support of an account was discovered
Introducing(a) == \E i \in DOMAIN (work \o jobs) : (work \o jobs)[i] = Step("introduce", a)
Restarts ==
  /\ scene.troubles > 0 /\ scene' = [scene EXCEPT !.troubles = @ - 1]
  /\ objects' = Read(disk) /\ known' = DOMAIN disk /\ told' = None /\ config' = disk
  /\ jobs' = <<>> /\ work' = <<>>
  /\ \E forgotten \in SUBSET {a \in Accounts : Introducing(a)} :
       /\ accounts' = [a \in Accounts |->
                         [accounts[a] EXCEPT !.level = 0, !.news = TRUE,
                                             !.discovered = @ /\ ~(Introducing(a) /\ a \notin forgotten)]]
       /\ slips' = IF forgotten = {} THEN slips ELSE slips \cup {"forgotten"}
  /\ UNCHANGED <<disk, script>>

Works == \/ Begins \/ Commits \/ Saves \/ StoresNew \/ StoresChanges \/ StoreFails \/ Deletes \/ Unlists
         \/ Reloads \/ Takes \/ Prunes \/ Introduces \/ DropsAccount
Application == New \/ Edit \/ Save \/ DeleteObject \/ DeleteAccount
Next == Application \/ Works \/ Collected \/ Discovers \/ Exchanges \/ OtherClient \/ Restarts
Spec == Init /\ [][Next]_vars /\ WF_vars(Works) /\ WF_vars(Application) /\ WF_vars(Exchanges)
        /\ WF_vars(OtherClient) /\ WF_vars(Discovers) /\ WF_vars(Collected)

-----------------------------------------------------------------------------
\* nothing is left to be done
Quiet ==
  /\ script = <<>> /\ scene.others = <<>> /\ jobs = <<>> /\ work = <<>>
  /\ \A a \in Accounts : Reporting(a) => accounts[a].journal = <<>> /\ ~accounts[a].news

\* The objects, the local configuration and the servers of all accounts hold the same
\* address book when nothing is left to be done (_internal_save, _internal_delete and
\* _NH_XCAPManagerDidReloadData keep them together).
BooksAgree ==
  Quiet /\ slips = {} =>
    /\ known = DOMAIN config
    /\ \A id \in known : objects[id] = Object("active", config[id], config[id])
    /\ \A a \in Accounts : Reporting(a) => accounts[a].server = config

\* What the application has saved and nobody else has changed is kept, in whatever order
\* saves, uploads and reports of older books come (Contact.save, Group.save, Policy.save:
\* "into persistent storage (local and xcap)").
EditsArrive == Quiet /\ slips = {} /\ scene.expect # None => config = scene.expect

\* With one account the exchange comes to an end.
Settles == Cardinality(xcap_accounts) <= 1 ~> (Quiet \/ slips # {} \/ Cardinality(xcap_accounts) > 1)
=============================================================================
