--------------------------- MODULE MCXCAPManager ---------------------------
(* Instances of XCAPManager: one account, two contacts, one group, one     *)
(* policy and two addresses, and menus in which the application and the    *)
(* other client do not change the same thing.                              *)
EXTENDS XCAPManager, TLC

One(key, value) == [k \in {key} |-> value]
NewContact(uri, policy) ==
  [k \in {"uris", "presence.policy", "presence.subscribe", "dialog.policy", "dialog.subscribe"} |->
     CASE k = "uris" -> One("home", uri) [] k = "presence.policy" -> policy
       [] k = "presence.subscribe" -> TRUE [] k = "dialog.policy" -> "default" [] OTHER -> FALSE]
NewPolicy(uri, policy) ==
  [k \in {"uri", "presence.policy", "presence.subscribe", "dialog.policy", "dialog.subscribe"} |->
     CASE k = "uri" -> uri [] k = "presence.policy" -> policy [] k = "dialog.policy" -> policy [] OTHER -> FALSE]

Op(name, id) == [name |-> name, id |-> id]
WithItem(name, id, item) == [name |-> name, id |-> id, item |-> item]
AddAlice == WithItem("AddContact", "alice", NewContact("a", "allow"))
BlockAlice == [name |-> "UpdateContact", id |-> "alice", attributes |-> One("presence.policy", "block")]
AddTwin == WithItem("AddContact", "twin", NewContact("a", "block"))
AddStray == WithItem("AddGroup", "strays", [contacts |-> {"nobody"}])
Value(name, value) == [name |-> name, value |-> value]
Default(name, policy) == [name |-> name, policy |-> policy]

URIOp(name, slot, uri) == [name |-> name, id |-> "alice", slot |-> slot, uri |-> uri]
Member(name) == [name |-> name, id |-> "friends", contact |-> "bob"]
NoMembers == [contacts |-> {}, title |-> "friends"]

Nothing == [n \in Documents |-> None]
\* a server that another program has used: an address book without the lists that follow
\* from it, rules that are not the library's, an icon that is not one
Used == [Nothing EXCEPT
  !["resource-lists"] = [EmptyBook EXCEPT !.contacts = One("bob", NewContact("b", "block")),
                                          !.groups = One("work", [contacts |-> {"bob", "nobody"}, title |-> "work"])],
  !["pres-rules"] = One("unlisted", [handling |-> {"allow", "confirm"}, ours |-> FALSE]),
  !["status-icon"] = "spoilt"]

Least == {"resource-lists", "rls-services", "pres-rules"}
Menu(supported, base, ours, theirs, calls, troubles) ==
  [supported |-> supported, base |-> base, ours |-> ours, theirs |-> theirs, calls |-> calls, troubles |-> troubles]
MCMenus == {
  Menu(Least, Nothing, {AddAlice, BlockAlice}, {AddTwin}, 1, 1),
  Menu(Least, Nothing, {AddAlice}, {AddTwin}, 2, 0),
  Menu(Least, Used, {Default("SetDefaultPresencePolicy", "allow")}, {}, 2, 1),
  Menu(Least, Used, {}, {AddStray}, 3, 0),
  Menu(Least, Used, {URIOp("AddContactURI", "work", "w"), AddAlice, URIOp("RemoveContactURI", "home", "a")}, {}, 1, 0),
  Menu(Least, Nothing, {URIOp("UpdateContactURI", "home", "h"), AddAlice, Op("RemoveContact", "alice")}, {}, 1, 0),
  Menu(Least, Used, {WithItem("AddGroup", "friends", NoMembers), Member("AddGroupMember"), Member("RemoveGroupMember")}, {}, 1, 0),
  Menu(Least, Used, {[name |-> "UpdateGroup", id |-> "work", attributes |-> One("title", "job")], Op("RemoveGroup", "work")},
       {AddTwin}, 1, 0),
  Menu(Least, Nothing, {WithItem("AddPolicy", "rule", NewPolicy("a", "block")), Op("RemovePolicy", "rule"),
                        [name |-> "UpdatePolicy", id |-> "rule", attributes |-> One("dialog.policy", "allow")]}, {}, 1, 0),
  Menu(Documents, Nothing, {Value("SetStatusIcon", "icon"), Value("SetOfflineStatus", "away"),
                            Default("SetDefaultDialogPolicy", "allow")}, {}, 1, 0),
  Menu(Least \cup {"status-icon"}, Used, {Default("SetDefaultDialogPolicy", "block")}, {Value("SetStatusIcon", None)}, 1, 1) }
=============================================================================
