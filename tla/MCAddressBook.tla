---------------------------- MODULE MCAddressBook ----------------------------
(***************************************************************************)
(* The scenes of AddressBook: two contacts, a group and a policy, two      *)
(* accounts, and the calls of the application in a fixed order.            *)
(***************************************************************************)
EXTENDS AddressBook

CONSTANTS c1, c2, g1, p1, a1, a2
MCContacts == {c1, c2}
MCGroups == {g1}
MCPolicies == {p1}
MCAccounts == {a1, a2}

Contact(name, policy, default, uris) ==
  [fields |-> [f \in {"name", "policy", "default"} |->
                 CASE f = "name" -> name [] f = "policy" -> policy [] f = "default" -> default],
   items |-> uris]
Group(name, members) == [fields |-> [f \in {"name"} |-> name], items |-> [c \in members |-> "member"]]
Policy(name, policy) == [fields |-> [f \in {"name", "policy"} |-> IF f = "name" THEN name ELSE policy], items |-> Nothing]

new(id) == [do |-> "new", id |-> id, field |-> None]
save(id) == [do |-> "save", id |-> id, field |-> None]
delete(id) == [do |-> "delete", id |-> id, field |-> None]
drop(a) == [do |-> "delete account", id |-> a, field |-> None]
set(id, field, value) == [do |-> "edit", id |-> id, how |-> "set", field |-> field, value |-> value]
add(id, x, value) == [do |-> "edit", id |-> id, how |-> "add", field |-> x, value |-> value]
remove(id, x) == [do |-> "edit", id |-> id, how |-> "remove", field |-> x, value |-> None]
undo(id) == [do |-> "edit", id |-> id, how |-> "undo", field |-> None, value |-> None]

OneURI == [u \in {"u1"} |-> 1]
Ann == Contact(1, 0, None, OneURI)
Only1(id, item) == Put(Nothing, id, item)
Two == Put(Only1(c1, Ann), g1, Group(1, {c1}))

Scene == [script |-> <<>>, others |-> <<>>, discovered |-> {a1}, discovers |-> {}, base |-> Nothing,
          servers |-> [a \in MCAccounts |-> Nothing], expect |-> None, troubles |-> 0, rounds |-> 4]
Servers(x, y) == [a \in MCAccounts |-> IF a = a1 THEN x ELSE y]
Theirs(a, book) == [account |-> a, book |-> book]

\* a contact is made, put into a group, edited twice in a row
Makes == [Scene EXCEPT
  !.script = <<new(c1), add(c1, "u1", 1), set(c1, "name", 1), save(c1), new(g1), add(g1, c1, "member"), save(g1),
               set(c1, "policy", 1), set(c1, "default", "u1"), save(c1)>>,
  !.expect = Put(Only1(c1, Contact(1, 1, "u1", OneURI)), g1, Group(0, {c1}))]
\* a URI and a contact go while reports are on their way
Removes == [Scene EXCEPT
  !.base = Two, !.servers = Servers(Two, Nothing), !.troubles = 0,
  !.script = <<set(c1, "default", "u1"), add(c1, "u2", 2), save(c1), remove(c1, "u1"), save(c1), delete(c1), new(p1),
               set(p1, "name", 1), save(p1)>>,
  !.expect = Put(Only1(g1, Group(1, {})), p1, Policy(1, 0))]
\* the other client changes the book while the application does
Both == [Scene EXCEPT
  !.base = Two, !.servers = Servers(Two, Nothing),
  !.others = <<Theirs(a1, Put(Put(Two, c2, Ann), g1, Group(1, {c1, c2}))), Theirs(a1, Only1(g1, Group(2, {})))>>,
  !.script = <<set(c1, "name", 2), save(c1), delete(g1)>>]
\* another account is discovered, with a book of its own
Second == [Scene EXCEPT
  !.discovers = {a2}, !.base = Only1(c1, Ann), !.servers = Servers(Only1(c1, Ann), Only1(p1, Policy(1, 1))),
  !.script = <<set(c1, "name", 2), save(c1)>>]
\* an account is deleted while the book is saved
Losing == [Scene EXCEPT
  !.discovered = {a1, a2}, !.base = Two, !.servers = Servers(Two, Two), !.rounds = 1,
  !.script = <<set(c1, "name", 2), save(c1), new(c2), save(c2), delete(c1), drop(a2)>>]
\* a group is saved before a contact in it
Early == [Scene EXCEPT
  !.base = Two, !.servers = Servers(Two, Two), !.script = <<new(c2), add(g1, c2, "member"), save(g1), save(c2), save(g1)>>]
\* no account supports XCAP
Alone == [Scene EXCEPT
  !.discovered = {}, !.base = Put(Two, c2, Ann),
  !.script = <<set(c2, "default", "u1"), save(c2), remove(c2, "u1"), save(c2), delete(c1)>>,
  !.expect = Put(Only1(c2, Contact(1, 0, None, Nothing)), g1, Group(1, {}))]
\* an account is discovered and deleted
Brief == [Scene EXCEPT !.base = Two, !.servers = Servers(Two, Nothing), !.discovers = {a2}, !.rounds = 1,
                       !.script = <<set(c1, "name", 2), save(c1), drop(a2)>>]
\* crashes and a backend that fails
Crashing == [Scene EXCEPT
  !.base = Only1(c1, Ann), !.servers = Servers(Only1(c1, Ann), Nothing), !.troubles = 2,
  !.script = <<set(c1, "name", 2), save(c1), new(c2), save(c2), set(c2, "name", 1), undo(c2), delete(c1)>>]

MCScenes == {Makes, Removes, Both, Second, Losing, Early, Brief, Alone, Crashing}
=============================================================================
