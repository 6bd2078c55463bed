---------------------------- MODULE XCAPContents ----------------------------
(***************************************************************************)
(* What account/xcap/__init__.py does to the documents it keeps: the       *)
(* operation handlers, _OH_..., the normalisation that follows a fetch, the*)
(* consolidation before an upload and what is told to the application.     *)
(*                                                                         *)
(* A document that is kept locally is a record of its content, what of it  *)
(* has changed since it was last exchanged (dirty) and, for the resource   *)
(* lists, the contacts and policies that have (touched).  Items have the   *)
(* attributes of the source under its own keys, so that an update of some  *)
(* attributes is written as a function over their names.                   *)
(***************************************************************************)
EXTENDS Naturals, FiniteSets, Sequences, SequencesExt

CONSTANTS None          \* content of a document that does not exist

Events == {"presence", "dialog"}
Key(event, field) ==
  IF event = "presence" THEN (IF field = "policy" THEN "presence.policy" ELSE "presence.subscribe")
                        ELSE (IF field = "policy" THEN "dialog.policy" ELSE "dialog.subscribe")

Without(f, ids) == [x \in DOMAIN f \ ids |-> f[x]]
Put(f, id, value) == [x \in DOMAIN f \cup {id} |-> IF x = id THEN value ELSE f[x]]
Changed(item, attributes) == [k \in DOMAIN item |-> IF k \in DOMAIN attributes THEN attributes[k] ELSE item[k]]

NoLists == [e \in Events |-> {}]
NoItems == [x \in {} |-> x]
EmptyBook == [contacts |-> NoItems, groups |-> NoItems, policies |-> NoItems,
              granted |-> NoLists, blocked |-> NoLists, rls |-> NoLists]

-----------------------------------------------------------------------------
(* The address book in the resource lists.  d: [content, dirty, touched]   *)

Edited(d, book, touched) ==
  [d EXCEPT !.content = book, !.dirty = @ \/ book # d.content, !.touched = touched]
Stays(d) == d

\* a contact or policy is stored; one that is equal to the old one does not count as a change
AddItem(d, kind, id, item) ==
  IF id \in DOMAIN d.content[kind] /\ d.content[kind][id] = item THEN Stays(d)
  ELSE Edited(d, [d.content EXCEPT ![kind] = Put(@, id, item)], d.touched \cup {id})
UpdateItem(d, kind, id, attributes) ==
  IF id \notin DOMAIN d.content[kind] THEN Stays(d)
  ELSE AddItem(d, kind, id, Changed(d.content[kind][id], attributes))

AddContact(d, op) == AddItem(d, "contacts", op.id, op.item)
UpdateContact(d, op) == UpdateItem(d, "contacts", op.id, op.attributes)
RemoveContact(d, op) ==
  Edited(d, [d.content EXCEPT !.groups = [g \in DOMAIN @ |-> [@[g] EXCEPT !.contacts = @ \ {op.id}]],
                              !.contacts = Without(@, {op.id})], d.touched \ {op.id})

WithURIs(d, id, uris) == UpdateItem(d, "contacts", id, [k \in {"uris"} |-> uris])
URIsOf(d, id) == d.content.contacts[id]["uris"]
AddContactURI(d, op) ==
  IF op.id \notin DOMAIN d.content.contacts THEN Stays(d)
  ELSE WithURIs(d, op.id, Put(URIsOf(d, op.id), op.slot, op.uri))
UpdateContactURI(d, op) ==
  IF op.id \notin DOMAIN d.content.contacts \/ op.slot \notin DOMAIN URIsOf(d, op.id) THEN Stays(d)
  ELSE WithURIs(d, op.id, Put(URIsOf(d, op.id), op.slot, op.uri))
RemoveContactURI(d, op) ==
  IF op.id \notin DOMAIN d.content.contacts THEN Stays(d)
  ELSE WithURIs(d, op.id, Without(URIsOf(d, op.id), {op.slot}))

WithGroup(d, id, group) == Edited(d, [d.content EXCEPT !.groups = Put(@, id, group)], d.touched)
AddGroup(d, op) == WithGroup(d, op.id, op.item)
UpdateGroup(d, op) ==
  IF op.id \notin DOMAIN d.content.groups THEN Stays(d)
  ELSE WithGroup(d, op.id, Changed(d.content.groups[op.id], op.attributes))
RemoveGroup(d, op) == Edited(d, [d.content EXCEPT !.groups = Without(@, {op.id})], d.touched)
AddGroupMember(d, op) ==
  IF op.id \notin DOMAIN d.content.groups THEN Stays(d)
  ELSE WithGroup(d, op.id, [d.content.groups[op.id] EXCEPT !.contacts = @ \cup {op.contact}])
RemoveGroupMember(d, op) ==
  IF op.id \notin DOMAIN d.content.groups THEN Stays(d)
  ELSE WithGroup(d, op.id, [d.content.groups[op.id] EXCEPT !.contacts = @ \ {op.contact}])

AddPolicy(d, op) == AddItem(d, "policies", op.id, op.item)
UpdatePolicy(d, op) == UpdateItem(d, "policies", op.id, op.attributes)
RemovePolicy(d, op) == Edited(d, [d.content EXCEPT !.policies = Without(@, {op.id})], d.touched \ {op.id})

-----------------------------------------------------------------------------
(* What follows from the contacts and policies: whom the server lets       *)
(* subscribe, whom it does not, and to whom it subscribes for the account. *)

URIs(contact) == {contact["uris"][s] : s \in DOMAIN contact["uris"]}
ContactURIs(book, key, value) ==
  UNION {URIs(book.contacts[c]) : c \in {x \in DOMAIN book.contacts : book.contacts[x][key] = value}}
PolicyURIs(book, key, value) ==
  {book.policies[p]["uri"] : p \in {x \in DOMAIN book.policies : book.policies[x][key] = value}}

\* altered: a contact's block does not take away what another allows
ListsUnchecked(book) ==
  LET all == UNION {URIs(book.contacts[c]) : c \in DOMAIN book.contacts}
      OfContacts(e, f, v) == ContactURIs(book, Key(e, f), v)
      OfPolicies(e, f, v) == PolicyURIs(book, Key(e, f), v)
  IN [granted |-> [e \in Events |-> OfContacts(e, "policy", "allow")
                     \cup ((OfPolicies(e, "policy", "allow") \ OfPolicies(e, "policy", "block")) \ all)],
      blocked |-> [e \in Events |-> OfContacts(e, "policy", "block") \cup (OfPolicies(e, "policy", "block") \ all)],
      rls |-> [e \in Events |-> OfContacts(e, "subscribe", TRUE) \cup (OfPolicies(e, "subscribe", TRUE) \ all)]]

Lists(book) ==
  LET all == UNION {URIs(book.contacts[c]) : c \in DOMAIN book.contacts}
      OfContacts(e, f, v) == ContactURIs(book, Key(e, f), v)
      OfPolicies(e, f, v) == PolicyURIs(book, Key(e, f), v)
  IN [granted |-> [e \in Events |-> (OfContacts(e, "policy", "allow") \ OfContacts(e, "policy", "block"))
                     \cup ((OfPolicies(e, "policy", "allow") \ OfPolicies(e, "policy", "block")) \ all)],
      blocked |-> [e \in Events |-> OfContacts(e, "policy", "block") \cup (OfPolicies(e, "policy", "block") \ all)],
      rls |-> [e \in Events |-> OfContacts(e, "subscribe", TRUE) \cup (OfPolicies(e, "subscribe", TRUE) \ all)]]

NoStrays(book) ==
  [book EXCEPT !.groups = [g \in DOMAIN @ |-> [@[g] EXCEPT !.contacts = @ \cap DOMAIN book.contacts]]]
WithLists(book) ==
  LET lists == Lists(book)
  IN [book EXCEPT !.granted = lists.granted, !.blocked = lists.blocked, !.rls = lists.rls]

\* before an upload the lists are computed again, but only if a contact or a policy
\* that is still there has changed
Consolidated(d) ==
  IF d.content = None THEN d
  ELSE LET clean == NoStrays(d.content)
       IN Edited(d, IF d.touched # {} THEN WithLists(clean) ELSE clean, d.touched)

NormalLists(d) ==
  LET book == IF d.content = None THEN EmptyBook ELSE d.content
  IN Edited(d, WithLists(NoStrays(book)), d.touched)

-----------------------------------------------------------------------------
(* Who may subscribe: rules by name, each with the handlings it gives and  *)
(* whether its conditions and transformations are the library's own.       *)

Priority == [h \in {"block", "confirm", "polite-block", "allow"} |->
               CASE h = "block" -> 0 [] h = "confirm" -> 1 [] h = "polite-block" -> 2 [] h = "allow" -> 3]
Rule(handling) == [handling |-> {handling}, ours |-> TRUE]

\* fix_subhandling and the conditions: the strongest handling stays if the rule may have it
Fixed(rule, valid) ==
  LET strongest == CHOOSE h \in rule.handling : \A g \in rule.handling : Priority[g] <= Priority[h]
      kept == IF rule.handling = {} THEN "block" ELSE strongest
  IN Rule(IF kept \in Range(valid) THEN kept ELSE valid[1])

Valid == [granted |-> <<"allow">>, blocked |-> <<"polite-block">>,
          unlisted |-> <<"confirm", "block", "polite-block">>, allow_unlisted |-> <<"allow">>,
          block_anonymous |-> <<"block", "polite-block">>, allow_own |-> <<"allow">>]

NormalRules(rules) ==
  LET old == IF rules = None THEN NoItems ELSE rules
      unlisted == IF "allow_unlisted" \in DOMAIN old /\ "unlisted" \notin DOMAIN old
                  THEN "allow_unlisted" ELSE "unlisted"
      known == (DOMAIN Valid \ {"unlisted", "allow_unlisted"}) \cup {unlisted}
  IN [name \in known |-> IF name \in DOMAIN old THEN Fixed(old[name], Valid[name]) ELSE Rule(Valid[name][1])]

WithContent(d, content) == [d EXCEPT !.content = content, !.dirty = @ \/ content # d.content]
NormalServices(d) == WithContent(d, [e \in Events |-> "ours"])
NormalRulesDocument(d) == WithContent(d, NormalRules(d.content))
NormalIcon(d) == IF d.content = "spoilt" THEN [d EXCEPT !.content = None, !.dirty = TRUE] ELSE d

SetDefaultPolicy(d, op) ==
  LET rule == IF op.policy = "allow" THEN "allow_unlisted" ELSE "unlisted"
      other == IF op.policy = "allow" THEN "unlisted" ELSE "allow_unlisted"
  IN IF other \in DOMAIN d.content
     THEN WithContent(d, Put(Without(d.content, {other}), rule, Rule(op.policy)))
     ELSE IF rule \in DOMAIN d.content
          THEN WithContent(d, [d.content EXCEPT ![rule].handling = {op.policy}])
          ELSE d

-----------------------------------------------------------------------------
(* The icon and the offline status are documents with a single value.      *)

SetStatusIcon(d, op) ==
  IF op.value = None THEN [d EXCEPT !.dirty = d.content # None, !.content = None]
  ELSE WithContent(d, op.value)
SetOfflineStatus(d, op) == IF op.value = d.content THEN d ELSE [d EXCEPT !.content = op.value, !.dirty = TRUE]

-----------------------------------------------------------------------------
(* The handler of an operation, on the function of all documents.          *)

Documents == {"resource-lists", "rls-services", "pres-rules", "dialog-rules", "pidf-manipulation", "status-icon"}

Normalize(docs, supported) ==
  [n \in Documents |->
     CASE n = "resource-lists" -> NormalLists(docs[n])
       [] n = "rls-services" -> NormalServices(docs[n])
       [] n = "pres-rules" -> NormalRulesDocument(docs[n])
       [] n = "dialog-rules" /\ n \in supported -> NormalRulesDocument(docs[n])
       [] n = "status-icon" /\ n \in supported -> NormalIcon(docs[n])
       [] OTHER -> docs[n]]

OnAddressbook(d, op) ==
  CASE op.name = "AddContact" -> AddContact(d, op)
    [] op.name = "UpdateContact" -> UpdateContact(d, op)
    [] op.name = "RemoveContact" -> RemoveContact(d, op)
    [] op.name = "AddContactURI" -> AddContactURI(d, op)
    [] op.name = "UpdateContactURI" -> UpdateContactURI(d, op)
    [] op.name = "RemoveContactURI" -> RemoveContactURI(d, op)
    [] op.name = "AddGroup" -> AddGroup(d, op)
    [] op.name = "UpdateGroup" -> UpdateGroup(d, op)
    [] op.name = "RemoveGroup" -> RemoveGroup(d, op)
    [] op.name = "AddGroupMember" -> AddGroupMember(d, op)
    [] op.name = "RemoveGroupMember" -> RemoveGroupMember(d, op)
    [] op.name = "AddPolicy" -> AddPolicy(d, op)
    [] op.name = "UpdatePolicy" -> UpdatePolicy(d, op)
    [] op.name = "RemovePolicy" -> RemovePolicy(d, op)

\* an operation on a document that the server does not support, or on a rules document
\* that does not exist (its handler raises), changes nothing
Apply(docs, supported, op) ==
  CASE op.name = "Normalize" -> Normalize(docs, supported)
    [] op.name = "SetDefaultPresencePolicy" ->
         IF docs["pres-rules"].content = None THEN docs
         ELSE [docs EXCEPT !["pres-rules"] = SetDefaultPolicy(@, op)]
    [] op.name = "SetDefaultDialogPolicy" ->
         IF "dialog-rules" \notin supported \/ docs["dialog-rules"].content = None THEN docs
         ELSE [docs EXCEPT !["dialog-rules"] = SetDefaultPolicy(@, op)]
    [] op.name = "SetStatusIcon" ->
         IF "status-icon" \notin supported THEN docs ELSE [docs EXCEPT !["status-icon"] = SetStatusIcon(@, op)]
    [] op.name = "SetOfflineStatus" ->
         IF "pidf-manipulation" \notin supported THEN docs
         ELSE [docs EXCEPT !["pidf-manipulation"] = SetOfflineStatus(@, op)]
    [] OTHER ->
         IF docs["resource-lists"].content = None THEN docs
         ELSE [docs EXCEPT !["resource-lists"] = OnAddressbook(@, op)]
ApplyAll(docs, supported, ops) == FoldLeft(LAMBDA d, op : Apply(d, supported, op), docs, ops)

\* what _load_data tells the application
DefaultPolicy(rules) ==
  LET rule == IF "unlisted" \in DOMAIN rules THEN rules["unlisted"] ELSE rules["allow_unlisted"]
  IN CHOOSE h \in rule.handling : TRUE
LoadData(docs, supported) ==
  [contacts |-> docs["resource-lists"].content.contacts, groups |-> docs["resource-lists"].content.groups,
   policies |-> docs["resource-lists"].content.policies,
   presence |-> DefaultPolicy(docs["pres-rules"].content),
   dialog |-> IF "dialog-rules" \in supported THEN DefaultPolicy(docs["dialog-rules"].content) ELSE None,
   icon |-> IF "status-icon" \in supported THEN docs["status-icon"].content ELSE None,
   status |-> IF "pidf-manipulation" \in supported THEN docs["pidf-manipulation"].content ELSE None]
=============================================================================
