---------------------------- MODULE Configuration ----------------------------
(***************************************************************************)
(* configuration/__init__.py: objects whose settings have a present and a  *)
(* saved value, and ConfigurationManager.data, the tree that is written to *)
(* the backend as a whole.                                                 *)
(*                                                                         *)
(* An item is what __getstate__ returns: the fields of an object and the   *)
(* members of its collection (ItemCollection, ContactList), by id.  An     *)
(* object is the item as it is now and as it was when get_modified() was   *)
(* last called; a setting is dirty when the two differ.                    *)
(***************************************************************************)
EXTENDS Naturals, FiniteSets, Sequences, SequencesExt

CONSTANT None   \* None, and DefaultValue for a setting that is not set

Put(f, id, value) == [x \in DOMAIN f \cup {id} |-> IF x = id THEN value ELSE f[x]]
Without(f, ids) == [x \in DOMAIN f \ ids |-> f[x]]
Only(f, ids) == [x \in DOMAIN f \cap ids |-> f[x]]
Over(f, g) == [x \in DOMAIN f \cup DOMAIN g |-> IF x \in DOMAIN f THEN f[x] ELSE g[x]]
Nothing == [x \in {} |-> x]

-----------------------------------------------------------------------------
(* Settings.                                                               *)

Assigned(object, field, value) == [object EXCEPT !.now.fields[field] = value]
Undone(object) == [object EXCEPT !.now = object.old]
Loaded(item) == [now |-> item, old |-> item]

Differ(f, g) == {x \in DOMAIN f \cap DOMAIN g : f[x] # g[x]}
Modified(object) ==
  [fields |-> Only(object.now.fields, Differ(object.now.fields, object.old.fields)),
   added |-> Without(object.now.items, DOMAIN object.old.items),
   removed |-> DOMAIN object.old.items \ DOMAIN object.now.items,
   changed |-> Only(object.now.items, Differ(object.now.items, object.old.items))]
Unmodified == [fields |-> Nothing, added |-> Nothing, removed |-> {}, changed |-> Nothing]
\* get_modified() makes the present values the saved ones
Saved(object) == [object EXCEPT !.old = object.now]

-----------------------------------------------------------------------------
(* The tree.  A key is persistent: an object without settings stays in it. *)

Update(data, key, item) == Put(data, key, item)
Delete(data, key) == Without(data, {key})
=============================================================================
