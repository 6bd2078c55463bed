---------------------------- MODULE AccountManager ----------------------------
(***************************************************************************)
(* AccountManager (account/__init__.py): the accounts by their id and the  *)
(* default account, kept up to date from the notifications of the          *)
(* configuration.                                                          *)
(*                                                                         *)
(* The application's threads change the settings of the accounts; the      *)
(* file-io thread saves them, one job after another, and runs the handlers *)
(* of the manager as it does.                                              *)
(***************************************************************************)
EXTENDS Naturals, Sequences, FiniteSets

CONSTANTS Nil,          \* None
          Objects, Ids,
          MaxEdits      \* bound: what the application does

\* what stands for None is no account, no id and nothing that is saved of an account
NilIsNil == Nil \notin Objects /\ Nil \notin Ids /\ Nil \notin [id : Ids, on : BOOLEAN]
ASSUME ManagerAssumption == NilIsNil

VARIABLES
  id, on,          \* of each account object: its id and whether it is enabled
  saved,           \* what was last saved of it, or Nil
  accounts,        \* AccountManager.accounts
  default_account, \* settings.default_account
  jobs,            \* of the file-io thread
  setting,         \* the account a thread is making the default, after it looked whether it is enabled
  edits,
  misses           \* ways of getting out of step that this behaviour took
managerVars == <<id, on, saved, accounts, default_account, jobs, setting, edits, misses>>

Job(op, object) == [op |-> op, object |-> object]
Stored(object) == [id |-> id[object], on |-> on[object]]
Exists(object) == id[object] # Nil
Enabled(known) == {object \in Objects : on[object] /\ \E i \in Ids : known[i] = object}
At(i, known) == IF i = Nil THEN Nil ELSE known[i]
\* _get_default_account
Default == At(default_account, accounts)

Misses(name, missed) == misses' = IF missed THEN misses \cup {name} ELSE misses
\* load: an account that is enabled, unless the default account is
Loads(known, chosen) ==
  IF At(chosen, known) \in Enabled(known) THEN {chosen}
  ELSE IF Enabled(known) = {} THEN {IF At(chosen, known) = Nil THEN chosen ELSE Nil}
  ELSE {i \in Ids : known[i] \in Enabled(known)}
ManagerInit ==
  /\ id \in [Objects -> Ids \cup {Nil}]
  /\ \A a, b \in Objects : a # b /\ id[a] = id[b] => id[a] = Nil
  /\ on \in [Objects -> BOOLEAN] /\ \A object \in Objects : on[object] => Exists(object)
  /\ saved = [object \in Objects |-> IF Exists(object) THEN Stored(object) ELSE Nil]
  /\ accounts = [i \in Ids |-> IF \E object \in Objects : id[object] = i
                               THEN CHOOSE object \in Objects : id[object] = i ELSE Nil]
  /\ \E chosen \in Ids \cup {Nil} : default_account \in Loads(accounts, chosen)
  /\ jobs = <<>> /\ setting = Nil /\ edits = 0 /\ misses = {}

-----------------------------------------------------------------------------
(* The application.                                                        *)

Acts == edits < MaxEdits /\ edits' = edits + 1
Free(i) == \A object \in Objects : id[object] # i /\ (saved[object] = Nil \/ saved[object].id # i)
Saves(object) == jobs' = Append(jobs, Job("save", object))
\* a new account, enabled or not
Creates(object) ==
  /\ Acts /\ ~Exists(object) /\ saved[object] = Nil
  /\ \E i \in {j \in Ids : Free(j)}, enabled \in BOOLEAN :
       id' = [id EXCEPT ![object] = i] /\ on' = [on EXCEPT ![object] = enabled]
  /\ Saves(object)
  /\ UNCHANGED <<saved, accounts, default_account, setting, misses>>
\* a change, saved at once or with the next
Edits(object) ==
  /\ Acts /\ Exists(object)
  /\ \/ on' = [on EXCEPT ![object] = ~@] /\ UNCHANGED id
     \/ \E i \in {j \in Ids : Free(j)} : id' = [id EXCEPT ![object] = i] /\ UNCHANGED on
  /\ Saves(object) \/ UNCHANGED jobs
  /\ UNCHANGED <<saved, accounts, default_account, setting, misses>>
DeletesAccount(object) ==
  /\ Acts /\ Exists(object) /\ jobs' = Append(jobs, Job("delete", object))
  /\ UNCHANGED <<id, on, saved, accounts, default_account, setting, misses>>
\* _set_default_account, up to the lock
Chooses ==
  /\ Acts /\ setting = Nil
  /\ \E object \in {a \in Objects : Exists(a) /\ saved[a] # Nil /\ on[a]} : setting' = object
  /\ UNCHANGED <<id, on, saved, accounts, default_account, jobs, misses>>
ChoosesNone ==
  /\ Acts /\ Default # Nil /\ default_account' = Nil /\ misses' = misses \cup {"cleared"}
  /\ UNCHANGED <<id, on, saved, accounts, jobs, setting>>
\* ... and with it: the id is written and saved unless it is the default account already
Sets ==
  /\ setting # Nil /\ setting' = Nil
  /\ IF setting = Default \/ ~Exists(setting) THEN UNCHANGED default_account ELSE default_account' = id[setting]
  /\ Misses("raced", ~Exists(setting) \/ ~on[setting] \/ Stored(setting) # saved[setting])
  /\ UNCHANGED <<id, on, saved, accounts, jobs, edits>>

-----------------------------------------------------------------------------
(* The handlers, in the file-io thread.                                    *)

\* an account that is enabled is the default one when there is none
Adopts(object, known) == IF on[object] /\ At(default_account, known) = Nil THEN {id[object]} ELSE {default_account}
\* another one takes the place of a default account that is disabled
Replaces(object, known) ==
  IF on[object] \/ At(default_account, known) # object THEN {default_account}
  ELSE IF Enabled(known) = {} THEN {Nil} ELSE {id[other] : other \in Enabled(known)}

\* the settings may name a default account that does not exist; an account that gets its id
\* is the default one, enabled or not
Takes(object) == Default = Nil /\ default_account = id[object]
\* _NH_CFGSettingsObjectWasActivated, _NH_CFGSettingsObjectWasCreated
WasCreated(object) ==
  /\ accounts' = [accounts EXCEPT ![id[object]] = object]
  /\ default_account' \in Adopts(object, accounts') /\ Misses("dangling", Takes(object))
\* _NH_CFGSettingsObjectDidChange; an account that is disabled stays the default one in the first form
DidChangeOnly(object) ==
  LET old == saved[object].id IN
  /\ accounts' = IF old # id[object] THEN [accounts EXCEPT ![old] = Nil, ![id[object]] = accounts[old]] ELSE accounts
  /\ default_account' \in Adopts(object, accounts') /\ Misses("renamed", old # id[object])
DidChange(object) ==
  LET old == saved[object].id
      renamed == old # id[object]
      moved == IF renamed THEN [accounts EXCEPT ![old] = Nil, ![id[object]] = accounts[old]] ELSE accounts
  IN /\ accounts' = moved
     /\ IF saved[object].on = on[object] THEN UNCHANGED default_account
        ELSE default_account' \in IF on[object] THEN Adopts(object, moved) ELSE Replaces(object, moved)
     /\ IF renamed /\ default_account = old THEN Misses("renamed", TRUE)
        ELSE IF renamed /\ Takes(object) THEN Misses("dangling", TRUE)
        ELSE Misses("unsaved", default_account # default_account' /\ \E other \in Objects \ {object} :
                                 Exists(other) /\ Stored(other) # saved[other])
SaveJob(object) ==
  /\ IF ~Exists(object) THEN UNCHANGED <<saved, accounts, default_account, misses>>
     ELSE /\ saved' = [saved EXCEPT ![object] = Stored(object)]
          /\ IF saved[object] = Nil THEN WasCreated(object) ELSE DidChange(object)
  /\ UNCHANGED <<id, on>>
\* _NH_CFGSettingsObjectWasDeleted: the account is looked for under the id it has, which
\* need not be the one that was saved
DeleteJob(object) ==
  IF ~Exists(object) THEN UNCHANGED <<id, on, saved, accounts, default_account, misses>>
  ELSE /\ id' = [id EXCEPT ![object] = Nil] /\ on' = [on EXCEPT ![object] = FALSE]
       /\ saved' = [saved EXCEPT ![object] = Nil] /\ UNCHANGED default_account
       /\ IF accounts[id[object]] = Nil
          THEN Misses("misplaced", TRUE) /\ UNCHANGED accounts
          ELSE /\ accounts' = [accounts EXCEPT ![id[object]] = Nil]
               /\ Misses("deleted", Default = object)
FileIO ==
  /\ jobs # <<>> /\ jobs' = Tail(jobs)
  /\ LET job == Head(jobs) IN IF job.op = "save" THEN SaveJob(job.object) ELSE DeleteJob(job.object)
  /\ UNCHANGED <<setting, edits>>

ManagerNext ==
  \/ \E object \in Objects : Creates(object) \/ Edits(object) \/ DeletesAccount(object)
  \/ Chooses \/ ChoosesNone \/ Sets \/ FileIO

-----------------------------------------------------------------------------
AllSaved == jobs = <<>> /\ setting = Nil /\ \A a \in Objects : Exists(a) => saved[a] = Stored(a)
\* Once everything is saved every account is found under its id, and the default account
\* is one that is enabled if there is any (the manager's _NH_CFGSettingsObject... handlers).
AccountsAsConfigured ==
  AllSaved /\ misses = {} =>
    /\ \A i \in Ids : accounts[i] = IF \E a \in Objects : id[a] = i THEN CHOOSE a \in Objects : id[a] = i ELSE Nil
    /\ IF Enabled(accounts) = {} THEN Default = Nil ELSE Default \in Enabled(accounts)
=============================================================================
