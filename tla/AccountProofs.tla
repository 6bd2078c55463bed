---------------------------- MODULE AccountProofs ----------------------------
(***************************************************************************)
(* The account manager and the accounts, whatever is done to their         *)
(* settings and however often: the accounts and the default account are as *)
(* configured once everything is saved; an account with its publisher or   *)
(* its subscriber is as its settings want it when it is at rest; a gap in  *)
(* what it was notified of is repaired; what is published and what is      *)
(* subscribed to is as the settings and the state want; and the Bonjour    *)
(* account is registered as its settings say and shows who is there.       *)
(*                                                                         *)
(* AccountsAsConfigured compares the manager with the settings, but the    *)
(* manager only hears of what was saved.  So the invariant compares it     *)
(* with what was last saved of each account (Indexed and Chosen), and says *)
(* that the ids tell the accounts apart, those in the settings and those   *)
(* that were saved (Distinct).                                             *)
(*                                                                         *)
(* ActiveAsEnabled says nothing while something is on its way, so the      *)
(* invariant says what is known then.  Stopping: a handler that is being   *)
(* stopped has its terminate command last, and one that is not has none.   *)
(* Following: the last of those that wait for the activation lock leads to *)
(* where the settings point, unless a change of them is still to come.     *)
(* Configured: the same of the handler.  Every step of a handler is one of *)
(* three (HandlerStep), as far as the account is concerned.                *)
(*                                                                         *)
(* GapIsRepaired needs two facts more: a view is only kept by a green      *)
(* thread that has a subscription (ViewHeld), which forgets it when it     *)
(* ends, and a version is a number (ViewTyped).                            *)
(*                                                                         *)
(* RequestedAsWanted speaks of an account at rest too.  Of a publisher:    *)
(* the last of its commands that changes something is for what is asked    *)
(* for, and without one what _run is doing, or has done, leads there       *)
(* (Leading), for which it must be known what _run still hears of the      *)
(* requests it sent (Answering) and what it holds then (Holding).  Of a    *)
(* subscriber: the last command, or what is under way, is what was asked   *)
(* for (Aimed), and the end of a subscription that its green thread        *)
(* believes in is still to be heard (Announced, Ordered).                  *)
(*                                                                         *)
(* ThereAsSet, of the Bonjour account, holds when nothing is under way.    *)
(* Before that its invariant says what is still to come: where the turns   *)
(* lead (Turning); that a stop command is the only one and that its answer *)
(* leaves nothing (Ending); that a file which is active is in the results  *)
(* that wait or are under way (Selected); that a timer that has fired and  *)
(* an unregister command are followed by what they are for (Sent); that    *)
(* an account that stays active has, or will be told to get, what its      *)
(* settings ask for (Watching); and that what was seen and what is shown   *)
(* is being resolved, or is there (Resolved).                              *)
(***************************************************************************)
EXTENDS MCAccounts, SequenceFacts

(***************************************************************************)
(* The manager.                                                            *)
(***************************************************************************)
ManagerSpec == ManagerInit /\ [][ManagerNext]_managerVars

SettingsOK ==
  /\ id \in [Objects -> Ids \cup {Nil}]
  /\ on \in [Objects -> BOOLEAN]
  /\ saved \in [Objects -> [id : Ids, on : BOOLEAN] \cup {Nil}]
  /\ \A o \in Objects : on[o] \/ saved[o] # Nil => id[o] # Nil
ManagerOK ==
  /\ accounts \in [Ids -> Objects \cup {Nil}]
  /\ default_account \in Ids \cup {Nil}
  /\ jobs \in Seq([op : {"save", "delete"}, object : Objects])
  /\ setting \in Objects \cup {Nil}
Distinct ==
  \A a, b \in Objects : a # b =>
    /\ id[a] = id[b] => id[a] = Nil
    /\ saved[b] # Nil => id[a] # saved[b].id
    /\ saved[a] # Nil /\ saved[b] # Nil => saved[a].id # saved[b].id

SavedAs(o, i) == saved[o] # Nil /\ saved[o].id = i
Indexed == \A i \in Ids, o \in Objects : accounts[i] = o <=> SavedAs(o, i)
SavedOn == {o \in Objects : saved[o] # Nil /\ saved[o].on}
Chosen == IF SavedOn = {} THEN Default = Nil ELSE Default \in SavedOn
InStep == misses = {} => Indexed /\ Chosen
AccountsInv == SettingsOK /\ ManagerOK /\ Distinct /\ InStep

-----------------------------------------------------------------------------
\* Whom a manager that is in step finds under an id.
LEMMA FoundUnderId ==
  ASSUME NilIsNil, SettingsOK, ManagerOK, Indexed, NEW o \in Objects, saved[o] # Nil
  PROVE  saved[o].id \in Ids /\ accounts[saved[o].id] = o
  BY DEF NilIsNil, SettingsOK, Indexed, SavedAs

\* The manager starts in step with what is saved (load).
LEMMA StartsInStep == ASSUME NilIsNil, ManagerInit PROVE AccountsInv
<1> USE DEF ManagerInit
<1>1. SettingsOK BY DEF NilIsNil, SettingsOK, Exists, Stored
<1>2. Distinct BY DEF Distinct, NilIsNil, Exists, Stored
<1>3. accounts \in [Ids -> Objects \cup {Nil}] OBVIOUS
<1>4. Indexed
  <2> SUFFICES ASSUME NEW i \in Ids, NEW o \in Objects PROVE accounts[i] = o <=> SavedAs(o, i) BY DEF Indexed
  <2>1. SavedAs(o, i) <=> id[o] = i BY DEF SavedAs, NilIsNil, Exists, Stored
  <2>2. accounts[i] = IF \E a \in Objects : id[a] = i THEN CHOOSE a \in Objects : id[a] = i ELSE Nil OBVIOUS
  <2>3. id[o] = i => accounts[i] = o BY <2>2 DEF NilIsNil
  <2>4. accounts[i] = o => id[o] = i BY <2>2 DEF NilIsNil
  <2> QED BY <2>1, <2>3, <2>4
<1>5. default_account \in Ids \cup {Nil} BY <1>3 DEF Loads
<1>6. SavedOn = Enabled(accounts)
  BY <1>4 DEF SavedOn, Enabled, Indexed, SavedAs, Exists, Stored, NilIsNil
<1>7. Enabled(accounts) \subseteq Objects BY DEF Enabled
<1>8. Chosen
  <2>1. PICK chosen \in Ids \cup {Nil} : default_account \in Loads(accounts, chosen) OBVIOUS
  <2>2. CASE At(chosen, accounts) \in Enabled(accounts) BY <2>1, <2>2, <1>6 DEF Loads, Chosen, Default
  <2>3. CASE Enabled(accounts) = {} BY <2>1, <2>3, <1>6 DEF Loads, Chosen, Default, At
  <2>4. CASE At(chosen, accounts) \notin Enabled(accounts) /\ Enabled(accounts) # {}
    <3>1. PICK i \in Ids : default_account = i /\ accounts[i] \in Enabled(accounts) BY <2>1, <2>4 DEF Loads
    <3>2. Default = accounts[i] BY <3>1 DEF Default, At, NilIsNil
    <3> QED BY <3>1, <3>2, <1>6 DEF Chosen
  <2> QED BY <2>2, <2>3, <2>4
<1> QED BY <1>1, <1>2, <1>3, <1>4, <1>5, <1>8 DEF AccountsInv, ManagerOK, InStep

-----------------------------------------------------------------------------
\* An account that is saved: its id and whether it is enabled are known from then on.
LEMMA SavedKeepsSettings ==
  ASSUME NilIsNil, AccountsInv, NEW object \in Objects, Exists(object), UNCHANGED <<id, on>>,
         saved' = [saved EXCEPT ![object] = Stored(object)]
  PROVE  /\ SettingsOK' /\ Distinct'
         /\ saved'[object] = Stored(object) /\ saved'[object] # Nil
         /\ \A o \in Objects \ {object} : saved'[o] = saved[o]
<1> USE DEF AccountsInv, SettingsOK, Exists, Stored
<1>1. Stored(object) \in [id : Ids, on : BOOLEAN] OBVIOUS
<1>2. saved'[object] = Stored(object) /\ saved'[object] # Nil BY <1>1 DEF NilIsNil
<1>3. \A o \in Objects \ {object} : saved'[o] = saved[o] OBVIOUS
<1>4. SettingsOK' BY <1>1
<1>5. Distinct' BY <1>2, <1>3, <1>1 DEF Distinct, NilIsNil
<1> QED BY <1>2, <1>3, <1>4, <1>5

\* WasCreated: the account is added, and adopted when there is no default account.
LEMMA CreatedKeeps ==
  ASSUME NilIsNil, AccountsInv, NEW object \in Objects, Exists(object), UNCHANGED <<id, on>>,
         saved' = [saved EXCEPT ![object] = Stored(object)], saved[object] = Nil, WasCreated(object)
  PROVE  /\ accounts' \in [Ids -> Objects \cup {Nil}] /\ default_account' \in Ids \cup {Nil}
         /\ InStep'
<1> USE DEF WasCreated
<1>a. /\ id[object] \in Ids /\ id[object] # Nil /\ on[object] \in BOOLEAN
  BY DEF AccountsInv, SettingsOK, Exists, NilIsNil
<1>b. /\ saved'[object] = Stored(object) /\ saved'[object] # Nil
      /\ \A o \in Objects \ {object} : saved'[o] = saved[o]
  BY SavedKeepsSettings
<1>1. accounts' \in [Ids -> Objects \cup {Nil}] BY <1>a DEF AccountsInv, ManagerOK
<1>2. default_account' \in Ids \cup {Nil} BY <1>a DEF AccountsInv, ManagerOK, Adopts
<1>3. ASSUME misses' = {} PROVE Indexed' /\ Chosen'
  <2>1. misses = {} /\ ~Takes(object) BY <1>3 DEF Misses
  <2>2. Indexed /\ Chosen BY <2>1 DEF AccountsInv, InStep
  <2>3. Indexed'
    <3> SUFFICES ASSUME NEW i \in Ids, NEW o \in Objects PROVE accounts'[i] = o <=> SavedAs(o, i)' BY DEF Indexed
    <3>1. CASE o = object
      <4>1. SavedAs(o, i)' <=> i = id[object] BY <1>b, <3>1 DEF SavedAs, Stored
      <4>2. i # id[object] => accounts'[i] = accounts[i] BY <1>a DEF AccountsInv, ManagerOK
      <4>3. accounts[i] # object BY <2>2 DEF Indexed, SavedAs
      <4> QED BY <3>1, <4>1, <4>2, <4>3, <1>a DEF AccountsInv, ManagerOK
    <3>2. CASE o # object
      <4>1. SavedAs(o, i)' <=> SavedAs(o, i) BY <1>b, <3>2 DEF SavedAs
      <4>2. CASE i = id[object]
        <5>1. ~SavedAs(o, i) BY <3>2, <4>2 DEF AccountsInv, Distinct, SavedAs
        <5> QED BY <5>1, <4>1, <4>2, <3>2, <1>a DEF AccountsInv, ManagerOK
      <4>3. CASE i # id[object]
        <5>1. accounts'[i] = accounts[i] BY <1>a, <4>3 DEF AccountsInv, ManagerOK
        <5> QED BY <5>1, <4>1, <2>2 DEF Indexed
      <4> QED BY <4>2, <4>3
    <3> QED BY <3>1, <3>2
  <2>4. SavedOn' = IF on[object] THEN SavedOn \cup {object} ELSE SavedOn
    BY <1>a, <1>b DEF SavedOn, Stored
  <2>a. accounts \in [Ids -> Objects \cup {Nil}] /\ default_account \in Ids \cup {Nil}
    BY DEF AccountsInv, ManagerOK
  <2>b. accounts[id[object]] = Nil
    <3>1. \A o \in Objects : ~SavedAs(o, id[object]) BY DEF SavedAs, AccountsInv, Distinct
    <3> QED BY <3>1, <2>2, <2>a, <1>a DEF Indexed
  <2>c. default_account # id[object] BY <2>1, <2>b, <1>a DEF Takes, Default, At
  <2>5. At(default_account, accounts') = Default BY <2>a, <2>c, <1>a DEF At, Default
  <2>6. CASE on[object] /\ Default = Nil
    <3>1. default_account' = id[object] BY <2>5, <2>6 DEF Adopts
    <3>2. Default' = object BY <3>1, <1>a DEF Default, At, AccountsInv, ManagerOK
    <3> QED BY <3>2, <2>3, <2>4, <2>6 DEF Chosen
  <2>7. CASE ~(on[object] /\ Default = Nil)
    <3>1. default_account' = default_account BY <2>5, <2>7 DEF Adopts
    <3>2. Default' = Default BY <3>1, <2>5 DEF Default, At
    <3> QED BY <3>2, <2>2, <2>3, <2>4, <2>7, <1>a DEF Chosen
  <2> QED BY <2>6, <2>7
<1> QED BY <1>1, <1>2, <1>3 DEF InStep

\* DidChange: the account moves to its id; the default account changes when it is disabled, or when
\* the account is enabled and there is none.
LEMMA ChangedKeeps ==
  ASSUME NilIsNil, AccountsInv, NEW object \in Objects, Exists(object), UNCHANGED <<id, on>>,
         saved' = [saved EXCEPT ![object] = Stored(object)], saved[object] # Nil, DidChange(object)
  PROVE  /\ accounts' \in [Ids -> Objects \cup {Nil}] /\ default_account' \in Ids \cup {Nil}
         /\ InStep'
<1> DEFINE old == saved[object].id
           new == id[object]
           moved == IF old # new THEN [accounts EXCEPT ![old] = Nil, ![new] = accounts[old]] ELSE accounts
<1>a. /\ new \in Ids /\ new # Nil /\ on[object] \in BOOLEAN /\ old \in Ids /\ saved[object].on \in BOOLEAN
  BY DEF AccountsInv, SettingsOK, Exists, NilIsNil
<1>b. /\ saved'[object] = Stored(object) /\ saved'[object] # Nil
      /\ \A o \in Objects \ {object} : saved'[o] = saved[o]
  BY SavedKeepsSettings
<1>c. accounts' = moved BY DEF DidChange
<1>d. /\ accounts \in [Ids -> Objects \cup {Nil}] /\ default_account \in Ids \cup {Nil} BY DEF AccountsInv, ManagerOK
<1>e. saved[object].on # on[object] =>
        default_account' \in IF on[object] THEN Adopts(object, moved) ELSE Replaces(object, moved)
  BY DEF DidChange
<1>f. saved[object].on = on[object] => default_account' = default_account BY DEF DidChange
<1>1. accounts' \in [Ids -> Objects \cup {Nil}] BY <1>a, <1>c, <1>d
<1>2. default_account' \in Ids \cup {Nil}
  <2>1. Adopts(object, moved) \subseteq Ids \cup {Nil} BY <1>a, <1>d DEF Adopts
  <2>2. \A o \in Enabled(moved) : id[o] \in Ids BY DEF Enabled, AccountsInv, SettingsOK
  <2>3. Replaces(object, moved) \subseteq Ids \cup {Nil} BY <2>2, <1>d DEF Replaces
  <2> QED BY <2>1, <2>3, <1>d, <1>e, <1>f
<1>3. ASSUME misses' = {} PROVE Indexed' /\ Chosen'
  <2> HIDE DEF old, new, moved
  <2>1. /\ misses = {} /\ ~(old # new /\ default_account = old) /\ ~(old # new /\ Takes(object))
        /\ default_account # default_account' =>
             \A other \in Objects \ {object} : Exists(other) => Stored(other) = saved[other]
    BY <1>3 DEF DidChange, Misses, old, new
  <2>2. Indexed /\ Chosen BY <2>1 DEF AccountsInv, InStep
  <2>3. accounts[old] = object BY <2>2, FoundUnderId DEF AccountsInv, old
  <2>4. \A i \in Ids : moved[i] = IF i = new THEN object ELSE IF i = old THEN Nil ELSE accounts[i]
    BY <2>3, <1>a, <1>d DEF moved
  <2>5. Indexed'
    <3> SUFFICES ASSUME NEW i \in Ids, NEW o \in Objects PROVE accounts'[i] = o <=> SavedAs(o, i)' BY DEF Indexed
    <3>1. CASE o = object
      <4>1. SavedAs(o, i)' <=> i = new BY <1>b, <3>1 DEF SavedAs, Stored, new
      <4>2. accounts[i] = object => i = old BY <2>2 DEF Indexed, SavedAs, old
      <4> QED BY <3>1, <4>1, <4>2, <1>c, <2>4 DEF NilIsNil
    <3>2. CASE o # object
      <4>1. SavedAs(o, i)' <=> SavedAs(o, i) BY <1>b, <3>2 DEF SavedAs
      <4>2. SavedAs(o, i) => i # new BY <3>2 DEF AccountsInv, Distinct, SavedAs, new
      <4>3. SavedAs(o, i) => i # old BY <3>2 DEF AccountsInv, Distinct, SavedAs, old
      <4> QED BY <3>2, <4>1, <4>2, <4>3, <1>c, <2>2, <2>4 DEF Indexed, NilIsNil
    <3> QED BY <3>1, <3>2
  <2>6. SavedOn' = IF on[object] THEN SavedOn \cup {object} ELSE SavedOn \ {object}
    BY <1>a, <1>b DEF SavedOn, Stored
  <2>7. At(default_account, moved) = Default
    <3>1. CASE default_account = Nil BY <3>1 DEF At, Default
    <3>2. CASE default_account = new /\ old # new
      <4>1. Default # Nil BY <3>2, <2>1 DEF Takes, new
      <4>2. Default = accounts[new] BY <3>2, <1>a DEF Default, At
      <4>3. Default \in Objects BY <4>1, <4>2, <1>a, <1>d
      <4>4. SavedAs(Default, new) BY <4>2, <4>3, <1>a, <2>2 DEF Indexed
      <4>5. Default = object BY <4>3, <4>4 DEF AccountsInv, Distinct, SavedAs, new
      <4>6. new = old BY <4>4, <4>5 DEF SavedAs, old
      <4> QED BY <3>2, <4>6
    <3>3. CASE default_account # Nil /\ ~(default_account = new /\ old # new)
      <4>1. default_account # old \/ old = new BY <2>1
      <4> QED BY <3>3, <4>1, <1>d, <2>3, <2>4 DEF At, Default
    <3> QED BY <3>1, <3>2, <3>3
  <2>8. CASE default_account' = default_account
    <3>1. Default' = Default BY <2>7, <2>8, <1>c DEF Default, At
    <3>2. CASE SavedOn' = SavedOn BY <3>1, <3>2, <2>2, <2>5 DEF Chosen
    <3>3. CASE on[object] /\ object \notin SavedOn
      <4>1. saved[object].on # on[object] BY <3>3 DEF SavedOn
      <4>2. Default # Nil \/ id[object] = default_account
        BY <4>1, <1>e, <2>7, <2>8, <3>3 DEF Adopts
      <4>3. id[object] = default_account => Default = object
        BY <2>4, <2>7, <1>a DEF At, new
      <4>4. Default \in SavedOn' BY <3>3, <4>2, <4>3, <2>2, <2>6 DEF Chosen
      <4> QED BY <3>1, <4>4, <2>5 DEF Chosen
    <3>4. CASE ~on[object] /\ object \in SavedOn
      <4>1. saved[object].on # on[object] BY <3>4 DEF SavedOn
      <4>2. Default \in SavedOn BY <2>2, <3>4 DEF Chosen
      <4>3. Default # object
        <5> SUFFICES ASSUME Default = object PROVE FALSE OBVIOUS
        <5>1. default_account' \in Replaces(object, moved) BY <4>1, <1>e, <3>4
        <5>2. default_account = new BY <2>4, <2>7, <1>d, <2>2 DEF At, Default, Indexed, SavedAs, old, NilIsNil
        <5>3. Enabled(moved) # {} BY <5>1, <5>2, <1>a, <2>7, <2>8, <3>4 DEF Replaces
        <5>4. PICK other \in Enabled(moved) : default_account' = id[other]
          BY <5>1, <5>3, <2>7, <3>4 DEF Replaces
        <5>5. other # object /\ other \in Objects /\ on[other] BY <5>4, <3>4 DEF Enabled
        <5>6. id[other] # new BY <5>5, <1>a DEF AccountsInv, Distinct, new
        <5> QED BY <5>2, <5>4, <5>6, <2>8
      <4>4. Default \in SavedOn' BY <3>4, <4>2, <4>3, <2>6
      <4> QED BY <3>1, <4>4, <2>5 DEF Chosen
    <3> QED BY <3>2, <3>3, <3>4, <2>6, <1>a
  <2>9. CASE default_account' # default_account
    <3>1. saved[object].on # on[object] BY <2>9, <1>f
    <3>2. CASE on[object]
      <4>1. default_account' = new BY <3>1, <3>2, <1>e, <2>9 DEF Adopts, new
      <4>2. Default' = object BY <4>1, <1>a, <1>c, <2>4 DEF Default, At
      <4> QED BY <3>2, <4>2, <2>5, <2>6 DEF Chosen
    <3>3. CASE ~on[object]
      <4>1. default_account' \in Replaces(object, moved) BY <3>1, <3>3, <1>e
      <4>2. At(default_account, moved) = object BY <4>1, <2>9, <3>3 DEF Replaces
      <4>3. \A other \in Objects \ {object} : Exists(other) => Stored(other) = saved[other] BY <2>1, <2>9
      <4>4. Enabled(moved) = SavedOn'
        <5>1. ASSUME NEW o \in Objects, o # object PROVE o \in Enabled(moved) <=> o \in SavedOn
          <6>1. o \in Enabled(moved) => on[o] /\ Exists(o) BY DEF Enabled, AccountsInv, SettingsOK, Exists
          <6>2. o \in SavedOn => Exists(o) /\ saved[o] # Nil BY DEF SavedOn, AccountsInv, SettingsOK, Exists
          <6>3. Exists(o) => Stored(o) = saved[o] BY <4>3, <5>1
          <6>4. o \in Enabled(moved) => o \in SavedOn
            <7>1. Exists(o) => Stored(o) \in [id : Ids, on : BOOLEAN]
              BY DEF Stored, Exists, AccountsInv, SettingsOK
            <7> QED BY <7>1, <6>1, <6>3 DEF SavedOn, Stored, NilIsNil
          <6>5. ASSUME o \in SavedOn PROVE o \in Enabled(moved)
            <7>1. on[o] /\ saved[o].id = id[o] BY <6>5, <6>2, <6>3 DEF SavedOn, Stored
            <7>2. id[o] \in Ids /\ accounts[id[o]] = o BY <7>1, <6>2, <6>5, <2>2, FoundUnderId DEF AccountsInv
            <7>3. id[o] # new BY <7>2, <5>1 DEF AccountsInv, Distinct, new, NilIsNil
            <7>4. id[o] # old BY <7>2, <5>1, <2>3
            <7>5. moved[id[o]] = o BY <7>2, <7>3, <7>4, <2>4
            <7> QED BY <7>1, <7>2, <7>5 DEF Enabled
          <6> QED BY <6>4, <6>5
        <5>2. object \notin Enabled(moved) BY <3>3 DEF Enabled
        <5>3. Enabled(moved) \subseteq Objects /\ SavedOn \subseteq Objects BY DEF Enabled, SavedOn
        <5> QED BY <5>1, <5>2, <5>3, <2>6, <3>3
      <4>5. CASE Enabled(moved) = {}
        <5>1. default_account' = Nil BY <4>1, <4>2, <4>5, <3>3 DEF Replaces
        <5> QED BY <5>1, <4>4, <4>5, <2>5 DEF Chosen, Default, At
      <4>6. CASE Enabled(moved) # {}
        <5>1. PICK other \in Enabled(moved) : default_account' = id[other] BY <4>1, <4>2, <4>6, <3>3 DEF Replaces
        <5>2. other \in Objects /\ Exists(other) /\ other # object
          BY <3>3 DEF Enabled, AccountsInv, SettingsOK, Exists
        <5>3. id[other] \in Ids /\ id[other] # Nil BY <5>2 DEF Exists, AccountsInv, SettingsOK
        <5>4. saved'[other] = Stored(other) BY <5>2, <4>3, <1>b
        <5>5. SavedAs(other, id[other])' BY <5>1, <4>4, <5>4 DEF SavedAs, SavedOn, Stored
        <5>6. accounts'[id[other]] = other BY <5>2, <5>3, <5>5, <2>5 DEF Indexed
        <5>7. Default' = other BY <5>1, <5>3, <5>6 DEF Default, At
        <5> QED BY <5>1, <5>7, <4>4, <4>6, <2>5 DEF Chosen
      <4> QED BY <4>5, <4>6
    <3> QED BY <3>2, <3>3, <1>a
  <2> QED BY <2>5, <2>8, <2>9
<1> QED BY <1>1, <1>2, <1>3 DEF InStep

\* A DeleteJob that finds the account: it is the one of that id, and no longer known.
LEMMA DeletedKeeps ==
  ASSUME NilIsNil, AccountsInv, NEW object \in Objects, DeleteJob(object)
  PROVE  /\ SettingsOK' /\ Distinct'
         /\ accounts' \in [Ids -> Objects \cup {Nil}] /\ default_account' \in Ids \cup {Nil}
         /\ InStep'
<1>a. /\ accounts \in [Ids -> Objects \cup {Nil}] /\ default_account \in Ids \cup {Nil} BY DEF AccountsInv, ManagerOK
<1>1. CASE ~Exists(object)
  BY <1>1, <1>a DEF DeleteJob, AccountsInv, SettingsOK, Distinct, InStep, Indexed, SavedAs, Chosen, SavedOn, Default, At
<1>2. CASE Exists(object)
  <2>1. /\ id' = [id EXCEPT ![object] = Nil] /\ on' = [on EXCEPT ![object] = FALSE]
        /\ saved' = [saved EXCEPT ![object] = Nil] /\ default_account' = default_account
    BY <1>2 DEF DeleteJob
  <2>2. /\ id'[object] = Nil /\ ~on'[object] /\ saved'[object] = Nil
        /\ \A o \in Objects \ {object} : id'[o] = id[o] /\ on'[o] = on[o] /\ saved'[o] = saved[o]
    BY <2>1 DEF AccountsInv, SettingsOK
  <2>3. SettingsOK' BY <2>1, <2>2 DEF AccountsInv, SettingsOK
  <2>4. Distinct'
    <3> SUFFICES ASSUME NEW a \in Objects, NEW b \in Objects, a # b
                 PROVE  /\ id'[a] = id'[b] => id'[a] = Nil
                        /\ saved'[b] # Nil => id'[a] # saved'[b].id
                        /\ saved'[a] # Nil /\ saved'[b] # Nil => saved'[a].id # saved'[b].id
      BY DEF Distinct
    <3>1. saved[b] # Nil => saved[b].id \in Ids BY DEF AccountsInv, SettingsOK
    <3> QED BY <2>2, <3>1 DEF AccountsInv, Distinct, NilIsNil
  <2>5. id[object] \in Ids BY <1>2 DEF Exists, AccountsInv, SettingsOK
  <2>6. CASE accounts[id[object]] = Nil
    <3>1. misses' # {} /\ accounts' = accounts BY <1>2, <2>6 DEF DeleteJob, Misses
    <3> QED BY <3>1, <2>1, <2>3, <2>4, <1>a DEF InStep
  <2>7. CASE accounts[id[object]] # Nil
    <3>1. accounts' = [accounts EXCEPT ![id[object]] = Nil] BY <1>2, <2>7 DEF DeleteJob
    <3>2. accounts' \in [Ids -> Objects \cup {Nil}] BY <3>1, <1>a
    <3>3. ASSUME misses' = {} PROVE Indexed' /\ Chosen'
      <4>1. misses = {} /\ Default # object BY <1>2, <2>7, <3>3 DEF DeleteJob, Misses
      <4>2. Indexed /\ Chosen BY <4>1 DEF AccountsInv, InStep
      <4>3. saved[object] # Nil /\ saved[object].id = id[object]
        <5>1. accounts[id[object]] \in Objects BY <2>5, <2>7, <1>a
        <5>2. SavedAs(accounts[id[object]], id[object]) BY <5>1, <2>5, <4>2 DEF Indexed
        <5>3. accounts[id[object]] = object BY <5>1, <5>2 DEF AccountsInv, Distinct, SavedAs
        <5> QED BY <5>2, <5>3 DEF SavedAs
      <4>4. Indexed'
        <5> SUFFICES ASSUME NEW i \in Ids, NEW o \in Objects PROVE accounts'[i] = o <=> SavedAs(o, i)' BY DEF Indexed
        <5>1. accounts'[i] = IF i = id[object] THEN Nil ELSE accounts[i] BY <3>1, <2>5, <1>a
        <5>2. CASE o = object
          <6>1. ~SavedAs(o, i)' BY <2>2, <5>2 DEF SavedAs
          <6>2. accounts[i] = object => i = id[object] BY <4>2, <4>3 DEF Indexed, SavedAs
          <6> QED BY <5>1, <5>2, <6>1, <6>2 DEF NilIsNil
        <5>3. CASE o # object
          <6>1. SavedAs(o, i)' <=> SavedAs(o, i) BY <2>2, <5>3 DEF SavedAs
          <6>2. SavedAs(o, i) => i # id[object] BY <5>3, <4>3 DEF AccountsInv, Distinct, SavedAs
          <6> QED BY <5>1, <6>1, <6>2, <4>2 DEF Indexed, NilIsNil
        <5> QED BY <5>2, <5>3
      <4>5. SavedOn' = SavedOn \ {object} BY <2>2 DEF SavedOn
      <4>6. Default' = Default
        <5>1. CASE default_account = Nil BY <5>1, <2>1 DEF Default, At
        <5>2. CASE default_account = id[object]
          <6>1. Default = object BY <5>2, <2>5, <4>3, <4>2, FoundUnderId DEF AccountsInv, Default, At, NilIsNil
          <6> QED BY <6>1, <4>1
        <5>3. CASE default_account # Nil /\ default_account # id[object]
          BY <5>3, <2>1, <3>1, <2>5, <1>a DEF Default, At
        <5> QED BY <5>1, <5>2, <5>3
      <4>7. Default \in SavedOn => Default \in SavedOn' BY <4>1, <4>5
      <4>8. Chosen' BY <4>2, <4>5, <4>6, <4>7 DEF Chosen
      <4> QED BY <4>4, <4>8
    <3> QED BY <3>2, <3>3, <2>1, <2>3, <2>4, <1>a DEF InStep
  <2> QED BY <2>6, <2>7
<1> QED BY <1>1, <1>2

-----------------------------------------------------------------------------
\* What the application does to settings that are not saved changes nothing for the manager.
LEMMA UnsavedKeepsStep ==
  ASSUME AccountsInv, UNCHANGED <<saved, accounts, default_account, misses>> PROVE InStep'
  BY DEF AccountsInv, InStep, Indexed, SavedAs, Chosen, SavedOn, Default, At

\* What a queue holds comes out of it.
LEMMA FirstOf == ASSUME NEW J, NEW s \in Seq(J), s # <<>> PROVE Head(s) \in J
  OBVIOUS

\* Every step of the application and of the file-io thread keeps the invariant.
LEMMA AccountsStep == ASSUME NilIsNil, AccountsInv, [ManagerNext]_managerVars PROVE AccountsInv'
<1>a. ASSUME NEW op \in {"save", "delete"}, NEW object \in Objects
      PROVE  Append(jobs, Job(op, object)) \in Seq([op : {"save", "delete"}, object : Objects])
  <2>1. Job(op, object) \in [op : {"save", "delete"}, object : Objects] BY DEF Job
  <2> QED BY <2>1 DEF AccountsInv, ManagerOK
<1>1. ASSUME NEW object \in Objects, Creates(object) PROVE AccountsInv'
  <2>1. PICK i \in {j \in Ids : Free(j)}, isOn \in BOOLEAN :
             id' = [id EXCEPT ![object] = i] /\ on' = [on EXCEPT ![object] = isOn]
    BY <1>1 DEF Creates
  <2>2. saved' = saved /\ UNCHANGED <<accounts, default_account, setting, misses>> BY <1>1 DEF Creates
  <2>3. i \in Ids /\ Free(i) OBVIOUS
  <2>4. SettingsOK' BY <2>1, <2>2, <2>3 DEF AccountsInv, SettingsOK, NilIsNil
  <2>5. Distinct' BY <2>1, <2>2, <2>3, <1>1 DEF AccountsInv, Distinct, Free, Creates, SettingsOK
  <2>6. ManagerOK' BY <1>1, <1>a, <2>2 DEF AccountsInv, ManagerOK, Creates, Saves
  <2> QED BY <2>2, <2>4, <2>5, <2>6, UnsavedKeepsStep DEF AccountsInv
<1>2. ASSUME NEW object \in Objects, Edits(object) PROVE AccountsInv'
  <2>1. saved' = saved /\ UNCHANGED <<accounts, default_account, setting, misses>> BY <1>2 DEF Edits
  <2>2. ManagerOK' BY <1>2, <1>a, <2>1 DEF AccountsInv, ManagerOK, Edits, Saves
  <2>3. CASE on' = [on EXCEPT ![object] = ~@] /\ UNCHANGED id
    <3>1. SettingsOK' BY <1>2, <2>1, <2>3 DEF AccountsInv, SettingsOK, Edits, Exists
    <3>2. Distinct' BY <2>1, <2>3 DEF AccountsInv, Distinct
    <3> QED BY <3>1, <3>2, <2>1, <2>2, UnsavedKeepsStep DEF AccountsInv
  <2>4. ASSUME NEW i \in Ids, Free(i), id' = [id EXCEPT ![object] = i], UNCHANGED on PROVE AccountsInv'
    <3>1. SettingsOK' BY <2>1, <2>4 DEF AccountsInv, SettingsOK, NilIsNil
    <3>2. Distinct' BY <2>1, <2>4 DEF AccountsInv, Distinct, Free, SettingsOK
    <3> QED BY <3>1, <3>2, <2>1, <2>2, UnsavedKeepsStep DEF AccountsInv
  <2> QED BY <1>2, <2>3, <2>4 DEF Edits
<1>3. ASSUME NEW object \in Objects, DeletesAccount(object) PROVE AccountsInv'
  <2>1. ManagerOK' BY <1>3, <1>a DEF AccountsInv, ManagerOK, DeletesAccount
  <2>2. SettingsOK' /\ Distinct' BY <1>3 DEF AccountsInv, SettingsOK, Distinct, DeletesAccount
  <2> QED BY <1>3, <2>1, <2>2, UnsavedKeepsStep DEF AccountsInv, DeletesAccount
<1>4. CASE Chooses
  <2>1. ManagerOK' BY <1>4 DEF AccountsInv, ManagerOK, Chooses
  <2>2. SettingsOK' /\ Distinct' BY <1>4 DEF AccountsInv, SettingsOK, Distinct, Chooses
  <2> QED BY <1>4, <2>1, <2>2, UnsavedKeepsStep DEF AccountsInv, Chooses
<1>5. CASE ChoosesNone
  <2>1. ManagerOK' BY <1>5 DEF AccountsInv, ManagerOK, ChoosesNone
  <2>2. SettingsOK' /\ Distinct' BY <1>5 DEF AccountsInv, SettingsOK, Distinct, ChoosesNone
  <2> QED BY <1>5, <2>1, <2>2 DEF AccountsInv, InStep, ChoosesNone
<1>6. CASE Sets
  <2>1. /\ setting \in Objects /\ setting' = Nil
        /\ UNCHANGED <<id, on, saved, accounts, jobs>>
    BY <1>6 DEF Sets, AccountsInv, ManagerOK
  <2>2. default_account' = default_account \/ (Exists(setting) /\ default_account' = id[setting])
    BY <1>6 DEF Sets, Exists
  <2>3. ManagerOK' BY <2>1, <2>2 DEF AccountsInv, ManagerOK, SettingsOK, Exists
  <2>4. SettingsOK' /\ Distinct' BY <2>1 DEF AccountsInv, SettingsOK, Distinct
  <2>5. ASSUME misses' = {} PROVE Indexed' /\ Chosen'
    <3>1. misses = {} /\ Exists(setting) /\ on[setting] /\ Stored(setting) = saved[setting]
      BY <1>6, <2>5 DEF Sets, Misses
    <3>2. Indexed /\ Chosen BY <3>1 DEF AccountsInv, InStep
    <3>3. Indexed' BY <3>2, <2>1 DEF Indexed, SavedAs
    <3>4. Stored(setting) \in [id : Ids, on : BOOLEAN] BY <2>1, <3>1 DEF Stored, Exists, AccountsInv, SettingsOK
    <3>5. setting \in SavedOn /\ saved[setting].id = id[setting] /\ saved[setting] # Nil
      <4>1. saved[setting] # Nil BY <3>1, <3>4 DEF NilIsNil
      <4>2. saved[setting].id = id[setting] /\ saved[setting].on = on[setting]
        <5>1. Stored(setting).id = id[setting] /\ Stored(setting).on = on[setting] BY DEF Stored
        <5> QED BY <3>1, <5>1
      <4> QED BY <2>1, <3>1, <4>1, <4>2 DEF SavedOn
    <3>6. accounts[id[setting]] = setting /\ id[setting] \in Ids
      BY <3>2, <3>5, <2>1, FoundUnderId DEF AccountsInv
    <3>7. Default' = setting \/ Default' = Default BY <2>1, <2>2, <3>6 DEF Default, At, NilIsNil
    <3>8. Chosen' BY <2>1, <3>2, <3>5, <3>7 DEF Chosen, SavedOn
    <3> QED BY <3>3, <3>8
  <2> QED BY <2>3, <2>4, <2>5 DEF AccountsInv, InStep
<1>7. CASE FileIO
  <2>1. /\ jobs # <<>> /\ jobs' = Tail(jobs) /\ setting' = setting BY <1>7 DEF FileIO
  <2>2. Head(jobs).op \in {"save", "delete"} /\ Head(jobs).object \in Objects
    <3>1. Head(jobs) \in [op : {"save", "delete"}, object : Objects]
      BY <2>1, FirstOf DEF AccountsInv, ManagerOK
    <3> QED BY <3>1
  <2>3. jobs' \in Seq([op : {"save", "delete"}, object : Objects]) BY <2>1 DEF AccountsInv, ManagerOK
  <2>4. PICK object \in Objects : object = Head(jobs).object BY <2>2
  <2>5. CASE Head(jobs).op = "save"
    <3>1. SaveJob(object) BY <1>7, <2>4, <2>5 DEF FileIO
    <3>2. UNCHANGED <<id, on>> BY <3>1 DEF SaveJob
    <3>3. CASE ~Exists(object)
      <4>1. UNCHANGED <<saved, accounts, default_account, misses>> BY <3>1, <3>3 DEF SaveJob
      <4>2. SettingsOK' /\ Distinct' BY <3>2, <4>1 DEF AccountsInv, SettingsOK, Distinct
      <4>3. ManagerOK' BY <2>1, <2>3, <4>1 DEF AccountsInv, ManagerOK
      <4> QED BY <4>1, <4>2, <4>3, UnsavedKeepsStep DEF AccountsInv
    <3>4. CASE Exists(object)
      <4>1. saved' = [saved EXCEPT ![object] = Stored(object)] BY <3>1, <3>4 DEF SaveJob
      <4>2. SettingsOK' /\ Distinct' BY <3>2, <3>4, <4>1, SavedKeepsSettings
      <4>3. /\ accounts' \in [Ids -> Objects \cup {Nil}] /\ default_account' \in Ids \cup {Nil}
            /\ InStep'
        <5>1. CASE saved[object] = Nil
          <6>1. WasCreated(object) BY <3>1, <3>4, <5>1 DEF SaveJob
          <6> QED BY <3>2, <3>4, <4>1, <5>1, <6>1, CreatedKeeps
        <5>2. CASE saved[object] # Nil
          <6>1. DidChange(object) BY <3>1, <3>4, <5>2 DEF SaveJob
          <6> QED BY <3>2, <3>4, <4>1, <5>2, <6>1, ChangedKeeps
        <5> QED BY <5>1, <5>2
      <4>4. ManagerOK' BY <2>1, <2>3, <4>3 DEF AccountsInv, ManagerOK
      <4> QED BY <4>2, <4>3, <4>4 DEF AccountsInv
    <3> QED BY <3>3, <3>4
  <2>6. CASE Head(jobs).op = "delete"
    <3>1. DeleteJob(object) BY <1>7, <2>4, <2>6 DEF FileIO
    <3>2. /\ SettingsOK' /\ Distinct' /\ InStep'
          /\ accounts' \in [Ids -> Objects \cup {Nil}] /\ default_account' \in Ids \cup {Nil}
      BY <3>1, DeletedKeeps
    <3>3. ManagerOK' BY <2>1, <2>3, <3>2 DEF AccountsInv, ManagerOK
    <3> QED BY <3>2, <3>3 DEF AccountsInv
  <2> QED BY <2>2, <2>5, <2>6
<1>8. CASE UNCHANGED managerVars
  <2>1. SettingsOK' /\ Distinct' /\ ManagerOK' BY <1>8 DEF managerVars, AccountsInv, SettingsOK, Distinct, ManagerOK
  <2> QED BY <1>8, <2>1, UnsavedKeepsStep DEF managerVars, AccountsInv
<1> QED BY <1>1, <1>2, <1>3, <1>4, <1>5, <1>6, <1>7, <1>8 DEF ManagerNext

\* The manager stays in step with what is saved of the accounts, for any number of them (load and the
\* _NH_CFGSettingsObject... handlers).
THEOREM AccountsInStep == ManagerSpec => []AccountsInv
<1>1. ManagerInit => AccountsInv BY StartsInStep, ManagerAssumption
<1>2. AccountsInv /\ [ManagerNext]_managerVars => AccountsInv' BY AccountsStep, ManagerAssumption
<1> QED BY <1>1, <1>2, PTL DEF ManagerSpec

\* Once everything is saved the manager finds every account under its id, and its default account is
\* one that is enabled if there is any.
THEOREM AlwaysAsConfigured == ManagerSpec => []AccountsAsConfigured
<1>1. ASSUME AccountsInv, AllSaved, misses = {}
      PROVE  /\ \A i \in Ids : accounts[i] = IF \E a \in Objects : id[a] = i THEN CHOOSE a \in Objects : id[a] = i ELSE Nil
             /\ IF Enabled(accounts) = {} THEN Default = Nil ELSE Default \in Enabled(accounts)
  <2>1. Indexed /\ Chosen BY <1>1 DEF AccountsInv, InStep
  <2>2. ASSUME NEW a \in Objects PROVE (id[a] # Nil <=> saved[a] # Nil) /\ (id[a] # Nil => saved[a] = Stored(a))
    BY <1>1, ManagerAssumption DEF AllSaved, Exists, AccountsInv, SettingsOK, Stored, NilIsNil
  <2>3. ASSUME NEW i \in Ids, NEW a \in Objects PROVE accounts[i] = a <=> id[a] = i
    <3>a. Stored(a).id = id[a] BY DEF Stored
    <3>1. id[a] # Nil => saved[a].id = id[a] BY <2>2, <3>a
    <3> QED BY <2>1, <2>2, <3>1, ManagerAssumption DEF Indexed, SavedAs, NilIsNil
  <2>4. ASSUME NEW i \in Ids
        PROVE  accounts[i] = IF \E a \in Objects : id[a] = i THEN CHOOSE a \in Objects : id[a] = i ELSE Nil
    <3>1. accounts[i] \in Objects \cup {Nil} BY <1>1 DEF AccountsInv, ManagerOK
    <3>2. CASE \E a \in Objects : id[a] = i
      <4>1. PICK a \in Objects : a = CHOOSE b \in Objects : id[b] = i BY <3>2
      <4>2. id[a] = i BY <3>2, <4>1
      <4> QED BY <2>3, <3>2, <4>1, <4>2
    <3> QED BY <2>3, <3>1, <3>2
  <2>5. Enabled(accounts) = SavedOn
    BY <1>1, <2>2, <2>3 DEF Enabled, SavedOn, Stored, AccountsInv, SettingsOK
  <2> QED BY <2>1, <2>4, <2>5 DEF Chosen
<1>2. AccountsInv => AccountsAsConfigured BY <1>1 DEF AccountsAsConfigured
<1> QED BY <1>2, AccountsInStep, PTL

(***************************************************************************)
(* An account and its handlers.                                            *)
(***************************************************************************)
NoTerminate(s) == \A i \in 1..Len(s) : s[i].name # "terminate"
TerminateLast(s) == \A i \in 1..Len(s) : s[i].name = "terminate" <=> i = Len(s)
\* a change of that setting is on its way
Pending(name) == \E i \in 1..Len(changes) : changes[i] = name

Typed ==
  /\ scene.kind \in {"publisher", "subscriber", "manager", "bonjour"} /\ "kind" \in DOMAIN scene
  /\ enabled \in BOOLEAN /\ wanted \in BOOLEAN /\ discovered \in BOOLEAN
  /\ running \in BOOLEAN /\ alive \in BOOLEAN /\ locked \in BOOLEAN /\ started \in BOOLEAN /\ active \in BOOLEAN
  /\ changes \in Seq({"enabled", "wanted", "other"})
  /\ waiting \in Seq({"activate", "deactivate"})

Handling ==
  /\ started = alive
  /\ active => alive /\ (Publishes \/ discovered)
  /\ locked => ~alive
  /\ pc \in {"dns", "answer"} => cmd.name = "publish"
Stopping ==
  /\ ~locked /\ ~alive => pc = "off" /\ commands = <<>>
  /\ alive \/ commands # <<>> => pc # "off" /\ (pc \in {"kill", "ending"} => cmd.name # "terminate")
  /\ alive => NoTerminate(commands)
  /\ locked /\ commands = <<>> => pc = "off" \/ (pc \in {"kill", "ending"} /\ cmd.name = "terminate")
  /\ locked /\ commands # <<>> => TerminateLast(commands)

\* what the last of those that wait leads to
Goal == IF waiting = <<>> THEN alive ELSE waiting[Len(waiting)] = "activate"
Following ==
  slips = {} =>
    /\ running /\ ~Pending("enabled") => Goal = enabled
    /\ ~running => ~Goal
Configured == started /\ ~Pending("wanted") => active = Wanted

Events == [name : {"DidStart", "DidFail", "DidEnd", "GotNotify"}, version : Nat, full : BOOLEAN]
ViewTyped ==
  /\ view \in [version : Nat, complete : BOOLEAN]
  /\ data \in Seq(Events) /\ posted \in Seq(Events)
  /\ subscription \in Subscriptions \cup {None}
ViewHeld ==
  /\ handler \notin {"subscribed", "ending"} => view = NoView
  /\ handler \in {"answer", "subscribed", "ending"} => subscription # None

-----------------------------------------------------------------------------
\* More commands without a terminate among them.
LEMMA KeepsOn ==
  ASSUME NEW s, NEW t, IsSeq(s), IsSeq(t), NoTerminate(s), NoTerminate(t)
  PROVE  IsSeq(s \o t) /\ NoTerminate(s \o t)
<1>1. IsSeq(s \o t) BY Joined
<1>2. ASSUME NEW i \in 1..Len(s \o t) PROVE (s \o t)[i].name # "terminate"
  <2>1. i \in 1..(Len(s) + Len(t)) /\ Len(s) \in Nat /\ Len(t) \in Nat BY Joined
  <2>2. (s \o t)[i] = IF i <= Len(s) THEN s[i] ELSE t[i - Len(s)] BY <2>1, Joined
  <2>3. CASE i <= Len(s) BY <2>1, <2>2, <2>3 DEF NoTerminate
  <2>4. CASE i > Len(s)
    <3>1. i - Len(s) \in 1..Len(t) BY <2>1, <2>4
    <3> QED BY <2>1, <2>2, <2>4, <3>1 DEF NoTerminate
  <2> QED BY <2>1, <2>3, <2>4
<1> QED BY <1>1, <1>2 DEF NoTerminate
\* activate(), deactivate() and the rest never ask a handler to terminate.
LEMMA Orders ==
  /\ NoTerminate(<<>>) /\ IsSeq(<<>>)
  /\ NoTerminate(On) /\ IsSeq(On)
  /\ NoTerminate(Off) /\ IsSeq(Off)
  /\ NoTerminate(Again) /\ IsSeq(Again)
<1>1. ASSUME NEW n, NEW v, n # "terminate" PROVE NoTerminate(<<Command(n, v)>>) /\ IsSeq(<<Command(n, v)>>)
  BY <1>1, One DEF NoTerminate, Command
<1>2. NoTerminate(<<>>) /\ IsSeq(<<>>) BY Empty DEF NoTerminate
<1>3. NoTerminate(On) /\ IsSeq(On) BY <1>1 DEF On
<1>4. NoTerminate(Off) /\ IsSeq(Off) BY <1>1 DEF Off
<1>5. NoTerminate(Off \o On) /\ IsSeq(Off \o On) BY <1>3, <1>4, KeepsOn
<1> QED BY <1>2, <1>3, <1>4, <1>5 DEF Again

-----------------------------------------------------------------------------
\* the kind of handler is the same
SameKind == scene'.kind = scene.kind /\ "kind" \in DOMAIN scene'
\* What is left of the scene changes, its kind does not.
LEMMA SpendsKeepsKind ==
  ASSUME Typed, NEW what, what # "kind", Spends(what)
  PROVE  SameKind
  BY DEF Spends, SameKind, Typed

OpenInv == Handling /\ Stopping /\ IsSeq(commands)
\* _activate() and _deactivate() lead to what they are for, once they have the lock.
LEMMA PerformsOp ==
  ASSUME Typed, OpenInv, NEW op \in {"activate", "deactivate"}, ~locked, Performs(op),
         UNCHANGED <<wanted, discovered>>, SameKind
  PROVE  /\ OpenInv'
         /\ alive' = (op = "activate") /\ locked' \in BOOLEAN /\ started' \in BOOLEAN /\ active' \in BOOLEAN
         /\ (started' => active' = Wanted') \/ UNCHANGED <<started, active>>
<1> USE DEF OpenInv, SameKind
<1>1. CASE op = "activate" /\ ~alive
  <2>1. alive' = TRUE /\ UNCHANGED locked /\ start BY <1>1 DEF Performs, Activates
  <2>2. commands = <<>> /\ ~active BY <1>1 DEF Stopping, Handling, Typed
  <2>3. NoTerminate(commands') /\ IsSeq(commands')
    BY <2>1, <2>2, Orders, KeepsOn DEF start, Told
  <2>4. active' = Wanted /\ Wanted' = Wanted BY <2>1, <2>2 DEF start, Typed, Wanted, Publishes
  <2>5. Handling' BY <2>1, <2>4 DEF start, Handling, Wanted, Publishes, Typed
  <2>6. Stopping' BY <2>1, <2>3 DEF start, Stopping
  <2> QED BY <1>1, <2>1, <2>3, <2>4, <2>5, <2>6 DEF start, Typed, Wanted
<1>2. CASE op = "deactivate" /\ alive
  <2>1. alive' = FALSE /\ locked' = TRUE /\ stop BY <1>2 DEF Performs, Deactivates
  <2> DEFINE last == Command("terminate", None)
  <2>2. commands' = commands \o <<last>> /\ last.name = "terminate" BY <2>1 DEF stop, Told, Command
  <2> HIDE DEF last
  <2>3. IsSeq(commands') /\ commands' # <<>> BY <2>2, Joined, One
  <2>4. NoTerminate(commands) /\ pc # "off" /\ (pc \in {"kill", "ending"} => cmd.name # "terminate")
    BY <1>2 DEF Stopping
  <2>5. TerminateLast(commands')
    <3>1. Len(commands) \in Nat /\ Len(commands') = Len(commands) + 1 BY <2>2, Joined, One
    <3> SUFFICES ASSUME NEW i \in 1..(Len(commands) + 1)
                 PROVE  commands'[i].name = "terminate" <=> i = Len(commands) + 1
      BY <3>1 DEF TerminateLast
    <3>2. commands'[i] = IF i <= Len(commands) THEN commands[i] ELSE <<last>>[i - Len(commands)]
      BY <2>2, Joined, One
    <3>3. CASE i <= Len(commands) BY <3>1, <3>2, <3>3, <2>4 DEF NoTerminate
    <3>4. CASE i = Len(commands) + 1
      <4>1. i - Len(commands) = 1 BY <3>1, <3>4
      <4> QED BY <3>1, <3>2, <3>4, <4>1, <2>2, One
    <3> QED BY <3>1, <3>3, <3>4
  <2>6. Stopping' BY <2>1, <2>3, <2>4, <2>5 DEF stop, Stopping
  <2>7. Handling' BY <2>1 DEF stop, Handling
  <2> QED BY <1>2, <2>1, <2>3, <2>6, <2>7 DEF stop
<1>3. CASE alive = (op = "activate")
  <2>1. UNCHANGED <<alive, locked, handlerVars>> BY <1>3 DEF Performs, Activates, Deactivates
  <2> QED BY <2>1, <1>3 DEF handlerVars, Handling, Stopping, Typed, Publishes
<1> QED BY <1>1, <1>2, <1>3 DEF Typed

\* With the lock or queued for it, the operation asked for last is the one that counts.
LEMMA EntersOp ==
  ASSUME Typed, OpenInv, NEW op \in {"activate", "deactivate"}, Enters(op),
         UNCHANGED <<wanted, discovered>>, SameKind
  PROVE  /\ OpenInv'
         /\ alive' \in BOOLEAN /\ locked' \in BOOLEAN /\ started' \in BOOLEAN /\ active' \in BOOLEAN
         /\ waiting' \in Seq({"activate", "deactivate"})
         /\ Goal' = (op = "activate")
         /\ (started' => active' = Wanted') \/ UNCHANGED <<started, active>>
<1>1. CASE locked \/ waiting # <<>>
  <2>1. waiting' = Append(waiting, op) /\ UNCHANGED <<alive, locked, handlerVars>> BY <1>1 DEF Enters
  <2>2. waiting' \in Seq({"activate", "deactivate"}) /\ waiting' # <<>> /\ waiting'[Len(waiting')] = op
    BY <2>1, AppendProperties DEF Typed
  <2>3. OpenInv' BY <2>1 DEF OpenInv, handlerVars, Handling, Stopping, Publishes, SameKind
  <2> QED BY <2>1, <2>2, <2>3 DEF handlerVars, Typed, Goal
<1>2. CASE ~locked /\ waiting = <<>>
  <2>1. Performs(op) /\ UNCHANGED waiting BY <1>2 DEF Enters
  <2>2. Goal' = alive' BY <1>2, <2>1 DEF Goal
  <2> QED BY <1>2, <2>1, <2>2, PerformsOp DEF Typed
<1> QED BY <1>1, <1>2

\* A settings notification that arrives, and one that is posted.
LEMMA Later ==
  ASSUME Typed, changes # <<>>, changes' = Tail(changes), NEW name
  PROVE  /\ changes' \in Seq({"enabled", "wanted", "other"}) /\ Head(changes) \in {"enabled", "wanted", "other"}
         /\ Pending(name) => Pending(name)' \/ name = Head(changes)
<1> USE DEF Typed
<1>1. changes' \in Seq({"enabled", "wanted", "other"}) /\ Head(changes) \in {"enabled", "wanted", "other"}
  BY HeadTailProperties
<1>2. ASSUME NEW i \in 1..Len(changes), changes[i] = name, name # Head(changes) PROVE Pending(name)'
  <2>1. i # 1 BY <1>2
  <2>2. Len(changes) \in Nat BY LenProperties
  <2>3. i - 1 \in 1..Len(changes') /\ changes'[i - 1] = changes[i] BY <2>1, <2>2, HeadTailProperties
  <2> QED BY <1>2, <2>3 DEF Pending
<1> QED BY <1>1, <1>2 DEF Pending
LEMMA Sooner ==
  ASSUME Typed, NEW new \in {"enabled", "wanted", "other"}, changes' = Append(changes, new), NEW name
  PROVE  /\ changes' \in Seq({"enabled", "wanted", "other"})
         /\ Pending(name) \/ name = new => Pending(name)'
<1> USE DEF Typed
<1>1. changes' \in Seq({"enabled", "wanted", "other"}) /\ Len(changes') = Len(changes) + 1 /\ Len(changes) \in Nat
      /\ changes'[Len(changes')] = new
  BY AppendProperties, LenProperties
<1>2. \A i \in 1..Len(changes) : changes'[i] = changes[i] BY AppendProperties
<1>3. 1..Len(changes) \subseteq 1..Len(changes') /\ Len(changes') \in 1..Len(changes') BY <1>1
<1> QED BY <1>1, <1>2, <1>3 DEF Pending

-----------------------------------------------------------------------------
AccountInv == Typed /\ OpenInv /\ Following /\ Configured

\* An account that is not started is in step.
LEMMA Starts ==
  ASSUME AccountAssumption, HandlersInit PROVE AccountInv
<1> USE DEF HandlersInit, AccountInit
<1>1. Typed BY EmptySeq DEF Typed, AccountAssumption
<1>2. OpenInv BY Empty DEF OpenInv, Handling, Stopping, NoTerminate
<1>3. Following /\ Configured BY DEF Following, Configured, Goal
<1> QED BY <1>1, <1>2, <1>3 DEF AccountInv

-----------------------------------------------------------------------------
\* What an extension of the commands keeps.
LEMMA Asks ==
  ASSUME Typed, OpenInv, NEW more, IsSeq(more), NoTerminate(more), Told(more),
         alive \/ more = <<>>, UNCHANGED <<alive, locked, pc, cmd>>
  PROVE  Stopping' /\ IsSeq(commands')
<1>1. IsSeq(commands') BY Joined DEF Told, OpenInv
<1>2. CASE more = <<>>
  <2>1. commands' = commands BY <1>2, Joined DEF Told, OpenInv
  <2> QED BY <1>1, <2>1 DEF OpenInv, Stopping
<1>3. CASE alive
  <2>1. NoTerminate(commands') BY <1>3, KeepsOn DEF OpenInv, Stopping, Told
  <2>2. ~locked BY <1>3 DEF OpenInv, Handling
  <2> QED BY <1>1, <1>3, <2>1, <2>2 DEF OpenInv, Stopping
<1> QED BY <1>2, <1>3

\* start() activates an account that is enabled.
LEMMA AccountStartKeeps == ASSUME AccountInv, AccountStart PROVE AccountInv'
<1> USE DEF AccountInv
<1>1. SameKind /\ running' = TRUE /\ ~running
  <2>1. Spends("changes") BY DEF AccountStart
  <2> QED BY <2>1, SpendsKeepsKind DEF AccountStart
<1>2. UNCHANGED <<enabled, wanted, discovered, changes, slips>> BY DEF AccountStart
<1>3. CASE enabled
  <2>1. Enters("activate") BY <1>3 DEF AccountStart
  <2>2. /\ OpenInv' /\ Goal' /\ waiting' \in Seq({"activate", "deactivate"})
        /\ alive' \in BOOLEAN /\ locked' \in BOOLEAN /\ started' \in BOOLEAN /\ active' \in BOOLEAN
        /\ (started' => active' = Wanted') \/ UNCHANGED <<started, active>>
    BY <1>1, <1>2, <2>1, EntersOp
  <2>3. Typed' BY <1>1, <1>2, <2>2 DEF Typed, SameKind
  <2>4. Following' BY <1>1, <1>2, <1>3, <2>2 DEF Following
  <2>5. Configured' BY <1>1, <1>2, <2>2 DEF Configured, Wanted, Publishes, SameKind, Pending
  <2> QED BY <2>2, <2>3, <2>4, <2>5
<1>4. CASE ~enabled
  <2>1. UNCHANGED <<alive, locked, waiting, handlerVars>> BY <1>4 DEF AccountStart
  <2>2. Typed' BY <1>1, <1>2, <2>1 DEF Typed, SameKind, handlerVars
  <2>3. OpenInv' BY <1>1, <1>2, <2>1 DEF OpenInv, Handling, Stopping, Publishes, SameKind, handlerVars
  <2>4. Following' BY <1>1, <1>2, <1>4, <2>1 DEF Following, Goal, Typed
  <2>5. Configured' BY <1>1, <1>2, <2>1 DEF Configured, Wanted, Publishes, SameKind, Pending, handlerVars
  <2> QED BY <2>2, <2>3, <2>4, <2>5
<1> QED BY <1>3, <1>4

\* stop() deactivates an account, or has it deactivated later.
LEMMA AccountStopKeeps == ASSUME AccountInv, AccountStop PROVE AccountInv'
<1> USE DEF AccountInv
<1>1. SameKind /\ running' = FALSE
  <2>1. Spends("changes") BY DEF AccountStop
  <2> QED BY <2>1, SpendsKeepsKind DEF AccountStop
<1>2. UNCHANGED <<enabled, wanted, discovered, changes, slips>> /\ Enters("deactivate") BY DEF AccountStop
<1>3. /\ OpenInv' /\ ~Goal' /\ waiting' \in Seq({"activate", "deactivate"})
      /\ alive' \in BOOLEAN /\ locked' \in BOOLEAN /\ started' \in BOOLEAN /\ active' \in BOOLEAN
      /\ (started' => active' = Wanted') \/ UNCHANGED <<started, active>>
  BY <1>1, <1>2, EntersOp
<1>4. Typed' BY <1>1, <1>2, <1>3 DEF Typed, SameKind
<1>5. Following' BY <1>1, <1>3 DEF Following
<1>6. Configured' BY <1>1, <1>2, <1>3 DEF Configured, Wanted, Publishes, SameKind, Pending
<1> QED BY <1>3, <1>4, <1>5, <1>6

\* A deactivation that ends leaves a handler that is off, with no command.
LEMMA UnlocksKeeps == ASSUME AccountInv, Unlocks PROVE AccountInv'
<1> USE DEF AccountInv, Unlocks, handlerVars
<1>1. Typed' BY DEF Typed
<1>2. OpenInv' BY DEF OpenInv, Handling, Stopping, Publishes
<1>3. Following' BY DEF Following, Goal, Pending
<1>4. Configured' BY DEF Configured, Wanted, Publishes, Pending
<1> QED BY <1>1, <1>2, <1>3, <1>4

\* The one that has the lock next; when it is the first in turn the last one still decides.
LEMMA WakesKeeps == ASSUME AccountInv, Wakes PROVE AccountInv'
<1> USE DEF AccountInv
<1> DEFINE Ops == {"activate", "deactivate"}
<1>1. PICK i \in DOMAIN waiting :
        /\ Performs(waiting[i]) /\ waiting' = RemoveAt(waiting, i)
        /\ slips' = IF i = 1 THEN slips ELSE slips \cup {"overtaken"}
  BY DEF Wakes
<1>2. ~locked /\ UNCHANGED <<scene, enabled, wanted, discovered, changes, running>> BY DEF Wakes
<1>3. waiting \in Seq(Ops) /\ Len(waiting) \in Nat /\ i \in 1..Len(waiting) /\ waiting[i] \in Ops
  BY LenProperties, ElementOfSeq DEF Typed
<1>4. SameKind BY <1>2 DEF SameKind, Typed
<1>5. /\ OpenInv' /\ alive' = (waiting[i] = "activate")
      /\ alive' \in BOOLEAN /\ locked' \in BOOLEAN /\ started' \in BOOLEAN /\ active' \in BOOLEAN
      /\ (started' => active' = Wanted') \/ UNCHANGED <<started, active>>
  BY <1>1, <1>2, <1>3, <1>4, PerformsOp
<1>6. SubSeq(waiting, 1, i - 1) \in Seq(Ops) /\ SubSeq(waiting, i + 1, Len(waiting)) \in Seq(Ops)
  <2>1. \A j \in 1..(i - 1) : waiting[j] \in Ops BY <1>3, ElementOfSeq
  <2>2. \A j \in (i + 1)..Len(waiting) : waiting[j] \in Ops BY <1>3, ElementOfSeq
  <2> QED BY <1>3, <2>1, <2>2, SubSeqProperties
<1>7. waiting' \in Seq(Ops) BY <1>1, <1>6, ConcatProperties DEF RemoveAt
<1>8. Typed' BY <1>2, <1>5, <1>7 DEF Typed
<1>9. Following'
  <2> SUFFICES ASSUME slips' = {} PROVE Goal' = Goal /\ slips = {} BY <1>2 DEF Following, Pending
  <2>1. i = 1 /\ slips = {} BY <1>1
  <2>2. waiting # <<>> BY <1>3, EmptySeq
  <2>3. waiting' = Tail(waiting)
    <3>1. SubSeq(waiting, 1, 0) = <<>> BY SubSeqEmpty
    <3>2. waiting' = <<>> \o SubSeq(waiting, 2, Len(waiting))
      <4>1. waiting' = SubSeq(waiting, 1, i - 1) \o SubSeq(waiting, i + 1, Len(waiting)) BY <1>1 DEF RemoveAt
      <4>2. i - 1 = 0 /\ i + 1 = 2 BY <2>1
      <4> QED BY <4>1, <4>2, <3>1
    <3>3. SubSeq(waiting, 2, Len(waiting)) \in Seq(Ops) BY <1>6, <2>1
    <3> QED BY <1>3, <2>2, <3>2, <3>3, ConcatEmptySeq, TailIsSubSeq
  <2>4. Len(waiting') = Len(waiting) - 1 /\ \A j \in 1..(Len(waiting) - 1) : waiting'[j] = waiting[j + 1]
    BY <1>3, <2>2, <2>3, HeadTailProperties
  <2>5. CASE Len(waiting) = 1
    <3>1. waiting' = <<>> BY <1>7, <2>4, <2>5, EmptySeq
    <3> QED BY <1>5, <2>1, <2>2, <2>5, <3>1 DEF Goal
  <2>6. CASE Len(waiting) > 1
    <3>1. waiting' # <<>> BY <1>3, <2>4, <2>6, EmptySeq
    <3>2. waiting'[Len(waiting')] = waiting[Len(waiting)]
      <4>1. Len(waiting) - 1 \in 1..(Len(waiting) - 1) BY <1>3, <2>6
      <4> QED BY <1>3, <2>4, <4>1
    <3> QED BY <2>1, <2>2, <3>1, <3>2 DEF Goal
  <2>7. Len(waiting) = 1 \/ Len(waiting) > 1 BY <1>3, <2>1
  <2> QED BY <2>5, <2>6, <2>7, Zenon
<1>10. Configured' BY <1>2, <1>5 DEF Configured, Wanted, Publishes, Pending
<1> QED BY <1>5, <1>8, <1>9, <1>10

\* A setting is changed before the notification of it arrives.
LEMMA ChangesSettingKeeps == ASSUME AccountInv, ChangesSetting PROVE AccountInv'
<1> USE DEF AccountInv
<1>1. SameKind
  <2>1. Spends("changes") BY DEF ChangesSetting
  <2> QED BY <2>1, SpendsKeepsKind
<1>2. UNCHANGED <<discovered, running, alive, locked, waiting, handlerVars, slips>> BY DEF ChangesSetting
<1>3. PICK new \in {"enabled", "wanted", "other"} :
        /\ changes' = Append(changes, new) /\ enabled' \in BOOLEAN /\ wanted' \in BOOLEAN
        /\ new = "enabled" \/ enabled' = enabled
        /\ new = "wanted" \/ wanted' = wanted
  BY DEF ChangesSetting, Typed
<1>4. changes' \in Seq({"enabled", "wanted", "other"})
      /\ (~Pending("enabled")' => ~Pending("enabled") /\ enabled' = enabled)
      /\ (~Pending("wanted")' => ~Pending("wanted") /\ wanted' = wanted)
  BY <1>3, Sooner
<1>5. Typed' BY <1>1, <1>2, <1>3, <1>4 DEF Typed, SameKind, handlerVars
<1>6. OpenInv' BY <1>1, <1>2 DEF OpenInv, Handling, Stopping, Publishes, SameKind, handlerVars
<1>7. Following' BY <1>2, <1>4 DEF Following, Goal
<1>8. Configured' BY <1>1, <1>2, <1>4 DEF Configured, Wanted, Publishes, SameKind, handlerVars
<1> QED BY <1>5, <1>6, <1>7, <1>8

\* The notification makes the account, or its handler, follow.
LEMMA SettingsDidChangeKeeps == ASSUME AccountInv, SettingsDidChange PROVE AccountInv'
<1> USE DEF AccountInv
<1>1. changes # <<>> /\ changes' = Tail(changes) /\ UNCHANGED <<scene, enabled, wanted, discovered, running, slips>>
  BY DEF SettingsDidChange
<1>2. SameKind BY <1>1 DEF SameKind, Typed
<1>3. /\ changes' \in Seq({"enabled", "wanted", "other"})
      /\ Pending("enabled") => Pending("enabled")' \/ Head(changes) = "enabled"
      /\ Pending("wanted") => Pending("wanted")' \/ Head(changes) = "wanted"
  BY <1>1, Later
<1>4. CASE Head(changes) = "enabled" /\ running
  <2> DEFINE op == IF enabled THEN "activate" ELSE "deactivate"
  <2>1. Enters(op) /\ op \in {"activate", "deactivate"} BY <1>4 DEF SettingsDidChange
  <2>2. /\ OpenInv' /\ Goal' = (op = "activate") /\ waiting' \in Seq({"activate", "deactivate"})
        /\ alive' \in BOOLEAN /\ locked' \in BOOLEAN /\ started' \in BOOLEAN /\ active' \in BOOLEAN
        /\ (started' => active' = Wanted') \/ UNCHANGED <<started, active>>
    BY <1>1, <1>2, <2>1, EntersOp
  <2>3. Typed' BY <1>1, <1>3, <2>2 DEF Typed
  <2>4. Following' BY <1>1, <1>4, <2>2 DEF Following, Typed
  <2>5. Configured' BY <1>1, <1>3, <1>4, <2>2 DEF Configured, Wanted, Publishes
  <2> QED BY <2>2, <2>3, <2>4, <2>5
<1>5. CASE Head(changes) = "enabled" /\ ~running
  <2>1. UNCHANGED <<alive, locked, waiting, handlerVars>> BY <1>5 DEF SettingsDidChange
  <2>2. Typed' BY <1>1, <1>3, <2>1 DEF Typed, handlerVars
  <2>3. OpenInv' BY <1>1, <2>1 DEF OpenInv, Handling, Stopping, Publishes, handlerVars
  <2>4. Following' BY <1>1, <1>5, <2>1 DEF Following, Goal
  <2>5. Configured' BY <1>1, <1>3, <1>5, <2>1 DEF Configured, Wanted, Publishes, handlerVars
  <2> QED BY <2>2, <2>3, <2>4, <2>5
<1>6. CASE Head(changes) # "enabled"
  <2>1. UNCHANGED <<alive, locked, waiting, started, state, data, posted, timer, pc, cmd>>
    BY <1>6 DEF SettingsDidChange
  <2>2. PICK more : /\ IsSeq(more) /\ NoTerminate(more) /\ Told(more) /\ (started \/ more = <<>>)
                    /\ active' \in BOOLEAN
                    /\ active' => started /\ (Publishes \/ discovered)
                    /\ started /\ Head(changes) = "wanted" => active' = Wanted
                    /\ started /\ Head(changes) # "wanted" => active' = active
    <3>1. CASE ~started \/ ~(Publishes \/ discovered)
      <4>1. UNCHANGED <<active, commands>> BY <1>6, <3>1 DEF SettingsDidChange
      <4>2. Told(<<>>) BY <4>1, Joined, Empty DEF Told, OpenInv
      <4>3. ~active BY <3>1 DEF OpenInv, Handling
      <4> QED BY <3>1, <4>1, <4>2, <4>3, Orders DEF Typed, Wanted
    <3>2. CASE started /\ (Publishes \/ discovered) /\ Head(changes) = "wanted"
      <4>1. active' = wanted /\ (Told(On) \/ Told(Off))
        BY <1>6, <3>2 DEF SettingsDidChange, activate, deactivate, Typed
      <4> QED BY <3>2, <4>1, Orders DEF Typed, Wanted
    <3>3. CASE started /\ (Publishes \/ discovered) /\ Head(changes) # "wanted"
      <4>1. active' = active /\ (Told(Again) \/ Told(<<>>)) BY <1>6, <3>3 DEF SettingsDidChange
      <4> QED BY <3>3, <4>1, Orders DEF Typed
    <3> QED BY <3>1, <3>2, <3>3
  <2>3. started = alive BY DEF OpenInv, Handling
  <2>4. Stopping' /\ IsSeq(commands') BY <2>1, <2>2, <2>3, Asks
  <2>5. Handling' BY <1>1, <2>1, <2>2 DEF OpenInv, Handling, Publishes
  <2>6. Typed' BY <1>1, <1>3, <2>1, <2>2 DEF Typed
  <2>7. Following' BY <1>1, <1>3, <1>6, <2>1 DEF Following, Goal
  <2>8. Configured' BY <1>1, <1>3, <2>1, <2>2 DEF Configured, Wanted, Publishes
  <2> QED BY <2>4, <2>5, <2>6, <2>7, <2>8 DEF OpenInv
<1> QED BY <1>4, <1>5, <1>6

\* Only a handler that is active starts again on another network.
LEMMA NetworkConditionsDidChangeKeeps == ASSUME AccountInv, NetworkConditionsDidChange PROVE AccountInv'
<1> USE DEF AccountInv
<1>1. SameKind
  <2>1. Spends("changes") BY DEF NetworkConditionsDidChange
  <2> QED BY <2>1, SpendsKeepsKind
<1>2. active /\ Told(Again) /\ UNCHANGED <<accountVars, started, active, state, data, posted, timer, pc, cmd, slips>>
  BY DEF NetworkConditionsDidChange
<1>3. Stopping' /\ IsSeq(commands') BY <1>2, Asks, Orders DEF accountVars, OpenInv, Handling
<1>4. Handling' BY <1>1, <1>2 DEF OpenInv, Handling, Publishes, SameKind, accountVars
<1>5. Typed' BY <1>1, <1>2 DEF Typed, SameKind, accountVars
<1>6. Following' BY <1>2 DEF Following, Goal, Pending, accountVars
<1>7. Configured' BY <1>1, <1>2 DEF Configured, Wanted, Publishes, SameKind, Pending, accountVars
<1> QED BY <1>3, <1>4, <1>5, <1>6, <1>7 DEF OpenInv

\* With XCAP support the subscriber may begin.
LEMMA DiscoversKeeps == ASSUME AccountInv, Discovers PROVE AccountInv'
<1> USE DEF AccountInv
<1>1. /\ discovered' = TRUE
      /\ UNCHANGED <<scene, enabled, wanted, changes, running, alive, locked, waiting, started, state, data, posted,
                     timer, pc, cmd, slips>>
  BY DEF Discovers
<1>2. PICK more : /\ IsSeq(more) /\ NoTerminate(more) /\ Told(more) /\ (started \/ more = <<>>)
                  /\ active' \in BOOLEAN
                  /\ active' => started
                  /\ started => active' = (active \/ (wanted /\ ~Publishes))
  <2>1. CASE started /\ ~Publishes /\ wanted /\ ~active
    <3>1. active' = TRUE /\ Told(On) BY <2>1 DEF Discovers, activate
    <3> QED BY <2>1, <3>1, Orders
  <2>2. CASE ~(started /\ ~Publishes /\ wanted /\ ~active)
    <3>1. UNCHANGED <<active, commands>> BY <2>2 DEF Discovers
    <3>2. Told(<<>>) BY <3>1, Joined, Empty DEF Told, OpenInv
    <3> QED BY <2>2, <3>1, <3>2, Orders DEF Typed, OpenInv, Handling
  <2> QED BY <2>1, <2>2
<1>3. started = alive BY DEF OpenInv, Handling
<1>4. Stopping' /\ IsSeq(commands') BY <1>1, <1>2, <1>3, Asks
<1>5. Handling' BY <1>1, <1>2 DEF OpenInv, Handling, Publishes
<1>6. Typed' BY <1>1, <1>2 DEF Typed
<1>7. Following' BY <1>1 DEF Following, Goal, Pending
<1>8. Configured' BY <1>1, <1>2 DEF Configured, Wanted, Publishes, Pending, Typed
<1> QED BY <1>4, <1>5, <1>6, <1>7, <1>8 DEF OpenInv

\* Only a handler that is active tries again.
LEMMA RetriesKeeps == ASSUME AccountInv, Retries PROVE AccountInv'
<1> USE DEF AccountInv
<1>1. UNCHANGED <<scene, accountVars, started, active, state, data, posted, pc, cmd, slips>> BY DEF Retries
<1>2. Told(IF active THEN On ELSE <<>>) BY DEF Retries
<1>3. Stopping' /\ IsSeq(commands') BY <1>1, <1>2, Asks, Orders DEF accountVars, OpenInv, Handling
<1>4. Handling' BY <1>1 DEF OpenInv, Handling, Publishes, accountVars
<1>5. Typed' BY <1>1 DEF Typed, accountVars
<1>6. Following' BY <1>1 DEF Following, Goal, Pending, accountVars
<1>7. Configured' BY <1>1 DEF Configured, Wanted, Publishes, Pending, accountVars
<1> QED BY <1>3, <1>4, <1>5, <1>6, <1>7 DEF OpenInv

\* What happens to the account and its settings keeps it in step with them.
LEMMA AccountKeeps == ASSUME AccountInv, AccountNext PROVE AccountInv'
  BY AccountStartKeeps, AccountStopKeeps, UnlocksKeeps, WakesKeeps, ChangesSettingKeeps, SettingsDidChangeKeeps,
     NetworkConditionsDidChangeKeeps, DiscoversKeeps, RetriesKeeps DEF AccountNext

-----------------------------------------------------------------------------
\* What a step of a handler does to the commands: some more, the next one, or something with it.
AsksMore ==
  /\ UNCHANGED <<pc, cmd>>
  /\ \E more : IsSeq(more) /\ NoTerminate(more) /\ Told(more) /\ (active \/ more = <<>>)
TakesNext ==
  /\ pc = "idle" /\ commands # <<>> /\ commands' = Tail(commands)
  /\ \/ pc' = (IF Head(commands).name = "terminate" THEN "off" ELSE "idle")
     \/ /\ pc' \in {"dns", "kill", "ending"} /\ cmd' = Head(commands)
        /\ pc' = "dns" => Head(commands).name = "publish"
Proceeds ==
  /\ UNCHANGED <<commands, cmd>>
  /\ \/ pc \in {"dns", "answer"} /\ pc' \in {"idle", "answer", "dead"}
     \/ pc \in {"kill", "ending"} /\ pc' = (IF cmd.name = "terminate" THEN "off" ELSE "idle")
     \/ UNCHANGED pc
HandlerStep ==
  /\ SameKind /\ UNCHANGED <<accountVars, started, active>> /\ slips \subseteq slips'
  /\ AsksMore \/ TakesNext \/ Proceeds

\* A step of its handler keeps the account in step.
LEMMA HandlerKeeps == ASSUME AccountInv, HandlerStep PROVE AccountInv'
<1> USE DEF AccountInv
<1>1. SameKind /\ UNCHANGED <<accountVars, started, active>> /\ slips \subseteq slips' BY DEF HandlerStep
<1>2. Typed' BY <1>1 DEF Typed, SameKind, accountVars
<1>3. Following' BY <1>1 DEF Following, Goal, Pending, accountVars
<1>4. Configured' BY <1>1 DEF Configured, Wanted, Publishes, SameKind, Pending, accountVars
<1>5. Handling' /\ Stopping' /\ IsSeq(commands')
  <2>1. CASE AsksMore
    <3>1. PICK more : IsSeq(more) /\ NoTerminate(more) /\ Told(more) /\ (active \/ more = <<>>) BY <2>1 DEF AsksMore
    <3>2. UNCHANGED <<alive, locked, pc, cmd>> BY <2>1, <1>1 DEF AsksMore, accountVars
    <3>3. active => alive BY DEF OpenInv, Handling
    <3>4. Stopping' /\ IsSeq(commands') BY <3>1, <3>2, <3>3, Asks
    <3>5. Handling' BY <1>1, <3>2 DEF OpenInv, Handling, Publishes, SameKind, accountVars
    <3> QED BY <3>4, <3>5
  <2>2. CASE TakesNext
    <3> USE <2>2 DEF TakesNext
    <3>1. /\ IsSeq(commands') /\ Len(commands) \in Nat \ {0} /\ Len(commands') = Len(commands) - 1
          /\ Head(commands) = commands[1]
          /\ \A i \in 1..(Len(commands) - 1) : commands'[i] = commands[i + 1]
          /\ commands' = <<>> <=> Len(commands) = 1
      BY WithoutFirst DEF OpenInv
    <3>2. pc' = "dns" => cmd'.name = "publish" OBVIOUS
    <3>3. Handling' BY <1>1, <3>2 DEF OpenInv, Handling, Publishes, SameKind, accountVars
    <3>4. CASE alive
      <4>1. \A i \in 1..Len(commands) : commands[i].name # "terminate" BY <3>4 DEF OpenInv, Stopping, NoTerminate
      <4>2. Head(commands).name # "terminate" BY <3>1, <4>1
      <4>3. NoTerminate(commands') BY <3>1, <4>1 DEF NoTerminate
      <4>4. pc' # "off" /\ (pc' \in {"kill", "ending"} => cmd'.name # "terminate") BY <4>2
      <4>5. alive' /\ ~locked' BY <1>1, <3>4 DEF OpenInv, Handling, accountVars
      <4> QED BY <3>1, <3>3, <4>3, <4>4, <4>5 DEF Stopping
    <3>5. CASE ~alive
      <4>1. locked /\ TerminateLast(commands) BY <3>5 DEF OpenInv, Stopping
      <4>2. ~alive' /\ locked' BY <1>1, <3>5, <4>1 DEF accountVars
      <4>3. Head(commands).name = "terminate" <=> Len(commands) = 1
        <5>1. 1 \in 1..Len(commands) BY <3>1
        <5>2. commands[1].name = "terminate" <=> 1 = Len(commands) BY <4>1, <5>1 DEF TerminateLast
        <5> QED BY <3>1, <5>2
      <4>4. CASE Len(commands) = 1
        <5>1. commands' = <<>> /\ (pc' = "off" \/ (pc' \in {"kill", "ending"} /\ cmd'.name = "terminate"))
          BY <3>1, <4>3, <4>4
        <5> QED BY <3>1, <3>3, <4>2, <5>1 DEF Stopping
      <4>5. CASE Len(commands) # 1
        <5>1. pc' # "off" /\ (pc' \in {"kill", "ending"} => cmd'.name # "terminate") BY <4>3, <4>5
        <5>2. TerminateLast(commands') /\ commands' # <<>>
          <6>1. ASSUME NEW i \in 1..Len(commands') PROVE commands'[i].name = "terminate" <=> i = Len(commands')
            <7>1. i + 1 \in 1..Len(commands) /\ (i + 1 = Len(commands) <=> i = Len(commands')) BY <3>1
            <7> QED BY <3>1, <4>1, <7>1 DEF TerminateLast
          <6> QED BY <3>1, <4>5, <6>1 DEF TerminateLast
        <5> QED BY <3>1, <3>3, <4>2, <5>1, <5>2 DEF Stopping
      <4> QED BY <4>4, <4>5
    <3> QED BY <3>4, <3>5
  <2>3. CASE Proceeds
    <3>1. UNCHANGED <<commands, cmd, alive, locked>> BY <2>3, <1>1 DEF Proceeds, accountVars
    <3>2. pc \in {"dns", "answer"} => cmd.name = "publish" BY DEF OpenInv, Handling
    <3>3. pc' = "dns" => pc = "dns" BY <2>3 DEF Proceeds
    <3>4. pc' = "answer" => pc \in {"dns", "answer"} BY <2>3 DEF Proceeds
    <3>5. Handling' BY <1>1, <3>1, <3>2, <3>3, <3>4 DEF OpenInv, Handling, Publishes, SameKind, accountVars
    <3>6. Stopping'
      <4> USE <3>1 DEF OpenInv, Stopping
      <4>1. CASE pc \in {"dns", "answer"} /\ pc' \in {"idle", "answer", "dead"}
        <5>1. (locked \/ alive) /\ (locked => commands # <<>>) BY <4>1
        <5> QED BY <4>1, <5>1
      <4>2. CASE pc \in {"kill", "ending"} /\ pc' = (IF cmd.name = "terminate" THEN "off" ELSE "idle")
        <5>1. alive \/ commands # <<>> => cmd.name # "terminate" BY <4>2
        <5>2. locked /\ commands = <<>> => cmd.name = "terminate" BY <4>2
        <5>3. locked \/ alive BY <4>2
        <5> QED BY <4>2, <5>1, <5>2, <5>3
      <4>3. CASE UNCHANGED pc BY <4>3
      <4> QED BY <2>3, <4>1, <4>2, <4>3 DEF Proceeds
    <3> QED BY <3>1, <3>5, <3>6 DEF OpenInv
  <2> QED BY <2>1, <2>2, <2>3 DEF HandlerStep
<1> QED BY <1>2, <1>3, <1>4, <1>5 DEF OpenInv

-----------------------------------------------------------------------------
\* A step that has nothing to do with commands.
LEMMA PlainStep ==
  ASSUME AccountInv, SameKind, UNCHANGED <<accountVars, started, active, commands, pc, cmd>>, slips \subseteq slips'
  PROVE  HandlerStep
<1>1. Proceeds BY DEF Proceeds
<1> QED BY <1>1 DEF HandlerStep

\* The state of an account that is active is published.
LEMMA PublishAsks ==
  ASSUME AccountInv, NEW doc, _publish(doc), UNCHANGED <<pc, cmd>> PROVE AsksMore
<1>1. ASSUME NEW n, NEW v, n # "terminate" PROVE NoTerminate(<<Command(n, v)>>) /\ IsSeq(<<Command(n, v)>>)
  BY <1>1, One DEF NoTerminate, Command
<1>2. CASE active
  <2>1. PICK n \in {"publish", "unpublish"}, v \in {doc, None} : Told(<<Command(n, v)>>) BY <1>2 DEF _publish
  <2> QED BY <1>1, <1>2, <2>1 DEF AsksMore
<1>3. CASE ~active BY <1>3, Orders DEF _publish, AsksMore
<1> QED BY <1>2, <1>3

\* Every step of a publisher is a step of a handler.
LEMMA PublisherSteps == ASSUME AccountInv, PublisherNext PROVE HandlerStep
<1> USE DEF AccountInv
<1>0. UNCHANGED scene => SameKind BY DEF SameKind, Typed
<1>1. CASE SetsState
  <2>1. SameKind BY <1>1, SpendsKeepsKind DEF SetsState
  <2>2. UNCHANGED <<accountVars, started, active, pc, cmd>> /\ slips \subseteq slips' BY <1>1 DEF SetsState
  <2>3. UNCHANGED commands \/ \E doc : _publish(doc) BY <1>1 DEF SetsState
  <2> QED BY <2>1, <2>2, <2>3, PlainStep, PublishAsks DEF HandlerStep
<1>2. CASE PublisherHandles
  <2>1. UNCHANGED <<scene, accountVars, started, active, pc, cmd, slips>> BY <1>2 DEF PublisherHandles
  <2>2. UNCHANGED commands \/ \E doc : _publish(doc) BY <1>2 DEF PublisherHandles
  <2> QED BY <1>0, <2>1, <2>2, PlainStep, PublishAsks DEF HandlerStep
<1>3. CASE TakesCommand
  <2>1. pc = "idle" /\ commands # <<>> /\ commands' = Tail(commands) BY <1>3 DEF TakesCommand
  <2>2. UNCHANGED <<scene, accountVars, started, active, slips>> BY <1>3 DEF TakesCommand
  <2>3. ASSUME _CH_publish PROVE TakesNext BY <2>1, <2>3 DEF _CH_publish, TakesNext
  <2>4. ASSUME _CH_unpublish PROVE TakesNext BY <2>1, <2>4 DEF _CH_unpublish, Withdrawn, TakesNext
  <2> QED BY <1>0, <1>3, <2>2, <2>3, <2>4 DEF HandlerStep, TakesCommand
<1>4. ASSUME PublishFails PROVE pc' = "idle" /\ slips \subseteq slips' BY <1>4 DEF PublishFails
<1>5. ASSUME TriesRoute PROVE SameKind /\ pc' \in {"idle", "answer"} /\ slips \subseteq slips'
  <2>1. SameKind BY <1>0, <1>5, SpendsKeepsKind DEF TriesRoute
  <2>2. PublishFails \/ (pc' \in {"idle", "answer"} /\ UNCHANGED slips) BY <1>5 DEF TriesRoute, Requests
  <2> QED BY <2>1, <2>2, <1>4
<1>6. CASE LookupReturns
  <2>1. pc = "dns" /\ UNCHANGED <<accountVars, started, active, commands, cmd>> BY <1>6 DEF LookupReturns
  <2>2. SameKind /\ pc' \in {"idle", "answer"} /\ slips \subseteq slips'
    BY <1>6, <1>4, <1>5, SpendsKeepsKind DEF LookupReturns
  <2> QED BY <2>1, <2>2 DEF HandlerStep, Proceeds
<1>7. CASE ReadsAnswer
  <2>1. pc = "answer" /\ UNCHANGED <<accountVars, started, active, commands, cmd>> BY <1>7 DEF ReadsAnswer
  <2>2. ASSUME NEW code, GotFailure(code)
        PROVE  SameKind /\ pc' \in {"idle", "answer", "dead"} /\ slips \subseteq slips'
    <3>1. \/ UNCHANGED scene /\ pc' = "dead" /\ slips \subseteq slips'
          \/ UNCHANGED scene /\ PublishFails
          \/ TriesRoute
      BY <2>2 DEF GotFailure
    <3> QED BY <3>1, <1>0, <1>4, <1>5
  <2>3. \/ pc' = "idle" /\ UNCHANGED <<slips, scene>>
        \/ PublishFails /\ UNCHANGED scene
        \/ \E code : GotFailure(code)
    BY <1>7 DEF ReadsAnswer
  <2>4. SameKind /\ pc' \in {"idle", "answer", "dead"} /\ slips \subseteq slips' BY <1>0, <1>4, <2>2, <2>3
  <2> QED BY <2>1, <2>4 DEF HandlerStep, Proceeds
<1>8. CASE ReadsEnd
  <2>1. pc = "ending" /\ UNCHANGED <<scene, accountVars, started, active, commands, cmd, slips>> BY <1>8 DEF ReadsEnd
  <2>2. UNCHANGED pc \/ pc' = (IF cmd.name = "terminate" THEN "off" ELSE "idle") BY <1>8 DEF ReadsEnd, Withdrawn
  <2> QED BY <1>0, <2>1, <2>2 DEF HandlerStep, Proceeds
<1>9. CASE RequestSucceeds \/ RequestFails \/ WillExpire \/ Expires
  <2>1. UNCHANGED <<accountVars, started, active, commands, pc, cmd, slips>>
    BY <1>9 DEF RequestSucceeds, RequestFails, WillExpire, Expires, PublicationOnly
  <2>2. UNCHANGED scene \/ Spends("troubles") \/ Spends("expiries")
    BY <1>9 DEF RequestSucceeds, RequestFails, WillExpire, Expires
  <2>3. SameKind BY <2>2, <1>0, SpendsKeepsKind
  <2> QED BY <2>1, <2>3, PlainStep
<1> QED BY <1>1, <1>2, <1>3, <1>6, <1>7, <1>8, <1>9 DEF PublisherNext

\* A subscriber that is active subscribes again.
LEMMA AsksWhenActive ==
  ASSUME AccountInv, NEW more, Told(more), more \in {<<>>, On}, active \/ more = <<>>, UNCHANGED <<pc, cmd>>
  PROVE  AsksMore
  BY Orders DEF AsksMore

\* Every step of a subscriber is a step of a handler.
LEMMA SubscriberSteps == ASSUME AccountInv, SubscriberNext PROVE HandlerStep
<1> USE DEF AccountInv
<1>0. UNCHANGED scene => SameKind BY DEF SameKind, Typed
<1>1. CASE TakesSubscribeCommand
  <2>1. /\ pc = "idle" /\ commands # <<>> /\ commands' = Tail(commands) /\ cmd' = Head(commands)
        /\ UNCHANGED <<scene, accountVars, started, active, slips>>
    BY <1>1 DEF TakesSubscribeCommand
  <2>2. TakesNext BY <1>1, <2>1 DEF TakesSubscribeCommand, _CH_subscribe, _CH_unsubscribe, Spawns, TakesNext
  <2> QED BY <1>0, <2>1, <2>2 DEF HandlerStep
<1>2. CASE Killed
  <2>1. pc = "kill" /\ UNCHANGED <<scene, accountVars, started, active, slips, commands, cmd>> BY <1>2 DEF Killed
  <2>2. pc' = (IF cmd.name = "terminate" THEN "off" ELSE "idle") BY <1>2 DEF Killed, Spawns
  <2> QED BY <1>0, <2>1, <2>2 DEF HandlerStep, Proceeds
<1>3. ASSUME TriesNextRoute PROVE SameKind
  BY <1>0, <1>3, SpendsKeepsKind DEF TriesNextRoute
<1>4. CASE RoutesReturn
  <2>1. UNCHANGED <<accountVars, started, active, commands, pc, cmd, slips>> BY <1>4 DEF RoutesReturn
  <2>2. SameKind BY <1>3, <1>4 DEF RoutesReturn
  <2> QED BY <2>1, <2>2, PlainStep
<1>5. CASE ReadsStart
  <2>1. UNCHANGED <<accountVars, started, active, commands, pc, cmd, slips>> BY <1>5 DEF ReadsStart, HandlerOnly
  <2>2. UNCHANGED scene \/ TriesNextRoute BY <1>5 DEF ReadsStart
  <2> QED BY <1>0, <1>3, <2>1, <2>2, PlainStep
<1>6. CASE ReadsNotify
  <2>1. UNCHANGED <<scene, accountVars, started, active, pc, cmd, slips>> BY <1>6 DEF ReadsNotify, HandlerOnly
  <2>2. \/ UNCHANGED commands
        \/ \E more \in {<<>>, On} : Told(more) /\ (active \/ more = <<>>)
    BY <1>6 DEF ReadsNotify, GotNotify
  <2> QED BY <1>0, <2>1, <2>2, PlainStep, AsksWhenActive DEF HandlerStep
<1>7. CASE Interrupted
  <2>1. UNCHANGED <<scene, accountVars, started, active, commands, pc, cmd>> /\ slips \subseteq slips'
    BY <1>7 DEF Interrupted
  <2> QED BY <1>0, <2>1, PlainStep
<1>8. CASE Terminated \/ ReadsEnding
  <2>1. UNCHANGED <<scene, accountVars, started, active, commands, pc, cmd, slips>>
    BY <1>8 DEF Terminated, ReadsEnding, HandlerOnly
  <2> QED BY <1>0, <2>1, PlainStep
<1>9. CASE SubscriberHandles
  <2>1. UNCHANGED <<scene, accountVars, started, active, commands, pc, cmd, slips>> BY <1>9 DEF SubscriberHandles
  <2> QED BY <1>0, <2>1, PlainStep
<1>10. CASE Accepted \/ NotifiedEarly \/ Finishes \/ Notifies
  <2>1. UNCHANGED <<accountVars, started, active, commands, pc, cmd>> /\ slips \subseteq slips'
    BY <1>10 DEF Accepted, NotifiedEarly, Finishes, Notifies, SubscriptionOnly
  <2>2. UNCHANGED scene \/ Spends("troubles") \/ Spends("notifies")
    BY <1>10 DEF Accepted, NotifiedEarly, Finishes, Notifies
  <2>3. SameKind BY <2>2, <1>0, SpendsKeepsKind
  <2> QED BY <2>1, <2>3, PlainStep
<1> QED BY <1>1, <1>2, <1>4, <1>5, <1>6, <1>7, <1>8, <1>9, <1>10 DEF SubscriberNext

-----------------------------------------------------------------------------
\* Nothing that is done to an account changes the kind of its handler.
LEMMA AccountKeepsKind == ASSUME AccountInv, AccountNext PROVE SameKind
<1> USE DEF AccountInv
<1>1. UNCHANGED scene \/ Spends("changes")
  BY DEF AccountNext, AccountStart, AccountStop, Unlocks, Wakes, ChangesSetting, SettingsDidChange,
     NetworkConditionsDidChange, Discovers, Retries
<1> QED BY <1>1, SpendsKeepsKind DEF SameKind, Typed

\* AccountInv is inductive whichever handler the account has.
LEMMA AccountInvKept == ASSUME AccountInv, [HandlersNext]_handlersVars PROVE AccountInv'
<1>1. CASE HandlersNext
  BY <1>1, AccountKeeps, PublisherSteps, SubscriberSteps, HandlerKeeps DEF HandlersNext
<1>2. CASE UNCHANGED handlersVars
  BY <1>2 DEF handlersVars, accountVars, handlerVars, AccountInv, Typed, OpenInv, Handling, Stopping, Following,
     Configured, Goal, Pending, Wanted, Publishes
<1> QED BY <1>1, <1>2

\* After whatever was done to its settings an account that is at rest is active exactly when it
\* is started and enabled, and its handler when that is wanted.
LEMMA InStepAtRest == ASSUME AccountInv PROVE ActiveAsEnabled
<1> USE DEF AccountInv
<1> SUFFICES ASSUME Quiet, slips = {}
             PROVE  /\ alive = (running /\ enabled)
                    /\ started = alive /\ (pc = "idle") = alive
                    /\ active = (alive /\ Wanted)
  BY DEF ActiveAsEnabled
<1>1. ~Pending("enabled") /\ ~Pending("wanted") BY EmptySeq DEF Quiet, Pending
<1>2. alive = (running /\ enabled) BY <1>1 DEF Following, Goal, Quiet, Typed
<1>3. started = alive /\ (active => alive) BY DEF OpenInv, Handling
<1>4. active = (alive /\ Wanted) BY <1>1, <1>3 DEF Configured, Typed, Wanted
<1>5. (pc = "idle") = alive BY DEF OpenInv, Stopping, Quiet, Typed
<1> QED BY <1>2, <1>3, <1>4, <1>5

\* However the settings of an account change while it is activated and deactivated (_activate,
\* _deactivate, _activation_lock), it and its handler stay in step with them.
THEOREM AccountInStep == HandlersSpec => []AccountInv
<1>1. HandlersInit => AccountInv BY Starts, AccountAssumption
<1>2. AccountInv /\ [HandlersNext]_handlersVars => AccountInv' BY AccountInvKept
<1> QED BY <1>1, <1>2, PTL DEF HandlersSpec
\* An account at rest is active exactly when it is started and enabled, and its handler is when
\* that is wanted, unless a waiting operation was overtaken or a publisher was killed.
THEOREM AlwaysAsEnabled == HandlersSpec => []ActiveAsEnabled
<1>1. AccountInv => ActiveAsEnabled BY InStepAtRest
<1> QED BY <1>1, AccountInStep, PTL

-----------------------------------------------------------------------------
Subscribe(s) == \E i \in DOMAIN s : s[i].name = "subscribe"
\* A subscribe command stays among the commands until it is taken.
LEMMA StillSubscribes ==
  ASSUME NEW s, NEW t, IsSeq(s), IsSeq(t)
  PROVE  /\ Subscribe(s) \/ Subscribe(t) => Subscribe(s \o t)
         /\ s # <<>> /\ Subscribe(s) => Subscribe(Tail(s)) \/ Head(s).name = "subscribe"
<1>1. ASSUME NEW u, IsSeq(u) PROVE DOMAIN u = 1..Len(u) /\ Len(u) \in Nat BY <1>1, LenProperties DEF IsSeq
<1>2. ASSUME NEW i \in DOMAIN s, s[i].name = "subscribe" PROVE Subscribe(s \o t)
  <2>1. i \in 1..Len(s) /\ Len(s) \in Nat /\ Len(t) \in Nat BY <1>1
  <2>2. i \in DOMAIN (s \o t) /\ (s \o t)[i] = s[i] BY <1>1, <2>1, Joined
  <2> QED BY <1>2, <2>2 DEF Subscribe
<1>3. ASSUME NEW i \in DOMAIN t, t[i].name = "subscribe" PROVE Subscribe(s \o t)
  <2>1. i \in 1..Len(t) /\ Len(s) \in Nat /\ Len(t) \in Nat BY <1>1
  <2>2. Len(s) + i \in 1..(Len(s) + Len(t)) /\ ~(Len(s) + i <= Len(s)) /\ (Len(s) + i) - Len(s) = i BY <2>1
  <2>3. Len(s) + i \in DOMAIN (s \o t) /\ (s \o t)[Len(s) + i] = t[i] BY <1>1, <2>2, Joined
  <2> QED BY <1>3, <2>3 DEF Subscribe
<1>4. ASSUME s # <<>>, NEW i \in DOMAIN s, s[i].name = "subscribe", Head(s).name # "subscribe" PROVE Subscribe(Tail(s))
  <2>1. i \in 1..Len(s) /\ Len(s) \in Nat /\ IsSeq(Tail(s)) /\ Len(Tail(s)) = Len(s) - 1 /\ i # 1
    BY <1>1, <1>4, WithoutFirst
  <2>2. i - 1 \in 1..(Len(s) - 1) /\ (i - 1) + 1 = i BY <2>1
  <2>3. i - 1 \in DOMAIN Tail(s) /\ Tail(s)[i - 1] = s[i] BY <1>1, <1>4, <2>1, <2>2, WithoutFirst
  <2> QED BY <1>4, <2>3 DEF Subscribe
<1> QED BY <1>2, <1>3, <1>4 DEF Subscribe

\* a view that misses something, and what is due then
Due == Subscribe(commands) \/ killed # "no" \/ pc = "kill"
Missing == ~Publishes /\ view.version > 0 /\ ~view.complete /\ active
\* A subscriber is told to subscribe.
LEMMA OnSubscribes == ~Publishes => On # <<>> /\ Subscribe(On) /\ Subscribe(Again)
<1> SUFFICES ASSUME ~Publishes PROVE On # <<>> /\ Subscribe(On) /\ Again = On BY DEF Again
<1>1. On = <<Command("subscribe", None)>> /\ Again = On BY DEF On, Again
<1>2. On[1].name = "subscribe" /\ 1 \in DOMAIN On /\ On # <<>> BY <1>1, One DEF Command
<1> QED BY <1>1, <1>2 DEF Subscribe

\* What is done to the account leaves a resubscription that is due as it is, or makes one due.
LEMMA AccountRepairs ==
  ASSUME AccountInv, ~Publishes, AccountNext, UNCHANGED subscriberVars
  PROVE  /\ SameKind /\ UNCHANGED <<data, posted>>
         /\ active' => active \/ Subscribe(commands')
         /\ active' /\ Subscribe(commands) => Subscribe(commands')
         /\ active' /\ pc = "kill" => pc' = "kill" \/ Subscribe(commands')
<1> USE DEF AccountInv
<1> DEFINE Stays == /\ UNCHANGED <<data, posted>>
                    /\ active' => active \/ Subscribe(commands')
                    /\ active' /\ Subscribe(commands) => Subscribe(commands')
                    /\ active' /\ pc = "kill" => pc' = "kill" \/ Subscribe(commands')
<1>1. ASSUME NEW more \in {On, Off, Again, <<>>}, Told(more), UNCHANGED <<data, posted, pc>>,
             active' => active \/ more = On
      PROVE  Stays
  <2>1. Subscribe(commands) \/ Subscribe(more) => Subscribe(commands') BY <1>1, Orders, StillSubscribes DEF Told, OpenInv
  <2> QED BY <1>1, <2>1, OnSubscribes
<1>2. ASSUME NEW op, Performs(op) PROVE Stays
  <2>1. CASE UNCHANGED handlerVars BY <2>1 DEF handlerVars
  <2>2. CASE start /\ ~alive
    <3>1. ~active BY <2>2 DEF OpenInv, Handling
    <3>2. CASE Wanted
      <4>1. Told(On) /\ UNCHANGED <<data, posted>> BY <2>2, <3>2 DEF start
      <4>2. Subscribe(commands') BY <4>1, Orders, OnSubscribes, StillSubscribes DEF Told, OpenInv
      <4> QED BY <4>1, <4>2
    <3>3. CASE ~Wanted BY <2>2, <3>1, <3>3 DEF start, Typed
    <3> QED BY <3>2, <3>3
  <2>3. CASE stop BY <2>3 DEF stop
  <2> QED BY <1>2, <2>1, <2>2, <2>3 DEF Performs, Activates, Deactivates
<1>3. ASSUME NEW op, Enters(op) PROVE Stays
  <2>1. CASE UNCHANGED handlerVars BY <2>1 DEF handlerVars
  <2> QED BY <1>2, <1>3, <2>1 DEF Enters
<1>4. ASSUME UNCHANGED handlerVars PROVE Stays BY <1>4 DEF handlerVars
<1>5. CASE AccountStart BY <1>3, <1>4, <1>5, SpendsKeepsKind DEF AccountStart
<1>6. CASE AccountStop BY <1>3, <1>6, SpendsKeepsKind DEF AccountStop
<1>0. UNCHANGED scene => SameKind BY DEF SameKind, Typed
<1>7. CASE Unlocks \/ Wakes BY <1>0, <1>2, <1>4, <1>7 DEF Unlocks, Wakes
<1>8. CASE ChangesSetting BY <1>4, <1>8, SpendsKeepsKind DEF ChangesSetting
<1>9. CASE SettingsDidChange
  <2>1. SameKind BY <1>0, <1>9 DEF SettingsDidChange
  <2>2. CASE Head(changes) = "enabled" BY <1>3, <1>4, <1>9, <2>1, <2>2 DEF SettingsDidChange
  <2>3. CASE Head(changes) # "enabled"
    <3>1. UNCHANGED <<data, posted, pc>> BY <1>9, <2>3 DEF SettingsDidChange
    <3>2. \/ UNCHANGED <<active, commands>>
          \/ \E more \in {On, Off, Again, <<>>} : Told(more) /\ (active' => active \/ more = On)
      BY <1>9, <2>3 DEF SettingsDidChange, activate, deactivate
    <3> QED BY <1>1, <2>1, <3>1, <3>2
  <2> QED BY <2>2, <2>3
<1>10. CASE NetworkConditionsDidChange
  <2>1. Spends("changes") /\ Told(Again) /\ UNCHANGED <<active, data, posted, pc>> BY <1>10 DEF NetworkConditionsDidChange
  <2>2. SameKind BY <2>1, SpendsKeepsKind
  <2> QED BY <1>1, <2>1, <2>2
<1>11. CASE Discovers
  <2>1. UNCHANGED <<scene, data, posted, pc>> BY <1>11 DEF Discovers
  <2>2. (active' = TRUE /\ Told(On)) \/ UNCHANGED <<active, commands>> BY <1>11 DEF Discovers, activate
  <2> QED BY <1>0, <1>1, <2>1, <2>2
<1>12. CASE Retries
  <2>1. UNCHANGED <<scene, data, posted, pc, active>> BY <1>12 DEF Retries
  <2>2. Told(On) \/ Told(<<>>) BY <1>12 DEF Retries
  <2> QED BY <1>0, <1>1, <2>1, <2>2
<1> QED BY <1>5, <1>6, <1>7, <1>8, <1>9, <1>10, <1>11, <1>12 DEF AccountNext

-----------------------------------------------------------------------------
\* The first element of a sequence of a type, and the rest.
LEMMA HeadTyped ==
  ASSUME NEW E, NEW s \in Seq(E), s # <<>> PROVE Head(s) \in E /\ Tail(s) \in Seq(E)
  BY HeadTailProperties
\* The steps of a subscriber keep the types, and its view with its subscription.
LEMMA ViewKept ==
  ASSUME AccountInv, ViewTyped, ViewHeld, SubscriberNext PROVE ViewTyped' /\ ViewHeld'
<1>0. NoView \in [version : Nat, complete : BOOLEAN] BY DEF NoView
<1>1. ASSUME Ends PROVE /\ handler' = "none" /\ posted' \in Seq(Events) /\ subscription' = None
  BY <1>1, EmptySeq DEF Ends
<1>2. [stage |-> "sent", want_end |-> FALSE, sent |-> 0] \in Subscriptions BY DEF Subscriptions
<1>3. ASSUME TriesNextRoute, handler \in {"dns", "answer"}, data' \in Seq(Events) PROVE ViewTyped' /\ ViewHeld'
  <2>1. CASE subscription' = [stage |-> "sent", want_end |-> FALSE, sent |-> 0] /\ handler' = "answer" /\ posted' = <<>>
             /\ UNCHANGED view
    <3>1. subscription' # None /\ subscription' \in Subscriptions BY <1>2, <2>1, SubscriptionAssumption
    <3>2. view = NoView BY <1>3 DEF ViewHeld
    <3> QED BY <1>3, <2>1, <3>1, <3>2, EmptySeq DEF ViewTyped, ViewHeld
  <2>2. CASE Ends /\ view' = NoView BY <1>0, <1>1, <1>3, <2>2 DEF ViewTyped, ViewHeld
  <2> QED BY <1>3, <2>1, <2>2 DEF TriesNextRoute, SubscribeFails
<1>4. ASSUME Ends, view' = NoView, data' \in Seq(Events) PROVE ViewTyped' /\ ViewHeld'
  BY <1>0, <1>1, <1>4 DEF ViewTyped, ViewHeld
<1>5. ASSUME data # <<>>, data' = Tail(data) PROVE data' \in Seq(Events) /\ Head(data) \in Events
  BY <1>5, HeadTyped DEF ViewTyped
<1>6. CASE TakesSubscribeCommand \/ Killed
  <2>1. UNCHANGED <<data, posted, subscription, view>> /\ (handler' = handler \/ (handler = "none" /\ handler' = "dns"))
    BY <1>6 DEF TakesSubscribeCommand, _CH_subscribe, _CH_unsubscribe, Spawns, Killed
  <2> QED BY <2>1 DEF ViewTyped, ViewHeld
<1>7. CASE RoutesReturn BY <1>3, <1>7 DEF RoutesReturn, ViewTyped
<1>8. CASE ReadsStart
  <2>1. handler = "answer" /\ data' \in Seq(Events) BY <1>5, <1>8 DEF ReadsStart
  <2>2. view = NoView /\ subscription # None BY <2>1 DEF ViewHeld
  <2>3. \/ UNCHANGED <<subscription, view, posted>>
        \/ TriesNextRoute
        \/ Ends /\ view' = NoView
    BY <1>8 DEF ReadsStart, subscriberVars, SubscribeFails
  <2>4. CASE UNCHANGED <<subscription, view, posted>> BY <2>1, <2>2, <2>4 DEF ViewTyped, ViewHeld
  <2> QED BY <1>3, <1>4, <2>1, <2>3, <2>4
<1>9. CASE ReadsNotify
  <2>1. handler = "subscribed" /\ data' \in Seq(Events) /\ Head(data) \in Events BY <1>5, <1>9 DEF ReadsNotify
  <2>2. subscription # None BY <2>1 DEF ViewHeld
  <2>3. \/ GotNotify(Head(data)) /\ UNCHANGED <<handler, subscription, posted>>
        \/ UNCHANGED <<subscription, view, posted, handler>>
        \/ Ends /\ view' = NoView
    BY <1>9 DEF ReadsNotify, subscriberVars
  <2>4. ASSUME GotNotify(Head(data)) PROVE view' \in [version : Nat, complete : BOOLEAN]
    BY <2>1, <2>4 DEF GotNotify, Events, ViewTyped
  <2>5. CASE GotNotify(Head(data)) /\ UNCHANGED <<handler, subscription, posted>>
    BY <2>1, <2>2, <2>4, <2>5 DEF ViewTyped, ViewHeld
  <2>6. CASE UNCHANGED <<subscription, view, posted, handler>> BY <2>1, <2>6 DEF ViewTyped, ViewHeld
  <2> QED BY <1>4, <2>1, <2>3, <2>5, <2>6
<1>10. CASE Interrupted
  <2>1. Ends /\ view' = (IF subscription = None THEN view ELSE NoView) /\ UNCHANGED data BY <1>10 DEF Interrupted
  <2>2. view' = NoView BY <2>1 DEF ViewHeld
  <2> QED BY <1>4, <2>1, <2>2 DEF ViewTyped
<1>11. CASE Terminated
  <2>1. UNCHANGED data BY <1>11 DEF Terminated
  <2>2. CASE subscription = None
    <3>1. Ends /\ view' = NoView BY <1>11, <2>2 DEF Terminated, ViewHeld
    <3> QED BY <1>4, <2>1, <3>1 DEF ViewTyped
  <2>3. CASE subscription # None
    <3>1. handler' = "ending" /\ UNCHANGED <<posted, view>> /\ subscription' = [subscription EXCEPT !.want_end = TRUE]
      BY <1>11, <2>3 DEF Terminated
    <3>2. subscription' \in Subscriptions BY <2>3, <3>1 DEF ViewTyped, Subscriptions
    <3>3. subscription' # None BY <3>2, SubscriptionAssumption
    <3> QED BY <2>1, <3>1, <3>2, <3>3 DEF ViewTyped, ViewHeld
  <2> QED BY <2>2, <2>3
<1>12. CASE ReadsEnding
  <2>1. data' \in Seq(Events) BY <1>5, <1>12 DEF ReadsEnding
  <2>2. UNCHANGED <<subscription, view, posted, handler>> \/ (Ends /\ view' = NoView)
    BY <1>12 DEF ReadsEnding, subscriberVars
  <2>3. CASE UNCHANGED <<subscription, view, posted, handler>> BY <2>1, <2>3 DEF ViewTyped, ViewHeld
  <2> QED BY <1>4, <2>1, <2>2, <2>3
<1>13. CASE SubscriberHandles
  <2>1. posted # <<>> /\ posted' = Tail(posted) /\ data' = Append(data, Head(posted))
        /\ UNCHANGED <<subscription, view, handler>>
    BY <1>13 DEF SubscriberHandles, subscriberVars
  <2>2. Head(posted) \in Events /\ posted' \in Seq(Events) BY <2>1, HeadTyped DEF ViewTyped
  <2>3. data' \in Seq(Events) BY <2>1, <2>2, AppendProperties DEF ViewTyped
  <2> QED BY <2>1, <2>2, <2>3 DEF ViewTyped, ViewHeld
<1>14. CASE Accepted \/ NotifiedEarly \/ Finishes \/ Notifies
  <2>1. subscription \in Subscriptions /\ UNCHANGED <<data, handler, view>>
    BY <1>14 DEF Accepted, NotifiedEarly, Finishes, Notifies, Alive, SubscriptionOnly, ViewTyped
  <2>2. subscription.sent \in Nat /\ subscription.sent + 1 \in Nat BY <2>1 DEF Subscriptions
  <2>3. subscription' \in Subscriptions
    BY <1>14, <2>1, <2>2 DEF Accepted, NotifiedEarly, Finishes, Notifies, Turns, Subscriptions
  <2>4. posted' = posted \/ \E event \in Events : posted' = Append(posted, event)
    BY <1>14, <2>2 DEF Accepted, NotifiedEarly, Finishes, Notifies, Raises, Event, Events
  <2>5. posted' \in Seq(Events) BY <2>4, AppendProperties DEF ViewTyped
  <2>6. subscription' # None BY <2>3, SubscriptionAssumption
  <2> QED BY <2>1, <2>3, <2>5, <2>6 DEF ViewTyped, ViewHeld
<1> QED BY <1>6, <1>7, <1>8, <1>9, <1>10, <1>11, <1>12, <1>13, <1>14 DEF SubscriberNext

\* A view that misses something after a step of the subscriber has a subscription coming.
LEMMA GapKept ==
  ASSUME AccountInv, ~Publishes, ViewTyped, ViewHeld, Missing => Due, SubscriberNext, Missing'
  PROVE  Due'
<1> USE DEF AccountInv
<1>0. ~Publishes' /\ UNCHANGED active BY SubscriberSteps DEF HandlerStep, SameKind, Publishes
<1>1. ASSUME view' = NoView PROVE FALSE BY <1>1 DEF Missing, NoView
<1>2. ASSUME UNCHANGED view PROVE Due BY <1>0, <1>2 DEF Missing
<1>3. ASSUME NEW more \in {<<>>, On}, Told(more) PROVE Subscribe(commands) \/ more = On => Subscribe(commands')
  BY <1>0, <1>3, Orders, OnSubscribes, StillSubscribes DEF Told, OpenInv, SameKind, Publishes
<1>4. CASE TakesSubscribeCommand
  <2>1. pc = "idle" /\ commands # <<>> /\ commands' = Tail(commands) /\ UNCHANGED view BY <1>4 DEF TakesSubscribeCommand
  <2>2. handler # "none"
    <3> SUFFICES ASSUME handler = "none" PROVE FALSE OBVIOUS
    <3>1. view = NoView BY DEF ViewHeld
    <3> QED BY <1>1, <2>1, <3>1
  <2>3. killed' \in {"interrupt", "terminate"} BY <1>4, <2>2 DEF TakesSubscribeCommand, _CH_subscribe, _CH_unsubscribe
  <2> QED BY <2>3 DEF Due
<1>5. CASE Killed
  <2>1. view' = NoView BY <1>5 DEF Killed, ViewHeld
  <2> QED BY <1>1, <2>1
<1>6. ASSUME TriesNextRoute, handler \in {"dns", "answer"} PROVE FALSE
  <2>1. view = NoView BY <1>6 DEF ViewHeld
  <2>2. view' = NoView BY <1>6, <2>1 DEF TriesNextRoute, SubscribeFails
  <2> QED BY <1>1, <2>2
<1>7. CASE RoutesReturn BY <1>6, <1>7 DEF RoutesReturn
<1>8. CASE ReadsStart
  <2>1. handler = "answer" /\ view = NoView BY <1>8 DEF ReadsStart, ViewHeld
  <2>2. UNCHANGED view \/ TriesNextRoute \/ view' = NoView BY <1>8 DEF ReadsStart, subscriberVars, SubscribeFails
  <2> QED BY <1>1, <1>6, <2>1, <2>2
<1>9. CASE ReadsNotify
  <2> DEFINE item == Head(data)
             gap == ~item.full /\ (view.version = 0 \/ item.version > view.version + 1)
  <2>1. item \in Events BY <1>9, HeadTyped DEF ReadsNotify, ViewTyped
  <2>2. \/ GotNotify(item) /\ UNCHANGED killed
        \/ UNCHANGED <<view, killed, commands>>
        \/ view' = NoView
    BY <1>9 DEF ReadsNotify, subscriberVars
  <2>3. UNCHANGED pc BY <1>9 DEF ReadsNotify, HandlerOnly
  <2>4. CASE UNCHANGED <<view, killed, commands>> BY <1>2, <2>3, <2>4 DEF Due
  <2>5. CASE GotNotify(item) /\ UNCHANGED killed
    <3>1. CASE item.version <= view.version BY <1>2, <2>3, <2>5, <3>1 DEF Due, GotNotify
    <3>2. CASE ~(item.version <= view.version)
      <4>1. view' = [version |-> item.version, complete |-> item.full \/ (~gap /\ view.complete)]
            /\ Told(IF gap /\ active THEN On ELSE <<>>)
        BY <2>5, <3>2 DEF GotNotify
      <4>2. active /\ ~item.full /\ (gap \/ ~view.complete) BY <1>0, <4>1 DEF Missing
      <4>3. CASE gap
        <5>1. Told(On) BY <4>1, <4>2, <4>3
        <5> QED BY <1>3, <5>1 DEF Due
      <4>4. CASE ~gap
        <5>1. view.version > 0 BY <2>1, <4>2, <4>4 DEF ViewTyped, Events
        <5>2. Due BY <4>2, <4>4, <5>1 DEF Missing
        <5>3. Told(<<>>) BY <4>1, <4>4
        <5> QED BY <1>3, <2>3, <2>5, <5>2, <5>3 DEF Due
      <4> QED BY <4>3, <4>4
    <3> QED BY <3>1, <3>2
  <2> QED BY <1>1, <2>2, <2>4, <2>5
<1>10. CASE Interrupted
  <2>1. view' = NoView BY <1>10 DEF Interrupted, ViewHeld
  <2> QED BY <1>1, <2>1
<1>11. CASE Terminated
  <2>1. CASE subscription = None
    <3>1. view' = NoView BY <1>11, <2>1 DEF Terminated, ViewHeld
    <3> QED BY <1>1, <3>1
  <2>2. CASE subscription # None
    <3>1. killed = "terminate" /\ UNCHANGED killed BY <1>11, <2>2 DEF Terminated
    <3> QED BY <3>1 DEF Due
  <2> QED BY <2>1, <2>2
<1>12. CASE ReadsEnding
  <2>1. view' = NoView \/ UNCHANGED <<view, killed, commands, pc>>
    BY <1>12 DEF ReadsEnding, subscriberVars, HandlerOnly
  <2> QED BY <1>1, <1>2, <2>1 DEF Due
<1>13. CASE SubscriberHandles \/ Accepted \/ NotifiedEarly \/ Finishes \/ Notifies
  <2>1. UNCHANGED <<view, killed, commands, pc>>
    BY <1>13 DEF SubscriberHandles, Accepted, NotifiedEarly, Finishes, Notifies, SubscriptionOnly, subscriberVars
  <2> QED BY <1>2, <2>1 DEF Due
<1> QED BY <1>4, <1>5, <1>7, <1>8, <1>9, <1>10, <1>11, <1>12, <1>13 DEF SubscriberNext

-----------------------------------------------------------------------------
SubscriptionInv == AccountInv /\ (~Publishes => ViewTyped /\ ViewHeld /\ (Missing => Due))

\* The invariant implies the property.
LEMMA GapIsDue == ASSUME SubscriptionInv PROVE GapIsRepaired
  BY DEF SubscriptionInv, GapIsRepaired, Missing, Due, Subscribe

\* SubscriptionInv is inductive.
LEMMA SubscriptionInvKept == ASSUME SubscriptionInv, [HandlersNext]_handlersVars PROVE SubscriptionInv'
<1> USE DEF SubscriptionInv
<1>1. AccountInv' BY AccountInvKept
<1>2. CASE ~Publishes
  <2>1. CASE AccountNext /\ UNCHANGED subscriberVars
    <3>1. /\ SameKind /\ UNCHANGED <<data, posted>>
          /\ active' => active \/ Subscribe(commands')
          /\ active' /\ Subscribe(commands) => Subscribe(commands')
          /\ active' /\ pc = "kill" => pc' = "kill" \/ Subscribe(commands')
      BY <1>2, <2>1, AccountRepairs
    <3>2. ViewTyped' /\ ViewHeld' BY <1>2, <2>1, <3>1 DEF ViewTyped, ViewHeld, subscriberVars
    <3>3. ASSUME Missing' PROVE Due'
      <4>1. UNCHANGED <<view, killed>> /\ active' BY <2>1, <3>3 DEF subscriberVars, Missing
      <4>2. CASE active
        <5>1. Due BY <1>2, <3>3, <4>1, <4>2 DEF Missing
        <5> QED BY <3>1, <4>1, <5>1 DEF Due
      <4>3. CASE ~active BY <3>1, <4>1, <4>3 DEF Due
      <4> QED BY <4>2, <4>3
    <3> QED BY <1>1, <3>2, <3>3
  <2>2. CASE SubscriberNext BY <1>1, <1>2, <2>2, ViewKept, GapKept
  <2>3. CASE UNCHANGED handlersVars
    BY <1>1, <1>2, <2>3 DEF handlersVars, handlerVars, subscriberVars, accountVars, ViewTyped, ViewHeld,
       Missing, Due, Publishes, Subscribe
  <2> QED BY <1>2, <2>1, <2>2, <2>3 DEF HandlersNext
<1>3. CASE Publishes
  <2>1. ASSUME HandlersNext PROVE SameKind
    BY <2>1, PublisherSteps, SubscriberSteps, AccountKeepsKind DEF HandlersNext, HandlerStep
  <2>2. ASSUME UNCHANGED handlersVars PROVE SameKind BY <2>2 DEF handlersVars, SameKind, AccountInv, Typed
  <2> QED BY <1>1, <1>3, <2>1, <2>2 DEF SameKind, Publishes
<1> QED BY <1>2, <1>3

\* A subscription view is never kept without a subscription, and one that misses something has a
\* subscribe command, or the end of the green thread, coming (_subscription_handler).
THEOREM SubscriptionInStep == HandlersSpec => []SubscriptionInv
<1>1. HandlersInit => SubscriptionInv
  <2> SUFFICES ASSUME HandlersInit PROVE SubscriptionInv OBVIOUS
  <2>1. AccountInv BY Starts, AccountAssumption
  <2>2. ViewTyped /\ ViewHeld /\ ~Missing
    BY EmptySeq DEF HandlersInit, AccountInit, SubscriberInit, ViewTyped, ViewHeld, Missing, NoView
  <2> QED BY <2>1, <2>2 DEF SubscriptionInv
<1>2. SubscriptionInv /\ [HandlersNext]_handlersVars => SubscriptionInv' BY SubscriptionInvKept
<1> QED BY <1>1, <1>2, PTL DEF HandlersSpec
\* A gap in the versions of the notifications always makes the account subscribe again, whatever
\* was lost, killed or ended meanwhile (the version checks of the account).
THEOREM GapsAlwaysRepaired == HandlersSpec => []GapIsRepaired
<1>1. SubscriptionInv => GapIsRepaired BY GapIsDue
<1> QED BY <1>1, SubscriptionInStep, PTL

-----------------------------------------------------------------------------
\* something of that name is among them, and no two of those names are
Tells(s, names) == \E i \in DOMAIN s : s[i].name \in names
Single(s, names) == \A i, j \in DOMAIN s : s[i].name \in names /\ s[j].name \in names => i = j
\* One less, which was the first.
LEMMA FirstGone ==
  ASSUME NEW s, IsSeq(s), s # <<>>
  PROVE  /\ IsSeq(Tail(s))
         /\ \A names : Tells(s, names) <=> s[1].name \in names \/ Tells(Tail(s), names)
         /\ \A names : Single(s, names) => Single(Tail(s), names) /\ (s[1].name \in names => ~Tells(Tail(s), names))
<1>1. /\ IsSeq(Tail(s)) /\ Len(s) \in Nat \ {0} /\ Len(Tail(s)) = Len(s) - 1
      /\ \A i \in 1..(Len(s) - 1) : Tail(s)[i] = s[i + 1]
  BY WithoutFirst
<1>2. DOMAIN s = 1..Len(s) /\ DOMAIN Tail(s) = 1..(Len(s) - 1) BY <1>1, LenProperties DEF IsSeq
<1>3. ASSUME NEW names, Tells(s, names), s[1].name \notin names PROVE Tells(Tail(s), names)
  <2>1. PICK i \in 1..Len(s) : s[i].name \in names BY <1>2, <1>3 DEF Tells
  <2>2. i # 1 BY <1>3, <2>1
  <2>3. i - 1 \in 1..(Len(s) - 1) /\ (i - 1) + 1 = i BY <1>1, <2>1, <2>2
  <2> QED BY <1>1, <1>2, <2>1, <2>3 DEF Tells
<1>4. ASSUME NEW names, Tells(Tail(s), names) PROVE Tells(s, names)
  <2>1. PICK i \in 1..(Len(s) - 1) : Tail(s)[i].name \in names BY <1>2, <1>4 DEF Tells
  <2>2. i + 1 \in 1..Len(s) /\ s[i + 1].name \in names BY <1>1, <2>1
  <2> QED BY <1>2, <2>2 DEF Tells
<1>5. ASSUME NEW names, s[1].name \in names PROVE Tells(s, names) BY <1>1, <1>2, <1>5 DEF Tells
<1>6. ASSUME NEW names, Single(s, names) PROVE Single(Tail(s), names) /\ (s[1].name \in names => ~Tells(Tail(s), names))
  <2>1. ASSUME NEW i \in 1..(Len(s) - 1) PROVE i + 1 \in 1..Len(s) /\ Tail(s)[i] = s[i + 1] /\ i + 1 # 1 /\ 1 \in 1..Len(s)
    BY <1>1
  <2>2. ASSUME NEW i \in 1..(Len(s) - 1), NEW j \in 1..(Len(s) - 1), Tail(s)[i].name \in names, Tail(s)[j].name \in names
        PROVE  i = j
    <3>1. i + 1 = j + 1 BY <1>2, <1>6, <2>1, <2>2 DEF Single
    <3> QED BY <3>1
  <2>3. ASSUME s[1].name \in names, NEW i \in 1..(Len(s) - 1), Tail(s)[i].name \in names PROVE FALSE
    BY <1>2, <1>6, <2>1, <2>3 DEF Single
  <2> QED BY <1>2, <2>2, <2>3 DEF Single, Tells
<1> QED BY <1>1, <1>3, <1>4, <1>5, <1>6
\* One more, at the end.
LEMMA LastAdded ==
  ASSUME NEW s, NEW e, IsSeq(s)
  PROVE  /\ IsSeq(Append(s, e))
         /\ \A names : Tells(Append(s, e), names) <=> Tells(s, names) \/ e.name \in names
         /\ \A names : Single(s, names) /\ (e.name \in names => ~Tells(s, names)) => Single(Append(s, e), names)
<1>1. PICK S : s \in Seq(S) BY DEF IsSeq
<1>2. /\ Len(s) \in Nat /\ DOMAIN s = 1..Len(s) /\ DOMAIN Append(s, e) = 1..(Len(s) + 1)
      /\ Append(s, e)[Len(s) + 1] = e
      /\ \A i \in 1..Len(s) : Append(s, e)[i] = s[i]
  BY <1>1
<1>3. 1..(Len(s) + 1) = 1..Len(s) \cup {Len(s) + 1} BY <1>2
<1>4. IsSeq(Append(s, e)) BY OneMore
<1>5. ASSUME NEW names PROVE Tells(Append(s, e), names) <=> Tells(s, names) \/ e.name \in names
  BY <1>2, <1>3 DEF Tells
<1>6. ASSUME NEW names, Single(s, names), e.name \in names => ~Tells(s, names) PROVE Single(Append(s, e), names)
  BY <1>2, <1>3, <1>6 DEF Single, Tells
<1> QED BY <1>4, <1>5, <1>6

-----------------------------------------------------------------------------
\* What is done to an account, as its handler sees it: it is asked for what the settings are, or
\* for nothing.
AccountAsks ==
  /\ SameKind /\ slips \subseteq slips' /\ UNCHANGED <<data, posted, cmd, state>>
  /\ pc' = pc \/ (pc = "off" /\ pc' = "idle")
  /\ \/ UNCHANGED <<active, commands, timer>>
     \/ active' = TRUE /\ (Told(On) \/ (active /\ Told(Again))) /\ (timer' = timer \/ timer' = FALSE)
     \/ active' = FALSE /\ (Told(Off) \/ Told(<<Command("terminate", None)>>)) /\ UNCHANGED timer
     \/ active' = FALSE /\ active = FALSE /\ UNCHANGED commands /\ timer' = FALSE
\* Every step of the account asks its handler so.
LEMMA AccountSteps == ASSUME AccountInv, AccountNext PROVE AccountAsks
<1> USE DEF AccountInv
<1> DEFINE Asked == \/ UNCHANGED <<active, commands, timer>>
                    \/ active' = TRUE /\ (Told(On) \/ (active /\ Told(Again))) /\ (timer' = timer \/ timer' = FALSE)
                    \/ active' = FALSE /\ (Told(Off) \/ Told(<<Command("terminate", None)>>)) /\ UNCHANGED timer
                    \/ active' = FALSE /\ active = FALSE /\ UNCHANGED commands /\ timer' = FALSE
           Same == UNCHANGED <<data, posted, cmd, state>>
           Moves == pc' = pc \/ (pc = "off" /\ pc' = "idle")
<1>0. SameKind BY AccountKeepsKind
<1>1. UNCHANGED handlerVars => Same /\ Moves /\ Asked BY DEF handlerVars
<1>2. ASSUME NEW op, ~locked, Performs(op) PROVE Same /\ Moves /\ Asked
  <2>1. CASE UNCHANGED handlerVars BY <1>1, <2>1
  <2>2. CASE start /\ ~alive
    <3>1. ~active /\ pc = "off" BY <1>2, <2>2 DEF OpenInv, Handling, Stopping
    <3>2. Same /\ Moves BY <2>2, <3>1 DEF start
    <3>3. Asked BY <2>2 DEF start
    <3> QED BY <3>2, <3>3
  <2>3. CASE stop BY <2>3 DEF stop
  <2> QED BY <1>2, <2>1, <2>2, <2>3 DEF Performs, Activates, Deactivates
<1>3. ASSUME NEW op, Enters(op) PROVE Same /\ Moves /\ Asked
  BY <1>1, <1>2, <1>3 DEF Enters
<1>4. ASSUME Same /\ Moves /\ Asked, slips \subseteq slips' PROVE AccountAsks
  <2> HIDE DEF Asked
  <2>1. Asked => \/ UNCHANGED <<active, commands, timer>>
                 \/ active' = TRUE /\ (Told(On) \/ (active /\ Told(Again))) /\ (timer' = timer \/ timer' = FALSE)
                 \/ active' = FALSE /\ (Told(Off) \/ Told(<<Command("terminate", None)>>)) /\ UNCHANGED timer
                 \/ active' = FALSE /\ active = FALSE /\ UNCHANGED commands /\ timer' = FALSE
    BY DEF Asked
  <2> QED BY <1>0, <1>4, <2>1 DEF AccountAsks
<1> HIDE DEF Same, Moves
<1>5. CASE AccountStart BY <1>1, <1>3, <1>4, <1>5 DEF AccountStart
<1>6. CASE AccountStop BY <1>3, <1>4, <1>6 DEF AccountStop
<1>7. CASE Unlocks BY <1>1, <1>4, <1>7 DEF Unlocks
<1>8. CASE Wakes
  <2>1. ~locked /\ (\E op : Performs(op)) /\ slips \subseteq slips' BY <1>8 DEF Wakes
  <2> QED BY <1>2, <1>4, <2>1
<1>9. CASE ChangesSetting BY <1>1, <1>4, <1>9 DEF ChangesSetting
<1>10. CASE SettingsDidChange
  <2>1. UNCHANGED slips BY <1>10 DEF SettingsDidChange
  <2>2. CASE Head(changes) = "enabled" BY <1>1, <1>3, <1>4, <1>10, <2>1, <2>2 DEF SettingsDidChange
  <2>3. CASE Head(changes) # "enabled"
    <3>1. UNCHANGED <<state, data, posted, timer, pc, cmd>> BY <1>10, <2>3 DEF SettingsDidChange
    <3>2. \/ UNCHANGED <<active, commands>>
          \/ active' = TRUE /\ Told(On)
          \/ active' = FALSE /\ Told(Off)
          \/ UNCHANGED active /\ Told(IF active THEN Again ELSE <<>>)
      BY <1>10, <2>3 DEF SettingsDidChange, activate, deactivate
    <3>3. Told(<<>>) => UNCHANGED commands BY Joined, Empty DEF Told, OpenInv
    <3>4. Asked BY <3>1, <3>2, <3>3 DEF Typed
    <3> QED BY <1>4, <2>1, <3>1, <3>4 DEF Same, Moves
  <2> QED BY <2>2, <2>3
<1>11. CASE NetworkConditionsDidChange
  BY <1>4, <1>11 DEF NetworkConditionsDidChange, Same, Moves, Typed
<1>12. CASE Discovers
  <2>1. UNCHANGED <<state, data, posted, timer, pc, cmd, slips>> BY <1>12 DEF Discovers
  <2>2. (active' = TRUE /\ Told(On)) \/ UNCHANGED <<active, commands>> BY <1>12 DEF Discovers, activate
  <2> QED BY <1>4, <2>1, <2>2 DEF Same, Moves
<1>13. CASE Retries
  <2>1. UNCHANGED <<state, data, posted, pc, active, cmd, slips>> /\ timer' = FALSE BY <1>13 DEF Retries
  <2>2. Told(<<>>) => UNCHANGED commands BY Joined, Empty DEF Told, OpenInv
  <2>3. CASE active BY <1>4, <1>13, <2>1, <2>3 DEF Retries, Same, Moves, Typed
  <2>4. CASE ~active BY <1>4, <1>13, <2>1, <2>2, <2>4 DEF Retries, Same, Moves, Typed
  <2> QED BY <2>3, <2>4
<1> QED BY <1>5, <1>6, <1>7, <1>8, <1>9, <1>10, <1>11, <1>12, <1>13 DEF AccountNext

-----------------------------------------------------------------------------
\* where the green thread is, with its subscription, and who waits for it
Threaded ==
  /\ handler \in {"none", "dns", "answer", "subscribed", "ending"} /\ killed \in {"no", "interrupt", "terminate"}
  /\ pc \in {"off", "idle", "kill"}
  /\ handler = "none" => killed = "no"
  /\ handler = "ending" => killed = "terminate"
  /\ handler \in {"none", "dns"} <=> subscription = None
  /\ handler \in {"none", "dns", "answer"} => subscribed = FALSE
  /\ handler = "subscribed" => subscribed = TRUE
  /\ killed # "no" => pc = "kill"
\* The last thing the subscriber was told, what it is doing when that is under way, and where its green thread
\* is when it is done: all lead to where the account wants it, or the timer of another attempt is armed.
Aimed ==
  /\ commands # <<>> => (commands[Len(commands)].name = "subscribe" <=> active)
  /\ commands = <<>> /\ pc = "kill" => (cmd.name = "subscribe" <=> active)
  /\ commands = <<>> /\ pc # "kill" => IF active THEN handler # "none" \/ timer ELSE handler = "none"

\* The last of two sequences is the last of the second, and an element is the last of what is left.
LEMMA LastOf ==
  ASSUME NEW s, NEW t, IsSeq(s), IsSeq(t)
  PROVE  /\ t # <<>> => s \o t # <<>> /\ (s \o t)[Len(s \o t)] = t[Len(t)]
         /\ s # <<>> /\ Tail(s) # <<>> => Tail(s)[Len(Tail(s))] = s[Len(s)]
         /\ s # <<>> /\ Tail(s) = <<>> => Head(s) = s[Len(s)]
<1>1. ASSUME t # <<>> PROVE s \o t # <<>> /\ (s \o t)[Len(s \o t)] = t[Len(t)]
  <2>1. Len(s) \in Nat /\ Len(t) \in Nat \ {0} /\ Len(s \o t) = Len(s) + Len(t) BY <1>1, Joined, WithoutFirst
  <2>2. Len(s \o t) \in 1..(Len(s) + Len(t)) /\ ~(Len(s \o t) <= Len(s)) /\ Len(s \o t) - Len(s) = Len(t) BY <2>1
  <2> QED BY <1>1, <2>2, Joined
<1>2. ASSUME s # <<>>, Tail(s) # <<>> PROVE Tail(s)[Len(Tail(s))] = s[Len(s)]
  <2>1. Len(s) \in Nat \ {0} /\ Len(s) # 1 /\ Len(Tail(s)) = Len(s) - 1 BY <1>2, WithoutFirst
  <2>2. Len(Tail(s)) \in 1..(Len(s) - 1) /\ Len(Tail(s)) + 1 = Len(s) BY <2>1
  <2> QED BY <1>2, <2>2, WithoutFirst
<1>3. ASSUME s # <<>>, Tail(s) = <<>> PROVE Head(s) = s[Len(s)] BY <1>3, WithoutFirst
<1> QED BY <1>1, <1>2, <1>3

\* What a subscriber is told, by the name of the last command.
LEMMA LastTold ==
  ASSUME ~Publishes, IsSeq(commands)
  PROVE  /\ Told(On) \/ Told(Again) =>
              IsSeq(commands') /\ commands' # <<>> /\ commands'[Len(commands')].name = "subscribe"
         /\ Told(Off) \/ Told(<<Command("terminate", None)>>) =>
              IsSeq(commands') /\ commands' # <<>> /\ commands'[Len(commands')].name # "subscribe"
         /\ Told(<<>>) => UNCHANGED commands
<1>1. ASSUME NEW n, NEW v, Told(<<Command(n, v)>>)
      PROVE  IsSeq(commands') /\ commands' # <<>> /\ commands'[Len(commands')].name = n
  <2>1. <<Command(n, v)>>[Len(<<Command(n, v)>>)].name = n BY One DEF Command
  <2>2. IsSeq(<<Command(n, v)>>) /\ <<Command(n, v)>> # <<>> BY One
  <2> QED BY <1>1, <2>1, <2>2, LastOf, Joined DEF Told
<1>2. On = <<Command("subscribe", None)>> /\ Again = On /\ Off = <<Command("unsubscribe", None)>> BY DEF On, Again, Off
<1>3. Told(<<>>) => UNCHANGED commands BY Joined, Empty DEF Told
<1> QED BY <1>1, <1>2, <1>3

\* What is asked of a subscriber aims it at what the account wants.
LEMMA AsksAim ==
  ASSUME ~Publishes, AccountInv, AccountAsks, Threaded, Aimed, UNCHANGED subscriberVars PROVE Threaded' /\ Aimed'
<1> USE DEF AccountInv, OpenInv, AccountAsks
<1>1. Threaded' BY DEF Threaded, subscriberVars
<1>2. active \in BOOLEAN /\ UNCHANGED <<handler, cmd>> /\ (pc' = "kill" <=> pc = "kill") BY DEF Typed, subscriberVars
<1>3. CASE UNCHANGED <<active, commands, timer>> BY <1>1, <1>2, <1>3 DEF Aimed
<1>4. CASE active' = TRUE /\ (Told(On) \/ (active /\ Told(Again))) BY <1>1, <1>4, LastTold DEF Aimed
<1>5. CASE active' = FALSE /\ (Told(Off) \/ Told(<<Command("terminate", None)>>)) BY <1>1, <1>5, LastTold DEF Aimed
<1>6. CASE active' = FALSE /\ active = FALSE /\ UNCHANGED commands BY <1>1, <1>2, <1>6 DEF Aimed
<1> QED BY <1>1, <1>3, <1>4, <1>5, <1>6

\* Every step of a subscriber keeps its green thread with its subscription, and aimed.
LEMMA ThreadKept ==
  ASSUME ~Publishes, AccountInv, ViewTyped, Threaded, Aimed, SubscriberNext PROVE Threaded' /\ Aimed'
<1> USE DEF AccountInv, OpenInv
<1>0. active \in BOOLEAN /\ UNCHANGED active BY SubscriberSteps DEF Typed, HandlerStep
<1>1. CASE TakesSubscribeCommand
  <2>1. /\ pc = "idle" /\ commands # <<>> /\ commands' = Tail(commands) /\ cmd' = Head(commands)
        /\ UNCHANGED <<subscription, subscribed>>
        /\ _CH_subscribe(Head(commands)) \/ _CH_unsubscribe(Head(commands))
    BY <1>1 DEF TakesSubscribeCommand
  <2>2. CASE handler = "none"
    <3>1. /\ UNCHANGED killed /\ pc' \in {"idle", "off"} /\ handler' \in {"none", "dns"}
          /\ handler' = "dns" <=> Head(commands).name = "subscribe"
      BY <2>1, <2>2 DEF _CH_subscribe, _CH_unsubscribe, Spawns
    <3>2. Threaded' BY <2>1, <2>2, <3>1 DEF Threaded
    <3>3. Aimed'
      <4>1. CASE commands' = <<>>
        <5>1. Head(commands).name = "subscribe" <=> active BY <2>1, <4>1, LastOf DEF Aimed
        <5> QED BY <1>0, <3>1, <4>1, <5>1 DEF Aimed
      <4>2. CASE commands' # <<>>
        <5>1. commands'[Len(commands')] = commands[Len(commands)] BY <2>1, <4>2, LastOf
        <5> QED BY <1>0, <2>1, <4>2, <5>1 DEF Aimed
      <4> QED BY <4>1, <4>2
    <3> QED BY <3>2, <3>3
  <2>3. CASE handler # "none"
    <3>1. killed' \in {"interrupt", "terminate"} /\ pc' = "kill" /\ UNCHANGED handler
      BY <2>1, <2>3 DEF _CH_subscribe, _CH_unsubscribe
    <3>a. handler # "ending" BY <2>1 DEF Threaded
    <3>2. Threaded' BY <2>1, <2>3, <3>1, <3>a DEF Threaded
    <3>3. Aimed'
      <4>1. CASE commands' = <<>>
        <5>1. Head(commands).name = "subscribe" <=> active BY <2>1, <4>1, LastOf DEF Aimed
        <5> QED BY <1>0, <2>1, <3>1, <4>1, <5>1 DEF Aimed
      <4>2. CASE commands' # <<>>
        <5>1. commands'[Len(commands')] = commands[Len(commands)] BY <2>1, <4>2, LastOf
        <5> QED BY <1>0, <2>1, <4>2, <5>1 DEF Aimed
      <4> QED BY <4>1, <4>2
    <3> QED BY <3>2, <3>3
  <2> QED BY <2>2, <2>3
<1>2. CASE Killed
  <2>1. pc = "kill" /\ handler = "none" /\ UNCHANGED <<commands, cmd, killed, subscription, subscribed>> BY <1>2 DEF Killed
  <2>2. IF cmd.name = "subscribe" THEN handler' = "dns" /\ pc' = "idle"
        ELSE pc' \in {"off", "idle"} /\ UNCHANGED handler
    BY <1>2 DEF Killed, Spawns
  <2>3. Threaded' BY <2>1, <2>2 DEF Threaded
  <2>4. Aimed' BY <1>0, <2>1, <2>2 DEF Aimed
  <2> QED BY <2>3, <2>4
\* the green thread ends: when nobody waits for it another attempt is to come
<1>3. ASSUME Ends, UNCHANGED pc PROVE Threaded' BY <1>3 DEF Ends, Threaded
<1>4. ASSUME Ends, handler # "none", UNCHANGED <<commands, pc, cmd>>, pc = "kill" \/ timer' = TRUE PROVE Aimed'
  <2>1. pc # "kill" /\ commands = <<>> => active BY <1>4, <1>0 DEF Aimed
  <2> QED BY <1>0, <1>4, <2>1 DEF Ends, Aimed
\* it goes on
<1>5. ASSUME handler # "none", handler' # "none", UNCHANGED <<pc, cmd>>,
             commands' = commands \/ (active /\ Told(On)) PROVE Aimed'
  <2>1. CASE UNCHANGED commands BY <1>0, <1>5, <2>1 DEF Aimed
  <2>2. CASE active /\ Told(On)
    <3>1. commands' # <<>> /\ commands'[Len(commands')].name = "subscribe" BY <2>2, LastTold
    <3> QED BY <1>0, <2>2, <3>1 DEF Aimed
  <2> QED BY <1>5, <2>1, <2>2
<1>6. ASSUME TriesNextRoute, handler \in {"dns", "answer"}, UNCHANGED <<commands, pc, cmd>> PROVE Threaded' /\ Aimed'
  <2>1. CASE SubscribeFails
    <3>1. Ends /\ timer' = TRUE BY <2>1 DEF SubscribeFails
    <3> QED BY <1>3, <1>4, <1>6, <3>1
  <2>2. CASE ~SubscribeFails
    <3>1. /\ subscription' = [stage |-> "sent", want_end |-> FALSE, sent |-> 0] /\ handler' = "answer"
          /\ UNCHANGED <<killed, subscribed>>
      BY <1>6, <2>2 DEF TriesNextRoute
    <3>2. [stage |-> "sent", want_end |-> FALSE, sent |-> 0] \in Subscriptions BY DEF Subscriptions
    <3>3. subscription' # None BY <3>1, <3>2, SubscriptionAssumption
    <3>4. Threaded' BY <1>6, <3>1, <3>3 DEF Threaded
    <3>5. Aimed' BY <1>5, <1>6, <3>1
    <3> QED BY <3>4, <3>5
  <2> QED BY <2>1, <2>2
<1>7. CASE RoutesReturn BY <1>6, <1>7 DEF RoutesReturn
<1>8. CASE ReadsStart
  <2>1. handler = "answer" /\ UNCHANGED <<commands, pc, cmd>> BY <1>8 DEF ReadsStart, HandlerOnly
  <2>2. \/ subscribed' = TRUE /\ handler' = "subscribed" /\ UNCHANGED <<killed, subscription>>
        \/ TriesNextRoute
        \/ SubscribeFails
        \/ UNCHANGED subscriberVars
    BY <1>8 DEF ReadsStart
  <2>3. CASE subscribed' = TRUE /\ handler' = "subscribed" /\ UNCHANGED <<killed, subscription>>
    <3>1. Threaded' BY <2>1, <2>3 DEF Threaded
    <3> QED BY <1>5, <2>1, <2>3, <3>1
  <2>4. CASE TriesNextRoute BY <1>6, <2>1, <2>4
  <2>5. CASE SubscribeFails
    <3>1. Ends /\ timer' = TRUE BY <2>5 DEF SubscribeFails
    <3> QED BY <1>3, <1>4, <2>1, <3>1
  <2>6. CASE UNCHANGED subscriberVars
    <3>1. Threaded' BY <2>1, <2>6 DEF Threaded, subscriberVars
    <3> QED BY <1>5, <2>1, <2>6, <3>1 DEF subscriberVars
  <2> QED BY <2>2, <2>3, <2>4, <2>5, <2>6
<1>9. CASE ReadsNotify
  <2>1. handler = "subscribed" /\ UNCHANGED <<pc, cmd>> BY <1>9 DEF ReadsNotify, HandlerOnly
  <2>2. \/ /\ UNCHANGED <<handler, killed, subscription, subscribed>>
           /\ UNCHANGED commands \/ (active /\ Told(On)) \/ Told(<<>>)
        \/ Ends /\ Told(IF active THEN On ELSE <<>>)
    BY <1>9 DEF ReadsNotify, GotNotify, subscriberVars
  <2>3. CASE UNCHANGED <<handler, killed, subscription, subscribed>>
             /\ (UNCHANGED commands \/ (active /\ Told(On)) \/ Told(<<>>))
    <3>1. Threaded' BY <2>1, <2>3 DEF Threaded
    <3>2. Aimed' BY <1>5, <2>1, <2>3, LastTold
    <3> QED BY <3>1, <3>2
  <2>4. CASE Ends /\ Told(IF active THEN On ELSE <<>>)
    <3>1. Threaded' BY <1>3, <2>1, <2>4
    <3>2. CASE active
      <4>1. commands' # <<>> /\ commands'[Len(commands')].name = "subscribe" BY <2>4, <3>2, LastTold
      <4> QED BY <1>0, <3>1, <3>2, <4>1 DEF Aimed
    <3>3. CASE ~active
      <4>1. UNCHANGED commands BY <2>4, <3>3, LastTold
      <4> QED BY <1>0, <2>1, <2>4, <3>1, <3>3, <4>1 DEF Ends, Aimed
    <3> QED BY <3>2, <3>3
  <2> QED BY <2>2, <2>3, <2>4
<1>10. CASE Interrupted
  <2>1. Ends /\ pc = "kill" /\ handler # "none" /\ UNCHANGED <<commands, pc, cmd>> BY <1>10 DEF Interrupted, Threaded
  <2> QED BY <1>3, <1>4, <2>1
<1>11. CASE Terminated
  <2>1. pc = "kill" /\ handler \notin {"none", "ending"} /\ UNCHANGED <<commands, pc, cmd>>
    BY <1>11 DEF Terminated, HandlerOnly, Threaded
  <2>2. CASE subscription = None
    <3>1. Ends BY <1>11, <2>2 DEF Terminated
    <3> QED BY <1>3, <1>4, <2>1, <3>1
  <2>3. CASE subscription # None
    <3>1. handler' = "ending" /\ UNCHANGED <<killed, subscribed>> /\ killed = "terminate"
          /\ subscription' = [subscription EXCEPT !.want_end = TRUE]
      BY <1>11, <2>3 DEF Terminated
    <3>2. subscription' \in Subscriptions BY <2>3, <3>1 DEF ViewTyped, Subscriptions
    <3>3. subscription' # None BY <3>2, SubscriptionAssumption
    <3>4. Threaded' BY <2>1, <3>1, <3>3 DEF Threaded
    <3> QED BY <1>5, <2>1, <3>1, <3>4
  <2> QED BY <2>2, <2>3
<1>12. CASE ReadsEnding
  <2>1. handler = "ending" /\ pc = "kill" /\ UNCHANGED <<commands, pc, cmd>> BY <1>12 DEF ReadsEnding, HandlerOnly, Threaded
  <2>2. Ends \/ UNCHANGED subscriberVars BY <1>12 DEF ReadsEnding
  <2>3. CASE UNCHANGED subscriberVars
    <3>1. Threaded' BY <2>1, <2>3 DEF Threaded, subscriberVars
    <3> QED BY <1>5, <2>1, <2>3, <3>1 DEF subscriberVars
  <2> QED BY <1>3, <1>4, <2>1, <2>2, <2>3
<1>13. CASE SubscriberHandles
  <2>1. UNCHANGED <<commands, pc, cmd, timer, subscriberVars>> BY <1>13 DEF SubscriberHandles
  <2> QED BY <1>0, <2>1 DEF Threaded, Aimed, subscriberVars
<1>14. CASE Accepted \/ NotifiedEarly \/ Finishes \/ Notifies
  <2>1. subscription \in Subscriptions /\ UNCHANGED <<handler, killed, subscribed, commands, pc, cmd, timer>>
    BY <1>14 DEF Accepted, NotifiedEarly, Finishes, Notifies, Alive, SubscriptionOnly, ViewTyped
  <2>2. subscription.sent \in Nat /\ subscription.sent + 1 \in Nat BY <2>1 DEF Subscriptions
  <2>3. subscription' \in Subscriptions
    BY <1>14, <2>1, <2>2 DEF Accepted, NotifiedEarly, Finishes, Notifies, Turns, Subscriptions
  <2>4. subscription # None /\ subscription' # None BY <2>1, <2>3, SubscriptionAssumption
  <2> QED BY <1>0, <2>1, <2>4 DEF Threaded, Aimed
<1> QED BY <1>1, <1>2, <1>7, <1>8, <1>9, <1>10, <1>11, <1>12, <1>13, <1>14 DEF SubscriberNext

-----------------------------------------------------------------------------
\* what the subscriber is still to hear of its subscription
Coming == data \o posted
Terminal == {"DidEnd", "DidFail"}
TellsBoth(s) == \E i, j \in DOMAIN s : i < j /\ s[i].name = "DidStart" /\ s[j].name \in Terminal
EndsIt(s) == \A i \in DOMAIN s : s[i].name \in Terminal => i = Len(s)
\* A green thread that does not know yet that its subscription was accepted, or that it is over, is to hear of it.
Announced ==
  slips \subseteq {"stale"} /\ subscription # None =>
    /\ handler = "answer" /\ subscription.stage = "active" => Tells(Coming, {"DidStart"})
    /\ handler = "answer" /\ subscription.stage = "gone" => TellsBoth(Coming) \/ Tells(Coming, {"DidFail"})
    /\ handler = "answer" /\ subscription.stage = "sent" => subscription.want_end = FALSE
    /\ handler = "subscribed" /\ subscription.stage = "gone" => Tells(Coming, Terminal)
\* It hears of no other subscription than its own, unless one was interrupted, and the end comes last.
Ordered ==
  slips = {} =>
    /\ subscription = None => Coming = <<>>
    /\ subscription # None =>
        /\ subscription.stage = "sent" => Coming = <<>> /\ handler # "subscribed"
        /\ IF subscription.stage = "gone" THEN EndsIt(Coming) ELSE ~Tells(Coming, Terminal)

\* One event less, which was the first.
LEMMA OneHeard ==
  ASSUME NEW s \in Seq(Events), s # <<>>
  PROVE  /\ \A names : Tells(s, names) => s[1].name \in names \/ Tells(Tail(s), names)
         /\ \A names : Tells(Tail(s), names) => Tells(s, names)
         /\ TellsBoth(s) => IF s[1].name = "DidStart" THEN Tells(Tail(s), Terminal) ELSE TellsBoth(Tail(s))
         /\ EndsIt(s) => EndsIt(Tail(s)) /\ (s[1].name \in Terminal => Tail(s) = <<>>)
<1>1. /\ Len(s) \in Nat \ {0} /\ DOMAIN s = 1..Len(s) /\ DOMAIN Tail(s) = 1..(Len(s) - 1) /\ Len(Tail(s)) = Len(s) - 1
      /\ \A i \in 1..(Len(s) - 1) : Tail(s)[i] = s[i + 1]
  BY EmptySeq
<1>a. IsSeq(s) BY DEF IsSeq
<1>2. \A names : Tells(s, names) => s[1].name \in names \/ Tells(Tail(s), names) BY <1>a, FirstGone
<1>3. \A names : Tells(Tail(s), names) => Tells(s, names) BY <1>a, FirstGone
<1>4. ASSUME TellsBoth(s) PROVE IF s[1].name = "DidStart" THEN Tells(Tail(s), Terminal) ELSE TellsBoth(Tail(s))
  <2>1. PICK i \in 1..Len(s), j \in 1..Len(s) : i < j /\ s[i].name = "DidStart" /\ s[j].name \in Terminal
    BY <1>1, <1>4 DEF TellsBoth
  <2>2. j - 1 \in 1..(Len(s) - 1) /\ (j - 1) + 1 = j BY <1>1, <2>1
  <2>3. Tells(Tail(s), Terminal) BY <1>1, <2>1, <2>2 DEF Tells
  <2>4. ASSUME i # 1 PROVE TellsBoth(Tail(s))
    <3>1. i - 1 \in 1..(Len(s) - 1) /\ (i - 1) + 1 = i /\ i - 1 < j - 1 BY <1>1, <2>1, <2>4
    <3> QED BY <1>1, <2>1, <2>2, <3>1 DEF TellsBoth
  <2> QED BY <2>1, <2>3, <2>4
<1>5. ASSUME EndsIt(s) PROVE EndsIt(Tail(s)) /\ (s[1].name \in Terminal => Tail(s) = <<>>)
  <2>1. ASSUME NEW i \in 1..(Len(s) - 1), Tail(s)[i].name \in Terminal PROVE i = Len(Tail(s))
    <3>1. i + 1 \in 1..Len(s) /\ s[i + 1].name \in Terminal BY <1>1, <2>1
    <3>2. i + 1 = Len(s) BY <1>1, <1>5, <3>1 DEF EndsIt
    <3>3. Len(s) \in Nat /\ i \in Nat /\ Len(Tail(s)) = Len(s) - 1 BY <1>1
    <3> QED BY <3>2, <3>3
  <2>2. ASSUME s[1].name \in Terminal PROVE Tail(s) = <<>>
    <3>1. 1 \in 1..Len(s) BY <1>1
    <3>2. Len(s) = 1 BY <1>1, <1>5, <2>2, <3>1 DEF EndsIt
    <3> QED BY <1>1, <3>2, EmptySeq
  <2> QED BY <1>1, <2>1, <2>2 DEF EndsIt
<1> QED BY <1>2, <1>3, <1>4, <1>5
\* One event more, at the end.
LEMMA OneRaised ==
  ASSUME NEW s \in Seq(Events), NEW e \in Events
  PROVE  /\ \A names : Tells(Append(s, e), names) <=> Tells(s, names) \/ e.name \in names
         /\ TellsBoth(s) \/ (Tells(s, {"DidStart"}) /\ e.name \in Terminal) => TellsBoth(Append(s, e))
         /\ ~Tells(s, Terminal) => EndsIt(Append(s, e))
<1>1. /\ Len(s) \in Nat /\ DOMAIN s = 1..Len(s) /\ DOMAIN Append(s, e) = 1..(Len(s) + 1)
      /\ Append(s, e)[Len(s) + 1] = e /\ Len(Append(s, e)) = Len(s) + 1
      /\ \A i \in 1..Len(s) : Append(s, e)[i] = s[i]
  OBVIOUS
<1>2. 1..(Len(s) + 1) = 1..Len(s) \cup {Len(s) + 1} BY <1>1
<1>3. ASSUME NEW names PROVE Tells(Append(s, e), names) <=> Tells(s, names) \/ e.name \in names
  BY <1>1, <1>2 DEF Tells
<1>4. TellsBoth(s) => TellsBoth(Append(s, e)) BY <1>1, <1>2 DEF TellsBoth
<1>5. Tells(s, {"DidStart"}) /\ e.name \in Terminal => TellsBoth(Append(s, e))
  BY <1>1, <1>2 DEF Tells, TellsBoth
<1>6. ~Tells(s, Terminal) => EndsIt(Append(s, e)) BY <1>1, <1>2 DEF Tells, EndsIt
<1> QED BY <1>3, <1>4, <1>5, <1>6
\* Nothing tells nothing.
LEMMA NothingHeard == ASSUME NEW names PROVE ~Tells(<<>>, names) /\ EndsIt(<<>>) /\ ~TellsBoth(<<>>)
<1>1. DOMAIN <<>> = {} OBVIOUS
<1> QED BY <1>1 DEF Tells, EndsIt, TellsBoth

\* An event is heard, passed on, raised.
LEMMA ComingMoves ==
  ASSUME ViewTyped
  PROVE  /\ Coming \in Seq(Events)
         /\ data # <<>> /\ data' = Tail(data) /\ posted' = posted =>
              Coming # <<>> /\ Coming' = Tail(Coming) /\ Coming[1] = Head(data)
         /\ posted # <<>> /\ posted' = Tail(posted) /\ data' = Append(data, Head(posted)) => Coming' = Coming
         /\ \A e \in Events : posted' = Append(posted, e) /\ data' = data => Coming' = Append(Coming, e)
         /\ posted' = <<>> /\ data' = <<>> => Coming' = <<>>
         /\ Coming = <<>> => data = <<>> /\ posted = <<>>
<1>1. data \in Seq(Events) /\ posted \in Seq(Events) BY DEF ViewTyped
<1>2. Coming \in Seq(Events) BY <1>1 DEF Coming
<1>3. ASSUME data # <<>>, data' = Tail(data), posted' = posted
      PROVE  Coming # <<>> /\ Coming' = Tail(Coming) /\ Coming[1] = Head(data)
  BY <1>1, <1>3, FirstLeaves DEF Coming
<1>4. ASSUME posted # <<>>, posted' = Tail(posted), data' = Append(data, Head(posted)) PROVE Coming' = Coming
  BY <1>1, <1>4, OnePasses DEF Coming
<1>5. ASSUME NEW e \in Events, posted' = Append(posted, e), data' = data PROVE Coming' = Append(Coming, e)
  BY <1>1, <1>5, LastComes DEF Coming
<1>6. ASSUME posted' = <<>>, data' = <<>> PROVE Coming' = <<>>
  <2>1. <<>> \o <<>> = <<>> OBVIOUS
  <2> QED BY <1>6, <2>1 DEF Coming
<1>7. ASSUME Coming = <<>> PROVE data = <<>> /\ posted = <<>>
  BY <1>1, <1>7, ConcatEqualIffEmpty DEF Coming
<1> QED BY <1>2, <1>3, <1>4, <1>5, <1>6, <1>7

\* Every step of a subscriber keeps what it is still to hear in step with its subscription.
LEMMA HearingKept ==
  ASSUME ~Publishes, AccountInv, ViewTyped, ViewHeld, Threaded, Announced, Ordered, SubscriberNext
  PROVE  Announced' /\ Ordered'
<1>1. slips \subseteq slips' BY SubscriberSteps DEF HandlerStep
\* the green thread ends, with nothing left that it was to hear
<1>2. ASSUME Ends, slips' = {} => data' = <<>> PROVE Announced' /\ Ordered'
  <2>1. subscription' = None /\ posted' = <<>> BY <1>2 DEF Ends
  <2>2. slips' = {} => Coming' = <<>> BY <1>2, <2>1, ComingMoves
  <2> QED BY <2>1, <2>2 DEF Announced, Ordered
\* another subscription, of which nothing was heard
<1>3. ASSUME TriesNextRoute, slips' = {} => data' = <<>> PROVE Announced' /\ Ordered'
  <2>1. CASE SubscribeFails BY <1>2, <1>3, <2>1 DEF SubscribeFails
  <2>2. CASE ~SubscribeFails
    <3>1. /\ subscription' = [stage |-> "sent", want_end |-> FALSE, sent |-> 0] /\ handler' = "answer" /\ posted' = <<>>
      BY <1>3, <2>2 DEF TriesNextRoute
    <3>2. [stage |-> "sent", want_end |-> FALSE, sent |-> 0] \in Subscriptions BY DEF Subscriptions
    <3>3. subscription' # None BY <3>1, <3>2, SubscriptionAssumption
    <3>4. slips' = {} => Coming' = <<>> BY <1>3, <3>1, ComingMoves
    <3>5. ~Tells(<<>>, Terminal) BY NothingHeard
    <3> QED BY <3>1, <3>3, <3>4, <3>5 DEF Announced, Ordered
  <2> QED BY <2>1, <2>2
\* an event is heard
<1>4. ASSUME data # <<>>, data' = Tail(data)
      PROVE  /\ Head(data) \in Events
             /\ slips = {} /\ Head(data).name \in Terminal => data' = <<>>
             /\ UNCHANGED posted =>
                  Coming \in Seq(Events) /\ Coming # <<>> /\ Coming' = Tail(Coming) /\ Coming[1] = Head(data)
  <2>1. Coming \in Seq(Events) /\ Coming # <<>> /\ Coming[1] = Head(data) /\ Tail(Coming) = data' \o posted
    BY <1>4, FirstLeaves DEF ViewTyped, Coming
  <2>2. Head(data) \in Events /\ data' \in Seq(Events) BY <1>4, HeadTyped DEF ViewTyped
  <2>3. ASSUME slips = {}, Head(data).name \in Terminal PROVE data' = <<>>
    <3>1. ~(\A i \in DOMAIN Coming : Coming[i].name \notin Terminal)
      <4>1. 1 \in DOMAIN Coming BY <2>1, EmptySeq
      <4> QED BY <2>1, <2>3, <4>1
    <3>2. EndsIt(Coming) BY <2>1, <2>3, <3>1 DEF Ordered, Tells
    <3>3. data' \o posted = <<>> BY <2>1, <2>3, <3>2, OneHeard
    <3> QED BY <2>2, <3>3, ConcatEqualIffEmpty DEF ViewTyped
  <2>4. UNCHANGED posted => Coming' = Tail(Coming) BY <1>4, ComingMoves
  <2> QED BY <2>1, <2>2, <2>3, <2>4
<1>5. CASE TakesSubscribeCommand
  <2>1. UNCHANGED <<data, posted, subscription, slips>> BY <1>5 DEF TakesSubscribeCommand
  <2>2. handler' = handler \/ subscription = None
    BY <1>5 DEF TakesSubscribeCommand, _CH_subscribe, _CH_unsubscribe, Spawns, Threaded
  <2> QED BY <2>1, <2>2 DEF Announced, Ordered, Coming
<1>6. CASE Killed
  <2>1. UNCHANGED <<data, posted, subscription, slips>> /\ subscription = None BY <1>6 DEF Killed, Threaded
  <2> QED BY <2>1 DEF Announced, Ordered, Coming
<1>7. CASE RoutesReturn
  <2>1. TriesNextRoute /\ UNCHANGED <<data, slips>> /\ subscription = None BY <1>7 DEF RoutesReturn, Threaded
  <2>2. slips = {} => data = <<>> BY <2>1, ComingMoves DEF Ordered
  <2> QED BY <1>3, <2>1, <2>2
<1>8. CASE ReadsStart
  <2>1. handler = "answer" /\ data # <<>> /\ data' = Tail(data) /\ UNCHANGED slips /\ subscription # None
    BY <1>8 DEF ReadsStart, HandlerOnly, Threaded
  <2>2. \/ /\ Head(data).name = "DidStart" /\ handler' = "subscribed" /\ UNCHANGED <<subscription, posted>>
        \/ Head(data).name = "DidFail" /\ (TriesNextRoute \/ SubscribeFails)
        \/ Head(data).name \in {"DidEnd", "GotNotify"} /\ UNCHANGED <<subscriberVars, posted>>
    BY <1>8 DEF ReadsStart
  <2>3. CASE Head(data).name = "DidStart" /\ handler' = "subscribed" /\ UNCHANGED <<subscription, posted>>
    <3>1. Coming \in Seq(Events) /\ Coming # <<>> /\ Coming' = Tail(Coming) /\ Coming[1].name = "DidStart"
      BY <1>4, <2>1, <2>3
    <3>2. "DidStart" \notin Terminal /\ "DidStart" \notin {"DidFail"} BY DEF Terminal
    <3>3. Tells(Coming, {"DidFail"}) => Tells(Coming', Terminal)
      <4>1. Tells(Coming, {"DidFail"}) => Tells(Coming', {"DidFail"}) BY <3>1, <3>2, OneHeard
      <4> QED BY <4>1 DEF Tells, Terminal
    <3>4. TellsBoth(Coming) => Tells(Coming', Terminal) BY <3>1, OneHeard
    <3>5. Announced' BY <2>1, <2>3, <3>3, <3>4 DEF Announced
    <3>6. Tells(Coming', Terminal) => Tells(Coming, Terminal) BY <3>1, OneHeard
    <3>7. EndsIt(Coming) => EndsIt(Coming') BY <3>1, OneHeard
    <3>8. Ordered' BY <2>1, <2>3, <3>1, <3>6, <3>7 DEF Ordered
    <3> QED BY <3>5, <3>8
  <2>4. CASE Head(data).name = "DidFail" /\ (TriesNextRoute \/ SubscribeFails)
    <3>1. slips' = {} => data' = <<>> BY <1>4, <2>1, <2>4 DEF Terminal
    <3> QED BY <1>2, <1>3, <2>4, <3>1 DEF SubscribeFails
  <2>5. CASE Head(data).name \in {"DidEnd", "GotNotify"} /\ UNCHANGED <<subscriberVars, posted>>
    <3>1. /\ Coming \in Seq(Events) /\ Coming # <<>> /\ Coming' = Tail(Coming) /\ Coming[1].name # "DidStart"
          /\ Coming[1].name # "DidFail"
      BY <1>4, <2>1, <2>5
    <3>2. UNCHANGED <<handler, subscription>> BY <2>5 DEF subscriberVars
    <3>3. Tells(Coming, {"DidFail"}) => Tells(Coming', {"DidFail"}) BY <3>1, OneHeard
    <3>4. Tells(Coming, {"DidStart"}) => Tells(Coming', {"DidStart"}) BY <3>1, OneHeard
    <3>5. TellsBoth(Coming) => TellsBoth(Coming') BY <3>1, OneHeard
    <3>6. Announced' BY <2>1, <3>2, <3>3, <3>4, <3>5 DEF Announced
    <3>7. Tells(Coming', Terminal) => Tells(Coming, Terminal) BY <3>1, OneHeard
    <3>8. EndsIt(Coming) => EndsIt(Coming') BY <3>1, OneHeard
    <3>9. Ordered' BY <2>1, <3>1, <3>2, <3>7, <3>8 DEF Ordered
    <3> QED BY <3>6, <3>9
  <2> QED BY <2>2, <2>3, <2>4, <2>5
<1>9. CASE ReadsNotify
  <2>1. handler = "subscribed" /\ data # <<>> /\ data' = Tail(data) /\ UNCHANGED slips /\ subscription # None
    BY <1>9 DEF ReadsNotify, HandlerOnly, Threaded
  <2>2. \/ Head(data).name \notin Terminal /\ UNCHANGED <<handler, subscription, posted>>
        \/ Head(data).name \in Terminal /\ Ends
    BY <1>9 DEF ReadsNotify, subscriberVars, Terminal
  <2>3. CASE Head(data).name \notin Terminal /\ UNCHANGED <<handler, subscription, posted>>
    <3>1. Coming \in Seq(Events) /\ Coming # <<>> /\ Coming' = Tail(Coming) /\ Coming[1].name \notin Terminal
      BY <1>4, <2>1, <2>3
    <3>2. Tells(Coming, Terminal) <=> Tells(Coming', Terminal) BY <3>1, OneHeard
    <3>3. Announced' BY <2>1, <2>3, <3>2 DEF Announced
    <3>4. EndsIt(Coming) => EndsIt(Coming') BY <3>1, OneHeard
    <3>5. Ordered' BY <2>1, <2>3, <3>1, <3>2, <3>4 DEF Ordered
    <3> QED BY <3>3, <3>5
  <2>4. CASE Head(data).name \in Terminal /\ Ends
    <3>1. slips' = {} => data' = <<>> BY <1>4, <2>1, <2>4
    <3> QED BY <1>2, <2>4, <3>1
  <2> QED BY <2>2, <2>3, <2>4
<1>10. CASE Interrupted
  <2>1. Ends /\ UNCHANGED data /\ slips' = (IF data = <<>> THEN slips ELSE slips \cup {"stale"}) BY <1>10 DEF Interrupted
  <2>2. slips' = {} => data' = <<>> BY <2>1
  <2> QED BY <1>2, <2>1, <2>2
<1>11. CASE Terminated
  <2>1. UNCHANGED <<data, slips>> BY <1>11 DEF Terminated, HandlerOnly
  <2>2. CASE subscription = None
    <3>1. Ends BY <1>11, <2>2 DEF Terminated
    <3>2. slips' = {} => data' = <<>> BY <2>1, <2>2, ComingMoves DEF Ordered
    <3> QED BY <1>2, <3>1, <3>2
  <2>3. CASE subscription # None
    <3>1. handler' = "ending" /\ UNCHANGED posted /\ subscription' = [subscription EXCEPT !.want_end = TRUE]
      BY <1>11, <2>3 DEF Terminated
    <3>2. subscription' # None /\ subscription'.stage = subscription.stage
      BY <2>3, <3>1, SubscriptionAssumption DEF ViewTyped, Subscriptions
    <3>3. UNCHANGED Coming BY <2>1, <3>1 DEF Coming
    <3> QED BY <2>1, <2>3, <3>1, <3>2, <3>3 DEF Announced, Ordered
  <2> QED BY <2>2, <2>3
<1>12. CASE ReadsEnding
  <2>1. handler = "ending" /\ data # <<>> /\ data' = Tail(data) /\ UNCHANGED slips /\ subscription # None
    BY <1>12 DEF ReadsEnding, HandlerOnly, Threaded
  <2>2. CASE Head(data).name \in Terminal
    <3>1. Ends BY <1>12, <2>2 DEF ReadsEnding, Terminal
    <3>2. slips' = {} => data' = <<>> BY <1>4, <2>1, <2>2
    <3> QED BY <1>2, <3>1, <3>2
  <2>3. CASE Head(data).name \notin Terminal
    <3>1. UNCHANGED <<handler, subscription, posted>> BY <1>12, <2>3 DEF ReadsEnding, subscriberVars, Terminal
    <3>2. Coming \in Seq(Events) /\ Coming # <<>> /\ Coming' = Tail(Coming) BY <1>4, <2>1, <3>1
    <3>3. (Tells(Coming', Terminal) => Tells(Coming, Terminal)) /\ (EndsIt(Coming) => EndsIt(Coming'))
      BY <3>2, OneHeard
    <3>4. Announced' BY <2>1, <3>1 DEF Announced
    <3>5. Ordered' BY <2>1, <3>1, <3>2, <3>3 DEF Ordered
    <3> QED BY <3>4, <3>5
  <2> QED BY <2>2, <2>3
<1>13. CASE SubscriberHandles
  <2>1. UNCHANGED <<handler, subscription, slips>> BY <1>13 DEF SubscriberHandles, subscriberVars
  <2>2. Coming' = Coming BY <1>13, ComingMoves DEF SubscriberHandles
  <2> QED BY <2>1, <2>2 DEF Announced, Ordered
<1>14. CASE NotifiedEarly
  <2>1. "early" \in slips' BY <1>14 DEF NotifiedEarly
  <2> QED BY <2>1 DEF Announced, Ordered
\* the engine tells of its subscription
<1>15. CASE Accepted \/ Finishes \/ Notifies
  <2>1. /\ subscription \in Subscriptions /\ subscription # None
        /\ UNCHANGED <<handler, data, slips>>
    BY <1>15 DEF Accepted, Finishes, Notifies, Alive, SubscriptionOnly, ViewTyped
  <2>2. subscription.sent \in Nat /\ subscription.sent + 1 \in Nat BY <2>1 DEF Subscriptions
  <2>3. subscription' \in Subscriptions
    BY <1>15, <2>1, <2>2 DEF Accepted, Finishes, Notifies, Turns, Subscriptions
  <2>4. subscription' # None BY <2>3, SubscriptionAssumption
  <2>5. ASSUME NEW e \in Events, posted' = Append(posted, e)
        PROVE  Coming \in Seq(Events) /\ Coming' = Append(Coming, e)
    BY <2>1, <2>5, ComingMoves
  <2>6. CASE Accepted
    <3>1. subscription.stage = "sent" /\ subscription'.stage = "active" BY <1>15, <2>1, <2>6 DEF Accepted, Alive, Turns, Subscriptions
    <3>2. PICK e \in Events : e.name = "DidStart" /\ posted' = Append(posted, e)
      BY <2>6 DEF Accepted, Raises, Event, Events
    <3>a. Coming \in Seq(Events) /\ Coming' = Append(Coming, e) BY <2>5, <3>2
    <3>b. e.name \in {"DidStart"} /\ e.name \notin Terminal BY <3>2 DEF Terminal
    <3>3. Tells(Coming', {"DidStart"}) /\ (Tells(Coming', Terminal) => Tells(Coming, Terminal))
      BY <3>a, <3>b, OneRaised
    <3> QED BY <2>1, <2>4, <3>1, <3>3 DEF Announced, Ordered
  <2>7. CASE Finishes
    <3>1. subscription.stage \in {"sent", "active"} /\ subscription'.stage = "gone"
      BY <2>1, <2>7 DEF Finishes, Alive, Turns, Subscriptions
    <3>2. PICK e \in Events : /\ e.name = (IF subscription.want_end THEN "DidEnd" ELSE "DidFail")
                              /\ posted' = Append(posted, e)
      BY <2>7 DEF Finishes, Raises, Event, Events
    <3>3. e.name \in Terminal BY <3>2 DEF Terminal
    <3>a. Coming \in Seq(Events) /\ Coming' = Append(Coming, e) BY <2>5, <3>2
    <3>b. \A names : Tells(Coming', names) <=> Tells(Coming, names) \/ e.name \in names BY <3>a, OneRaised
    <3>c. (Tells(Coming, {"DidStart"}) => TellsBoth(Coming')) /\ (~Tells(Coming, Terminal) => EndsIt(Coming'))
      BY <3>a, <3>3, OneRaised
    <3>4. /\ Tells(Coming', Terminal) /\ (Tells(Coming, {"DidStart"}) => TellsBoth(Coming'))
          /\ e.name = "DidFail" => Tells(Coming', {"DidFail"})
          /\ ~Tells(Coming, Terminal) => EndsIt(Coming')
      BY <3>3, <3>b, <3>c
    <3>5. Announced' BY <2>1, <2>4, <3>1, <3>2, <3>4 DEF Announced
    <3>6. Ordered' BY <2>1, <2>4, <3>1, <3>4 DEF Ordered
    <3> QED BY <3>5, <3>6
  <2>8. CASE Notifies
    <3>1. subscription.stage = "active" /\ subscription'.stage = "active"
      BY <2>1, <2>8 DEF Notifies, Alive, Subscriptions
    <3>2. posted' = posted \/ \E e \in Events : e.name = "GotNotify" /\ posted' = Append(posted, e)
      BY <2>2, <2>8 DEF Notifies, Event, Events
    <3>3. CASE posted' = posted
      <4>1. UNCHANGED Coming BY <2>1, <3>3 DEF Coming
      <4> QED BY <2>1, <2>4, <3>1, <4>1 DEF Announced, Ordered
    <3>4. CASE \E e \in Events : e.name = "GotNotify" /\ posted' = Append(posted, e)
      <4>1. PICK e \in Events : e.name = "GotNotify" /\ posted' = Append(posted, e) BY <3>4
      <4>2. (Tells(Coming, {"DidStart"}) => Tells(Coming', {"DidStart"})) /\ (Tells(Coming', Terminal) => Tells(Coming, Terminal))
        BY <2>5, <4>1, OneRaised DEF Terminal
      <4> QED BY <2>1, <2>4, <3>1, <4>2 DEF Announced, Ordered
    <3> QED BY <3>2, <3>3, <3>4
  <2> QED BY <1>15, <2>6, <2>7, <2>8
<1> QED BY <1>5, <1>6, <1>7, <1>8, <1>9, <1>10, <1>11, <1>12, <1>13, <1>14, <1>15 DEF SubscriberNext

-----------------------------------------------------------------------------
(* The publisher's commands.                                               *)

\* a publish command without a state, or to refresh what is published, changes nothing
Effective(c) == c.name # "publish" \/ c.state \notin {None, SameState}
Target(c) == IF c.name = "publish" THEN c.state ELSE None
NoEffect(s) == \A i \in DOMAIN s : ~Effective(s[i])
\* the last that changes something publishes that document, or withdraws what is published
AimsAt(s, d) ==
  \A i \in DOMAIN s : Effective(s[i]) /\ (\A j \in DOMAIN s : j > i => ~Effective(s[j])) => Target(s[i]) = d
\* what is to be published is a document, if anything
Requested(s) ==
  \A i \in DOMAIN s : s[i].name = "publish" => s[i].state \in Documents \cup {None, SameState}

\* More commands, and what they lead to.
LEMMA MoreCommands ==
  ASSUME NEW s, NEW t, NEW d, IsSeq(s), IsSeq(t)
  PROVE  IF NoEffect(t) THEN (NoEffect(s \o t) <=> NoEffect(s)) /\ (AimsAt(s, d) => AimsAt(s \o t, d))
         ELSE ~NoEffect(s \o t) /\ (AimsAt(t, d) => AimsAt(s \o t, d))
<1> DEFINE u == s \o t
           m == Len(s)
           n == Len(t)
<1>1. m \in Nat /\ n \in Nat /\ DOMAIN s = 1..m /\ DOMAIN t = 1..n /\ DOMAIN u = 1..(m + n)
  BY Joined, LenProperties DEF IsSeq
<1>2. \A i \in 1..(m + n) : u[i] = IF i <= m THEN s[i] ELSE t[i - m] BY Joined, Zenon
<1> HIDE DEF u, m, n
<1>3. \A i \in 1..m : i \in 1..(m + n) /\ u[i] = s[i] BY <1>1, <1>2
<1>4. ASSUME NEW i \in 1..n PROVE m + i \in 1..(m + n) /\ u[m + i] = t[i] /\ ~(m + i <= m)
  <2>1. m + i \in 1..(m + n) /\ ~(m + i <= m) /\ (m + i) - m = i BY <1>1
  <2> QED BY <1>2, <2>1
<1>5. ASSUME NEW i \in 1..(m + n), ~(i <= m) PROVE i - m \in 1..n /\ u[i] = t[i - m]
  <2>1. i - m \in 1..n BY <1>1, <1>5
  <2> QED BY <1>2, <1>5, <2>1
<1>6. ASSUME NoEffect(t) PROVE (NoEffect(u) <=> NoEffect(s)) /\ (AimsAt(s, d) => AimsAt(u, d))
  <2>1. \A i \in 1..(m + n) : Effective(u[i]) => i \in 1..m /\ u[i] = s[i] BY <1>1, <1>2, <1>5, <1>6 DEF NoEffect
  <2>2. NoEffect(u) <=> NoEffect(s) BY <1>1, <1>3, <2>1 DEF NoEffect
  <2>3. ASSUME AimsAt(s, d), NEW i \in 1..(m + n), Effective(u[i]), \A j \in 1..(m + n) : j > i => ~Effective(u[j])
        PROVE  Target(u[i]) = d
    <3>1. i \in 1..m /\ u[i] = s[i] BY <2>1, <2>3
    <3>2. \A j \in 1..m : j > i => ~Effective(s[j]) BY <1>3, <2>3
    <3> QED BY <1>1, <2>3, <3>1, <3>2 DEF AimsAt
  <2> QED BY <1>1, <2>2, <2>3 DEF AimsAt
<1>7. ASSUME ~NoEffect(t) PROVE ~NoEffect(u) /\ (AimsAt(t, d) => AimsAt(u, d))
  <2>1. PICK k \in 1..n : Effective(t[k]) BY <1>1, <1>7 DEF NoEffect
  <2>2. m + k \in 1..(m + n) /\ Effective(u[m + k]) BY <1>4, <2>1
  <2>3. ~NoEffect(u) BY <1>1, <2>2 DEF NoEffect
  <2>4. ASSUME AimsAt(t, d), NEW i \in 1..(m + n), Effective(u[i]), \A j \in 1..(m + n) : j > i => ~Effective(u[j])
        PROVE  Target(u[i]) = d
    <3>1. ~(i <= m)
      <4>1. ~(m + k > i) BY <2>2, <2>4
      <4> QED BY <1>1, <2>1, <4>1
    <3>2. i - m \in 1..n /\ u[i] = t[i - m] BY <1>5, <3>1
    <3>3. ASSUME NEW j \in 1..n, j > i - m PROVE ~Effective(t[j])
      <4>1. m + j \in 1..(m + n) /\ u[m + j] = t[j] BY <1>4
      <4>2. m + j > i BY <1>1, <3>3
      <4> QED BY <2>4, <4>1, <4>2
    <3> QED BY <1>1, <2>4, <3>2, <3>3 DEF AimsAt
  <2> QED BY <1>1, <2>3, <2>4 DEF AimsAt
<1> QED BY <1>6, <1>7 DEF u

\* The next command, and what is left.
LEMMA NextCommand ==
  ASSUME NEW s, NEW d, IsSeq(s), s # <<>>, AimsAt(s, d)
  PROVE  /\ AimsAt(Tail(s), d)
         /\ NoEffect(Tail(s)) => IF Effective(Head(s)) THEN Target(Head(s)) = d ELSE NoEffect(s)
<1> DEFINE t == Tail(s)
           n == Len(s)
<1>1. n \in Nat \ {0} /\ Len(t) = n - 1 /\ Head(s) = s[1] /\ \A i \in 1..(n - 1) : t[i] = s[i + 1] BY WithoutFirst
<1>2. DOMAIN s = 1..n /\ DOMAIN t = 1..(n - 1) BY <1>1, WithoutFirst, LenProperties DEF IsSeq
<1> HIDE DEF t, n
<1>3. ASSUME NEW i \in 1..(n - 1) PROVE i + 1 \in 1..n /\ s[i + 1] = t[i] BY <1>1
<1>4. ASSUME NEW i \in 1..n, i # 1 PROVE i - 1 \in 1..(n - 1) /\ s[i] = t[i - 1]
  <2>1. i - 1 \in 1..(n - 1) /\ (i - 1) + 1 = i BY <1>1, <1>4
  <2> QED BY <1>1, <2>1
<1>5. AimsAt(t, d)
  <2> SUFFICES ASSUME NEW i \in 1..(n - 1), Effective(t[i]), \A j \in 1..(n - 1) : j > i => ~Effective(t[j])
               PROVE  Target(t[i]) = d
    BY <1>2 DEF AimsAt
  <2>1. ASSUME NEW j \in 1..n, j > i + 1 PROVE ~Effective(s[j])
    <3>1. j # 1 /\ j - 1 > i BY <1>1, <2>1
    <3> QED BY <1>4, <3>1
  <2> QED BY <1>2, <1>3, <2>1 DEF AimsAt
<1>6. ASSUME NoEffect(t), Effective(s[1]) PROVE Target(s[1]) = d
  <2>1. ASSUME NEW j \in 1..n, j > 1 PROVE ~Effective(s[j])
    <3>1. j # 1 BY <2>1
    <3>2. j - 1 \in 1..(n - 1) /\ s[j] = t[j - 1] BY <1>4, <3>1
    <3> QED BY <1>2, <1>6, <3>2 DEF NoEffect
  <2>2. 1 \in 1..n BY <1>1
  <2> QED BY <1>2, <1>6, <2>1, <2>2 DEF AimsAt
<1>7. ASSUME NoEffect(t), ~Effective(s[1]) PROVE NoEffect(s) BY <1>1, <1>2, <1>4, <1>7 DEF NoEffect
<1> QED BY <1>1, <1>5, <1>6, <1>7 DEF t

\* One command.
LEMMA OneCommand ==
  ASSUME NEW n, NEW v
  PROVE  /\ n # "publish" => ~NoEffect(<<Command(n, v)>>) /\ AimsAt(<<Command(n, v)>>, None)
         /\ v \notin {None, SameState} =>
              ~NoEffect(<<Command("publish", v)>>) /\ AimsAt(<<Command("publish", v)>>, v)
         /\ v \in {None, SameState} => NoEffect(<<Command("publish", v)>>)
<1>1. ASSUME NEW c PROVE /\ NoEffect(<<c>>) <=> ~Effective(c)
                         /\ AimsAt(<<c>>, Target(c))
  <2>1. DOMAIN <<c>> = {1} /\ <<c>>[1] = c BY One
  <2> QED BY <2>1 DEF NoEffect, AimsAt
<1>2. Command(n, v).name = n /\ Command("publish", v).name = "publish" /\ Command("publish", v).state = v BY DEF Command
<1> QED BY <1>1, <1>2 DEF Effective, Target
\* What the account tells its publisher leads to the state, or to nothing published.
LEMMA OrdersAim ==
  ASSUME Publishes, state # SameState
  PROVE  /\ NoEffect(<<>>)
         /\ ~NoEffect(Off) /\ AimsAt(Off, None)
         /\ IF state = None THEN NoEffect(On) ELSE ~NoEffect(On) /\ AimsAt(On, state)
         /\ ~NoEffect(Again) /\ AimsAt(Again, state)
<1>1. NoEffect(<<>>) BY DEF NoEffect
<1>2. On = <<Command("publish", state)>> /\ Off = <<Command("unpublish", None)>> /\ Again = Off \o On BY DEF On, Off, Again
<1>3. ~NoEffect(Off) /\ AimsAt(Off, None) BY <1>2, OneCommand
<1>4. IF state = None THEN NoEffect(On) ELSE ~NoEffect(On) /\ AimsAt(On, state) BY <1>2, OneCommand
<1>5. IsSeq(On) /\ IsSeq(Off) BY Orders
<1>6. ~NoEffect(Again) /\ AimsAt(Again, state) BY <1>2, <1>3, <1>4, <1>5, MoreCommands
<1> QED BY <1>1, <1>3, <1>4, <1>6
\* What is to be published stays a document.
LEMMA MoreRequested ==
  ASSUME NEW s, NEW t, IsSeq(s), IsSeq(t), Requested(s)
  PROVE  /\ Requested(t) => Requested(s \o t)
         /\ s # <<>> => Requested(Tail(s)) /\ (Head(s).name = "publish" => Head(s).state \in Documents \cup {None, SameState})
<1>1. ASSUME Requested(t) PROVE Requested(s \o t)
  <2>1. Len(s) \in Nat /\ Len(t) \in Nat /\ DOMAIN s = 1..Len(s) /\ DOMAIN t = 1..Len(t) /\ DOMAIN (s \o t) = 1..(Len(s) + Len(t))
    BY Joined, LenProperties DEF IsSeq
  <2>2. ASSUME NEW i \in 1..(Len(s) + Len(t)), (s \o t)[i].name = "publish"
        PROVE  (s \o t)[i].state \in Documents \cup {None, SameState}
    <3>1. CASE i <= Len(s)
      <4>1. i \in 1..Len(s) /\ (s \o t)[i] = s[i] BY <2>1, <3>1, Joined
      <4> QED BY <2>1, <2>2, <4>1 DEF Requested
    <3>2. CASE ~(i <= Len(s))
      <4>1. i - Len(s) \in 1..Len(t) BY <2>1, <3>2
      <4>2. (s \o t)[i] = t[i - Len(s)] BY <3>2, Joined
      <4> QED BY <1>1, <2>1, <2>2, <4>1, <4>2 DEF Requested
    <3> QED BY <3>1, <3>2
  <2> QED BY <2>1, <2>2 DEF Requested
<1>2. ASSUME s # <<>>
      PROVE  Requested(Tail(s)) /\ (Head(s).name = "publish" => Head(s).state \in Documents \cup {None, SameState})
  <2>1. /\ IsSeq(Tail(s)) /\ Len(s) \in Nat \ {0} /\ Len(Tail(s)) = Len(s) - 1 /\ Head(s) = s[1]
        /\ \A i \in 1..(Len(s) - 1) : Tail(s)[i] = s[i + 1]
    BY <1>2, WithoutFirst
  <2>2. DOMAIN s = 1..Len(s) /\ DOMAIN Tail(s) = 1..(Len(s) - 1) BY <2>1, LenProperties DEF IsSeq
  <2>3. ASSUME NEW i \in 1..(Len(s) - 1) PROVE i + 1 \in 1..Len(s) /\ Tail(s)[i] = s[i + 1] BY <2>1
  <2>4. 1 \in 1..Len(s) BY <2>1
  <2> QED BY <2>1, <2>2, <2>3, <2>4 DEF Requested
<1> QED BY <1>1, <1>2
\* What a publisher is asked to publish is a document.
LEMMA OrdersRequested ==
  ASSUME Publishes, state \in Documents \cup {None}
  PROVE  /\ Requested(<<>>) /\ Requested(On) /\ Requested(Off) /\ Requested(Again)
         /\ \A n, v : n # "publish" \/ v \in Documents \cup {None, SameState} => Requested(<<Command(n, v)>>)
<1>1. ASSUME NEW n, NEW v, n # "publish" \/ v \in Documents \cup {None, SameState} PROVE Requested(<<Command(n, v)>>)
  <2>1. DOMAIN <<Command(n, v)>> = {1} /\ <<Command(n, v)>>[1] = Command(n, v) BY One
  <2>2. Command(n, v).name = n /\ Command(n, v).state = v BY DEF Command
  <2> QED BY <1>1, <2>1, <2>2 DEF Requested
<1>2. Requested(<<>>) BY DEF Requested
<1>3. On = <<Command("publish", state)>> /\ Off = <<Command("unpublish", None)>> /\ Again = Off \o On BY DEF On, Off, Again
<1>4. Requested(On) /\ Requested(Off) BY <1>1, <1>3
<1>5. Requested(Again) BY <1>3, <1>4, MoreRequested, Orders
<1> QED BY <1>1, <1>2, <1>4, <1>5

-----------------------------------------------------------------------------
(* The publisher.                                                          *)

AnswerNames == {"DidSucceed", "DidFail"}
\* something of that name is on its way to _run
Hears(names) == Tells(data, names) \/ Tells(posted, names)
SetPending == Tells(posted, {"set"})
\* the document that is to be published
Asked == IF active THEN state ELSE None

\* a call is about a document, if anything
Calls(s) == \A i \in DOMAIN s : s[i].name = "set" => s[i].code \in Documents \cup {None}
PublisherTyped ==
  /\ state \in Documents \cup {None} /\ publishing \in BOOLEAN /\ timer \in BOOLEAN
  /\ publication \in Publications \cup {None} /\ IsSeq(data) /\ IsSeq(posted) /\ Requested(commands) /\ Calls(posted)
  /\ pc \in {"dns", "answer"} => cmd.state \in Documents \cup {SameState}
  /\ pc \in {"dns", "answer", "ending"} => publication # None
\* the last of the calls that wait for the reactor thread is about the state as it is
LastSet ==
  \A i \in DOMAIN posted :
    posted[i].name = "set" /\ (\A j \in DOMAIN posted : j > i => posted[j].name # "set") => posted[i].code = state
\* a request is out, or answered, while _run waits for it
Answering ==
  /\ Single(data, AnswerNames) /\ Single(posted, AnswerNames)
  /\ ~(Tells(data, AnswerNames) /\ Tells(posted, AnswerNames))
  /\ Hears(AnswerNames) => pc = "answer" /\ publication # None /\ publication.current = "none"
  /\ publication # None /\ publication.current = "publish" => pc = "answer"
  /\ publication # None /\ publication.current = "unpublish" => pc = "ending"
\* there is a publication while something is published or is to be, and none while an attempt is waited for
Holding ==
  /\ pc = "idle" => (publishing <=> publication # None)
  /\ pc = "off" => publication = None /\ ~publishing
  /\ pc \in {"dns", "answer", "ending"} => ~timer
  /\ pc = "ending" => ~publishing /\ cmd.name # "publish"
  /\ timer => publication = None /\ ~publishing
  /\ publication # None /\ publication.known => publishing \/ Hears({"DidSucceed"}) \/ pc = "ending"
  /\ publication # None /\ publication.current = "publish" /\ publication.body = SameState =>
       publication.known /\ cmd.state = SameState
\* the server has the document, unless it is known that it has expired
Has == IF publication.known THEN server = Asked ELSE Hears({"DidEnd"})
\* what _run is doing, or has done, leads to the document that is asked for
Reaches ==
  /\ pc = "ending" => Asked = None
  /\ pc \in {"off", "idle"} => timer \/ IF publishing THEN Asked # None /\ Has ELSE Asked = None
  /\ pc \in {"dns", "answer"} =>
       /\ Asked # None
       /\ IF cmd.state = SameState THEN publication.known => server = Asked ELSE cmd.state = Asked
       /\ publication.current = "publish" /\ publication.body # SameState => publication.body = Asked
       /\ Hears({"DidSucceed"}) => Has
\* so do the commands, when one of them changes something, unless the state has been set and the call waits
Leading == ~SetPending \/ ~active => AimsAt(commands, Asked) /\ (NoEffect(commands) => Reaches)

PublisherInv == PublisherTyped /\ (slips = {} => LastSet /\ Answering /\ Holding /\ Leading)

\* What is asked of a publisher leads to what the account wants.
LEMMA AsksLead ==
  ASSUME Publishes, AccountInv, AccountInv', AccountAsks, PublisherInv, UNCHANGED publisherVars
  PROVE  PublisherInv'
<1> USE DEF AccountInv, OpenInv
<1>1. UNCHANGED <<data, posted, cmd, state, publication, publishing, server>> /\ slips \subseteq slips'
      /\ (pc' = pc \/ (pc = "off" /\ pc' = "idle")) /\ active \in BOOLEAN
  BY DEF AccountAsks, publisherVars, Typed
<1>2. \/ UNCHANGED <<active, commands, timer>>
      \/ active' = TRUE /\ (Told(On) \/ (active /\ Told(Again))) /\ (timer' = timer \/ timer' = FALSE)
      \/ active' = FALSE /\ (Told(Off) \/ Told(<<Command("terminate", None)>>)) /\ UNCHANGED timer
      \/ active' = FALSE /\ active = FALSE /\ UNCHANGED commands /\ timer' = FALSE
  BY DEF AccountAsks
<1>3. state \in Documents \cup {None} /\ state # SameState /\ Requested(commands)
  BY DocumentAssumption DEF PublisherInv, PublisherTyped
<1>4. PublisherTyped'
  <2>1. timer' \in BOOLEAN BY <1>2 DEF PublisherInv, PublisherTyped
  <2>2. Requested(commands')
    <3>1. Requested(On) /\ Requested(Off) /\ Requested(Again) /\ Requested(<<Command("terminate", None)>>)
      BY <1>3, OrdersRequested
    <3>2. IsSeq(<<Command("terminate", None)>>) BY One
    <3> QED BY <1>2, <1>3, <3>1, <3>2, MoreRequested, Orders DEF Told
  <2> QED BY <1>1, <2>1, <2>2 DEF PublisherInv, PublisherTyped
<1>5. ASSUME slips' = {} PROVE LastSet' /\ Answering' /\ Holding' /\ Leading'
  <2>1. slips = {} /\ LastSet /\ Answering /\ Holding /\ Leading BY <1>1, <1>5 DEF PublisherInv
  <2>2. /\ \A names : Hears(names)' <=> Hears(names)
        /\ SetPending' <=> SetPending
        /\ timer' => timer
    BY <1>1, <1>2 DEF Hears, SetPending
  <2>3. LastSet' BY <1>1, <2>1 DEF LastSet
  <2>4. Answering' BY <1>1, <2>1, <2>2 DEF Answering
  <2>5. Holding' BY <1>1, <2>1, <2>2 DEF Holding
  <2>6. Leading'
    <3>1. CASE active' = TRUE /\ (Told(On) \/ (active /\ Told(Again)))
      <4> SUFFICES ASSUME ~SetPending PROVE AimsAt(commands', state) /\ (NoEffect(commands') => Reaches')
        BY <1>1, <2>2, <3>1 DEF Leading, Asked
      <4>1. CASE NoEffect(commands')
        <5>1. Told(On) /\ state = None /\ NoEffect(commands)
          BY <1>3, <3>1, <4>1, MoreCommands, Orders, OrdersAim DEF Told
        <5>2. Asked = None BY <5>1 DEF Asked
        <5>3. AimsAt(commands, None) /\ Reaches BY <2>1, <5>1, <5>2 DEF Leading
        <5>4. AimsAt(commands', None) BY <1>3, <5>1, <5>3, MoreCommands, Orders, OrdersAim DEF Told
        <5>5. Asked' = None BY <1>1, <3>1, <5>1 DEF Asked
        <5>6. Reaches' BY <1>1, <2>1, <2>2, <5>2, <5>3, <5>5 DEF Reaches, Holding, Has
        <5> QED BY <5>1, <5>4, <5>6
      <4>2. CASE ~NoEffect(commands')
        <5>1. CASE Told(Again) BY <1>3, <4>2, <5>1, MoreCommands, Orders, OrdersAim DEF Told
        <5>2. CASE Told(On) /\ state # None BY <1>3, <4>2, <5>2, MoreCommands, Orders, OrdersAim DEF Told
        <5>3. CASE Told(On) /\ state = None
          <6>1. Asked = None BY <5>3 DEF Asked
          <6>2. AimsAt(commands, None) BY <2>1, <6>1 DEF Leading
          <6> QED BY <1>3, <4>2, <5>3, <6>2, MoreCommands, Orders, OrdersAim DEF Told
        <5> QED BY <3>1, <5>1, <5>2, <5>3
      <4> QED BY <4>1, <4>2
    <3>2. CASE active' = FALSE /\ (Told(Off) \/ Told(<<Command("terminate", None)>>))
      <4>1. IsSeq(<<Command("terminate", None)>>) /\ ~NoEffect(<<Command("terminate", None)>>)
            /\ AimsAt(<<Command("terminate", None)>>, None)
        BY One, OneCommand
      <4>2. ~NoEffect(commands') /\ AimsAt(commands', None)
        <5>1. ASSUME NEW t, Told(t), IsSeq(t), ~NoEffect(t), AimsAt(t, None)
              PROVE  ~NoEffect(commands') /\ AimsAt(commands', None)
          BY <5>1, MoreCommands DEF Told
        <5>2. IsSeq(Off) /\ ~NoEffect(Off) /\ AimsAt(Off, None) BY <1>3, Orders, OrdersAim
        <5> QED BY <3>2, <4>1, <5>1, <5>2
      <4>3. Asked' = None BY <3>2 DEF Asked
      <4> QED BY <4>2, <4>3 DEF Leading
    <3>3. CASE UNCHANGED <<active, commands>> /\ (UNCHANGED timer \/ active = FALSE)
      <4>1. Asked' = Asked BY <1>1, <3>3 DEF Asked
      <4>2. CASE ~SetPending \/ ~active
        <5>1. AimsAt(commands, Asked) /\ (NoEffect(commands) => Reaches) BY <2>1, <4>2 DEF Leading
        <5>2. Reaches /\ (UNCHANGED timer \/ Asked = None) => Reaches'
          BY <1>1, <2>1, <2>2, <4>1 DEF Reaches, Holding, Has
        <5>3. UNCHANGED timer \/ Asked = None BY <3>3 DEF Asked
        <5> QED BY <3>3, <4>1, <5>1, <5>2, <5>3 DEF Leading
      <4>3. CASE ~(~SetPending \/ ~active) BY <1>1, <2>2, <3>3, <4>3 DEF Leading
      <4> QED BY <4>2, <4>3
    <3> QED BY <1>2, <3>1, <3>2, <3>3
  <2> QED BY <2>3, <2>4, <2>5, <2>6
<1> QED BY <1>4, <1>5 DEF PublisherInv

\* What a publication that is dropped has posted is nobody's; the calls stay.
LEMMA DisownedKeeps ==
  ASSUME IsSeq(posted), posted' = Disowned(posted)
  PROVE  /\ IsSeq(posted') /\ (SetPending' <=> SetPending) /\ (Calls(posted) => Calls(posted'))
         /\ \A names : "set" \notin names /\ "ignored" \notin names => ~Tells(posted', names)
         /\ LastSet /\ UNCHANGED state => LastSet'
<1>1. PICK S : posted \in Seq(S) BY DEF IsSeq
<1>2. Len(posted) \in Nat /\ DOMAIN posted = 1..Len(posted) BY <1>1
<1>3. /\ DOMAIN posted' = DOMAIN posted
      /\ \A i \in DOMAIN posted : posted'[i] = IF posted[i].name = "set" THEN posted[i] ELSE Item("ignored", 0)
  BY DEF Disowned
<1>4. Item("ignored", 0).name = "ignored" BY DEF Item
<1>5. \A i \in DOMAIN posted : (posted'[i].name = "set" <=> posted[i].name = "set") BY <1>3, <1>4
<1>6. IsSeq(posted')
  <2> DEFINE T == S \cup {Item("ignored", 0)}
  <2>1. \A i \in DOMAIN posted : posted'[i] \in T BY <1>1, <1>2, <1>3
  <2>2. posted' \in [1..Len(posted) -> T] BY <1>2, <1>3, <2>1 DEF Disowned
  <2>3. posted' \in Seq(T) BY <1>2, <2>2, SeqDef
  <2> QED BY <2>3 DEF IsSeq
<1>7. SetPending' <=> SetPending BY <1>3, <1>5 DEF SetPending, Tells
<1>8. ASSUME NEW names, "set" \notin names, "ignored" \notin names PROVE ~Tells(posted', names)
  BY <1>3, <1>4, <1>8 DEF Tells
<1>9. ASSUME LastSet, UNCHANGED state PROVE LastSet'
  <2>1. \A i \in DOMAIN posted : posted[i].name = "set" => posted'[i] = posted[i] BY <1>3
  <2> QED BY <1>3, <1>5, <1>9, <2>1 DEF LastSet
<1>10. Calls(posted) => Calls(posted') BY <1>3, <1>5 DEF Calls
<1> QED BY <1>6, <1>7, <1>8, <1>9, <1>10

\* A publication begins with no request.
LEMMA NewIsTyped ==
  /\ NewPublication \in Publications /\ NewPublication # None
  /\ ~NewPublication.known /\ NewPublication.current = "none"
<1>1. NewPublication \in Publications BY DEF NewPublication, Publications
<1> QED BY <1>1, PublicationAssumption DEF NewPublication

\* The attempt fails and another is to be made: the timer is armed, nothing is published.
LEMMA FailsKeeps ==
  ASSUME PublisherInv, PublishFails, IsSeq(data'), UNCHANGED <<state, active, commands, cmd>>
  PROVE  PublisherInv'
<1>1. /\ publishing' = FALSE /\ publication' = None /\ server' = None /\ timer' = TRUE /\ pc' = "idle"
      /\ posted' = Disowned(posted)
      /\ slips' = slips \cup {"orphan" : item \in {i \in DOMAIN data' : data'[i].name # "DidEnd"}}
  BY DEF PublishFails
<1>2. IsSeq(posted) BY DEF PublisherInv, PublisherTyped
<1>3. /\ IsSeq(posted') /\ (SetPending' <=> SetPending) /\ ~Tells(posted', AnswerNames) /\ Calls(posted')
      /\ LastSet => LastSet'
  BY <1>1, <1>2, DisownedKeeps DEF AnswerNames, PublisherInv, PublisherTyped
<1>4. PublisherTyped' BY <1>1, <1>3 DEF PublisherInv, PublisherTyped
<1>5. ASSUME slips' = {} PROVE LastSet' /\ Answering' /\ Holding' /\ Leading'
  <2>1. slips = {} /\ \A i \in DOMAIN data' : data'[i].name = "DidEnd" BY <1>1, <1>5
  <2>2. LastSet /\ Leading BY <2>1 DEF PublisherInv
  <2>3. ~Tells(data', AnswerNames) BY <2>1 DEF Tells, AnswerNames
  <2>4. Answering' BY <1>1, <1>3, <2>3 DEF Answering, Hears, Tells, Single
  <2>5. Holding' BY <1>1 DEF Holding
  <2>6. Reaches' BY <1>1 DEF Reaches
  <2>7. Leading' BY <1>3, <2>2, <2>6 DEF Leading, Asked
  <2> QED BY <1>3, <2>2, <2>4, <2>5, <2>7
<1> QED BY <1>4, <1>5 DEF PublisherInv

\* A request is sent: for what the command is about, or for the state when it cannot be refreshed.
LEMMA RequestsKeeps ==
  ASSUME PublisherInv, NEW body, Requests(body), pc \in {"dns", "answer"},
         body = cmd.state \/ (body = state /\ state # None),
         IsSeq(data'), slips = {} => ~Tells(data', AnswerNames) /\ ~Tells(posted, AnswerNames),
         slips = {} /\ publication.known => publishing,
         body = SameState => publication.known, UNCHANGED <<state, active, commands, cmd>>
  PROVE  PublisherInv'
<1>1. /\ publication' = [publication EXCEPT !.current = "publish", !.body = body] /\ pc' = "answer"
      /\ UNCHANGED <<publishing, server, timer, posted, slips>>
  BY DEF Requests
<1>2. publication \in Publications /\ body \in Documents \cup {SameState}
  BY DEF PublisherInv, PublisherTyped
<1>3. /\ publication' \in Publications /\ publication'.known = publication.known /\ publication'.current = "publish"
      /\ publication'.body = body
  BY <1>1, <1>2 DEF Publications
<1>4. publication' # None BY <1>3, PublicationAssumption
<1>5. PublisherTyped' BY <1>1, <1>3, <1>4 DEF PublisherInv, PublisherTyped
<1>6. ASSUME slips' = {} PROVE LastSet' /\ Answering' /\ Holding' /\ Leading'
  <2>1. slips = {} /\ LastSet /\ Answering /\ Holding /\ Leading BY <1>1, <1>6 DEF PublisherInv
  <2>2. ~Tells(data', AnswerNames) /\ ~Tells(posted', AnswerNames) BY <1>1, <2>1
  <2>3. LastSet' BY <1>1, <2>1 DEF LastSet
  <2>4. Answering' BY <1>1, <1>3, <2>2 DEF Answering, Hears, Tells, Single
  <2>0. state # SameState BY DocumentAssumption DEF PublisherInv, PublisherTyped
  <2>5. Holding' BY <1>1, <1>3, <2>0, <2>1 DEF Holding
  <2>6. SetPending' <=> SetPending BY <1>1 DEF SetPending
  <2>7. ~Hears({"DidSucceed"})' BY <2>2 DEF Hears, Tells, AnswerNames
  <2>8. Reaches => Reaches'
    <3> SUFFICES ASSUME Reaches PROVE Reaches' OBVIOUS
    <3>1. Asked' = Asked BY DEF Asked
    <3>2. Asked # None BY DEF Reaches
    <3>3. body # SameState => body = Asked BY <3>2 DEF Reaches, Asked
    <3> QED BY <1>1, <1>3, <2>7, <3>1, <3>2, <3>3 DEF Reaches
  <2>9. Leading' BY <2>1, <2>6, <2>8 DEF Leading, Asked
  <2> QED BY <2>3, <2>4, <2>5, <2>9
<1> QED BY <1>5, <1>6 DEF PublisherInv

\* The next route is tried, when no answer is left.
LEMMA TriesKeeps ==
  ASSUME PublisherInv, TriesRoute, pc \in {"dns", "answer"}, IsSeq(data'),
         slips = {} => ~Tells(data', AnswerNames) /\ ~Tells(posted, AnswerNames) /\ publication.current = "none",
         slips = {} /\ publication.known => publishing, UNCHANGED <<state, active, commands, cmd>>
  PROVE  PublisherInv'
<1>1. refused = (IF cmd.state # SameState THEN "no"
                 ELSE IF ~publication.known THEN "ValueError" ELSE IF ~publication.etag THEN "PublicationETagError" ELSE "no")
  BY DEF refused
<1>2. \/ PublishFails
      \/ refused = "PublicationETagError" /\ state # None /\ Requests(state)
      \/ refused = "PublicationETagError" /\ state = None /\ pc' = "idle"
         /\ UNCHANGED <<publication, publishing, server, timer, posted, slips>>
      \/ refused = "no" /\ Requests(cmd.state)
  BY DEF TriesRoute
<1>3. CASE PublishFails BY <1>3, FailsKeeps
<1>4. CASE refused = "PublicationETagError" /\ state # None /\ Requests(state)
  <2>1. publication.known BY <1>1, <1>4
  <2> QED BY <1>4, <2>1, RequestsKeeps
<1>5. CASE refused = "no" /\ Requests(cmd.state)
  <2>1. cmd.state = SameState => publication.known BY <1>1, <1>5
  <2> QED BY <1>5, <2>1, RequestsKeeps
<1>6. CASE refused = "PublicationETagError" /\ state = None /\ pc' = "idle"
           /\ UNCHANGED <<publication, publishing, server, timer, posted, slips>>
  <2>1. publication # None /\ publication.known BY <1>1, <1>6 DEF PublisherInv, PublisherTyped
  <2>2. PublisherTyped' BY <1>6 DEF PublisherInv, PublisherTyped
  <2>3. ASSUME slips' = {} PROVE LastSet' /\ Answering' /\ Holding' /\ Leading'
    <3>1. slips = {} /\ LastSet /\ Answering /\ Holding /\ Leading BY <1>6, <2>3 DEF PublisherInv
    <3>2. ~Tells(data', AnswerNames) /\ ~Tells(posted', AnswerNames) BY <1>6, <3>1
    <3>3. LastSet' BY <1>6, <3>1 DEF LastSet
    <3>4. Answering' BY <1>6, <3>1, <3>2 DEF Answering, Hears, Tells, Single
    <3>5. Holding' BY <1>6, <2>1, <3>1 DEF Holding
    <3>6. Asked = None /\ Asked' = None BY <1>6 DEF Asked
    <3>7. Leading' BY <1>6, <3>1, <3>6 DEF Leading, Reaches, SetPending
    <3> QED BY <3>3, <3>4, <3>5, <3>7
  <2> QED BY <2>2, <2>3 DEF PublisherInv
<1> QED BY <1>2, <1>3, <1>4, <1>5, <1>6

-----------------------------------------------------------------------------
\* A call that arrives, and one that is posted.
LEMMA CallArrives ==
  ASSUME IsSeq(posted), posted # <<>>, posted' = Tail(posted), Calls(posted)
  PROVE  /\ IsSeq(posted') /\ Calls(posted') /\ (Head(posted).name = "set" => Head(posted).code \in Documents \cup {None})
         /\ \A names : Tells(posted, names) <=> Head(posted).name \in names \/ Tells(posted', names)
         /\ \A names : Single(posted, names) => Single(posted', names) /\ (Head(posted).name \in names => ~Tells(posted', names))
         /\ LastSet /\ UNCHANGED state =>
              LastSet' /\ (Head(posted).name = "set" /\ ~SetPending' => Head(posted).code = state)
<1> DEFINE n == Len(posted)
<1>1. /\ n \in Nat \ {0} /\ Len(posted') = n - 1 /\ Head(posted) = posted[1] /\ IsSeq(posted')
      /\ \A i \in 1..(n - 1) : posted'[i] = posted[i + 1]
  BY WithoutFirst
<1>2. DOMAIN posted = 1..n /\ DOMAIN posted' = 1..(n - 1) BY <1>1, LenProperties DEF IsSeq
<1> HIDE DEF n
<1>3. ASSUME NEW i \in 1..(n - 1) PROVE i + 1 \in 1..n /\ posted[i + 1] = posted'[i] BY <1>1
<1>4. 1 \in 1..n BY <1>1
<1>5. ASSUME NEW i \in 1..n, i > 1 PROVE i - 1 \in 1..(n - 1) /\ posted[i] = posted'[i - 1]
  <2>1. i - 1 \in 1..(n - 1) /\ (i - 1) + 1 = i BY <1>1, <1>5
  <2> QED BY <1>1, <2>1
<1>6. Calls(posted') /\ (Head(posted).name = "set" => Head(posted).code \in Documents \cup {None})
  BY <1>1, <1>2, <1>3, <1>4 DEF Calls
<1>7. ASSUME LastSet, UNCHANGED state PROVE LastSet'
  <2> SUFFICES ASSUME NEW i \in 1..(n - 1), posted'[i].name = "set", \A j \in 1..(n - 1) : j > i => posted'[j].name # "set"
               PROVE  posted'[i].code = state
    BY <1>2, <1>7 DEF LastSet
  <2>1. ASSUME NEW j \in 1..n, j > i + 1 PROVE posted[j].name # "set"
    <3>1. j > 1 /\ j - 1 > i BY <1>1, <2>1
    <3> QED BY <1>5, <3>1
  <2> QED BY <1>2, <1>3, <1>7, <2>1 DEF LastSet
<1>8. ASSUME LastSet, posted[1].name = "set", ~SetPending' PROVE posted[1].code = state
  <2>1. ASSUME NEW j \in 1..n, j > 1 PROVE posted[j].name # "set"
    <3>1. j - 1 \in 1..(n - 1) /\ posted[j] = posted'[j - 1] BY <1>5, <2>1
    <3> QED BY <1>2, <1>8, <3>1 DEF SetPending, Tells
  <2> QED BY <1>2, <1>4, <1>8, <2>1 DEF LastSet
<1>9. /\ \A names : Tells(posted, names) <=> Head(posted).name \in names \/ Tells(posted', names)
      /\ \A names : Single(posted, names) => Single(posted', names) /\ (Head(posted).name \in names => ~Tells(posted', names))
  BY <1>1, FirstGone
<1> QED BY <1>1, <1>6, <1>7, <1>8, <1>9
LEMMA ItemPosted ==
  ASSUME IsSeq(posted), NEW name, NEW code, posted' = Append(posted, Item(name, code)), Calls(posted),
         name = "set" => code \in Documents \cup {None}
  PROVE  /\ IsSeq(posted') /\ Calls(posted')
         /\ \A names : Tells(posted', names) <=> Tells(posted, names) \/ name \in names
         /\ \A names : Single(posted, names) /\ (name \in names => ~Tells(posted, names)) => Single(posted', names)
         /\ IF name = "set" THEN state' = code => LastSet' ELSE LastSet /\ UNCHANGED state => LastSet'
<1> DEFINE e == Item(name, code)
<1>0. e.name = name /\ e.code = code BY DEF Item
<1> HIDE DEF e
<1>1. PICK S : posted \in Seq(S) BY DEF IsSeq
<1>2. /\ Len(posted) \in Nat /\ DOMAIN posted = 1..Len(posted) /\ DOMAIN posted' = 1..(Len(posted) + 1)
      /\ posted'[Len(posted) + 1] = e
      /\ \A i \in 1..Len(posted) : posted'[i] = posted[i]
  BY <1>1 DEF e
<1>3. 1..(Len(posted) + 1) = 1..Len(posted) \cup {Len(posted) + 1} BY <1>2
<1>4. Calls(posted') BY <1>0, <1>2, <1>3 DEF Calls
<1>5. /\ IsSeq(posted')
      /\ \A names : Tells(posted', names) <=> Tells(posted, names) \/ name \in names
      /\ \A names : Single(posted, names) /\ (name \in names => ~Tells(posted, names)) => Single(posted', names)
  BY <1>0, LastAdded DEF e
<1>6. ASSUME name = "set", state' = code PROVE LastSet'
  <2>1. \A i \in 1..Len(posted) : Len(posted) + 1 > i BY <1>2
  <2> QED BY <1>0, <1>2, <1>3, <1>6, <2>1 DEF LastSet
<1>7. ASSUME name # "set", LastSet, UNCHANGED state PROVE LastSet'
  BY <1>0, <1>2, <1>3, <1>7 DEF LastSet
<1> QED BY <1>4, <1>5, <1>6, <1>7

\* What _publish tells the handler.
LEMMA PublishLeads ==
  ASSUME Publishes, NEW doc, _publish(doc), IsSeq(commands), Requested(commands),
         doc \in Documents \cup {None, SameState}
  PROVE  /\ Requested(commands') /\ (~active => UNCHANGED commands)
         /\ active /\ doc # SameState => ~NoEffect(commands') /\ AimsAt(commands', doc)
         /\ doc = SameState =>
              /\ NoEffect(commands') <=> NoEffect(commands)
              /\ \A d : AimsAt(commands, d) => AimsAt(commands', d)
<1>1. CASE ~active
  <2>1. UNCHANGED commands BY <1>1, Joined, Empty DEF _publish, Told
  <2> QED BY <1>1, <2>1
<1>2. CASE active
  <2> DEFINE t == IF doc = None THEN <<Command("unpublish", None)>> ELSE <<Command("publish", doc)>>
  <2>1. Told(t) BY <1>2 DEF _publish
  <2>2. IsSeq(t) BY One
  <2>3. Requested(t)
    <3>1. Requested(<<Command("unpublish", None)>>) BY One DEF Requested, Command
    <3>2. Requested(<<Command("publish", doc)>>)
      <4>1. DOMAIN <<Command("publish", doc)>> = {1} /\ <<Command("publish", doc)>>[1].state = doc BY One DEF Command
      <4> QED BY <4>1 DEF Requested
    <3> QED BY <3>1, <3>2
  <2>4. doc # SameState => ~NoEffect(t) /\ AimsAt(t, doc) BY OneCommand
  <2>5. doc = SameState => NoEffect(t) BY OneCommand, DocumentAssumption
  <2> HIDE DEF t
  <2> QED BY <1>2, <2>1, <2>2, <2>3, <2>4, <2>5, MoreCommands, MoreRequested DEF Told
<1> QED BY <1>1, <1>2

\* Where _run is leading to stays when it and its publication do.
LEMMA ReachesSame ==
  ASSUME UNCHANGED <<pc, timer, publishing, publication, server, cmd>>, Asked' = Asked,
         \A names : names \in {{"DidSucceed"}, {"DidEnd"}} => (Hears(names)' <=> Hears(names))
  PROVE  Reaches => Reaches'
<1>1. (Hears({"DidSucceed"})' <=> Hears({"DidSucceed"})) /\ (Hears({"DidEnd"})' <=> Hears({"DidEnd"})) OBVIOUS
<1> QED BY <1>1 DEF Reaches, Has

\* The state is set.
LEMMA SetsStateKeeps ==
  ASSUME Publishes, AccountInv, PublisherInv, SetsState PROVE PublisherInv'
<1> USE DEF AccountInv, OpenInv
<1>1. UNCHANGED <<active, data, timer, pc, cmd, publication, publishing, server>>
  BY DEF SetsState, publisherVars
<1>2. PICK doc \in (Documents \cup {None}) \ {state} :
        /\ state' = doc
        /\ \/ posted' = Append(posted, Item("set", doc)) /\ UNCHANGED <<commands, slips>>
           \/ /\ _publish(doc) /\ UNCHANGED posted
              /\ slips' = slips \cup {"reordered" : item \in {i \in DOMAIN posted : posted[i].name = "set"}}
  BY Zenon DEF SetsState
<1>3. doc # SameState BY DocumentAssumption
<1>0. IsSeq(posted) /\ Calls(posted) /\ Requested(commands) BY DEF PublisherInv, PublisherTyped
<1>4. CASE posted' = Append(posted, Item("set", doc)) /\ UNCHANGED <<commands, slips>>
  <2>1. /\ IsSeq(posted') /\ Calls(posted') /\ LastSet'
        /\ \A names : Tells(posted', names) <=> Tells(posted, names) \/ "set" \in names
        /\ \A names : Single(posted, names) /\ ("set" \in names => ~Tells(posted, names)) => Single(posted', names)
    BY <1>0, <1>2, <1>4, ItemPosted
  <2>2. PublisherTyped' BY <1>0, <1>1, <1>2, <1>4, <2>1 DEF PublisherInv, PublisherTyped
  <2>3. ASSUME slips' = {} PROVE Answering' /\ Holding' /\ Leading'
    <3>1. slips = {} /\ Answering /\ Holding /\ Leading BY <1>4, <2>3 DEF PublisherInv
    <3>2. \A names : "set" \notin names => (Hears(names)' <=> Hears(names)) BY <1>1, <2>1 DEF Hears
    <3>3. Hears(AnswerNames)' <=> Hears(AnswerNames) BY <3>2 DEF AnswerNames
    <3>4. (Hears({"DidSucceed"})' <=> Hears({"DidSucceed"})) /\ (Hears({"DidEnd"})' <=> Hears({"DidEnd"})) BY <3>2
    <3>5. Tells(posted', AnswerNames) <=> Tells(posted, AnswerNames) BY <2>1 DEF AnswerNames
    <3>6. Single(posted, AnswerNames) => Single(posted', AnswerNames) BY <2>1 DEF AnswerNames
    <3>7. Answering' BY <1>1, <3>1, <3>3, <3>5, <3>6 DEF Answering
    <3>8. Holding' BY <1>1, <3>1, <3>4 DEF Holding
    <3>9. SetPending' BY <2>1 DEF SetPending
    <3>10. Leading'
      <4>1. CASE active BY <1>1, <3>9, <4>1 DEF Leading
      <4>2. CASE ~active
        <5>1. Asked = None /\ Asked' = None BY <1>1, <4>2 DEF Asked
        <5>2. Reaches => Reaches' BY <1>1, <3>4, <5>1, ReachesSame
        <5> QED BY <1>4, <3>1, <4>2, <5>1, <5>2 DEF Leading
      <4> QED BY <4>1, <4>2
    <3> QED BY <3>7, <3>8, <3>10
  <2> QED BY <2>1, <2>2, <2>3 DEF PublisherInv
<1>5. CASE /\ _publish(doc) /\ UNCHANGED posted
           /\ slips' = slips \cup {"reordered" : item \in {i \in DOMAIN posted : posted[i].name = "set"}}
  <2>1. /\ Requested(commands') /\ (~active => UNCHANGED commands)
        /\ active => ~NoEffect(commands') /\ AimsAt(commands', doc)
    BY <1>0, <1>3, <1>5, PublishLeads
  <2>2. PublisherTyped' BY <1>0, <1>1, <1>2, <1>5, <2>1 DEF PublisherInv, PublisherTyped
  <2>3. ASSUME slips' = {} PROVE LastSet' /\ Answering' /\ Holding' /\ Leading'
    <3>0. slips = {} /\ \A i \in DOMAIN posted : posted[i].name # "set" BY <1>5, <2>3
    <3>1. Answering /\ Holding /\ Leading BY <3>0 DEF PublisherInv
    <3>2. \A names : Hears(names)' <=> Hears(names) BY <1>1, <1>5 DEF Hears
    <3>3. LastSet' BY <1>5, <3>0 DEF LastSet
    <3>4. Answering' BY <1>1, <1>5, <3>1, <3>2 DEF Answering
    <3>5. Holding' BY <1>1, <3>1, <3>2 DEF Holding
    <3>6. Leading'
      <4>1. CASE active
        <5>1. Asked' = doc BY <1>1, <1>2, <4>1 DEF Asked
        <5> QED BY <2>1, <4>1, <5>1 DEF Leading
      <4>2. CASE ~active
        <5>1. Asked = None /\ Asked' = None /\ UNCHANGED commands BY <1>1, <2>1, <4>2 DEF Asked
        <5>2. Reaches => Reaches' BY <1>1, <3>2, <5>1, ReachesSame
        <5> QED BY <3>1, <4>2, <5>1, <5>2 DEF Leading
      <4> QED BY <4>1, <4>2
    <3> QED BY <3>3, <3>4, <3>5, <3>6
  <2> QED BY <2>2, <2>3 DEF PublisherInv
<1> QED BY <1>2, <1>4, <1>5

\* The reactor thread handles what is posted.
LEMMA HandlesKeeps ==
  ASSUME Publishes, AccountInv, PublisherInv, PublisherHandles PROVE PublisherInv'
<1> DEFINE item == Head(posted)
<1>1. /\ posted # <<>> /\ posted' = Tail(posted)
      /\ UNCHANGED <<active, state, timer, pc, cmd, publication, publishing, server, slips>>
  BY DEF PublisherHandles, publisherVars
<1>2. \/ item.name = "set" /\ _publish(item.code) /\ UNCHANGED data
      \/ item.name = "WillExpire" /\ _publish(SameState) /\ UNCHANGED data
      \/ item.name = "ignored" /\ UNCHANGED <<commands, data>>
      \/ item.name \notin {"set", "WillExpire", "ignored"} /\ data' = Append(data, item) /\ UNCHANGED commands
  BY DEF PublisherHandles
<1> HIDE DEF item
<1>3. IsSeq(posted) /\ Calls(posted) /\ Requested(commands) /\ IsSeq(data) BY DEF PublisherInv, PublisherTyped
<1>0. IsSeq(commands) BY DEF AccountInv, OpenInv
<1>4. /\ IsSeq(posted') /\ Calls(posted') /\ (item.name = "set" => item.code \in Documents \cup {None})
      /\ \A names : Tells(posted, names) <=> item.name \in names \/ Tells(posted', names)
      /\ \A names : Single(posted, names) => Single(posted', names) /\ (item.name \in names => ~Tells(posted', names))
      /\ LastSet => LastSet' /\ (item.name = "set" /\ ~SetPending' => item.code = state)
  BY <1>1, <1>3, CallArrives DEF item
<1>5. /\ IsSeq(data')
      /\ \A names : names \cap {"set", "WillExpire", "ignored"} = {} => (Hears(names)' <=> Hears(names))
      /\ Answering => Answering'
  <2>1. CASE UNCHANGED data /\ item.name \in {"set", "WillExpire", "ignored"}
    <3>1. ASSUME NEW names, names \cap {"set", "WillExpire", "ignored"} = {}
          PROVE  /\ Tells(posted', names) <=> Tells(posted, names)
                 /\ Tells(data', names) <=> Tells(data, names)
                 /\ Hears(names)' <=> Hears(names)
      <4>1. item.name \notin names BY <2>1, <3>1
      <4> QED BY <1>4, <2>1, <4>1 DEF Hears
    <3>2. ASSUME Answering PROVE Answering'
      <4>1. AnswerNames \cap {"set", "WillExpire", "ignored"} = {} BY DEF AnswerNames
      <4>2. /\ Tells(posted', AnswerNames) <=> Tells(posted, AnswerNames)
            /\ Tells(data', AnswerNames) <=> Tells(data, AnswerNames)
            /\ Hears(AnswerNames)' <=> Hears(AnswerNames)
        BY <3>1, <4>1
      <4>3. Single(posted', AnswerNames) BY <1>4, <3>2 DEF Answering
      <4> QED BY <1>1, <2>1, <3>2, <4>2, <4>3 DEF Answering
    <3> QED BY <1>3, <2>1, <3>1, <3>2
  <2>2. CASE data' = Append(data, item)
    <3>1. /\ IsSeq(data')
          /\ \A names : Tells(data', names) <=> Tells(data, names) \/ item.name \in names
          /\ \A names : Single(data, names) /\ (item.name \in names => ~Tells(data, names)) => Single(data', names)
      BY <1>3, <2>2, LastAdded
    <3>2. \A names : Hears(names)' <=> Hears(names) BY <1>4, <3>1 DEF Hears
    <3>3. ASSUME Answering PROVE Answering'
      <4>1. item.name \in AnswerNames => Tells(posted, AnswerNames) BY <1>4
      <4>2. Single(data', AnswerNames) BY <3>1, <3>3, <4>1 DEF Answering
      <4>3. Single(posted', AnswerNames) BY <1>4, <3>3 DEF Answering
      <4>4. ~(Tells(data', AnswerNames) /\ Tells(posted', AnswerNames))
        <5>1. item.name \in AnswerNames => ~Tells(posted', AnswerNames) BY <1>4, <3>3 DEF Answering
        <5>2. Tells(posted', AnswerNames) => Tells(posted, AnswerNames) BY <1>4
        <5>3. Tells(data', AnswerNames) <=> Tells(data, AnswerNames) \/ item.name \in AnswerNames BY <3>1
        <5> QED BY <3>3, <5>1, <5>2, <5>3 DEF Answering
      <4>5. Hears(AnswerNames)' <=> Hears(AnswerNames) BY <3>2
      <4> QED BY <1>1, <3>3, <4>2, <4>3, <4>4, <4>5 DEF Answering
    <3> QED BY <3>1, <3>2, <3>3
  <2> QED BY <1>2, <2>1, <2>2
<1>6. (Hears({"DidSucceed"})' <=> Hears({"DidSucceed"})) /\ (Hears({"DidEnd"})' <=> Hears({"DidEnd"}))
  <2>1. {"DidSucceed"} \cap {"set", "WillExpire", "ignored"} = {} /\ {"DidEnd"} \cap {"set", "WillExpire", "ignored"} = {}
    OBVIOUS
  <2> QED BY <1>5, <2>1
<1>7. Holding => Holding' BY <1>1, <1>6 DEF Holding
<1>8. Asked' = Asked /\ (Reaches => Reaches')
  <2>1. Asked' = Asked BY <1>1 DEF Asked
  <2> QED BY <1>1, <1>6, <2>1, ReachesSame
<1>9. /\ Requested(commands')
      /\ LastSet /\ Leading => Leading'
  <2>1. CASE item.name = "set" /\ _publish(item.code)
    <3>1. item.code \in Documents \cup {None} /\ item.code # SameState BY <1>4, <2>1, DocumentAssumption
    <3>2. /\ Requested(commands') /\ (~active => UNCHANGED commands)
          /\ active => ~NoEffect(commands') /\ AimsAt(commands', item.code)
      BY <1>0, <1>3, <2>1, <3>1, PublishLeads
    <3>3. ASSUME LastSet, Leading PROVE Leading'
      <4>1. CASE active
        <5>1. ~SetPending' => item.code = Asked' BY <1>1, <1>4, <2>1, <3>3, <4>1 DEF Asked
        <5> QED BY <1>1, <3>2, <4>1, <5>1 DEF Leading
      <4>2. CASE ~active BY <1>1, <1>8, <3>2, <3>3, <4>2 DEF Leading
      <4> QED BY <4>1, <4>2
    <3> QED BY <3>2, <3>3
  <2>2. CASE item.name = "WillExpire" /\ _publish(SameState)
    <3>1. /\ Requested(commands') /\ (NoEffect(commands') <=> NoEffect(commands))
          /\ \A d : AimsAt(commands, d) => AimsAt(commands', d)
      BY <1>0, <1>3, <2>2, PublishLeads
    <3>2. SetPending' <=> SetPending
      <4>1. item.name \notin {"set"} BY <2>2
      <4> QED BY <1>4, <4>1 DEF SetPending
    <3> QED BY <1>1, <1>8, <3>1, <3>2 DEF Leading
  <2>3. CASE item.name # "set" /\ UNCHANGED commands
    <3>1. SetPending' <=> SetPending
      <4>1. item.name \notin {"set"} BY <2>3
      <4> QED BY <1>4, <4>1 DEF SetPending
    <3> QED BY <1>1, <1>3, <1>8, <2>3, <3>1 DEF Leading
  <2> QED BY <1>2, <2>1, <2>2, <2>3
<1>10. PublisherTyped' BY <1>1, <1>4, <1>5, <1>9 DEF PublisherInv, PublisherTyped
<1> QED BY <1>1, <1>4, <1>5, <1>7, <1>9, <1>10 DEF PublisherInv

\* _run takes its next command.
LEMMA TakesCommandKeeps ==
  ASSUME Publishes, AccountInv, PublisherInv, TakesCommand PROVE PublisherInv'
<1> DEFINE command == Head(commands)
<1>1. pc = "idle" /\ commands # <<>> /\ commands' = Tail(commands) /\ UNCHANGED <<active, state, data, slips>>
  BY DEF TakesCommand
<1>2. \/ command.name = "publish" /\ (command.state = None \/ (publication = None /\ command.state = SameState))
         /\ UNCHANGED <<pc, cmd, timer, publication, publishing, server, posted>>
      \/ /\ command.name = "publish" /\ command.state # None /\ ~(publication = None /\ command.state = SameState)
         /\ timer' = FALSE /\ pc' = "dns" /\ cmd' = command /\ UNCHANGED <<publishing, server, posted>>
         /\ publication' = IF publication = None THEN NewPublication ELSE publication
      \/ /\ command.name # "publish" /\ timer' = FALSE /\ publishing' = FALSE /\ cmd' = command
         /\ IF publication # None /\ publishing
            THEN pc' = "ending" /\ UNCHANGED <<posted, server>> /\ publication' = end
            ELSE Withdrawn(command)
  BY DEF TakesCommand, _CH_publish, _CH_unpublish
<1> HIDE DEF command
<1>3. IsSeq(posted) /\ Calls(posted) /\ Requested(commands) /\ IsSeq(commands) BY DEF PublisherInv, PublisherTyped, AccountInv, OpenInv
<1>4. Requested(commands') /\ (command.name = "publish" => command.state \in Documents \cup {None, SameState})
  BY <1>1, <1>3, Empty, MoreRequested DEF command
<1>5. ASSUME AimsAt(commands, Asked)
      PROVE  /\ AimsAt(commands', Asked)
             /\ NoEffect(commands') => IF Effective(command) THEN Target(command) = Asked ELSE NoEffect(commands)
  BY <1>1, <1>3, <1>5, NextCommand DEF command
<1>6. Asked' = Asked BY <1>1 DEF Asked
<1>7. CASE command.name = "publish" /\ (command.state = None \/ (publication = None /\ command.state = SameState))
         /\ UNCHANGED <<pc, cmd, timer, publication, publishing, server, posted>>
  <2>1. PublisherTyped' BY <1>1, <1>4, <1>7 DEF PublisherInv, PublisherTyped
  <2>2. \A names : Hears(names)' <=> Hears(names) BY <1>1, <1>7 DEF Hears
  <2>3. Answering => Answering' BY <1>1, <1>7, <2>2 DEF Answering
  <2>4. Holding => Holding' BY <1>1, <1>7, <2>2 DEF Holding
  <2>5. LastSet => LastSet' BY <1>1, <1>7 DEF LastSet
  <2>6. Reaches => Reaches' BY <1>6, <1>7, <2>2, ReachesSame
  <2>7. ~Effective(command) BY <1>7 DEF Effective
  <2>8. Leading => Leading' BY <1>1, <1>5, <1>6, <1>7, <2>6, <2>7 DEF Leading, SetPending
  <2> QED BY <1>1, <2>1, <2>3, <2>4, <2>5, <2>8 DEF PublisherInv
<1>8. CASE /\ command.name = "publish" /\ command.state # None /\ ~(publication = None /\ command.state = SameState)
           /\ timer' = FALSE /\ pc' = "dns" /\ cmd' = command /\ UNCHANGED <<publishing, server, posted>>
           /\ publication' = IF publication = None THEN NewPublication ELSE publication
  <2>1. publication' \in Publications /\ publication' # None
    BY <1>8, NewIsTyped DEF PublisherInv, PublisherTyped
  <2>2. PublisherTyped' BY <1>1, <1>4, <1>8, <2>1 DEF PublisherInv, PublisherTyped
  <2>3. \A names : Hears(names)' <=> Hears(names) BY <1>1, <1>8 DEF Hears
  <2>4. LastSet => LastSet' BY <1>1, <1>8 DEF LastSet
  <2>5. ASSUME Answering, Holding PROVE Answering' /\ Holding' /\ ~Hears({"DidSucceed"})' /\ publication'.current = "none"
    <3>1. ~Hears(AnswerNames) BY <1>1, <2>5 DEF Answering
    <3>2. ~Hears({"DidSucceed"}) BY <3>1 DEF Hears, Tells, AnswerNames
    <3>3. publication # None => publication.current = "none"
      BY <1>1, <2>5 DEF Answering, PublisherInv, PublisherTyped, Publications
    <3>4. publication'.current = "none" BY <1>8, <3>3, NewIsTyped
    <3>5. publication'.known => publishing BY <1>1, <1>8, <2>5, <3>2, NewIsTyped DEF Holding
    <3>6. Answering' BY <1>1, <1>8, <2>3, <2>5, <3>1, <3>4 DEF Answering
    <3>7. Holding' BY <1>1, <1>8, <2>3, <3>4, <3>5 DEF Holding
    <3> QED BY <2>3, <3>2, <3>4, <3>6, <3>7
  <2>6. ASSUME Answering, Holding, Leading PROVE Leading'
    <3>1. SUFFICES ASSUME ~SetPending' \/ ~active'
                   PROVE  AimsAt(commands', Asked') /\ (NoEffect(commands') => Reaches')
      BY DEF Leading
    <3>2. AimsAt(commands, Asked) /\ (NoEffect(commands) => Reaches) BY <1>1, <1>8, <2>6, <3>1 DEF Leading, SetPending
    <3>3. AimsAt(commands', Asked') BY <1>5, <1>6, <3>2
    <3>4. ASSUME NoEffect(commands') PROVE Reaches'
      <4>0. publication'.current = "none" /\ ~Hears({"DidSucceed"})' BY <2>5, <2>6
      <4>1. CASE command.state = SameState
        <5>1. ~Effective(command) /\ publication # None /\ publication' = publication BY <1>8, <4>1 DEF Effective
        <5>2. Reaches BY <1>5, <3>2, <3>4, <5>1
        <5>3. ~timer /\ publishing BY <1>1, <2>6, <5>1 DEF Holding
        <5>4. Asked # None /\ Has BY <1>1, <5>2, <5>3 DEF Reaches
        <5> QED BY <1>6, <1>8, <4>0, <4>1, <5>1, <5>4 DEF Reaches, Has
      <4>2. CASE command.state # SameState
        <5>1. Effective(command) /\ Target(command) = command.state BY <1>8, <4>2 DEF Effective, Target
        <5>2. command.state = Asked BY <1>5, <3>2, <3>4, <5>1
        <5> QED BY <1>6, <1>8, <4>0, <4>2, <5>2 DEF Reaches
      <4> QED BY <4>1, <4>2
    <3> QED BY <3>3, <3>4
  <2> QED BY <1>1, <2>2, <2>4, <2>5, <2>6 DEF PublisherInv
<1>9. CASE /\ command.name # "publish" /\ timer' = FALSE /\ publishing' = FALSE /\ cmd' = command
           /\ IF publication # None /\ publishing
              THEN pc' = "ending" /\ UNCHANGED <<posted, server>> /\ publication' = end
              ELSE Withdrawn(command)
  <2>0. ASSUME AimsAt(commands, Asked), NoEffect(commands') PROVE Asked = None
    BY <1>5, <1>9, <2>0 DEF Effective, Target
  <2>1. CASE /\ publication # None /\ publishing
             /\ pc' = "ending" /\ UNCHANGED <<posted, server>> /\ publication' = end
    <3>1. publication \in Publications BY <2>1 DEF PublisherInv, PublisherTyped
    <3>2. /\ publication' \in Publications /\ publication'.known = publication.known
          /\ publication'.current = IF publication.known THEN "unpublish" ELSE publication.current
          /\ publication'.body = publication.body
      BY <2>1, <3>1 DEF Publications, end
    <3>3. publication' # None BY <3>2, PublicationAssumption
    <3>4. PublisherTyped' BY <1>1, <1>4, <1>9, <2>1, <3>2, <3>3 DEF PublisherInv, PublisherTyped
    <3>5. \A names : Hears(names)' <=> Hears(names) BY <1>1, <2>1 DEF Hears
    <3>6. LastSet => LastSet' BY <1>1, <2>1 DEF LastSet
    <3>7. ASSUME Answering, Holding PROVE Answering' /\ Holding'
      <4>1. ~Hears(AnswerNames) BY <1>1, <3>7 DEF Answering
      <4>2. publication.current = "none" BY <1>1, <2>1, <3>1, <3>7 DEF Answering, Publications
      <4>3. Answering' BY <1>1, <2>1, <3>2, <3>5, <3>7, <4>1, <4>2 DEF Answering
      <4>4. Holding' BY <1>9, <2>1, <3>2, <4>2 DEF Holding
      <4> QED BY <4>3, <4>4
    <3>8. ASSUME Leading PROVE Leading'
      <4>1. NoEffect(commands') /\ AimsAt(commands, Asked) => Reaches' BY <1>6, <2>0, <2>1 DEF Reaches
      <4> QED BY <1>1, <1>5, <1>6, <2>1, <3>8, <4>1 DEF Leading, SetPending
    <3> QED BY <1>1, <3>4, <3>6, <3>7, <3>8 DEF PublisherInv
  <2>2. CASE Withdrawn(command)
    <3>1. /\ publication' = None /\ server' = None /\ posted' = Disowned(posted)
          /\ pc' \in {"off", "idle"}
      BY <2>2 DEF Withdrawn
    <3>2. /\ IsSeq(posted') /\ (SetPending' <=> SetPending) /\ Calls(posted') /\ ~Tells(posted', AnswerNames)
          /\ LastSet => LastSet'
      BY <1>1, <1>3, <3>1, DisownedKeeps DEF AnswerNames
    <3>3. PublisherTyped' BY <1>1, <1>4, <1>9, <3>1, <3>2 DEF PublisherInv, PublisherTyped
    <3>4. ASSUME Answering PROVE Answering'
      <4>1. ~Tells(data', AnswerNames) BY <1>1, <3>4 DEF Answering, Hears
      <4> QED BY <3>1, <3>2, <4>1 DEF Answering, Hears, Tells, Single
    <3>5. Holding' BY <1>9, <3>1 DEF Holding
    <3>6. ASSUME Leading PROVE Leading'
      <4>1. NoEffect(commands') /\ AimsAt(commands, Asked) => Reaches' BY <1>6, <1>9, <2>0, <3>1 DEF Reaches
      <4> QED BY <1>1, <1>5, <1>6, <3>2, <3>6, <4>1 DEF Leading
    <3> QED BY <1>1, <3>2, <3>3, <3>4, <3>5, <3>6 DEF PublisherInv
  <2> QED BY <1>9, <2>1, <2>2
<1> QED BY <1>2, <1>7, <1>8, <1>9

\* The routes are found, or they are not.
LEMMA LookupKeeps ==
  ASSUME PublisherInv, LookupReturns PROVE PublisherInv'
<1>1. pc = "dns" /\ UNCHANGED <<data, active, state, commands, cmd>> /\ (TriesRoute \/ PublishFails)
  BY DEF LookupReturns
<1>2. IsSeq(data') BY <1>1 DEF PublisherInv, PublisherTyped
<1>3. ASSUME slips = {}
      PROVE  /\ ~Tells(data', AnswerNames) /\ ~Tells(posted, AnswerNames) /\ publication.current = "none"
             /\ publication.known => publishing
  <2>1. Answering /\ Holding BY <1>3 DEF PublisherInv
  <2>2. ~Hears(AnswerNames) BY <1>1, <2>1 DEF Answering
  <2>3. ~Hears({"DidSucceed"}) BY <2>2 DEF Hears, Tells, AnswerNames
  <2>4. publication \in Publications /\ publication # None BY <1>1 DEF PublisherInv, PublisherTyped
  <2>5. publication.current = "none" BY <1>1, <2>1, <2>4 DEF Answering, Publications
  <2> QED BY <1>1, <2>1, <2>2, <2>3, <2>4, <2>5 DEF Hears, Holding
<1>4. CASE TriesRoute
  <2>1. pc \in {"dns", "answer"} BY <1>1
  <2>2. slips = {} => ~Tells(data', AnswerNames) /\ ~Tells(posted, AnswerNames) /\ publication.current = "none" BY <1>3
  <2>3. slips = {} /\ publication.known => publishing BY <1>3
  <2> QED BY <1>1, <1>2, <1>4, <2>1, <2>2, <2>3, TriesKeeps
<1>5. CASE PublishFails BY <1>1, <1>2, <1>5, FailsKeeps
<1> QED BY <1>1, <1>4, <1>5

\* _run reads an answer.
LEMMA ReadsAnswerKeeps ==
  ASSUME PublisherInv, ReadsAnswer PROVE PublisherInv'
<1> DEFINE item == Head(data)
<1>1. pc = "answer" /\ data # <<>> /\ data' = Tail(data) /\ UNCHANGED <<active, state, commands, cmd>>
  BY DEF ReadsAnswer
<1>2. \/ item.name = "DidSucceed" /\ publishing' = TRUE /\ pc' = "idle" /\ UNCHANGED <<publication, server, timer, posted, slips>>
      \/ PublishFails
      \/ item.name = "DidFail" /\ pc' = "dead" /\ slips' = slips \cup {"killed"}
         /\ UNCHANGED <<publication, publishing, server, timer, posted>>
      \/ item.name = "DidFail" /\ TriesRoute
  BY DEF ReadsAnswer, GotFailure
<1>3. IsSeq(data) /\ item = data[1] BY <1>1, WithoutFirst DEF PublisherInv, PublisherTyped
<1> HIDE DEF item
<1>4. /\ IsSeq(data')
      /\ \A names : Tells(data, names) <=> item.name \in names \/ Tells(data', names)
      /\ \A names : Single(data, names) => Single(data', names) /\ (item.name \in names => ~Tells(data', names))
  BY <1>1, <1>3, FirstGone
<1>5. ASSUME slips = {}, item.name \in AnswerNames
      PROVE  /\ ~Tells(data', AnswerNames) /\ ~Tells(posted, AnswerNames) /\ publication # None /\ publication.current = "none"
  <2>1. Answering BY <1>5 DEF PublisherInv
  <2>2. Tells(data, AnswerNames) BY <1>4, <1>5
  <2>3. ~Tells(data', AnswerNames) BY <1>4, <1>5, <2>1 DEF Answering
  <2> QED BY <2>1, <2>2, <2>3 DEF Answering, Hears
<1>6. CASE item.name = "DidSucceed" /\ publishing' = TRUE /\ pc' = "idle" /\ UNCHANGED <<publication, server, timer, posted, slips>>
  <2>1. PublisherTyped' BY <1>1, <1>4, <1>6 DEF PublisherInv, PublisherTyped
  <2>2. ASSUME slips' = {} PROVE LastSet' /\ Answering' /\ Holding' /\ Leading'
    <3>1. slips = {} /\ LastSet /\ Answering /\ Holding /\ Leading BY <1>6, <2>2 DEF PublisherInv
    <3>2. ~Tells(data', AnswerNames) /\ ~Tells(posted, AnswerNames) /\ publication # None /\ publication.current = "none"
      BY <1>5, <1>6, <3>1 DEF AnswerNames
    <3>3. LastSet' BY <1>1, <1>6, <3>1 DEF LastSet
    <3>4. Answering' BY <1>6, <3>2 DEF Answering, Hears, Tells, Single
    <3>5. ~timer BY <1>1, <3>1 DEF Holding
    <3>6. Holding' BY <1>6, <3>2, <3>5 DEF Holding
    <3>7. Hears({"DidSucceed"}) /\ (Hears({"DidEnd"}) <=> Hears({"DidEnd"})')
      <4>1. item.name \in {"DidSucceed"} /\ item.name \notin {"DidEnd"} BY <1>6
      <4> QED BY <1>4, <1>6, <4>1 DEF Hears
    <3>8. Asked' = Asked BY <1>1 DEF Asked
    <3>9. Reaches => Reaches'
      <4>1. Reaches => Asked # None /\ Has BY <1>1, <3>7 DEF Reaches
      <4>2. Has => Has' BY <1>6, <3>7, <3>8 DEF Has
      <4> QED BY <1>6, <3>8, <4>1, <4>2 DEF Reaches
    <3>10. Leading' BY <1>1, <1>6, <3>1, <3>8, <3>9 DEF Leading, SetPending
    <3> QED BY <3>3, <3>4, <3>6, <3>10
  <2> QED BY <2>1, <2>2 DEF PublisherInv
<1>7. CASE PublishFails BY <1>1, <1>4, <1>7, FailsKeeps
<1>8. CASE pc' = "dead" /\ slips' = slips \cup {"killed"} /\ UNCHANGED <<publication, publishing, server, timer, posted>>
  <2>1. PublisherTyped' BY <1>1, <1>4, <1>8 DEF PublisherInv, PublisherTyped
  <2> QED BY <1>8, <2>1 DEF PublisherInv
<1>9. CASE item.name = "DidFail" /\ TriesRoute
  <2>1. ASSUME slips = {}
        PROVE  /\ ~Tells(data', AnswerNames) /\ ~Tells(posted, AnswerNames) /\ publication.current = "none"
               /\ publication.known => publishing
    <3>1. ~Tells(data', AnswerNames) /\ ~Tells(posted, AnswerNames) /\ publication # None /\ publication.current = "none"
      BY <1>5, <1>9, <2>1 DEF AnswerNames
    <3>2. ~Hears({"DidSucceed"})
      <4>1. item.name \notin {"DidSucceed"} BY <1>9
      <4>2. ~Tells(data', {"DidSucceed"}) /\ ~Tells(posted, {"DidSucceed"}) BY <3>1 DEF Tells, AnswerNames
      <4> QED BY <1>4, <4>1, <4>2 DEF Hears
    <3>3. publication.known => publishing BY <1>1, <2>1, <3>1, <3>2 DEF Holding, PublisherInv
    <3> QED BY <3>1, <3>3
  <2>2. pc \in {"dns", "answer"} BY <1>1
  <2>3. slips = {} => ~Tells(data', AnswerNames) /\ ~Tells(posted, AnswerNames) /\ publication.current = "none" BY <2>1
  <2>4. slips = {} /\ publication.known => publishing BY <2>1
  <2> QED BY <1>1, <1>4, <1>9, <2>2, <2>3, <2>4, TriesKeeps
<1> QED BY <1>2, <1>6, <1>7, <1>8, <1>9

\* _run reads what it has while the publication ends.
LEMMA ReadsEndKeeps ==
  ASSUME PublisherInv, ReadsEnd PROVE PublisherInv'
<1> DEFINE item == Head(data)
<1>1. /\ pc = "ending" /\ data # <<>> /\ data' = Tail(data)
      /\ UNCHANGED <<active, state, commands, cmd, timer, publishing, slips>>
      /\ IF item.name = "DidSucceed" THEN UNCHANGED <<publication, server, posted, pc>> ELSE Withdrawn(cmd)
  BY DEF ReadsEnd
<1>2. IsSeq(data) /\ IsSeq(posted) /\ Calls(posted) /\ item = data[1]
  BY <1>1, WithoutFirst DEF PublisherInv, PublisherTyped
<1> HIDE DEF item
<1>3. /\ IsSeq(data')
      /\ \A names : Tells(data, names) <=> item.name \in names \/ Tells(data', names)
  BY <1>1, <1>2, FirstGone
<1>4. CASE item.name = "DidSucceed" /\ UNCHANGED <<publication, server, posted, pc>>
  <2>1. PublisherTyped' BY <1>1, <1>3, <1>4 DEF PublisherInv, PublisherTyped
  <2>2. slips # {}
    <3>1. item.name \in AnswerNames BY <1>4 DEF AnswerNames
    <3>2. Hears(AnswerNames) BY <1>3, <3>1 DEF Hears
    <3> QED BY <1>1, <3>2 DEF PublisherInv, Answering
  <2> QED BY <1>1, <2>1, <2>2 DEF PublisherInv
<1>5. CASE Withdrawn(cmd)
  <2>1. /\ publication' = None /\ server' = None /\ posted' = Disowned(posted)
        /\ pc' \in {"off", "idle"}
    BY <1>5 DEF Withdrawn
  <2>2. /\ IsSeq(posted') /\ (SetPending' <=> SetPending) /\ Calls(posted') /\ ~Tells(posted', AnswerNames)
        /\ LastSet => LastSet'
    BY <1>1, <1>2, <2>1, DisownedKeeps DEF AnswerNames
  <2>3. PublisherTyped' BY <1>1, <1>3, <2>1, <2>2 DEF PublisherInv, PublisherTyped
  <2>4. ASSUME slips' = {} PROVE LastSet' /\ Answering' /\ Holding' /\ Leading'
    <3>1. slips = {} /\ LastSet /\ Answering /\ Holding /\ Leading BY <1>1, <2>4 DEF PublisherInv
    <3>2. ~Tells(data', AnswerNames) BY <1>1, <1>3, <3>1 DEF Answering, Hears
    <3>3. Answering' BY <2>1, <2>2, <3>2 DEF Answering, Hears, Tells, Single
    <3>4. ~publishing BY <1>1, <3>1 DEF Holding
    <3>5. Holding' BY <1>1, <2>1, <3>1, <3>4 DEF Holding
    <3>6. Asked' = Asked /\ (Reaches => Reaches')
      <4>1. Asked' = Asked BY <1>1 DEF Asked
      <4>2. Reaches => Asked = None BY <1>1 DEF Reaches
      <4> QED BY <1>1, <2>1, <3>4, <4>1, <4>2 DEF Reaches
    <3>7. Leading' BY <1>1, <2>2, <3>1, <3>6 DEF Leading
    <3> QED BY <2>2, <3>1, <3>3, <3>5, <3>7
  <2> QED BY <2>3, <2>4 DEF PublisherInv
<1> QED BY <1>1, <1>4, <1>5

\* The publication has posted something for the reactor thread.
LEMMA PublicationPosts ==
  ASSUME PublisherInv, NEW name, NEW code, Posts(name, code), name # "set", PublicationOnly
  PROVE  /\ IsSeq(posted') /\ Calls(posted') /\ (LastSet => LastSet') /\ (SetPending' <=> SetPending)
         /\ \A names : Tells(posted', names) <=> Tells(posted, names) \/ name \in names
         /\ \A names : Hears(names)' <=> Hears(names) \/ name \in names
         /\ \A names : Single(posted, names) /\ (name \in names => ~Tells(posted, names)) => Single(posted', names)
         /\ UNCHANGED <<active, state, commands, data, timer, pc, cmd, publishing, slips>> /\ Asked' = Asked
<1>1. UNCHANGED <<active, state, commands, data, timer, pc, cmd, publishing, slips>> BY DEF PublicationOnly
<1>2. IsSeq(posted) /\ Calls(posted) /\ posted' = Append(posted, Item(name, code))
  BY DEF PublisherInv, PublisherTyped, Posts
<1>3. /\ IsSeq(posted') /\ Calls(posted') /\ (LastSet => LastSet')
      /\ \A names : Tells(posted', names) <=> Tells(posted, names) \/ name \in names
      /\ \A names : Single(posted, names) /\ (name \in names => ~Tells(posted, names)) => Single(posted', names)
  BY <1>1, <1>2, ItemPosted
<1>4. SetPending' <=> SetPending
  <2>1. name \notin {"set"} OBVIOUS
  <2> QED BY <1>3, <2>1 DEF SetPending
<1>5. \A names : Hears(names)' <=> Hears(names) \/ name \in names BY <1>1, <1>3 DEF Hears
<1> QED BY <1>1, <1>3, <1>4, <1>5 DEF Asked
\* _run and the commands lead where they did when what it leads to does.
LEMMA LeadingSame ==
  ASSUME Leading, Reaches => Reaches', Asked' = Asked, UNCHANGED <<active, commands>>, SetPending' <=> SetPending
  PROVE  Leading'
BY DEF Leading

\* A request is answered.
LEMMA SucceedsKeeps ==
  ASSUME PublisherInv, RequestSucceeds PROVE PublisherInv'
<1>1. publication # None /\ publication \in Publications /\ PublicationOnly
  BY DEF RequestSucceeds, Out, PublisherInv, PublisherTyped
<1>2. \/ publication.current = "unpublish" /\ publication' = NewPublication /\ server' = None /\ Posts("DidEnd", 0)
      \/ /\ publication.current = "publish" /\ Posts("DidSucceed", 0)
         /\ server' = IF publication.body = SameState THEN server ELSE publication.body
         /\ \E etag \in BOOLEAN : publication' = [NewPublication EXCEPT !.known = TRUE, !.etag = etag]
  BY Zenon DEF RequestSucceeds
<1>3. CASE publication.current = "unpublish" /\ publication' = NewPublication /\ server' = None /\ Posts("DidEnd", 0)
  <2>1. /\ IsSeq(posted') /\ Calls(posted') /\ (LastSet => LastSet') /\ (SetPending' <=> SetPending)
        /\ \A names : Hears(names)' <=> Hears(names) \/ "DidEnd" \in names
        /\ UNCHANGED <<active, state, commands, data, timer, pc, cmd, publishing, slips>> /\ Asked' = Asked
    BY <1>1, <1>3, PublicationPosts
  <2>2. PublisherTyped' BY <1>3, <2>1, NewIsTyped DEF PublisherInv, PublisherTyped
  <2>3. ASSUME slips' = {} PROVE LastSet' /\ Answering' /\ Holding' /\ Leading'
    <3>1. slips = {} /\ LastSet /\ Answering /\ Holding /\ Leading BY <2>1, <2>3 DEF PublisherInv
    <3>2. pc = "ending" BY <1>1, <1>3, <3>1 DEF Answering
    <3>3. ~Hears(AnswerNames)' BY <2>1, <3>1, <3>2 DEF Answering, AnswerNames
    <3>4. Answering' BY <1>3, <3>3, NewIsTyped DEF Answering, Hears, Tells, Single
    <3>5. Holding' BY <1>3, <2>1, <3>1, <3>2, NewIsTyped DEF Holding
    <3>6. Reaches => Reaches' BY <2>1, <3>2 DEF Reaches
    <3>7. Leading' BY <2>1, <3>1, <3>6, LeadingSame
    <3> QED BY <2>1, <3>1, <3>4, <3>5, <3>7
  <2> QED BY <2>2, <2>3 DEF PublisherInv
<1>4. CASE /\ publication.current = "publish" /\ Posts("DidSucceed", 0)
           /\ server' = IF publication.body = SameState THEN server ELSE publication.body
           /\ \E etag \in BOOLEAN : publication' = [NewPublication EXCEPT !.known = TRUE, !.etag = etag]
  <2>1. /\ IsSeq(posted') /\ Calls(posted') /\ (LastSet => LastSet') /\ (SetPending' <=> SetPending)
        /\ \A names : Tells(posted', names) <=> Tells(posted, names) \/ "DidSucceed" \in names
        /\ \A names : Hears(names)' <=> Hears(names) \/ "DidSucceed" \in names
        /\ \A names : Single(posted, names) /\ ("DidSucceed" \in names => ~Tells(posted, names)) => Single(posted', names)
        /\ UNCHANGED <<active, state, commands, data, timer, pc, cmd, publishing, slips>> /\ Asked' = Asked
    BY <1>1, <1>4, PublicationPosts
  <2>2. publication' \in Publications /\ publication'.known /\ publication'.current = "none"
    <3>1. PICK etag \in BOOLEAN : publication' = [NewPublication EXCEPT !.known = TRUE, !.etag = etag] BY <1>4
    <3> QED BY <3>1, NewIsTyped DEF Publications
  <2>3. publication' # None BY <2>2, PublicationAssumption
  <2>4. PublisherTyped' BY <2>1, <2>2, <2>3 DEF PublisherInv, PublisherTyped
  <2>5. ASSUME slips' = {} PROVE LastSet' /\ Answering' /\ Holding' /\ Leading'
    <3>1. slips = {} /\ LastSet /\ Answering /\ Holding /\ Leading BY <2>1, <2>5 DEF PublisherInv
    <3>2. pc = "answer" /\ ~Hears(AnswerNames) BY <1>1, <1>4, <3>1 DEF Answering
    <3>3. ~Tells(data', AnswerNames) /\ ~Tells(posted, AnswerNames) BY <2>1, <3>2 DEF Hears
    <3>4. Single(posted', AnswerNames) BY <2>1, <3>1, <3>3 DEF Answering
    <3>5. Single(data', AnswerNames) BY <2>1, <3>1 DEF Answering
    <3>6. Answering' BY <2>1, <2>2, <2>3, <3>2, <3>3, <3>4, <3>5 DEF Answering
    <3>7. Hears({"DidSucceed"})' BY <2>1
    <3>8. Holding' BY <2>1, <2>2, <3>1, <3>2, <3>7 DEF Holding
    <3>9. Reaches => Reaches'
      <4> SUFFICES ASSUME Reaches PROVE Reaches' OBVIOUS
      <4>1. Asked # None BY <3>2 DEF Reaches
      <4>2. server' = Asked
        <5>1. CASE publication.body = SameState
          <6>1. publication.known /\ cmd.state = SameState BY <1>1, <1>4, <3>1, <5>1 DEF Holding
          <6> QED BY <1>4, <3>2, <5>1, <6>1 DEF Reaches
        <5>2. CASE publication.body # SameState BY <1>4, <3>2, <5>2 DEF Reaches
        <5> QED BY <5>1, <5>2
      <4>3. cmd.state # SameState => cmd.state = Asked BY <3>2 DEF Reaches
      <4>4. Has' BY <2>1, <2>2, <4>2 DEF Has
      <4> QED BY <2>1, <2>2, <3>2, <4>1, <4>2, <4>3, <4>4 DEF Reaches
    <3>10. Leading' BY <2>1, <3>1, <3>9, LeadingSame
    <3> QED BY <2>1, <3>1, <3>6, <3>8, <3>10
  <2> QED BY <2>4, <2>5 DEF PublisherInv
<1> QED BY <1>2, <1>3, <1>4

\* The publication is as it was but that no request is out any more, or it knows something else.
LEMMA SamePublication ==
  ASSUME PublisherInv, NEW name, NEW code, Posts(name, code), PublicationOnly, UNCHANGED server, publication # None,
         name \notin {"set", "DidSucceed", "DidEnd"}, name \in AnswerNames => publication.current = "publish",
         publication' \in Publications, publication'.known = publication.known,
         \/ publication'.current = "none" /\ publication.current # "none"
         \/ name \notin AnswerNames /\ publication'.current = publication.current /\ publication'.body = publication.body
  PROVE  PublisherInv'
<1>1. /\ IsSeq(posted') /\ Calls(posted') /\ (LastSet => LastSet') /\ (SetPending' <=> SetPending)
      /\ \A names : Tells(posted', names) <=> Tells(posted, names) \/ name \in names
      /\ \A names : Hears(names)' <=> Hears(names) \/ name \in names
      /\ \A names : Single(posted, names) /\ (name \in names => ~Tells(posted, names)) => Single(posted', names)
      /\ UNCHANGED <<active, state, commands, data, timer, pc, cmd, publishing, slips>> /\ Asked' = Asked
  BY PublicationPosts
<1>2. publication' # None BY PublicationAssumption
<1>3. PublisherTyped' BY <1>1, <1>2 DEF PublisherInv, PublisherTyped
<1>4. (Hears({"DidSucceed"})' <=> Hears({"DidSucceed"})) /\ (Hears({"DidEnd"})' <=> Hears({"DidEnd"}))
  <2>1. name \notin {"DidSucceed"} /\ name \notin {"DidEnd"} OBVIOUS
  <2> QED BY <1>1, <2>1
<1>5. ASSUME slips' = {} PROVE LastSet' /\ Answering' /\ Holding' /\ Leading'
  <2>1. slips = {} /\ LastSet /\ Answering /\ Holding /\ Leading BY <1>1, <1>5 DEF PublisherInv
  <2>2. name \in AnswerNames => pc = "answer" /\ ~Hears(AnswerNames) BY <2>1 DEF Answering
  <2>3. Hears(AnswerNames)' => pc = "answer" /\ publication'.current = "none"
    BY <1>1, <2>1, <2>2 DEF Answering
  <2>4. Single(posted', AnswerNames) /\ Single(data', AnswerNames) /\ ~(Tells(data', AnswerNames) /\ Tells(posted', AnswerNames))
    <3>1. Tells(posted', AnswerNames) <=> Tells(posted, AnswerNames) \/ name \in AnswerNames BY <1>1
    <3>2. name \in AnswerNames => ~Tells(posted, AnswerNames) /\ ~Tells(data, AnswerNames) BY <2>2 DEF Hears
    <3>3. Single(posted', AnswerNames) BY <1>1, <2>1, <3>2 DEF Answering
    <3> QED BY <1>1, <2>1, <3>1, <3>2, <3>3 DEF Answering
  <2>5. Answering' BY <1>1, <1>2, <2>1, <2>3, <2>4 DEF Answering
  <2>6. Holding' BY <1>1, <1>2, <1>4, <2>1 DEF Holding
  <2>7. Reaches => Reaches'
    <3>1. Has => Has' BY <1>1, <1>4 DEF Has
    <3> QED BY <1>1, <1>4, <3>1 DEF Reaches
  <2>8. Leading' BY <1>1, <2>1, <2>7, LeadingSame
  <2> QED BY <1>1, <2>1, <2>5, <2>6, <2>8
<1> QED BY <1>3, <1>5 DEF PublisherInv

LEMMA FailsAndWarns ==
  ASSUME PublisherInv, RequestFails \/ WillExpire PROVE PublisherInv'
<1>1. publication # None /\ publication \in Publications /\ PublicationOnly /\ UNCHANGED server
  BY DEF RequestFails, WillExpire, Out, PublisherInv, PublisherTyped
<1>2. CASE RequestFails
  <2>1. PICK code \in {412, 423, 500} :
             /\ publication' = [publication EXCEPT !.current = "none", !.etag = @ /\ code # 412]
             /\ Posts(IF publication.current = "publish" THEN "DidFail" ELSE "DidNotEnd", code)
    BY <1>2, Zenon DEF RequestFails
  <2>0. publication.current # "none" BY <1>2 DEF RequestFails, Out
  <2>2. PICK e \in BOOLEAN : publication' = [publication EXCEPT !.current = "none", !.etag = e]
    <3> DEFINE e == publication.etag /\ code # 412
    <3>1. publication' = [publication EXCEPT !.current = "none", !.etag = e] BY <2>1, Zenon
    <3>2. e \in BOOLEAN OBVIOUS
    <3> HIDE DEF e
    <3> QED BY <3>1, <3>2
  <2>3. publication' \in Publications /\ publication'.known = publication.known /\ publication'.current = "none"
    BY <1>1, <2>2 DEF Publications
  <2> DEFINE name == IF publication.current = "publish" THEN "DidFail" ELSE "DidNotEnd"
  <2>4. /\ Posts(name, code) /\ name \notin {"set", "DidSucceed", "DidEnd"}
        /\ name \in AnswerNames => publication.current = "publish"
    BY <2>1 DEF AnswerNames
  <2> HIDE DEF name
  <2> QED BY <1>1, <2>0, <2>3, <2>4, SamePublication
<1>3. CASE WillExpire
  <2>1. publication' = [publication EXCEPT !.warned = TRUE] /\ Posts("WillExpire", 0) BY <1>3 DEF WillExpire
  <2>2. /\ publication' \in Publications /\ publication'.known = publication.known
        /\ publication'.current = publication.current /\ publication'.body = publication.body
    BY <1>1, <2>1 DEF Publications
  <2>3. "WillExpire" \notin AnswerNames BY DEF AnswerNames
  <2> QED BY <1>1, <2>1, <2>2, <2>3, SamePublication
<1> QED BY <1>2, <1>3

\* What was published expires.
LEMMA ExpiresKeeps ==
  ASSUME PublisherInv, Expires PROVE PublisherInv'
<1>1. /\ publication # None /\ publication.known /\ publication' = NewPublication /\ server' = None /\ Posts("DidEnd", 0)
      /\ PublicationOnly
  BY DEF Expires
<1>2. /\ IsSeq(posted') /\ Calls(posted') /\ (LastSet => LastSet') /\ (SetPending' <=> SetPending)
      /\ \A names : Tells(posted', names) <=> Tells(posted, names) \/ "DidEnd" \in names
      /\ \A names : Hears(names)' <=> Hears(names) \/ "DidEnd" \in names
      /\ \A names : Single(posted, names) /\ ("DidEnd" \in names => ~Tells(posted, names)) => Single(posted', names)
      /\ UNCHANGED <<active, state, commands, data, timer, pc, cmd, publishing, slips>> /\ Asked' = Asked
  BY <1>1, PublicationPosts
<1>3. PublisherTyped' BY <1>1, <1>2, NewIsTyped DEF PublisherInv, PublisherTyped
<1>4. ASSUME slips' = {} PROVE LastSet' /\ Answering' /\ Holding' /\ Leading'
  <2>1. slips = {} /\ LastSet /\ Answering /\ Holding /\ Leading BY <1>2, <1>4 DEF PublisherInv
  <2>2. /\ Tells(posted', AnswerNames) <=> Tells(posted, AnswerNames)
        /\ Single(posted', AnswerNames) /\ (Hears(AnswerNames)' <=> Hears(AnswerNames))
    <3>1. "DidEnd" \notin AnswerNames BY DEF AnswerNames
    <3> QED BY <1>2, <2>1, <3>1 DEF Answering
  <2>3. Answering' BY <1>1, <1>2, <2>1, <2>2, NewIsTyped DEF Answering
  <2>4. Holding' BY <1>1, <1>2, <2>1, NewIsTyped DEF Holding
  <2>5. Has' BY <1>1, <1>2, NewIsTyped DEF Has
  <2>6. Reaches => Reaches' BY <1>1, <1>2, <2>5, NewIsTyped DEF Reaches
  <2>7. Leading' BY <1>2, <2>1, <2>6, LeadingSame
  <2> QED BY <1>2, <2>1, <2>3, <2>4, <2>7
<1> QED BY <1>3, <1>4 DEF PublisherInv

\* Every step of the publisher keeps leading to what is asked for.
LEMMA PublisherKeeps ==
  ASSUME Publishes, AccountInv, PublisherInv, PublisherNext PROVE PublisherInv'
BY SetsStateKeeps, HandlesKeeps, TakesCommandKeeps, LookupKeeps, ReadsAnswerKeeps, ReadsEndKeeps, SucceedsKeeps,
   FailsAndWarns, ExpiresKeeps DEF PublisherNext

-----------------------------------------------------------------------------
(* An account and its handler, whichever it is.                            *)

WantedInv ==
  /\ SubscriptionInv
  /\ ~Publishes => Threaded /\ Aimed /\ Announced /\ Ordered
  /\ Publishes => PublisherInv

\* What the account does is not heard by its subscriber.
LEMMA AsksUnheard ==
  ASSUME Announced, Ordered, AccountAsks, UNCHANGED subscriberVars PROVE Announced' /\ Ordered'
<1>1. slips \subseteq slips' /\ UNCHANGED <<data, posted, handler, subscription>> BY DEF AccountAsks, subscriberVars
<1>2. Coming' = Coming BY <1>1 DEF Coming
<1>3. Announced'
  <2>1. slips' \subseteq {"stale"} => slips \subseteq {"stale"} BY <1>1
  <2> QED BY <1>1, <1>2, <2>1 DEF Announced
<1>4. Ordered'
  <2>1. slips' = {} => slips = {} BY <1>1
  <2> QED BY <1>1, <1>2, <2>1 DEF Ordered
<1> QED BY <1>3, <1>4

\* WantedInv is inductive.
LEMMA WantedInvKept == ASSUME WantedInv, [HandlersNext]_handlersVars PROVE WantedInv'
<1>1. SubscriptionInv /\ AccountInv BY DEF WantedInv, SubscriptionInv
<1>2. SubscriptionInv' BY <1>1, SubscriptionInvKept
<1>3. AccountInv' BY <1>2 DEF SubscriptionInv
<1>4. CASE AccountAsks /\ UNCHANGED <<publisherVars, subscriberVars>>
  <2>1. Publishes' <=> Publishes BY <1>4 DEF AccountAsks, SameKind, Publishes
  <2>2. UNCHANGED publisherVars /\ UNCHANGED subscriberVars BY <1>4
  <2>3. CASE Publishes
    <3>1. PublisherInv' BY <1>1, <1>3, <1>4, <2>2, <2>3, AsksLead DEF WantedInv
    <3> QED BY <1>2, <2>1, <2>3, <3>1 DEF WantedInv
  <2>4. CASE ~Publishes
    <3>1. Threaded' /\ Aimed' BY <1>1, <1>4, <2>2, <2>4, AsksAim DEF WantedInv
    <3>2. Announced' /\ Ordered' BY <1>1, <1>4, <2>2, <2>4, AsksUnheard DEF WantedInv
    <3> QED BY <1>2, <2>1, <2>4, <3>1, <3>2 DEF WantedInv
  <2> QED BY <2>3, <2>4
<1>5. CASE Publishes /\ PublisherNext
  <2>1. SameKind BY <1>1, <1>5, PublisherSteps DEF HandlerStep
  <2>2. Publishes' BY <1>5, <2>1 DEF SameKind, Publishes
  <2>3. PublisherInv' BY <1>1, <1>5, PublisherKeeps DEF WantedInv
  <2> QED BY <1>2, <2>2, <2>3 DEF WantedInv
<1>6. CASE Subscribes /\ SubscriberNext
  <2>1. ~Publishes BY <1>6 DEF Subscribes, Publishes
  <2>2. SameKind BY <1>1, <1>6, SubscriberSteps DEF HandlerStep
  <2>3. ~Publishes' BY <2>1, <2>2 DEF SameKind, Publishes
  <2>4. ViewTyped /\ ViewHeld BY <1>1, <2>1 DEF SubscriptionInv
  <2>5. Threaded' /\ Aimed' BY <1>1, <1>6, <2>1, <2>4, ThreadKept DEF WantedInv
  <2>6. Announced' /\ Ordered' BY <1>1, <1>6, <2>1, <2>4, HearingKept DEF WantedInv
  <2> QED BY <1>2, <2>3, <2>5, <2>6 DEF WantedInv
<1>7. CASE HandlersNext
  <2>1. CASE AccountNext /\ UNCHANGED <<publisherVars, subscriberVars>> BY <1>1, <1>4, <2>1, AccountSteps
  <2> QED BY <1>5, <1>6, <1>7, <2>1 DEF HandlersNext
<1>8. CASE UNCHANGED handlersVars
  <2>1. UNCHANGED <<publisherVars, subscriberVars>> BY <1>8 DEF handlersVars
  <2>2. AccountAsks BY <1>1, <1>8 DEF handlersVars, handlerVars, AccountAsks, SameKind, AccountInv, Typed
  <2> QED BY <1>4, <2>1, <2>2
<1> QED BY <1>7, <1>8

\* At rest the publisher has published what is asked for, and nothing else.
LEMMA PublishedAtRest == ASSUME WantedInv PROVE PublishedAsWanted
<1> SUFFICES ASSUME Publishes, Quiet, slips = {}
             PROVE  /\ publishing = (active /\ state # None)
                    /\ IF publishing THEN server = state ELSE publication = None
  BY DEF PublishedAsWanted
<1>1. PublisherTyped /\ Holding /\ Leading /\ active \in BOOLEAN
  BY DEF WantedInv, PublisherInv, SubscriptionInv, AccountInv, Typed
<1>2. commands = <<>> /\ data = <<>> /\ posted = <<>> /\ ~timer /\ pc \in {"off", "idle"} BY DEF Quiet
<1>3. \A names : ~Tells(<<>>, names) BY NothingHeard
<1>4. ~SetPending /\ ~Hears({"DidEnd"}) BY <1>2, <1>3 DEF SetPending, Hears
<1>5. NoEffect(commands) BY <1>2 DEF NoEffect
<1>6. Reaches BY <1>1, <1>4, <1>5 DEF Leading
<1>7. IF publishing THEN Asked # None /\ Has ELSE Asked = None BY <1>2, <1>6 DEF Reaches
<1>8. publication = None <=> ~publishing BY <1>1, <1>2 DEF Holding, PublisherTyped
<1>9. publishing \in BOOLEAN BY <1>1 DEF PublisherTyped
<1> QED BY <1>1, <1>4, <1>7, <1>8, <1>9 DEF Asked, Has
\* At rest the subscriber is subscribed when that is asked for, and not otherwise.
LEMMA SubscribedAtRest == ASSUME WantedInv PROVE SubscribedAsWanted
<1> SUFFICES ASSUME ~Publishes, Quiet, handler \in {"none", "subscribed"}, slips \subseteq {"stale"}
             PROVE  /\ subscribed = active /\ (handler = "subscribed") = active
                    /\ IF active THEN Alive({"active"} \cup {"sent" : slip \in slips}) ELSE subscription = None
  BY DEF SubscribedAsWanted
<1>1. Threaded /\ Aimed /\ Announced /\ Ordered /\ active \in BOOLEAN /\ ViewTyped
  BY DEF WantedInv, SubscriptionInv, AccountInv, Typed
<1>2. commands = <<>> /\ data = <<>> /\ posted = <<>> /\ ~timer /\ pc \in {"off", "idle"} BY DEF Quiet
<1>3. handler = "subscribed" <=> active BY <1>1, <1>2 DEF Aimed
<1>4. subscribed = active /\ (active <=> subscription # None) BY <1>1, <1>3 DEF Threaded
<1>5. Coming = <<>> BY <1>2, Empty DEF Coming
<1>6. ASSUME active PROVE Alive({"active"} \cup {"sent" : slip \in slips})
  <2>1. subscription # None /\ subscription.stage \in {"sent", "active", "gone"}
    BY <1>1, <1>4, <1>6 DEF ViewTyped, Subscriptions
  <2>2. subscription.stage # "gone" BY <1>1, <1>3, <1>5, <1>6, <2>1, NothingHeard DEF Announced
  <2>3. slips = {} => subscription.stage # "sent" BY <1>1, <1>3, <1>6, <2>1 DEF Ordered
  <2>4. slips # {} => "sent" \in {"sent" : slip \in slips} OBVIOUS
  <2> QED BY <2>1, <2>2, <2>3, <2>4 DEF Alive
<1>7. (handler = "subscribed") = active
  <2>1. CASE active BY <1>1, <1>3, <2>1
  <2>2. CASE ~active BY <1>1, <1>3, <2>2
  <2> QED BY <2>1, <2>2
<1>8. ASSUME ~active PROVE subscription = None BY <1>4, <1>8
<1> QED BY <1>4, <1>6, <1>7, <1>8

\* What an account asks of its handler, and what the handler is doing, always lead to what its
\* settings and its state want (_run, _CH_publish, _CH_unpublish and the subscription's handlers).
THEOREM HandlersInStep == HandlersSpec => []WantedInv
<1>1. HandlersInit => WantedInv
  <2> SUFFICES ASSUME HandlersInit PROVE WantedInv OBVIOUS
  <2>1. SubscriptionInv
    <3>1. AccountInv BY Starts, AccountAssumption
    <3>2. ViewTyped /\ ViewHeld /\ ~Missing
      BY EmptySeq DEF HandlersInit, AccountInit, SubscriberInit, ViewTyped, ViewHeld, Missing, NoView
    <3> QED BY <3>1, <3>2 DEF SubscriptionInv
  <2>2. /\ commands = <<>> /\ data = <<>> /\ posted = <<>> /\ pc = "off" /\ timer = FALSE /\ active = FALSE
        /\ slips = {} /\ state = scene.state /\ scene \in Scenes
    BY DEF HandlersInit, AccountInit
  <2>3. Coming = <<>> BY <2>2, Empty DEF Coming
  <2>4. Threaded /\ Aimed /\ Announced /\ Ordered
    BY <2>2, <2>3 DEF HandlersInit, SubscriberInit, Threaded, Aimed, Announced, Ordered
  <2>5. PublisherTyped
    <3>1. state \in Documents \cup {None} BY <2>2, DocumentAssumption
    <3>2. publication = None /\ publishing = FALSE BY DEF HandlersInit, PublisherInit
    <3>3. Requested(commands) /\ Calls(posted) BY <2>2 DEF Requested, Calls
    <3>4. IsSeq(data) /\ IsSeq(posted) BY <2>2, Orders
    <3> QED BY <2>2, <3>1, <3>2, <3>3, <3>4 DEF PublisherTyped
  <2>6. LastSet /\ Answering /\ Holding /\ Leading
    <3>1. publication = None /\ publishing = FALSE BY DEF HandlersInit, PublisherInit
    <3>2. \A names : ~Hears(names) BY <2>2, NothingHeard DEF Hears
    <3>3. LastSet BY <2>2 DEF LastSet
    <3>4. Answering BY <2>2, <3>1, <3>2 DEF Answering, Single, Hears
    <3>5. Holding BY <2>2, <3>1 DEF Holding
    <3>6. Asked = None BY <2>2 DEF Asked
    <3>7. Leading BY <2>2, <3>1, <3>6 DEF Leading, Reaches, AimsAt
    <3> QED BY <3>3, <3>4, <3>5, <3>7
  <2> QED BY <2>1, <2>4, <2>5, <2>6 DEF WantedInv, PublisherInv
<1>2. WantedInv /\ [HandlersNext]_handlersVars => WantedInv' BY WantedInvKept
<1> QED BY <1>1, <1>2, PTL DEF HandlersSpec
\* When everything has settled the server has the state of an account that publishes and nothing of one
\* that does not, and an account that should be subscribed is, one that should not be is not; whatever was
\* set, changed, lost or refused meanwhile (the publisher and the subscriptions of an account).
THEOREM AlwaysAsRequested == HandlersSpec => []RequestedAsWanted
<1>1. WantedInv => RequestedAsWanted BY PublishedAtRest, SubscribedAtRest DEF RequestedAsWanted
<1> QED BY <1>1, HandlersInStep, PTL
(***************************************************************************)
(* The Bonjour account.                                                    *)
(***************************************************************************)
Transports == (UNION Lists) \cup {"tcp"}
Keys == ({"registration", "discovery"} \X Transports) \cup ({"resolution"} \X Names)
CommandNames == {"register", "unregister", "update", "discover", "stop", "results"}
Commands == [name : CommandNames, files : SUBSET Keys]
FileStates == [active : BOOLEAN, told : BOOLEAN, state : {0, 1}, seen : SUBSET Names]
Timers == {"register", "discover", "update"}
BonjourTypeOK ==
  /\ going \in BOOLEAN
  /\ holder \in [alive : BOOLEAN, locked : BOOLEAN, leaving : BOOLEAN]
  /\ settings \in [enabled : BOOLEAN, listed : Lists, certified : BOOLEAN, state : {0, 1}]
  /\ reports \in Seq({"enabled", "transports", "state"})
  /\ turns \in Seq({"activate", "deactivate", "stop"})
  /\ service \in [started : BOOLEAN, returning : {"no", "ready", "due"}]
  /\ channel \in Seq(Commands)
  /\ batch \in [on : BOOLEAN, files : SUBSET Keys, left : SUBSET Keys]
  /\ DOMAIN files \subseteq Keys /\ files \in [DOMAIN files -> FileStates]
  /\ neighbours \subseteq Names /\ there \subseteq Names
  /\ timers \in [Timers -> {"none", "armed", "fired"}]

\* what there is of a name in a sequence of commands, of a file in its results, and of a report
HasIn(s, name) == \E i \in DOMAIN s : s[i].name = name
HeldIn(s, k) == \E i \in DOMAIN s : k \in s[i].files
Reported(what) == \E i \in DOMAIN reports : reports[i] = what
StopTurn == \E i \in DOMAIN turns : turns[i] = "stop"

\* a stop is the last turn; where the turns lead is where the settings point, unless a change of them is to come
LastTurn == IF turns = <<>> THEN holder.alive ELSE turns[Len(turns)] = "activate"
Turning ==
  /\ \A i \in DOMAIN turns : turns[i] = "stop" => ~going /\ i = Len(turns)
  /\ holder.alive \/ (\E i \in DOMAIN turns : turns[i] = "activate") => going \/ StopTurn
  /\ ~Reported("enabled") => (LastTurn <=> going /\ settings.enabled)

\* the service runs from an activation to the end of the deactivation, and has nothing left when its answer comes
OneStop(s) == \A i, j \in DOMAIN s : s[i].name = "stop" /\ s[j].name = "stop" => i = j
NothingLeft ==
  /\ DOMAIN files = {} /\ neighbours = {} /\ batch.files = {}
  /\ timers = [what \in Timers |-> "none"]
Ending ==
  /\ OneStop(channel)
  /\ HasIn(channel, "stop") => holder.locked /\ service.returning = "no"
  /\ holder.alive => ~holder.locked
  /\ service.returning # "no" => holder.locked
  /\ service.started <=> holder.alive \/ holder.locked
  /\ ~holder.alive /\ (~holder.locked \/ service.returning # "no") => NothingLeft

\* a file with something to tell is in the results that wait or in those under way
KeptIn(s, keys) == \A i \in DOMAIN s : s[i].files \subseteq keys /\ (s[i].name # "results" => s[i].files = {})
Selected ==
  /\ KeptIn(channel, DOMAIN files)
  /\ batch.left \subseteq batch.files /\ batch.files \subseteq DOMAIN files
  /\ ~batch.on => batch.files = {}
  /\ \A k \in DOMAIN files : files[k].active => k \in batch.files \/ HeldIn(channel, k)

\* what is unregistered is registered again, and a timer that has fired has sent its command
Followed(s) == \A i \in DOMAIN s : s[i].name = "unregister" => \E j \in DOMAIN s : j > i /\ s[j].name = "register"
Sent ==
  /\ Followed(channel)
  /\ \A what \in Timers : timers[what] = "fired" => HasIn(channel, what)

\* what an account that stays active still has to do for its settings
Stays == holder.alive /\ ~StopTurn
Renewed == Reported("transports") \/ HasIn(channel, "update")
Sought == Reported("transports") \/ HasIn(channel, "discover")
Registered ==
  /\ \A t \in Transports : Bonjour!Registration(t) \in DOMAIN files => t \in Bonjour!Supported \/ Renewed
  /\ \A t \in Bonjour!Supported :
       Bonjour!Registration(t) \in DOMAIN files \/ Renewed \/ HasIn(channel, "register") \/ timers["register"] = "armed"
  /\ \A k \in DOMAIN files :
       Bonjour!Kind(k) = "registration" =>
         \/ files[k].state = settings.state
         \/ Reported("state") \/ HasIn(channel, "update") \/ timers["update"] = "armed"
Browsing ==
  /\ \A t \in Bonjour!Discoverable : Bonjour!Discovery(t) \in DOMAIN files \/ Sought \/ timers["discover"] = "armed"
  /\ \A n \in neighbours : TransportOf[n] \in Bonjour!Supported \/ Sought
Watching == Stays => Registered /\ Browsing

\* the browse that finds a service
BrowseOf(n) == Bonjour!Discovery(Bonjour!Browsed(TransportOf[n]))
Resolved ==
  /\ \A n \in Names : Bonjour!Resolution(n) \in DOMAIN files => BrowseOf(n) \in DOMAIN files /\ n \in files[BrowseOf(n)].seen
  /\ \A k \in DOMAIN files : \A n \in files[k].seen :
       Bonjour!Kind(k) = "discovery" =>
         k = BrowseOf(n) /\ (Bonjour!Resolution(n) \in DOMAIN files \/ n \in neighbours)
  /\ \A n \in Names : Bonjour!Resolution(n) \in DOMAIN files /\ files[Bonjour!Resolution(n)].told => n \in neighbours
  /\ \A n \in neighbours : Bonjour!Resolution(n) \in DOMAIN files \/ n \in there
Heard == reports \in Seq({"enabled", "transports", "state"})
BonjourInv ==
  Heard /\ (lapses = {} => BonjourTypeOK /\ Turning /\ Ending /\ Selected /\ Sent /\ Watching /\ Resolved)

-----------------------------------------------------------------------------
\* Commands are sent.
LEMMA Longer ==
  ASSUME NEW s \in Seq(Commands), NEW more \in Seq(Commands)
  PROVE  /\ s \o more \in Seq(Commands)
         /\ \A name : HasIn(s \o more, name) <=> HasIn(s, name) \/ HasIn(more, name)
         /\ \A k : HeldIn(s \o more, k) <=> HeldIn(s, k) \/ HeldIn(more, k)
         /\ OneStop(s) /\ OneStop(more) /\ ~(HasIn(s, "stop") /\ HasIn(more, "stop")) => OneStop(s \o more)
         /\ Followed(s) /\ Followed(more) => Followed(s \o more)
         /\ \A keys : KeptIn(s, keys) /\ KeptIn(more, keys) => KeptIn(s \o more, keys)
<1> DEFINE both == s \o more
<1>1. /\ both \in Seq(Commands) /\ Len(s) \in Nat /\ Len(more) \in Nat /\ Len(both) = Len(s) + Len(more)
      /\ DOMAIN s = 1..Len(s) /\ DOMAIN more = 1..Len(more) /\ DOMAIN both = 1..Len(both)
  OBVIOUS
<1>2. \A i \in DOMAIN s : i \in DOMAIN both /\ both[i] = s[i] BY <1>1
<1>3. \A i \in DOMAIN more : Len(s) + i \in DOMAIN both /\ both[Len(s) + i] = more[i] BY <1>1
<1>4. \A i \in DOMAIN both : \/ i \in DOMAIN s /\ both[i] = s[i]
                             \/ i > Len(s) /\ i - Len(s) \in DOMAIN more /\ both[i] = more[i - Len(s)]
  BY <1>1
<1> HIDE DEF both
<1>5. \A name : HasIn(both, name) <=> HasIn(s, name) \/ HasIn(more, name)
  BY <1>2, <1>3, <1>4 DEF HasIn
<1>6. \A k : HeldIn(both, k) <=> HeldIn(s, k) \/ HeldIn(more, k)
  BY <1>2, <1>3, <1>4 DEF HeldIn
<1>7. OneStop(s) /\ OneStop(more) /\ ~(HasIn(s, "stop") /\ HasIn(more, "stop")) => OneStop(both)
  BY <1>1, <1>4 DEF OneStop, HasIn
<1>8. Followed(s) /\ Followed(more) => Followed(both)
  <2> SUFFICES ASSUME Followed(s), Followed(more), NEW i \in DOMAIN both, both[i].name = "unregister"
               PROVE  \E j \in DOMAIN both : j > i /\ both[j].name = "register"
    BY DEF Followed
  <2>1. CASE i \in DOMAIN s /\ both[i] = s[i]
    <3>1. PICK j \in DOMAIN s : j > i /\ s[j].name = "register" BY <2>1 DEF Followed
    <3> QED BY <3>1, <1>2
  <2>2. CASE i > Len(s) /\ i - Len(s) \in DOMAIN more /\ both[i] = more[i - Len(s)]
    <3>1. PICK j \in DOMAIN more : j > i - Len(s) /\ more[j].name = "register" BY <2>2 DEF Followed
    <3> QED BY <3>1, <1>1, <1>3
  <2> QED BY <2>1, <2>2, <1>4
<1>9. \A keys : KeptIn(s, keys) /\ KeptIn(more, keys) => KeptIn(both, keys) BY <1>4 DEF KeptIn
<1> QED BY <1>1, <1>5, <1>6, <1>7, <1>8, <1>9 DEF both

\* The first one is taken.
LEMMA Shorter ==
  ASSUME NEW s \in Seq(Commands), s # <<>>
  PROVE  /\ Tail(s) \in Seq(Commands) /\ Head(s) \in Commands
         /\ \A name : HasIn(s, name) <=> Head(s).name = name \/ HasIn(Tail(s), name)
         /\ \A k : HeldIn(s, k) <=> k \in Head(s).files \/ HeldIn(Tail(s), k)
         /\ OneStop(s) => OneStop(Tail(s)) /\ (Head(s).name = "stop" => ~HasIn(Tail(s), "stop"))
         /\ Followed(s) => Followed(Tail(s)) /\ (Head(s).name = "unregister" => HasIn(Tail(s), "register"))
         /\ \A keys : KeptIn(s, keys) =>
              /\ KeptIn(Tail(s), keys) /\ Head(s).files \subseteq keys
              /\ Head(s).name # "results" => Head(s).files = {}
<1> DEFINE rest == Tail(s)
<1>1. /\ rest \in Seq(Commands) /\ Len(s) \in Nat \ {0} /\ Len(rest) = Len(s) - 1 /\ Head(s) = s[1]
      /\ DOMAIN s = 1..Len(s) /\ DOMAIN rest = 1..(Len(s) - 1) /\ 1 \in DOMAIN s /\ s[1] \in Commands
  BY EmptySeq
<1>2. \A i \in DOMAIN rest : i + 1 \in DOMAIN s /\ rest[i] = s[i + 1] BY <1>1
<1>3. \A i \in DOMAIN s : i = 1 \/ (i > 1 /\ i - 1 \in DOMAIN rest /\ rest[i - 1] = s[i]) BY <1>1, <1>2
<1> HIDE DEF rest
<1>4. \A name : HasIn(s, name) <=> Head(s).name = name \/ HasIn(rest, name)
  BY <1>1, <1>2, <1>3 DEF HasIn
<1>5. \A k : HeldIn(s, k) <=> k \in Head(s).files \/ HeldIn(rest, k)
  BY <1>1, <1>2, <1>3 DEF HeldIn
<1>6. OneStop(s) => OneStop(rest) /\ (Head(s).name = "stop" => ~HasIn(rest, "stop"))
  BY <1>1, <1>2, Z3 DEF OneStop, HasIn
<1>7. Followed(s) => Followed(rest) /\ (Head(s).name = "unregister" => HasIn(rest, "register"))
  <2> SUFFICES ASSUME Followed(s) PROVE Followed(rest) /\ (Head(s).name = "unregister" => HasIn(rest, "register"))
    OBVIOUS
  <2>1. Followed(rest)
    <3> SUFFICES ASSUME NEW i \in DOMAIN rest, rest[i].name = "unregister"
                 PROVE  \E j \in DOMAIN rest : j > i /\ rest[j].name = "register"
      BY DEF Followed
    <3>1. PICK j \in DOMAIN s : j > i + 1 /\ s[j].name = "register" BY <1>2 DEF Followed
    <3> QED BY <3>1, <1>1, <1>3
  <2>2. ASSUME Head(s).name = "unregister" PROVE HasIn(rest, "register")
    <3>1. PICK j \in DOMAIN s : j > 1 /\ s[j].name = "register" BY <2>2, <1>1 DEF Followed
    <3> QED BY <3>1, <1>3 DEF HasIn
  <2> QED BY <2>1, <2>2
<1>8. \A keys : KeptIn(s, keys) =>
        /\ KeptIn(rest, keys) /\ Head(s).files \subseteq keys
        /\ Head(s).name # "results" => Head(s).files = {}
  BY <1>1, <1>2 DEF KeptIn
<1> QED BY <1>1, <1>4, <1>5, <1>6, <1>7, <1>8 DEF rest

\* Files are closed.
LEMMA Forgotten ==
  ASSUME NEW s \in Seq(Commands), NEW gone
  PROVE  LET left == Bonjour!Forgets(s, gone) IN
         /\ left \in Seq(Commands)
         /\ \A name : HasIn(left, name) <=> HasIn(s, name)
         /\ \A k : HeldIn(left, k) <=> HeldIn(s, k) /\ k \notin gone
         /\ OneStop(s) => OneStop(left)
         /\ Followed(s) => Followed(left)
         /\ \A keys : KeptIn(s, keys) => KeptIn(left, keys \ gone)
<1> DEFINE left == Bonjour!Forgets(s, gone)
<1>1. DOMAIN left = DOMAIN s /\ DOMAIN s = 1..Len(s) /\ Len(s) \in Nat BY DEF Bonjour!Forgets
<1>2. \A i \in DOMAIN s : s[i] \in Commands OBVIOUS
<1>3. \A i \in DOMAIN s : left[i] = [s[i] EXCEPT !.files = s[i].files \ gone] BY DEF Bonjour!Forgets
<1>5. left = [i \in 1..Len(s) |-> left[i]] BY <1>1 DEF Bonjour!Forgets
<1> HIDE DEF left
<1>4. \A i \in DOMAIN s : left[i] \in Commands /\ left[i].name = s[i].name /\ left[i].files = s[i].files \ gone
  <2> SUFFICES ASSUME NEW i \in DOMAIN s
               PROVE  left[i] \in Commands /\ left[i].name = s[i].name /\ left[i].files = s[i].files \ gone
    OBVIOUS
  <2>1. s[i] \in [name : CommandNames, files : SUBSET Keys] BY <1>2 DEF Commands
  <2>2. left[i] = [s[i] EXCEPT !.files = s[i].files \ gone] BY <1>3
  <2>3. left[i] \in [name : CommandNames, files : SUBSET Keys] BY <2>1, <2>2
  <2> QED BY <2>1, <2>2, <2>3 DEF Commands
<1>6. left \in Seq(Commands) BY <1>1, <1>4, <1>5
<1>7. \A name : HasIn(left, name) <=> HasIn(s, name) BY <1>1, <1>4 DEF HasIn
<1>8. \A k : HeldIn(left, k) <=> HeldIn(s, k) /\ k \notin gone BY <1>1, <1>4 DEF HeldIn
<1>9. OneStop(s) => OneStop(left) BY <1>1, <1>4 DEF OneStop
<1>10. Followed(s) => Followed(left) BY <1>1, <1>4 DEF Followed
<1>11. \A keys : KeptIn(s, keys) => KeptIn(left, keys \ gone) BY <1>1, <1>4 DEF KeptIn
<1> QED BY <1>6, <1>7, <1>8, <1>9, <1>10, <1>11 DEF left

-----------------------------------------------------------------------------
\* What a step does to the commands that wait: some are sent, or the first is taken, files are closed, and
\* perhaps one is sent.
Grows(new) ==
  /\ channel' \in Seq(Commands)
  /\ \A name : HasIn(channel', name) <=> HasIn(channel, name) \/ name \in new
  /\ \A k : HeldIn(channel', k) <=> HeldIn(channel, k)
  /\ OneStop(channel) /\ ("stop" \in new => ~HasIn(channel, "stop")) => OneStop(channel')
  /\ Followed(channel) => Followed(channel')
  /\ \A keys : KeptIn(channel, keys) => KeptIn(channel', keys)
Rests(gone, new) ==
  /\ channel' \in Seq(Commands)
  /\ \A name : HasIn(channel, name) /\ name # Head(channel).name => HasIn(channel', name)
  /\ \A name : HasIn(channel', name) => HasIn(channel, name) \/ name \in new
  /\ \A name \in new : HasIn(channel', name)
  /\ \A k : HeldIn(channel, k) => k \in gone \/ k \in Head(channel).files \/ HeldIn(channel', k)
  /\ OneStop(channel) => OneStop(channel') /\ (Head(channel).name = "stop" => ~HasIn(channel', "stop"))
  /\ Followed(channel) => Followed(channel') /\ (Head(channel).name = "unregister" => HasIn(channel', "register"))
  /\ \A keys : KeptIn(channel, keys) =>
       /\ KeptIn(channel', keys \ gone) /\ Head(channel).files \subseteq keys
       /\ Head(channel).name # "results" => Head(channel).files = {}
Passes(gone) ==
  /\ channel' \in Seq(Commands)
  /\ \A name : HasIn(channel', name) <=> HasIn(channel, name)
  /\ \A k : HeldIn(channel', k) <=> HeldIn(channel, k) /\ k \notin gone
  /\ OneStop(channel) => OneStop(channel')
  /\ Followed(channel) => Followed(channel')
  /\ \A keys : KeptIn(channel, keys) => KeptIn(channel', keys \ gone)

\* commands that carry no files, one behind the other
Sending(names) == [i \in DOMAIN names |-> Bonjour!Command(names[i])]
LEMMA NewCommands ==
  ASSUME NEW names \in Seq(CommandNames)
  PROVE  /\ Sending(names) \in Seq(Commands)
         /\ \A name : HasIn(Sending(names), name) <=> \E i \in DOMAIN names : names[i] = name
         /\ \A k : ~HeldIn(Sending(names), k)
         /\ \A keys : KeptIn(Sending(names), keys)
<1> DEFINE more == Sending(names)
<1>1. DOMAIN names = 1..Len(names) /\ Len(names) \in Nat OBVIOUS
<1>2. DOMAIN more = DOMAIN names /\ more = [i \in 1..Len(names) |-> more[i]] BY <1>1 DEF Sending
<1>3. \A i \in DOMAIN names : more[i] \in Commands /\ more[i].name = names[i] /\ more[i].files = {}
  BY DEF Sending, Bonjour!Command, Commands
<1> HIDE DEF more
<1>4. more \in Seq(Commands) BY <1>1, <1>2, <1>3
<1>5. \A name : HasIn(more, name) <=> \E i \in DOMAIN names : names[i] = name BY <1>2, <1>3 DEF HasIn
<1>6. \A k : ~HeldIn(more, k) BY <1>2, <1>3 DEF HeldIn
<1>7. \A keys : KeptIn(more, keys) BY <1>2, <1>3 DEF KeptIn
<1> QED BY <1>4, <1>5, <1>6, <1>7 DEF more
LEMMA Sends ==
  ASSUME channel \in Seq(Commands), NEW names \in Seq(CommandNames), Bonjour!Sends(names),
         \A i, j \in DOMAIN names : names[i] = "stop" /\ names[j] = "stop" => i = j,
         \A i \in DOMAIN names : names[i] = "unregister" => \E j \in DOMAIN names : j > i /\ names[j] = "register"
  PROVE  Grows({names[i] : i \in DOMAIN names})
<1> DEFINE more == Sending(names)
           new == {names[i] : i \in DOMAIN names}
<1>1. channel' = channel \o more BY DEF Bonjour!Sends, Sending
<1>2. /\ more \in Seq(Commands)
      /\ \A name : HasIn(more, name) <=> \E i \in DOMAIN names : names[i] = name
      /\ \A k : ~HeldIn(more, k)
      /\ \A keys : KeptIn(more, keys)
  BY NewCommands, Zenon
<1>3. DOMAIN more = DOMAIN names /\ \A i \in DOMAIN names : more[i].name = names[i] BY DEF Sending, Bonjour!Command
<1> HIDE DEF more
<1>4. OneStop(more) BY <1>3 DEF OneStop
<1>5. Followed(more) BY <1>3 DEF Followed
<1>6. /\ channel' \in Seq(Commands)
      /\ \A name : HasIn(channel', name) <=> HasIn(channel, name) \/ HasIn(more, name)
      /\ \A k : HeldIn(channel', k) <=> HeldIn(channel, k) \/ HeldIn(more, k)
      /\ OneStop(channel) /\ OneStop(more) /\ ~(HasIn(channel, "stop") /\ HasIn(more, "stop")) => OneStop(channel')
      /\ Followed(channel) /\ Followed(more) => Followed(channel')
      /\ \A keys : KeptIn(channel, keys) /\ KeptIn(more, keys) => KeptIn(channel', keys)
  BY <1>1, <1>2, Longer, Zenon
<1>7. \A name : HasIn(more, name) <=> name \in new BY <1>2
<1> HIDE DEF new
<1> QED BY <1>2, <1>4, <1>5, <1>6, <1>7 DEF Grows, new
LEMMA SendsNothing ==
  ASSUME channel \in Seq(Commands), UNCHANGED channel \/ Bonjour!Sends(<<>>)
  PROVE  Grows({})
<1>1. CASE UNCHANGED channel BY <1>1 DEF Grows
<1>2. CASE Bonjour!Sends(<<>>)
  <2>1. <<>> \in Seq(CommandNames) /\ DOMAIN <<>> = {} OBVIOUS
  <2>2. channel' = channel \o Sending(<<>>) BY <1>2 DEF Bonjour!Sends, Sending
  <2>3. Sending(<<>>) \in Seq(Commands) BY <2>1, NewCommands
  <2>4. DOMAIN Sending(<<>>) = {} BY DEF Sending
  <2>5. Sending(<<>>) = <<>> BY <2>3, <2>4
  <2>6. channel' = channel BY <2>2, <2>5
  <2> QED BY <2>6 DEF Grows
<1> QED BY <1>1, <1>2
LEMMA SendsOne ==
  ASSUME channel \in Seq(Commands), NEW what \in CommandNames \ {"unregister"}, Bonjour!Sends(<<what>>)
  PROVE  Grows({what})
<1>1. <<what>> \in Seq(CommandNames) /\ DOMAIN <<what>> = {1} /\ <<what>>[1] = what OBVIOUS
<1>2. {<<what>>[i] : i \in DOMAIN <<what>>} = {what} BY <1>1
<1>3. Grows({<<what>>[i] : i \in DOMAIN <<what>>}) BY <1>1, Sends
<1> QED BY <1>2, <1>3
LEMMA SendsTwo ==
  ASSUME channel \in Seq(Commands), NEW what \in CommandNames \ {"unregister", "stop"},
         NEW other \in CommandNames \ {"unregister", "stop"}, Bonjour!Sends(<<what, other>>)
  PROVE  Grows({what, other})
<1> DEFINE names == <<what, other>>
<1>1. names \in Seq(CommandNames) /\ DOMAIN names = {1, 2} /\ names[1] = what /\ names[2] = other OBVIOUS
<1>2. {names[i] : i \in DOMAIN names} = {what, other} BY <1>1
<1>3. Bonjour!Sends(names) OBVIOUS
<1> HIDE DEF names
<1>4. Grows({names[i] : i \in DOMAIN names}) BY <1>1, <1>3, Sends
<1> QED BY <1>2, <1>4
LEMMA SendsThree ==
  ASSUME channel \in Seq(Commands), Bonjour!Sends(<<"discover", "unregister", "register">>)
  PROVE  Grows({"discover", "unregister", "register"})
<1> DEFINE names == <<"discover", "unregister", "register">>
<1>1. /\ names \in Seq(CommandNames) /\ DOMAIN names = {1, 2, 3}
      /\ names[1] = "discover" /\ names[2] = "unregister" /\ names[3] = "register"
  BY DEF CommandNames
<1>2. {names[i] : i \in DOMAIN names} = {"discover", "unregister", "register"} BY <1>1
<1>3. Bonjour!Sends(names) OBVIOUS
<1> HIDE DEF names
<1>4. Grows({names[i] : i \in DOMAIN names}) BY <1>1, <1>3, Sends
<1> QED BY <1>2, <1>4
\* The first command is taken.
LEMMA TakesFirst ==
  ASSUME channel \in Seq(Commands), channel # <<>>, NEW gone, Bonjour!Rest(gone)
  PROVE  Rests(gone, {})
<1> DEFINE s == Tail(channel)
<1>1. channel' = Bonjour!Forgets(s, gone) BY DEF Bonjour!Rest
<1>2. s \in Seq(Commands) BY Shorter
<1>3. /\ channel' \in Seq(Commands)
      /\ \A name : HasIn(channel', name) <=> HasIn(s, name)
      /\ \A k : HeldIn(channel', k) <=> HeldIn(s, k) /\ k \notin gone
      /\ OneStop(s) => OneStop(channel')
      /\ Followed(s) => Followed(channel')
      /\ \A keys : KeptIn(s, keys) => KeptIn(channel', keys \ gone)
  BY <1>1, <1>2, Forgotten, Zenon
<1> HIDE DEF s
<1>4. \A name : HasIn(channel, name) <=> Head(channel).name = name \/ HasIn(s, name)
  BY Shorter, Zenon DEF s
<1>5. \A k : HeldIn(channel, k) <=> k \in Head(channel).files \/ HeldIn(s, k) BY Shorter, Zenon DEF s
<1>6. OneStop(channel) => OneStop(s) /\ (Head(channel).name = "stop" => ~HasIn(s, "stop")) BY Shorter, Zenon DEF s
<1>7. Followed(channel) => Followed(s) /\ (Head(channel).name = "unregister" => HasIn(s, "register"))
  BY Shorter, Zenon DEF s
<1>8. \A keys : KeptIn(channel, keys) =>
        /\ KeptIn(s, keys) /\ Head(channel).files \subseteq keys
        /\ Head(channel).name # "results" => Head(channel).files = {}
  BY Shorter, Zenon DEF s
<1> QED BY <1>3, <1>4, <1>5, <1>6, <1>7, <1>8 DEF Rests
LEMMA TakesAndSends ==
  ASSUME channel \in Seq(Commands), channel # <<>>, NEW gone,
         channel' = Append(Bonjour!Forgets(Tail(channel), gone), Bonjour!Command("register"))
  PROVE  Rests(gone, {"register"})
<1> DEFINE s == Tail(channel)
           t == Bonjour!Forgets(s, gone)
           more == <<Bonjour!Command("register")>>
<1>1. s \in Seq(Commands) BY Shorter
<1>2. /\ t \in Seq(Commands)
      /\ \A name : HasIn(t, name) <=> HasIn(s, name)
      /\ \A k : HeldIn(t, k) <=> HeldIn(s, k) /\ k \notin gone
      /\ OneStop(s) => OneStop(t)
      /\ Followed(s) => Followed(t)
      /\ \A keys : KeptIn(s, keys) => KeptIn(t, keys \ gone)
  BY <1>1, Forgotten, Zenon
<1>3. Bonjour!Command("register") = [name |-> "register", files |-> {}] /\ Bonjour!Command("register") \in Commands
  BY DEF Bonjour!Command, Commands, CommandNames
<1>4. channel' = t \o more
  <2> HIDE DEF t, s
  <2> QED BY <1>2, <1>3, AppendIsConcat DEF t, s
<1>5. more \in Seq(Commands) /\ DOMAIN more = {1} /\ more[1].name = "register" /\ more[1].files = {} BY <1>3
<1> HIDE DEF more, t, s
<1>6. /\ \A name : HasIn(more, name) <=> name \in {"register"}
      /\ \A k : ~HeldIn(more, k)
      /\ OneStop(more) /\ Followed(more) /\ \A keys : KeptIn(more, keys)
  BY <1>5 DEF HasIn, HeldIn, OneStop, Followed, KeptIn
<1>13. /\ t \o more \in Seq(Commands)
       /\ \A name : HasIn(t \o more, name) <=> HasIn(t, name) \/ HasIn(more, name)
       /\ \A k : HeldIn(t \o more, k) <=> HeldIn(t, k) \/ HeldIn(more, k)
       /\ OneStop(t) /\ OneStop(more) /\ ~(HasIn(t, "stop") /\ HasIn(more, "stop")) => OneStop(t \o more)
       /\ Followed(t) /\ Followed(more) => Followed(t \o more)
       /\ \A keys : KeptIn(t, keys) /\ KeptIn(more, keys) => KeptIn(t \o more, keys)
  BY <1>2, <1>5, Longer
<1>7. /\ channel' \in Seq(Commands)
      /\ \A name : HasIn(channel', name) <=> HasIn(t, name) \/ HasIn(more, name)
      /\ \A k : HeldIn(channel', k) <=> HeldIn(t, k) \/ HeldIn(more, k)
      /\ OneStop(t) /\ OneStop(more) /\ ~(HasIn(t, "stop") /\ HasIn(more, "stop")) => OneStop(channel')
      /\ Followed(t) /\ Followed(more) => Followed(channel')
      /\ \A keys : KeptIn(t, keys) /\ KeptIn(more, keys) => KeptIn(channel', keys)
  BY <1>4, <1>13, Zenon
<1>8. \A name : HasIn(channel, name) <=> Head(channel).name = name \/ HasIn(s, name)
  BY Shorter, Zenon DEF s
<1>9. \A k : HeldIn(channel, k) <=> k \in Head(channel).files \/ HeldIn(s, k) BY Shorter, Zenon DEF s
<1>10. OneStop(channel) => OneStop(s) /\ (Head(channel).name = "stop" => ~HasIn(s, "stop")) BY Shorter, Zenon DEF s
<1>11. Followed(channel) => Followed(s) /\ (Head(channel).name = "unregister" => HasIn(s, "register"))
  BY Shorter, Zenon DEF s
<1>12. \A keys : KeptIn(channel, keys) =>
        /\ KeptIn(s, keys) /\ Head(channel).files \subseteq keys
        /\ Head(channel).name # "results" => Head(channel).files = {}
  BY Shorter, Zenon DEF s
<1> QED BY <1>2, <1>6, <1>7, <1>8, <1>9, <1>10, <1>11, <1>12 DEF Rests
\* Files are closed while a batch is under way.
LEMMA ClosesFiles ==
  ASSUME channel \in Seq(Commands), NEW gone, channel' = Bonjour!Forgets(channel, gone)
  PROVE  Passes(gone)
BY Forgotten, Zenon DEF Passes

-----------------------------------------------------------------------------
\* What a step leaves as it was.
LEMMA TurningKept ==
  ASSUME Turning, UNCHANGED <<going, turns>>, holder'.alive = holder.alive, settings'.enabled = settings.enabled,
         Reported("enabled") => Reported("enabled")'
  PROVE  Turning'
BY DEF Turning, StopTurn, LastTurn
LEMMA EndingKept ==
  ASSUME Ending, UNCHANGED <<holder, service>>, OneStop(channel'), HasIn(channel', "stop") => HasIn(channel, "stop"),
         NothingLeft => NothingLeft'
  PROVE  Ending'
BY DEF Ending
LEMMA SelectedKept ==
  ASSUME Selected, UNCHANGED batch, KeptIn(channel', DOMAIN files'), DOMAIN files \subseteq DOMAIN files',
         \A k \in DOMAIN files' : files'[k].active => k \in DOMAIN files /\ files[k].active,
         \A k : HeldIn(channel, k) => HeldIn(channel', k)
  PROVE  Selected'
BY DEF Selected
LEMMA SentKept ==
  ASSUME Sent, Followed(channel'), \A what \in Timers : HasIn(channel, what) => HasIn(channel', what),
         \A what \in Timers : timers'[what] = "fired" => timers[what] = "fired" \/ HasIn(channel', what)
  PROVE  Sent'
BY DEF Sent
LEMMA WatchingKept ==
  ASSUME Watching, BonjourTypeOK, Stays' => Stays,
         settings'.listed = settings.listed, settings'.certified = settings.certified,
         settings'.state = settings.state \/ Reported("state")',
         Reported("transports") => Reported("transports")',
         Reported("state") => Reported("state")' \/ HasIn(channel', "update"),
         \A name \in Timers : HasIn(channel, name) => HasIn(channel', name),
         DOMAIN files' = DOMAIN files, \A k \in DOMAIN files : files'[k].state = files[k].state,
         neighbours' \subseteq neighbours,
         \A what \in Timers : timers[what] = "armed" => timers'[what] = "armed" \/ HasIn(channel', what)
  PROVE  Watching'
<1> SUFFICES ASSUME Registered, Browsing PROVE Registered' /\ Browsing' BY DEF Watching
<1>1. Bonjour!Supported' = Bonjour!Supported /\ Bonjour!Discoverable' = Bonjour!Discoverable
  BY DEF Bonjour!Supported, Bonjour!Discoverable
<1>2. (Renewed => Renewed') /\ (Sought => Sought') BY DEF Renewed, Sought, Timers
<1>3. /\ HasIn(channel, "register") => HasIn(channel', "register")
      /\ HasIn(channel, "update") => HasIn(channel', "update")
      /\ timers["register"] = "armed" => timers'["register"] = "armed" \/ HasIn(channel', "register")
      /\ timers["update"] = "armed" => timers'["update"] = "armed" \/ HasIn(channel', "update")
      /\ timers["discover"] = "armed" => timers'["discover"] = "armed" \/ Sought'
  BY DEF Timers, Sought
<1>4. Registered'
  <2>1. \A t \in Transports : Bonjour!Registration(t) \in DOMAIN files' => t \in Bonjour!Supported' \/ Renewed'
    BY <1>1, <1>2 DEF Registered
  <2>2. \A t \in Bonjour!Supported' :
          \/ Bonjour!Registration(t) \in DOMAIN files' \/ Renewed' \/ HasIn(channel', "register")
          \/ timers'["register"] = "armed"
    BY <1>1, <1>2, <1>3 DEF Registered
  <2>3. \A k \in DOMAIN files' :
          Bonjour!Kind(k) = "registration" =>
            \/ files'[k].state = settings'.state
            \/ Reported("state")' \/ HasIn(channel', "update") \/ timers'["update"] = "armed"
    BY <1>3 DEF Registered
  <2> QED BY <2>1, <2>2, <2>3 DEF Registered, Bonjour!Kind, Bonjour!Registration
<1>5. Browsing'
  <2>1. \A t \in Bonjour!Discoverable' :
          Bonjour!Discovery(t) \in DOMAIN files' \/ Sought' \/ timers'["discover"] = "armed"
    BY <1>1, <1>2, <1>3 DEF Browsing
  <2>2. \A n \in neighbours' : TransportOf[n] \in Bonjour!Supported' \/ Sought' BY <1>1, <1>2 DEF Browsing
  <2> QED BY <2>1, <2>2 DEF Browsing, Bonjour!Discovery
<1> QED BY <1>4, <1>5
LEMMA ResolvedKept ==
  ASSUME Resolved, UNCHANGED neighbours, \A n \in neighbours : n \in there => n \in there' \/ Bonjour!Resolution(n) \in DOMAIN files,
         DOMAIN files' = DOMAIN files,
         \A k \in DOMAIN files : /\ files'[k].seen = files[k].seen
                                 /\ Bonjour!Kind(k) = "resolution" => files'[k].told = files[k].told
  PROVE  Resolved'
<1>1. \A n : Bonjour!Kind(Bonjour!Resolution(n)) = "resolution" BY DEF Bonjour!Kind, Bonjour!Resolution
<1>2. \A n : BrowseOf(n)' = BrowseOf(n) BY DEF BrowseOf, Bonjour!Discovery, Bonjour!Browsed
<1> QED BY <1>1, <1>2 DEF Resolved, Bonjour!Kind, Bonjour!Resolution, BrowseOf

\* With nothing left there is nothing to resolve.
LEMMA NothingResolved == ASSUME NothingLeft PROVE Resolved
BY DEF NothingLeft, Resolved
\* An empty channel.
LEMMA NoCommands ==
  ASSUME channel' = <<>>
  PROVE  /\ channel' \in Seq(Commands) /\ OneStop(channel') /\ Followed(channel')
         /\ \A name : ~HasIn(channel', name)
         /\ \A keys : KeptIn(channel', keys)
BY DEF OneStop, Followed, HasIn, KeptIn

-----------------------------------------------------------------------------
\* A call that has its turn.
TurnNames == {"activate", "deactivate", "stop"}
DaemonKept == UNCHANGED <<batch, files, neighbours, timers, there>>
\* what the commands, the files and the timers guarantee
Serviced == Ending /\ Selected /\ Sent /\ Watching /\ Resolved
LEMMA PerformsStep ==
  ASSUME BonjourTypeOK, Serviced, NEW op \in TurnNames, ~holder.locked, Bonjour!Performs(op), DaemonKept,
         UNCHANGED settings, \A what \in {"transports", "state"} : Reported(what) => Reported(what)',
         op = "activate" => (StopTurn => StopTurn')
  PROVE  /\ holder' \in [alive : BOOLEAN, locked : BOOLEAN, leaving : BOOLEAN]
         /\ service' \in [started : BOOLEAN, returning : {"no", "ready", "due"}]
         /\ channel' \in Seq(Commands)
         /\ holder'.alive <=> op = "activate"
         /\ Serviced'
<1> USE DEF DaemonKept
<1>1. /\ holder \in [alive : BOOLEAN, locked : BOOLEAN, leaving : BOOLEAN]
      /\ service \in [started : BOOLEAN, returning : {"no", "ready", "due"}]
      /\ channel \in Seq(Commands)
  BY DEF BonjourTypeOK
<1>2. Ending /\ Selected /\ Sent /\ Watching /\ Resolved BY DEF Serviced
<1>3. ~HasIn(channel, "stop") /\ service.returning = "no" /\ OneStop(channel) /\ (service.started <=> holder.alive)
  BY <1>1, <1>2 DEF Ending
<1>4. Resolved' BY <1>2, ResolvedKept
<1>5. KeptIn(channel, DOMAIN files) /\ Followed(channel) BY <1>2 DEF Selected, Sent
<1>6. CASE op = "activate" /\ holder.alive
  <2>1. UNCHANGED <<holder, service, channel>> BY <1>6 DEF Bonjour!Performs
  <2>2. Ending' BY <2>1, <1>2 DEF Ending, NothingLeft
  <2>3. Selected' BY <2>1, <1>2 DEF Selected
  <2>4. Sent' BY <2>1, <1>2 DEF Sent
  <2>5. Stays' => Stays BY <2>1, <1>6 DEF Stays
  <2>6. Watching' BY <2>1, <2>5, <1>2, WatchingKept
  <2> QED BY <2>1, <2>2, <2>3, <2>4, <2>6, <1>1, <1>4, <1>6 DEF Serviced
<1>7. CASE op = "activate" /\ ~holder.alive
  <2>1. /\ holder' = [holder EXCEPT !.alive = TRUE] /\ service' = [service EXCEPT !.started = TRUE]
        /\ Bonjour!Sends(<<"register", "discover">>)
    BY <1>7 DEF Bonjour!Performs
  <2>2. Grows({"register", "discover"}) BY <2>1, <1>1, SendsTwo DEF CommandNames
  <2>3. holder'.alive /\ ~holder'.locked /\ holder' \in [alive : BOOLEAN, locked : BOOLEAN, leaving : BOOLEAN]
    BY <2>1, <1>1
  <2>4. /\ service'.started /\ service'.returning = "no"
        /\ service' \in [started : BOOLEAN, returning : {"no", "ready", "due"}]
    BY <2>1, <1>1, <1>3
  <2>5. NothingLeft BY <1>7, <1>2 DEF Ending
  <2>6. OneStop(channel') /\ ~HasIn(channel', "stop") BY <2>2, <1>3 DEF Grows
  <2>7. Ending' BY <2>3, <2>4, <2>6 DEF Ending
  <2>8. Selected' BY <2>2, <1>2, <1>5, SelectedKept DEF Grows
  <2>9. Sent' BY <2>2, <1>2, <1>5, SentKept DEF Grows
  <2>10. HasIn(channel', "register") /\ HasIn(channel', "discover") BY <2>2 DEF Grows
  <2>11. Registered' BY <2>5, <2>10 DEF Registered, NothingLeft
  <2>12. Browsing' BY <2>5, <2>10 DEF Browsing, NothingLeft, Sought
  <2>13. channel' \in Seq(Commands) BY <2>2 DEF Grows
  <2> QED BY <2>3, <2>4, <2>7, <2>8, <2>9, <2>11, <2>12, <2>13, <1>4, <1>7 DEF Serviced, Watching
<1>8. CASE op # "activate" /\ holder.alive
  <2>1. /\ holder' = [alive |-> FALSE, locked |-> TRUE, leaving |-> op = "stop"]
        /\ Bonjour!Sends(<<"stop">>) /\ UNCHANGED service
    BY <1>8 DEF Bonjour!Performs
  <2>2. Grows({"stop"}) BY <2>1, <1>1, SendsOne DEF CommandNames
  <2>3. ~holder'.alive /\ holder'.locked BY <2>1
  <2>4. holder' \in [alive : BOOLEAN, locked : BOOLEAN, leaving : BOOLEAN] BY <2>1
  <2>5. OneStop(channel') BY <2>2, <1>3 DEF Grows
  <2>6. Ending' BY <2>1, <2>3, <2>5, <1>3, <1>8 DEF Ending
  <2>7. Selected' BY <2>2, <1>2, <1>5, SelectedKept DEF Grows
  <2>8. Sent' BY <2>2, <1>2, <1>5, SentKept DEF Grows
  <2>9. Watching' BY <2>3 DEF Watching, Stays
  <2>10. channel' \in Seq(Commands) BY <2>2 DEF Grows
  <2> QED BY <2>1, <2>3, <2>4, <2>6, <2>7, <2>8, <2>9, <2>10, <1>1, <1>4, <1>8 DEF Serviced
<1>9. CASE op # "activate" /\ ~holder.alive
  <2>1. UNCHANGED <<holder, service>> /\ (channel' = channel \/ channel' = <<>>)
    BY <1>9 DEF Bonjour!Performs
  <2>2. NothingLeft BY <1>9, <1>2 DEF Ending
  <2>3. NothingLeft' BY <2>2 DEF NothingLeft
  <2>4. /\ channel' \in Seq(Commands) /\ OneStop(channel') /\ Followed(channel') /\ KeptIn(channel', DOMAIN files')
        /\ ~HasIn(channel', "stop")
    BY <2>1, <1>1, <1>3, <1>5, NoCommands
  <2>5. Ending' BY <2>1, <2>3, <2>4, <1>2, EndingKept
  <2>6. Selected' BY <2>2, <2>4, <1>2 DEF Selected, NothingLeft
  <2>7. Sent' BY <2>2, <2>4, <1>2 DEF Sent, NothingLeft
  <2>8. Watching' BY <2>1, <1>9 DEF Watching, Stays
  <2> QED BY <2>1, <2>4, <2>5, <2>6, <2>7, <2>8, <1>1, <1>4, <1>9 DEF Serviced
<1> QED BY <1>6, <1>7, <1>8, <1>9

\* A call takes its turn at once, or waits for it.
LEMMA EntersStep ==
  ASSUME BonjourTypeOK, Turning, Serviced, NEW op \in TurnNames, Bonjour!Enters(op), DaemonKept, UNCHANGED settings,
         \A what \in {"transports", "state"} : Reported(what) => Reported(what)',
         ~StopTurn, going' \in BOOLEAN, op = "stop" <=> ~going',
         op = "activate" <=> going' /\ settings.enabled
  PROVE  /\ holder' \in [alive : BOOLEAN, locked : BOOLEAN, leaving : BOOLEAN]
         /\ service' \in [started : BOOLEAN, returning : {"no", "ready", "due"}]
         /\ channel' \in Seq(Commands) /\ turns' \in Seq(TurnNames)
         /\ Turning' /\ Serviced'
<1>1. turns \in Seq(TurnNames) BY DEF BonjourTypeOK, TurnNames
<1>2. \A i \in DOMAIN turns : turns[i] # "stop" BY DEF StopTurn
<1>3. CASE holder.locked \/ turns # <<>>
  <2>1. turns' = Append(turns, op) /\ UNCHANGED <<holder, service, channel>> BY <1>3 DEF Bonjour!Enters
  <2>2. /\ turns' \in Seq(TurnNames) /\ turns' # <<>> /\ Len(turns') = Len(turns) + 1 /\ turns'[Len(turns')] = op
        /\ DOMAIN turns = 1..Len(turns) /\ DOMAIN turns' = 1..(Len(turns) + 1) /\ Len(turns) \in Nat
        /\ \A i \in DOMAIN turns' : (i \in DOMAIN turns /\ turns'[i] = turns[i]) \/ i = Len(turns')
    BY <2>1, <1>1
  <2>3. Turning'
    <3>1. \A i \in DOMAIN turns' : turns'[i] = "stop" => ~going' /\ i = Len(turns') BY <2>2, <1>2
    <3>2. going' \/ StopTurn' BY <2>2 DEF StopTurn
    <3>3. LastTurn' <=> going' /\ settings'.enabled BY <2>2 DEF LastTurn
    <3> QED BY <3>1, <3>2, <3>3 DEF Turning
  <2>4. Ending' /\ Selected' /\ Sent' BY <2>1 DEF Serviced, DaemonKept, Ending, NothingLeft, Selected, Sent
  <2>5. Resolved' BY ResolvedKept DEF Serviced, DaemonKept
  <2>6. Stays' => Stays BY <2>1, <1>2 DEF Stays, StopTurn
  <2>7. Watching' BY <2>1, <2>6, WatchingKept DEF Serviced, DaemonKept
  <2> QED BY <2>1, <2>2, <2>3, <2>4, <2>5, <2>7 DEF Serviced, BonjourTypeOK
<1>4. CASE ~holder.locked /\ turns = <<>>
  <2>1. Bonjour!Performs(op) /\ UNCHANGED turns BY <1>4 DEF Bonjour!Enters
  <2>2. StopTurn => StopTurn' OBVIOUS
  <2>3. /\ holder' \in [alive : BOOLEAN, locked : BOOLEAN, leaving : BOOLEAN]
        /\ service' \in [started : BOOLEAN, returning : {"no", "ready", "due"}]
        /\ channel' \in Seq(Commands)
        /\ holder'.alive <=> op = "activate"
        /\ Serviced'
    BY <2>1, <2>2, <1>4, PerformsStep
  <2>4. Turning' BY <2>1, <2>3, <1>4 DEF Turning, StopTurn, LastTurn
  <2> QED BY <2>1, <2>3, <2>4, <1>1
<1> QED BY <1>3, <1>4

\* Those that wait have their turns in their order.
LEMMA TakesTurnStep ==
  ASSUME BonjourTypeOK, Turning, Serviced, lapses' = {}, Bonjour!TakesTurn
  PROVE  lapses = {} /\ BonjourTypeOK' /\ Turning' /\ Serviced'
<1>1. /\ ~holder.locked /\ UNCHANGED <<act, going, settings, reports>> /\ DaemonKept
  BY DEF Bonjour!TakesTurn, Bonjour!daemonVars, DaemonKept
<1>2. PICK i \in DOMAIN turns : /\ Bonjour!Performs(turns[i]) /\ turns' = Bonjour!RemoveAt(turns, i)
                                /\ lapses' = lapses \cup Bonjour!Lapse("overtaken", i # 1)
  BY DEF Bonjour!TakesTurn
<1>3. lapses = {} /\ i = 1 BY <1>2 DEF Bonjour!Lapse
<1>4. turns \in Seq(TurnNames) BY DEF BonjourTypeOK, TurnNames
<1>5. Len(turns) \in Nat \ {0} /\ DOMAIN turns = 1..Len(turns) /\ turns # <<>> BY <1>2, <1>4
<1>6. /\ turns' \in Seq(TurnNames) /\ Len(turns') = Len(turns) - 1 /\ DOMAIN turns' = 1..(Len(turns) - 1)
      /\ \A j \in DOMAIN turns' : turns'[j] = turns[j + 1]
  <2>1. turns' = SubSeq(turns, 1, 0) \o SubSeq(turns, 2, Len(turns)) BY <1>2, <1>3, <1>5 DEF Bonjour!RemoveAt
  <2> QED BY <2>1, <1>4, <1>5
<1>7. turns' = <<>> <=> Len(turns) = 1 BY <1>5, <1>6, EmptySeq
<1> DEFINE op == turns[1]
<1>8. op \in TurnNames /\ Bonjour!Performs(op) BY <1>2, <1>3, <1>4
<1>9. op = "activate" => (StopTurn => StopTurn')
  <2> SUFFICES ASSUME op = "activate", StopTurn PROVE StopTurn' OBVIOUS
  <2>1. PICK j \in DOMAIN turns : turns[j] = "stop" BY DEF StopTurn
  <2>2. j # 1 /\ j - 1 \in DOMAIN turns' /\ turns'[j - 1] = "stop" BY <2>1, <1>5, <1>6
  <2> QED BY <2>2 DEF StopTurn
<1> HIDE DEF op
<1>10. \A what \in {"transports", "state"} : Reported(what) => Reported(what)' BY <1>1 DEF Reported
<1>11. /\ holder' \in [alive : BOOLEAN, locked : BOOLEAN, leaving : BOOLEAN]
       /\ service' \in [started : BOOLEAN, returning : {"no", "ready", "due"}]
       /\ channel' \in Seq(Commands)
       /\ holder'.alive <=> op = "activate"
       /\ Serviced'
  BY <1>1, <1>8, <1>9, <1>10, PerformsStep
<1>12. Turning'
  <2>1. \A j \in DOMAIN turns' : turns'[j] = "stop" => ~going' /\ j = Len(turns')
    BY <1>1, <1>5, <1>6 DEF Turning
  <2>2. ASSUME holder'.alive \/ \E j \in DOMAIN turns' : turns'[j] = "activate" PROVE going' \/ StopTurn'
    <3>1. \E j \in DOMAIN turns : turns[j] = "activate" BY <2>2, <1>2, <1>3, <1>5, <1>6, <1>11 DEF op
    <3>2. CASE going BY <3>2, <1>1
    <3>3. CASE ~going
      <4>1. PICK j \in DOMAIN turns : turns[j] = "stop" /\ j = Len(turns) BY <3>1, <3>3 DEF Turning, StopTurn
      <4>2. CASE op = "activate" BY <4>1, <4>2, <1>9 DEF StopTurn
      <4>3. CASE op # "activate"
        <5>1. \E k \in DOMAIN turns' : turns'[k] = "activate" BY <4>3, <2>2, <1>11
        <5>2. j # 1 BY <5>1, <4>1, <1>5, <1>6
        <5>3. j - 1 \in DOMAIN turns' /\ turns'[j - 1] = "stop" BY <5>2, <4>1, <1>5, <1>6
        <5> QED BY <5>3 DEF StopTurn
      <4> QED BY <4>2, <4>3
    <3> QED BY <3>2, <3>3
  <2>3. LastTurn' <=> LastTurn
    <3>1. CASE Len(turns) = 1 BY <3>1, <1>5, <1>7, <1>11 DEF LastTurn, op
    <3>2. CASE Len(turns) # 1
      <4>1. turns' # <<>> /\ Len(turns') \in DOMAIN turns' BY <3>2, <1>5, <1>6, <1>7
      <4>2. turns'[Len(turns')] = turns[Len(turns)] BY <4>1, <1>5, <1>6
      <4> QED BY <4>1, <4>2, <1>5 DEF LastTurn
    <3> QED BY <3>1, <3>2
  <2>4. ~Reported("enabled")' => (LastTurn' <=> going' /\ settings'.enabled) BY <2>3, <1>1 DEF Turning, Reported
  <2> QED BY <2>1, <2>2, <2>4 DEF Turning
<1>13. BonjourTypeOK' BY <1>1, <1>6, <1>11 DEF BonjourTypeOK, DaemonKept, TurnNames
<1> QED BY <1>3, <1>11, <1>12, <1>13

-----------------------------------------------------------------------------
\* Commands are sent, and nothing else happens to the service.
LEMMA ServicedGrows ==
  ASSUME Serviced, NEW new, "stop" \notin new, Grows(new), UNCHANGED <<holder, service, batch, files, neighbours, there>>,
         NothingLeft => UNCHANGED timers,
         \A what \in Timers : timers'[what] = "fired" => timers[what] = "fired" \/ what \in new,
         Watching'
  PROVE  Serviced'
<1>1. Ending /\ Selected /\ Sent /\ Resolved BY DEF Serviced
<1>2. OneStop(channel') /\ (HasIn(channel', "stop") => HasIn(channel, "stop")) BY <1>1 DEF Grows, Ending
<1>3. Ending' BY <1>1, <1>2, EndingKept DEF NothingLeft
<1>4. Selected' BY <1>1, SelectedKept DEF Grows, Selected
<1>5. Sent' BY <1>1, SentKept DEF Grows, Sent
<1>6. Resolved' BY <1>1, ResolvedKept
<1> QED BY <1>3, <1>4, <1>5, <1>6 DEF Serviced

\* The answer of the stop command comes.
LEMMA DeactivateReturnsStep ==
  ASSUME BonjourTypeOK, Turning, Serviced, Bonjour!DeactivateReturns
  PROVE  UNCHANGED lapses /\ BonjourTypeOK' /\ Turning' /\ Serviced'
<1>1. /\ service.returning # "no"
      /\ holder' = [holder EXCEPT !.locked = FALSE, !.leaving = FALSE]
      /\ service' = [started |-> FALSE, returning |-> "no"]
      /\ channel' = <<>> \/ channel' = channel
      /\ UNCHANGED <<going, settings, reports, turns, batch, files, neighbours, timers, there, lapses>>
  BY DEF Bonjour!DeactivateReturns, Bonjour!daemonVars
<1>2. Ending /\ Selected /\ Sent /\ Resolved BY DEF Serviced
<1>3. holder.locked /\ ~holder.alive /\ NothingLeft /\ ~HasIn(channel, "stop") BY <1>1, <1>2 DEF Ending
<1>4. /\ holder' \in [alive : BOOLEAN, locked : BOOLEAN, leaving : BOOLEAN]
      /\ holder'.alive = holder.alive /\ ~holder'.locked
  BY <1>1 DEF BonjourTypeOK
<1>5. /\ channel' \in Seq(Commands) /\ OneStop(channel') /\ Followed(channel') /\ KeptIn(channel', DOMAIN files')
      /\ ~HasIn(channel', "stop")
  BY <1>1, <1>2, <1>3, NoCommands DEF BonjourTypeOK, Ending, Selected, Sent
<1>6. BonjourTypeOK'
  <2>1. service' \in [started : BOOLEAN, returning : {"no", "ready", "due"}] BY <1>1
  <2> QED BY <2>1, <1>1, <1>4, <1>5 DEF BonjourTypeOK
<1>7. Turning' BY <1>1, <1>4, TurningKept DEF Reported
<1>8. NothingLeft' BY <1>1, <1>3 DEF NothingLeft
<1>9. Ending' BY <1>1, <1>3, <1>4, <1>5, <1>8 DEF Ending
<1>10. Selected' BY <1>1, <1>2, <1>3, <1>5 DEF Selected, NothingLeft
<1>11. Sent' BY <1>1, <1>2, <1>3, <1>5 DEF Sent, NothingLeft
<1>12. Watching' BY <1>3, <1>4 DEF Watching, Stays
<1>13. Resolved' BY <1>8, NothingResolved DEF Resolved, NothingLeft
<1> QED BY <1>1, <1>6, <1>7, <1>9, <1>10, <1>11, <1>12, <1>13 DEF Serviced

\* The account is started, or stopped.
LEMMA BonjourStartStep ==
  ASSUME BonjourTypeOK, Turning, Serviced, lapses' = {}, Bonjour!BonjourStart
  PROVE  lapses = {} /\ BonjourTypeOK' /\ Turning' /\ Serviced'
<1>1. /\ ~Bonjour!Serving /\ going' = TRUE
      /\ IF settings.enabled THEN Bonjour!Enters("activate") ELSE Bonjour!accountKept /\ UNCHANGED channel
      /\ UNCHANGED <<settings, reports>> /\ DaemonKept
  BY DEF Bonjour!BonjourStart, Bonjour!daemonVars, DaemonKept
<1>2. ~StopTurn /\ ~going BY <1>1 DEF Bonjour!Serving, StopTurn
<1>3. \A what : Reported(what) <=> Reported(what)' BY <1>1 DEF Reported
<1>4. CASE settings.enabled
  <2>1. Bonjour!Enters("activate") BY <1>1, <1>4
  <2>2. lapses' = lapses BY <2>1 DEF Bonjour!Enters
  <2>3. "activate" \in TurnNames BY DEF TurnNames
  <2>4. /\ holder' \in [alive : BOOLEAN, locked : BOOLEAN, leaving : BOOLEAN]
        /\ service' \in [started : BOOLEAN, returning : {"no", "ready", "due"}]
        /\ channel' \in Seq(Commands) /\ turns' \in Seq(TurnNames)
        /\ Turning' /\ Serviced'
    BY <2>1, <2>3, <1>1, <1>2, <1>3, <1>4, EntersStep
  <2>5. BonjourTypeOK' BY <2>4, <1>1 DEF BonjourTypeOK, DaemonKept, TurnNames
  <2> QED BY <2>2, <2>4, <2>5
<1>5. CASE ~settings.enabled
  <2>1. UNCHANGED <<holder, turns, service, lapses, channel>> BY <1>1, <1>5 DEF Bonjour!accountKept
  <2>2. ~LastTurn
    <3>1. ~holder.alive /\ \A i \in DOMAIN turns : turns[i] # "activate" BY <1>2 DEF Turning
    <3>2. turns # <<>> => Len(turns) \in DOMAIN turns BY EmptySeq DEF BonjourTypeOK
    <3> QED BY <3>1, <3>2 DEF LastTurn
  <2>3. Turning' BY <2>1, <2>2, <1>1, <1>2, <1>3, <1>5 DEF Turning, StopTurn, LastTurn
  <2>4. Grows({}) BY <2>1, SendsNothing DEF BonjourTypeOK
  <2>5. Stays' => Stays BY <2>1 DEF Stays, StopTurn
  <2>6. Watching' BY <2>1, <2>5, <1>1, <1>3, WatchingKept DEF Serviced, DaemonKept
  <2>7. Serviced' BY <2>1, <2>4, <2>6, <1>1, ServicedGrows DEF DaemonKept
  <2>8. BonjourTypeOK' BY <2>1, <1>1 DEF BonjourTypeOK, DaemonKept
  <2> QED BY <2>1, <2>3, <2>7, <2>8
<1> QED BY <1>4, <1>5
LEMMA BonjourStopStep ==
  ASSUME BonjourTypeOK, Turning, Serviced, lapses' = {}, Bonjour!BonjourStop
  PROVE  lapses = {} /\ BonjourTypeOK' /\ Turning' /\ Serviced'
<1>1. going /\ going' = FALSE /\ Bonjour!Enters("stop") /\ UNCHANGED <<settings, reports>> /\ DaemonKept
  BY DEF Bonjour!BonjourStop, Bonjour!daemonVars, DaemonKept
<1>2. ~StopTurn BY <1>1 DEF Turning, StopTurn
<1>3. \A what : Reported(what) <=> Reported(what)' BY <1>1 DEF Reported
<1>4. lapses' = lapses BY <1>1 DEF Bonjour!Enters
<1>5. "stop" \in TurnNames BY DEF TurnNames
<1>6. /\ holder' \in [alive : BOOLEAN, locked : BOOLEAN, leaving : BOOLEAN]
      /\ service' \in [started : BOOLEAN, returning : {"no", "ready", "due"}]
      /\ channel' \in Seq(Commands) /\ turns' \in Seq(TurnNames)
      /\ Turning' /\ Serviced'
  BY <1>1, <1>2, <1>3, <1>5, EntersStep
<1>7. BonjourTypeOK' BY <1>1, <1>6 DEF BonjourTypeOK, DaemonKept, TurnNames
<1> QED BY <1>4, <1>6, <1>7

\* A setting changes, which will be reported.
LEMMA OneMoreReport ==
  ASSUME reports \in Seq({"enabled", "transports", "state"}), NEW what \in {"enabled", "transports", "state"},
         reports' = Append(reports, what)
  PROVE  /\ reports' \in Seq({"enabled", "transports", "state"})
         /\ \A w : Reported(w)' <=> Reported(w) \/ w = what
<1>1. /\ DOMAIN reports = 1..Len(reports) /\ DOMAIN reports' = 1..(Len(reports) + 1) /\ Len(reports) \in Nat
      /\ \A i \in 1..(Len(reports) + 1) : reports'[i] = IF i = Len(reports) + 1 THEN what ELSE reports[i]
      /\ reports' \in Seq({"enabled", "transports", "state"})
  OBVIOUS
<1> QED BY <1>1 DEF Reported
LEMMA SettingChangesStep ==
  ASSUME BonjourTypeOK, Turning, Serviced, Bonjour!SettingChanges
  PROVE  UNCHANGED lapses /\ BonjourTypeOK' /\ Turning' /\ Serviced'
<1>1. UNCHANGED <<going, channel, holder, turns, service, lapses>> /\ DaemonKept
  BY DEF Bonjour!SettingChanges, Bonjour!accountKept, Bonjour!daemonVars, DaemonKept
<1>2. settings \in [enabled : BOOLEAN, listed : Lists, certified : BOOLEAN, state : {0, 1}]
      /\ reports \in Seq({"enabled", "transports", "state"})
  BY DEF BonjourTypeOK
<1>3. Grows({}) BY <1>1, SendsNothing DEF BonjourTypeOK
<1>4. Stays' <=> Stays BY <1>1 DEF Stays, StopTurn
<1>5. ASSUME settings' \in [enabled : BOOLEAN, listed : Lists, certified : BOOLEAN, state : {0, 1}],
             reports' \in Seq({"enabled", "transports", "state"})
      PROVE  BonjourTypeOK'
  BY <1>1, <1>5 DEF BonjourTypeOK, DaemonKept
<1>6. ASSUME Watching' PROVE Serviced' BY <1>1, <1>3, <1>6, ServicedGrows DEF DaemonKept
<1>7. CASE settings' = [settings EXCEPT !.enabled = ~settings.enabled] /\ reports' = Append(reports, "enabled")
  <2>1. /\ reports' \in Seq({"enabled", "transports", "state"})
        /\ \A w : Reported(w)' <=> Reported(w) \/ w = "enabled"
    BY <1>2, <1>7, OneMoreReport
  <2>2. /\ settings' \in [enabled : BOOLEAN, listed : Lists, certified : BOOLEAN, state : {0, 1}]
        /\ settings'.listed = settings.listed /\ settings'.certified = settings.certified
        /\ settings'.state = settings.state
    BY <1>2, <1>7
  <2>3. Turning' BY <2>1, <1>1 DEF Turning, StopTurn
  <2>4. Watching' BY <2>1, <2>2, <1>1, <1>4, WatchingKept DEF Serviced, DaemonKept
  <2> QED BY <2>1, <2>2, <2>3, <2>4, <1>1, <1>5, <1>6
<1>8. CASE /\ reports' = Append(reports, "transports")
           /\ \/ \E listed \in Lists \ {settings.listed} : settings' = [settings EXCEPT !.listed = listed]
              \/ settings' = [settings EXCEPT !.certified = ~settings.certified]
  <2>1. /\ reports' \in Seq({"enabled", "transports", "state"})
        /\ \A w : Reported(w)' <=> Reported(w) \/ w = "transports"
    BY <1>2, <1>8, OneMoreReport
  <2>2. /\ settings' \in [enabled : BOOLEAN, listed : Lists, certified : BOOLEAN, state : {0, 1}]
        /\ settings'.enabled = settings.enabled /\ settings'.state = settings.state
    BY <1>2, <1>8
  <2>3. Turning' BY <2>1, <2>2, <1>1, TurningKept
  <2>4. Watching'
    <3>1. Renewed' /\ Sought' BY <2>1 DEF Renewed, Sought
    <3>2. ASSUME Stays PROVE Registered'
      <4>1. Registered BY <3>2 DEF Serviced, Watching
      <4>2. \A k \in DOMAIN files' :
              Bonjour!Kind(k) = "registration" =>
                \/ files'[k].state = settings'.state
                \/ Reported("state")' \/ HasIn(channel', "update") \/ timers'["update"] = "armed"
        BY <4>1, <2>1, <2>2, <1>1 DEF Registered, DaemonKept
      <4> QED BY <4>2, <3>1 DEF Registered, Bonjour!Kind
    <3>3. Browsing' BY <3>1 DEF Browsing
    <3> QED BY <3>2, <3>3, <1>4 DEF Watching
  <2> QED BY <2>1, <2>2, <2>3, <2>4, <1>1, <1>5, <1>6
<1>9. CASE settings' = [settings EXCEPT !.state = 1 - settings.state] /\ reports' = Append(reports, "state")
  <2>1. /\ reports' \in Seq({"enabled", "transports", "state"})
        /\ \A w : Reported(w)' <=> Reported(w) \/ w = "state"
    BY <1>2, <1>9, OneMoreReport
  <2>2. /\ settings' \in [enabled : BOOLEAN, listed : Lists, certified : BOOLEAN, state : {0, 1}]
        /\ settings'.enabled = settings.enabled
        /\ settings'.listed = settings.listed /\ settings'.certified = settings.certified
    <3>1. settings.state \in {0, 1} BY <1>2
    <3>2. 1 - settings.state \in {0, 1} BY <3>1
    <3> QED BY <3>2, <1>2, <1>9
  <2>3. Turning' BY <2>1, <2>2, <1>1, TurningKept
  <2>4. Watching' BY <2>1, <2>2, <1>1, <1>4, WatchingKept DEF Serviced, DaemonKept
  <2> QED BY <2>1, <2>2, <2>3, <2>4, <1>1, <1>5, <1>6
<1> QED BY <1>7, <1>8, <1>9 DEF Bonjour!SettingChanges

\* The account hears of it.
LEMMA OneReportLess ==
  ASSUME reports \in Seq({"enabled", "transports", "state"}), reports # <<>>, reports' = Tail(reports)
  PROVE  /\ reports' \in Seq({"enabled", "transports", "state"})
         /\ \A w : Reported(w) <=> Reported(w)' \/ w = Head(reports)
         /\ Head(reports) \in {"enabled", "transports", "state"}
<1>1. /\ Len(reports) \in Nat \ {0} /\ Head(reports) = reports[1] /\ reports[1] \in {"enabled", "transports", "state"}
      /\ DOMAIN reports = 1..Len(reports) /\ DOMAIN reports' = 1..(Len(reports) - 1)
      /\ \A i \in 1..(Len(reports) - 1) : reports'[i] = reports[i + 1]
      /\ reports' \in Seq({"enabled", "transports", "state"})
  BY EmptySeq
<1>2. ASSUME NEW w PROVE Reported(w) <=> Reported(w)' \/ w = Head(reports)
  <2>1. ASSUME NEW i \in DOMAIN reports, reports[i] = w PROVE Reported(w)' \/ w = Head(reports)
    <3>1. CASE i = 1 BY <3>1, <2>1, <1>1
    <3>2. CASE i # 1
      <4>1. i - 1 \in DOMAIN reports' /\ reports'[i - 1] = w BY <3>2, <2>1, <1>1
      <4> QED BY <4>1 DEF Reported
    <3> QED BY <3>1, <3>2
  <2>2. ASSUME NEW i \in DOMAIN reports', reports'[i] = w PROVE Reported(w)
    <3>1. i + 1 \in DOMAIN reports /\ reports[i + 1] = w BY <2>2, <1>1
    <3> QED BY <3>1 DEF Reported
  <2>3. w = Head(reports) => Reported(w) BY <1>1 DEF Reported
  <2> QED BY <2>1, <2>2, <2>3 DEF Reported
<1> QED BY <1>1, <1>2
LEMMA SettingDidChangeStep ==
  ASSUME BonjourTypeOK, Turning, Serviced, lapses' = {}, Bonjour!SettingDidChange
  PROVE  lapses = {} /\ BonjourTypeOK' /\ Turning' /\ Serviced'
<1>1. reports # <<>> /\ reports' = Tail(reports) /\ UNCHANGED <<going, settings>> /\ DaemonKept
  BY DEF Bonjour!SettingDidChange, Bonjour!daemonVars, DaemonKept
<1>2. /\ reports' \in Seq({"enabled", "transports", "state"})
      /\ \A w : Reported(w) <=> Reported(w)' \/ w = Head(reports)
      /\ Head(reports) \in {"enabled", "transports", "state"}
  BY <1>1, OneReportLess DEF BonjourTypeOK
<1>3. ASSUME UNCHANGED <<holder, turns, service>>, NEW new, Grows(new) PROVE BonjourTypeOK'
  BY <1>1, <1>2, <1>3 DEF BonjourTypeOK, DaemonKept, Grows
<1>4. ASSUME UNCHANGED <<holder, turns, service>>, NEW new, "stop" \notin new, Grows(new), Watching' PROVE Serviced'
  BY <1>1, <1>4, ServicedGrows DEF DaemonKept
<1>5. CASE Head(reports) = "enabled"
  <2>1. IF going THEN Bonjour!Enters(IF settings.enabled THEN "activate" ELSE "deactivate")
        ELSE Bonjour!accountKept /\ UNCHANGED channel
    BY <1>5 DEF Bonjour!SettingDidChange
  <2>2. \A what \in {"transports", "state"} : Reported(what) => Reported(what)' BY <1>2, <1>5
  <2>3. CASE going
    <3> DEFINE op == IF settings.enabled THEN "activate" ELSE "deactivate"
    <3>1. Bonjour!Enters(op) BY <2>1, <2>3
    <3>2. op \in TurnNames /\ (op = "activate" <=> going' /\ settings.enabled) /\ (op = "stop" <=> ~going')
      BY <2>3, <1>1 DEF TurnNames
    <3>3. ~StopTurn /\ going' \in BOOLEAN BY <2>3, <1>1 DEF Turning, StopTurn
    <3> HIDE DEF op
    <3>4. /\ holder' \in [alive : BOOLEAN, locked : BOOLEAN, leaving : BOOLEAN]
          /\ service' \in [started : BOOLEAN, returning : {"no", "ready", "due"}]
          /\ channel' \in Seq(Commands) /\ turns' \in Seq(TurnNames)
          /\ Turning' /\ Serviced'
      BY <3>1, <3>2, <3>3, <2>2, <1>1, EntersStep
    <3>5. BonjourTypeOK' BY <3>4, <1>1, <1>2 DEF BonjourTypeOK, DaemonKept, TurnNames
    <3>6. lapses' = lapses BY <3>1 DEF Bonjour!Enters
    <3> QED BY <3>4, <3>5, <3>6
  <2>4. CASE ~going
    <3>1. UNCHANGED <<holder, turns, service, lapses, channel>> BY <2>1, <2>4 DEF Bonjour!accountKept
    <3>2. Grows({}) BY <3>1, SendsNothing DEF BonjourTypeOK
    <3>3. ~LastTurn
      <4>1. turns # <<>> => Len(turns) \in DOMAIN turns BY EmptySeq DEF BonjourTypeOK
      <4>2. CASE StopTurn
        <5>1. PICK i \in DOMAIN turns : turns[i] = "stop" BY <4>2 DEF StopTurn
        <5>2. turns # <<>> /\ i = Len(turns) BY <5>1 DEF Turning, BonjourTypeOK
        <5> QED BY <5>1, <5>2 DEF LastTurn
      <4>3. CASE ~StopTurn
        <5>1. ~holder.alive /\ \A i \in DOMAIN turns : turns[i] # "activate" BY <4>3, <2>4 DEF Turning
        <5> QED BY <5>1, <4>1 DEF LastTurn
      <4> QED BY <4>2, <4>3
    <3>4. Turning' BY <3>1, <3>3, <2>4, <1>1 DEF Turning, StopTurn, LastTurn
    <3>5. Stays' => Stays BY <3>1 DEF Stays, StopTurn
    <3>6. Watching' BY <3>1, <3>5, <2>2, <1>1, WatchingKept DEF Serviced, DaemonKept
    <3> QED BY <3>1, <3>2, <3>4, <3>6, <1>3, <1>4
  <2> QED BY <2>3, <2>4
<1>6. CASE Head(reports) = "transports"
  <2>1. /\ UNCHANGED <<holder, turns, service>>
        /\ Bonjour!Sends(IF going /\ settings.enabled THEN <<"update", "discover">> ELSE <<>>)
        /\ lapses' = lapses \cup Bonjour!Lapse("missed", going /\ ~settings.enabled /\ holder.alive)
    BY <1>6 DEF Bonjour!SettingDidChange
  <2>2. lapses = {} /\ ~(going /\ ~settings.enabled /\ holder.alive) BY <2>1 DEF Bonjour!Lapse
  <2>3. Turning' BY <2>1, <1>1, <1>2, <1>6, TurningKept
  <2>4. CASE going /\ settings.enabled
    <3>1. Bonjour!Sends(<<"update", "discover">>) BY <2>1, <2>4
    <3>2. Grows({"update", "discover"}) BY <3>1, SendsTwo DEF BonjourTypeOK, CommandNames
    <3>3. HasIn(channel', "update") /\ HasIn(channel', "discover") BY <3>2 DEF Grows
    <3>4. Registered' BY <3>3 DEF Registered, Renewed
    <3>5. Browsing' BY <3>3 DEF Browsing, Sought
    <3>6. Watching' BY <3>4, <3>5 DEF Watching
    <3> QED BY <3>2, <3>6, <2>1, <2>2, <2>3, <1>3, <1>4
  <2>5. CASE ~(going /\ settings.enabled)
    <3>1. Bonjour!Sends(<<>>) BY <2>1, <2>5
    <3>2. Grows({}) BY <3>1, SendsNothing DEF BonjourTypeOK
    <3>3. ~Stays BY <2>2, <2>5 DEF Stays, Turning
    <3>4. Watching' BY <3>3, <2>1 DEF Watching, Stays, StopTurn
    <3> QED BY <3>2, <3>4, <2>1, <2>2, <2>3, <1>3, <1>4
  <2> QED BY <2>4, <2>5
<1>7. CASE Head(reports) = "state"
  <2>1. UNCHANGED <<holder, turns, service, lapses>> /\ Bonjour!Sends(<<"update">>)
    BY <1>7 DEF Bonjour!SettingDidChange, Bonjour!accountKept
  <2>2. Grows({"update"}) BY <2>1, SendsOne DEF BonjourTypeOK, CommandNames
  <2>3. Turning' BY <2>1, <1>1, <1>2, <1>7, TurningKept
  <2>4. Stays' => Stays BY <2>1 DEF Stays, StopTurn
  <2>5. Watching' BY <2>1, <2>2, <2>4, <1>1, <1>2, <1>7, WatchingKept DEF Serviced, DaemonKept, Grows
  <2> QED BY <2>1, <2>2, <2>3, <2>5, <1>3, <1>4
<1> QED BY <1>2, <1>5, <1>6, <1>7

\* The network changes, or a timer fires.
LEMMA NetworkDidChangeStep ==
  ASSUME BonjourTypeOK, Turning, Serviced, Bonjour!NetworkDidChange
  PROVE  UNCHANGED lapses /\ BonjourTypeOK' /\ Turning' /\ Serviced'
<1>1. /\ Bonjour!Sends(<<"discover", "unregister", "register">>)
      /\ UNCHANGED <<going, settings, reports, holder, turns, service, lapses>> /\ DaemonKept
  BY DEF Bonjour!NetworkDidChange, Bonjour!daemonVars, Bonjour!accountKept, DaemonKept
<1>2. Grows({"discover", "unregister", "register"}) BY <1>1, SendsThree DEF BonjourTypeOK
<1>3. BonjourTypeOK' BY <1>1, <1>2 DEF BonjourTypeOK, DaemonKept, Grows
<1>4. \A w : Reported(w) <=> Reported(w)' BY <1>1 DEF Reported
<1>5. Turning' BY <1>1, <1>4, TurningKept
<1>6. Stays' => Stays BY <1>1 DEF Stays, StopTurn
<1>7. Watching' BY <1>1, <1>2, <1>4, <1>6, WatchingKept DEF Serviced, DaemonKept, Grows
<1> QED BY <1>1, <1>2, <1>3, <1>5, <1>7, ServicedGrows DEF DaemonKept
LEMMA TimerFiresStep ==
  ASSUME BonjourTypeOK, Turning, Serviced, Bonjour!TimerFires
  PROVE  UNCHANGED lapses /\ BonjourTypeOK' /\ Turning' /\ Serviced'
<1>1. UNCHANGED <<going, settings, reports, holder, turns, service, lapses, batch, files, neighbours, there>>
  BY DEF Bonjour!TimerFires, Bonjour!accountKept
<1>2. timers \in [Timers -> {"none", "armed", "fired"}] BY DEF BonjourTypeOK
<1>3. PICK what \in Timers : /\ timers[what] = "armed" /\ timers' = [timers EXCEPT ![what] = "fired"]
                             /\ Bonjour!Sends(<<what>>)
  BY <1>2 DEF Bonjour!TimerFires
<1>4. Grows({what}) BY <1>3, SendsOne DEF BonjourTypeOK, CommandNames, Timers
<1>5. /\ timers' \in [Timers -> {"none", "armed", "fired"}]
      /\ \A w \in Timers : timers'[w] = IF w = what THEN "fired" ELSE timers[w]
  BY <1>2, <1>3
<1>6. BonjourTypeOK' BY <1>1, <1>4, <1>5 DEF BonjourTypeOK, Grows
<1>7. \A w : Reported(w) <=> Reported(w)' BY <1>1 DEF Reported
<1>8. Turning' BY <1>1, <1>7, TurningKept
<1>9. Stays' => Stays BY <1>1 DEF Stays, StopTurn
<1>10. Watching'
  <2>1. \A w \in Timers : timers[w] = "armed" => timers'[w] = "armed" \/ HasIn(channel', w) BY <1>4, <1>5 DEF Grows
  <2> QED BY <2>1, <1>1, <1>4, <1>7, <1>9, WatchingKept DEF Serviced, Grows
<1>11. ~NothingLeft BY <1>3 DEF NothingLeft
<1>12. "stop" \notin {what} BY <1>3 DEF Timers
<1>13. Serviced' BY <1>1, <1>4, <1>5, <1>10, <1>11, <1>12, ServicedGrows
<1> QED BY <1>1, <1>6, <1>8, <1>13

\* Another service comes or goes.
LEMMA OthersMoveStep ==
  ASSUME BonjourTypeOK, Turning, Serviced, lapses' = {}, Bonjour!OthersMove
  PROVE  lapses = {} /\ BonjourTypeOK' /\ Turning' /\ Serviced'
<1>1. UNCHANGED <<going, holder, settings, reports, turns, service, channel, batch, files, neighbours, timers>>
  BY DEF Bonjour!OthersMove
<1>2. PICK n \in Names :
        /\ there' = IF n \in there THEN there \ {n} ELSE there \cup {n}
        /\ lapses' = lapses \cup Bonjour!Lapse("ghost", n \in there \cap neighbours /\ Bonjour!Resolution(n) \notin DOMAIN files)
  BY DEF Bonjour!OthersMove
<1>3. lapses = {} /\ ~(n \in there \cap neighbours /\ Bonjour!Resolution(n) \notin DOMAIN files)
  BY <1>2 DEF Bonjour!Lapse
<1>4. BonjourTypeOK' BY <1>1, <1>2 DEF BonjourTypeOK
<1>5. Turning' BY <1>1, TurningKept DEF Reported
<1>6. \A m \in neighbours : m \in there => m \in there' \/ Bonjour!Resolution(m) \in DOMAIN files BY <1>2, <1>3
<1>7. Resolved' BY <1>1, <1>6, ResolvedKept DEF Serviced
<1>8. Ending' /\ Selected' /\ Sent' BY <1>1 DEF Serviced, Ending, NothingLeft, Selected, Sent
<1>9. Stays' => Stays BY <1>1 DEF Stays, StopTurn
<1>10. Watching' BY <1>1, <1>9, WatchingKept DEF Serviced, Reported
<1> QED BY <1>3, <1>4, <1>5, <1>7, <1>8, <1>10 DEF Serviced

-----------------------------------------------------------------------------
\* The files that have something to tell are selected, and their results are done with.
LEMMA SelectsStep ==
  ASSUME BonjourTypeOK, Turning, Serviced, Bonjour!Selects
  PROVE  UNCHANGED lapses /\ BonjourTypeOK' /\ Turning' /\ Serviced'
<1>1. UNCHANGED <<going, settings, reports, batch, neighbours, timers, there, holder, turns, service, lapses>>
  BY DEF Bonjour!Selects, Bonjour!accountKept
<1>2. PICK keys \in SUBSET DOMAIN files :
        /\ keys # {} /\ channel' = Append(channel, [name |-> "results", files |-> keys])
        /\ files' = [k \in DOMAIN files |-> IF k \in keys THEN [files[k] EXCEPT !.active = TRUE] ELSE files[k]]
  BY DEF Bonjour!Selects
<1>3. /\ DOMAIN files \subseteq Keys /\ files \in [DOMAIN files -> FileStates] /\ channel \in Seq(Commands)
  BY DEF BonjourTypeOK
<1>4. DOMAIN files' = DOMAIN files BY <1>2
<1>5. \A k \in DOMAIN files : /\ files'[k] \in FileStates
                              /\ files'[k].seen = files[k].seen /\ files'[k].told = files[k].told
                              /\ files'[k].state = files[k].state
                              /\ files'[k].active => k \in keys \/ files[k].active
  <2> SUFFICES ASSUME NEW k \in DOMAIN files
               PROVE  /\ files'[k] \in FileStates
                      /\ files'[k].seen = files[k].seen /\ files'[k].told = files[k].told
                      /\ files'[k].state = files[k].state
                      /\ files'[k].active => k \in keys \/ files[k].active
    OBVIOUS
  <2>1. files[k] \in FileStates BY <1>3
  <2>2. CASE k \in keys
    <3>1. files'[k] = [files[k] EXCEPT !.active = TRUE] BY <1>2, <2>2
    <3> QED BY <3>1, <2>1, <2>2 DEF FileStates
  <2>3. CASE k \notin keys
    <3>1. files'[k] = files[k] BY <1>2, <2>3
    <3> QED BY <3>1, <2>1
  <2> QED BY <2>2, <2>3
<1>6. files' \in [DOMAIN files' -> FileStates]
  <2>1. files' = [k \in DOMAIN files' |-> files'[k]] BY <1>2, <1>4
  <2> QED BY <2>1, <1>4, <1>5
<1> DEFINE more == <<[name |-> "results", files |-> keys]>>
<1>7. [name |-> "results", files |-> keys] \in Commands BY <1>2, <1>3 DEF Commands, CommandNames
<1>8. channel' = channel \o more BY <1>2, <1>3, <1>7, AppendIsConcat
<1>9. more \in Seq(Commands) /\ DOMAIN more = {1} /\ more[1].name = "results" /\ more[1].files = keys BY <1>7
<1> HIDE DEF more
<1>10. /\ \A name : HasIn(more, name) <=> name = "results"
       /\ \A k : HeldIn(more, k) <=> k \in keys
       /\ OneStop(more) /\ Followed(more) /\ KeptIn(more, DOMAIN files)
  BY <1>2, <1>9 DEF HasIn, HeldIn, OneStop, Followed, KeptIn
<1>11. /\ channel' \in Seq(Commands)
       /\ \A name : HasIn(channel', name) <=> HasIn(channel, name) \/ name = "results"
       /\ \A k : HeldIn(channel', k) <=> HeldIn(channel, k) \/ k \in keys
       /\ OneStop(channel) => OneStop(channel')
       /\ Followed(channel) => Followed(channel')
       /\ KeptIn(channel, DOMAIN files) => KeptIn(channel', DOMAIN files)
  BY <1>3, <1>8, <1>9, <1>10, Longer
<1>12. BonjourTypeOK' BY <1>1, <1>3, <1>4, <1>6, <1>11 DEF BonjourTypeOK
<1>13. Turning' BY <1>1, TurningKept DEF Reported
<1>14. Ending /\ Selected /\ Sent /\ Watching /\ Resolved BY DEF Serviced
<1>15. ~NothingLeft BY <1>2 DEF NothingLeft
<1>16. Ending' BY <1>1, <1>11, <1>14, <1>15, EndingKept DEF Ending
<1>17. Selected' BY <1>1, <1>4, <1>5, <1>11, <1>14 DEF Selected
<1>18. Sent' BY <1>1, <1>11, <1>14, SentKept DEF Sent
<1>19. Stays' => Stays BY <1>1 DEF Stays, StopTurn
<1>20. Watching' BY <1>1, <1>4, <1>5, <1>11, <1>14, <1>19, WatchingKept DEF Reported
<1>21. Resolved' BY <1>1, <1>4, <1>5, <1>14, ResolvedKept
<1> QED BY <1>1, <1>12, <1>13, <1>16, <1>17, <1>18, <1>20, <1>21 DEF Serviced
LEMMA YieldsStep ==
  ASSUME BonjourTypeOK, Ending, Bonjour!Yields
  PROVE  /\ service' \in [started : BOOLEAN, returning : {"no", "ready", "due"}]
         /\ service'.started = service.started /\ (service'.returning = "no" <=> service.returning = "no")
BY DEF BonjourTypeOK, Bonjour!Yields
LEMMA ProcessedStep ==
  ASSUME BonjourTypeOK, Turning, Serviced, Bonjour!Processed
  PROVE  UNCHANGED lapses /\ BonjourTypeOK' /\ Turning' /\ Serviced'
<1>1. /\ batch.on /\ batch' = Bonjour!NoBatch /\ Bonjour!Yields
      /\ UNCHANGED <<going, holder, settings, reports, turns, channel, neighbours, timers, there, lapses>>
      /\ files' = [k \in DOMAIN files |-> [files[k] EXCEPT !.active = files[k].active /\ k \notin batch.files]]
  BY DEF Bonjour!Processed
<1>2. Ending /\ Selected /\ Sent /\ Watching /\ Resolved BY DEF Serviced
<1>3. /\ service' \in [started : BOOLEAN, returning : {"no", "ready", "due"}]
      /\ service'.started = service.started /\ (service'.returning = "no" <=> service.returning = "no")
  BY <1>1, <1>2, YieldsStep
<1>4. DOMAIN files' = DOMAIN files BY <1>1
<1>5. \A k \in DOMAIN files : /\ files'[k] \in FileStates
                              /\ files'[k].seen = files[k].seen /\ files'[k].told = files[k].told
                              /\ files'[k].state = files[k].state
                              /\ files'[k].active => files[k].active /\ k \notin batch.files
  <2> SUFFICES ASSUME NEW k \in DOMAIN files
               PROVE  /\ files'[k] \in FileStates
                      /\ files'[k].seen = files[k].seen /\ files'[k].told = files[k].told
                      /\ files'[k].state = files[k].state
                      /\ files'[k].active => files[k].active /\ k \notin batch.files
    OBVIOUS
  <2> DEFINE still == files[k].active /\ k \notin batch.files
  <2>1. files[k] \in FileStates BY DEF BonjourTypeOK
  <2>2. files'[k] = [files[k] EXCEPT !.active = still] BY <1>1, Zenon
  <2>3. still \in BOOLEAN /\ (still => files[k].active /\ k \notin batch.files) BY Zenon
  <2> HIDE DEF still
  <2> QED BY <2>1, <2>2, <2>3 DEF FileStates
<1>6. files' \in [DOMAIN files' -> FileStates]
  <2>1. files' = [k \in DOMAIN files' |-> files'[k]] BY <1>1, <1>4, Zenon
  <2> QED BY <2>1, <1>4, <1>5
<1>7. batch' \in [on : BOOLEAN, files : SUBSET Keys, left : SUBSET Keys] /\ batch'.files = {} /\ batch'.left = {} /\ ~batch'.on
  BY <1>1 DEF Bonjour!NoBatch
<1>8. BonjourTypeOK' BY <1>1, <1>3, <1>4, <1>6, <1>7 DEF BonjourTypeOK
<1>9. Turning' BY <1>1, TurningKept DEF Reported
<1>10. Ending' BY <1>1, <1>2, <1>3, <1>4, <1>7 DEF Ending, NothingLeft
<1>11. Selected' BY <1>1, <1>2, <1>4, <1>5, <1>7 DEF Selected
<1>12. Sent' BY <1>1, <1>2 DEF Sent
<1>13. Stays' => Stays BY <1>1 DEF Stays, StopTurn
<1>14. Watching' BY <1>1, <1>2, <1>4, <1>5, <1>13, WatchingKept DEF Reported
<1>15. Resolved' BY <1>1, <1>2, <1>4, <1>5, ResolvedKept
<1> QED BY <1>1, <1>8, <1>9, <1>10, <1>11, <1>12, <1>14, <1>15 DEF Serviced

-----------------------------------------------------------------------------
\* What is left when a command is taken.
LEMMA EndingAfter ==
  ASSUME Ending, NEW gone, NEW new, Rests(gone, new), "stop" \notin new, UNCHANGED holder,
         service'.started = service.started, service'.returning = "no" <=> service.returning = "no",
         service.started, NothingLeft /\ service.returning # "no" => NothingLeft'
  PROVE  Ending'
<1>1. OneStop(channel') /\ (HasIn(channel', "stop") => HasIn(channel, "stop")) BY DEF Rests, Ending
<1> QED BY <1>1 DEF Ending
LEMMA SelectedAfter ==
  ASSUME Selected, batch = Bonjour!NoBatch, UNCHANGED batch, Head(channel).name # "results",
         NEW gone, NEW new, Rests(gone, new), DOMAIN files \ gone \subseteq DOMAIN files',
         \A k \in DOMAIN files' : files'[k].active => k \in DOMAIN files /\ files[k].active /\ k \notin gone
  PROVE  Selected'
<1>1. batch.files = {} /\ batch.left = {} /\ ~batch.on BY DEF Bonjour!NoBatch
<1>2. KeptIn(channel', DOMAIN files \ gone) /\ Head(channel).files = {} BY DEF Selected, Rests
<1>3. KeptIn(channel', DOMAIN files') BY <1>2 DEF KeptIn
<1>4. \A k \in DOMAIN files' : files'[k].active => HeldIn(channel', k) BY <1>1, <1>2 DEF Selected, Rests
<1> QED BY <1>1, <1>3, <1>4 DEF Selected
LEMMA SentAfter ==
  ASSUME Sent, NEW gone, NEW new, Rests(gone, new),
         \A what \in Timers : timers'[what] = "fired" => timers[what] = "fired" /\ what # Head(channel).name
  PROVE  Sent'
BY DEF Sent, Rests
LEMMA BrowsingKept ==
  ASSUME Browsing, UNCHANGED settings, Sought => Sought', timers["discover"] = "armed" => timers'["discover"] = "armed",
         \A k \in DOMAIN files : Bonjour!Kind(k) = "discovery" => k \in DOMAIN files', neighbours' \subseteq neighbours
  PROVE  Browsing'
<1>1. Bonjour!Supported' = Bonjour!Supported /\ Bonjour!Discoverable' = Bonjour!Discoverable
  BY DEF Bonjour!Supported, Bonjour!Discoverable
<1>2. \A t : Bonjour!Kind(Bonjour!Discovery(t)) = "discovery" /\ Bonjour!Discovery(t)' = Bonjour!Discovery(t)
  BY DEF Bonjour!Kind, Bonjour!Discovery
<1> QED BY <1>1, <1>2 DEF Browsing
LEMMA ResolvedBeside ==
  ASSUME Resolved, UNCHANGED <<neighbours, there>>,
         \A k : Bonjour!Kind(k) # "registration" =>
           /\ k \in DOMAIN files' <=> k \in DOMAIN files
           /\ k \in DOMAIN files => files'[k] = files[k]
  PROVE  Resolved'
<1>1. \A n : /\ Bonjour!Kind(Bonjour!Resolution(n)) = "resolution" /\ Bonjour!Resolution(n)' = Bonjour!Resolution(n)
             /\ Bonjour!Kind(BrowseOf(n)) = "discovery" /\ BrowseOf(n)' = BrowseOf(n)
  BY DEF Bonjour!Kind, Bonjour!Resolution, BrowseOf, Bonjour!Discovery, Bonjour!Browsed
<1>2. \A n \in Names : Bonjour!Resolution(n) \in DOMAIN files' => BrowseOf(n) \in DOMAIN files' /\ n \in files'[BrowseOf(n)].seen
  BY <1>1 DEF Resolved
<1>3. \A k \in DOMAIN files' : \A n \in files'[k].seen :
        Bonjour!Kind(k) = "discovery" => k = BrowseOf(n) /\ (Bonjour!Resolution(n) \in DOMAIN files' \/ n \in neighbours')
  BY <1>1 DEF Resolved
<1>4. \A n \in Names : Bonjour!Resolution(n) \in DOMAIN files' /\ files'[Bonjour!Resolution(n)].told => n \in neighbours'
  BY <1>1 DEF Resolved
<1>5. \A n \in neighbours' : Bonjour!Resolution(n) \in DOMAIN files' \/ n \in there' BY <1>1 DEF Resolved
<1> QED BY <1>1, <1>2, <1>3, <1>4, <1>5 DEF Resolved, Bonjour!Kind

\* Files that are opened and closed.
LEMMA OpenedFiles ==
  ASSUME BonjourTypeOK, NEW fs, DOMAIN fs \subseteq Keys, fs \in [DOMAIN fs -> FileStates], NEW keys \in SUBSET Keys,
         files' = Bonjour!Opened(fs, keys)
  PROVE  /\ DOMAIN files' = DOMAIN fs \cup keys /\ DOMAIN files' \subseteq Keys
         /\ files' \in [DOMAIN files' -> FileStates]
         /\ \A k \in DOMAIN fs : files'[k] = fs[k]
         /\ \A k \in keys \ DOMAIN fs :
              /\ ~files'[k].active /\ ~files'[k].told /\ files'[k].state = settings.state /\ files'[k].seen = {}
<1>1. files' = [k \in DOMAIN fs \cup keys |-> IF k \in DOMAIN fs THEN fs[k] ELSE Bonjour!NewFile] BY DEF Bonjour!Opened
<1>2. /\ Bonjour!NewFile \in FileStates /\ ~Bonjour!NewFile.active /\ ~Bonjour!NewFile.told
      /\ Bonjour!NewFile.state = settings.state /\ Bonjour!NewFile.seen = {}
  BY DEF Bonjour!NewFile, FileStates, BonjourTypeOK
<1> QED BY <1>1, <1>2
LEMMA LeftFiles ==
  ASSUME NEW fs, DOMAIN fs \subseteq Keys, fs \in [DOMAIN fs -> FileStates], NEW keys
  PROVE  /\ DOMAIN Bonjour!Left(fs, keys) = DOMAIN fs \ keys
         /\ Bonjour!Left(fs, keys) \in [DOMAIN fs \ keys -> FileStates]
         /\ \A k \in DOMAIN fs \ keys : Bonjour!Left(fs, keys)[k] = fs[k]
<1>1. Bonjour!Left(fs, keys) = [k \in DOMAIN fs \ keys |-> fs[k]] BY DEF Bonjour!Left
<1> QED BY <1>1
\* The keys of the registrations and of the browses.
LEMMA KeyFacts ==
  ASSUME BonjourTypeOK
  PROVE  /\ Bonjour!Supported \subseteq Transports /\ Bonjour!Discoverable \subseteq Transports
         /\ \A t : /\ Bonjour!Kind(Bonjour!Registration(t)) = "registration" /\ Bonjour!Registration(t)[2] = t
                   /\ Bonjour!Kind(Bonjour!Discovery(t)) = "discovery" /\ Bonjour!Discovery(t)[2] = t
                   /\ Bonjour!Kind(Bonjour!Resolution(t)) = "resolution" /\ Bonjour!Resolution(t)[2] = t
         /\ \A t \in Transports : Bonjour!Registration(t) \in Keys /\ Bonjour!Discovery(t) \in Keys
         /\ \A n \in Names : Bonjour!Resolution(n) \in Keys
         /\ \A k \in Keys : \/ Bonjour!Kind(k) = "registration" /\ k[2] \in Transports /\ k = Bonjour!Registration(k[2])
                            \/ Bonjour!Kind(k) = "discovery" /\ k[2] \in Transports /\ k = Bonjour!Discovery(k[2])
                            \/ Bonjour!Kind(k) = "resolution" /\ k[2] \in Names /\ k = Bonjour!Resolution(k[2])
<1> USE DEF Bonjour!Kind, Bonjour!Registration, Bonjour!Discovery, Bonjour!Resolution
<1>1. settings.listed \subseteq Transports BY DEF BonjourTypeOK, Transports
<1>2. Bonjour!Supported \subseteq Transports BY <1>1 DEF Bonjour!Supported
<1>3. Bonjour!Discoverable \subseteq Transports
  <2>1. "tcp" \in Transports BY Zenon DEF Transports
  <2>2. \A t \in Transports : Bonjour!Browsed(t) \in Transports BY <2>1 DEF Bonjour!Browsed
  <2> QED BY <2>2, <1>2 DEF Bonjour!Discoverable
<1>4. \A k \in Keys : \/ k[1] = "registration" /\ k[2] \in Transports /\ k = <<"registration", k[2]>>
                      \/ k[1] = "discovery" /\ k[2] \in Transports /\ k = <<"discovery", k[2]>>
                      \/ k[1] = "resolution" /\ k[2] \in Names /\ k = <<"resolution", k[2]>>
  BY DEF Keys
<1>5. \A t \in Transports : Bonjour!Registration(t) \in Keys /\ Bonjour!Discovery(t) \in Keys BY DEF Keys
<1>6. \A n \in Names : Bonjour!Resolution(n) \in Keys BY DEF Keys
<1> QED BY <1>2, <1>3, <1>4, <1>5, <1>6

-----------------------------------------------------------------------------
\* The commands.  What each of them changes of what is typed:
DaemonOK ==
  /\ service \in [started : BOOLEAN, returning : {"no", "ready", "due"}]
  /\ channel \in Seq(Commands)
  /\ batch \in [on : BOOLEAN, files : SUBSET Keys, left : SUBSET Keys]
  /\ DOMAIN files \subseteq Keys /\ files \in [DOMAIN files -> FileStates]
  /\ neighbours \subseteq Names
  /\ timers \in [Timers -> {"none", "armed", "fired"}]
LEMMA RegisterStep ==
  ASSUME BonjourTypeOK, Serviced, lapses' = {}, channel # <<>>, batch = Bonjour!NoBatch, service.started,
         service.returning # "due", Head(channel).name = "register", Bonjour!_CH_register,
         UNCHANGED <<holder, settings, reports, turns, there>>
  PROVE  lapses = {} /\ DaemonOK' /\ Serviced'
<1> DEFINE missing == {Bonjour!Registration(t) : t \in Bonjour!Supported} \ DOMAIN files
<1>1. PICK failed \in SUBSET missing :
        /\ Bonjour!Again("register", failed) /\ files' = Bonjour!Opened(files, missing \ failed) /\ Bonjour!Rest({})
        /\ UNCHANGED <<batch, neighbours>>
        /\ IF missing = failed THEN UNCHANGED service ELSE Bonjour!Yields
        /\ lapses' = lapses \cup Bonjour!Lapse("after", service.returning = "ready" /\ missing # {})
  BY DEF Bonjour!_CH_register
<1>2. lapses = {} /\ ~(service.returning = "ready" /\ missing # {}) BY <1>1 DEF Bonjour!Lapse
<1>3. missing \subseteq Keys /\ \A k \in missing : Bonjour!Kind(k) = "registration" /\ k \notin DOMAIN files
  BY KeyFacts
<1>4. Rests({}, {}) BY <1>1, TakesFirst DEF BonjourTypeOK
<1>5. Ending /\ Selected /\ Sent /\ Watching /\ Resolved BY DEF Serviced
<1>6. /\ service' \in [started : BOOLEAN, returning : {"no", "ready", "due"}]
      /\ service'.started = service.started /\ (service'.returning = "no" <=> service.returning = "no")
  BY <1>1, <1>5, YieldsStep DEF BonjourTypeOK
<1>7. /\ timers' \in [Timers -> {"none", "armed", "fired"}]
      /\ timers'["register"] = IF failed = {} THEN "none" ELSE "armed"
      /\ timers'["discover"] = timers["discover"] /\ timers'["update"] = timers["update"]
  BY <1>1 DEF Bonjour!Again, BonjourTypeOK, Timers
<1>8. \A t \in Bonjour!Supported : Bonjour!Registration(t) \in DOMAIN files \/ Bonjour!Registration(t) \in missing
  OBVIOUS
<1>9. \A k \in missing : \E t \in Bonjour!Supported : k = Bonjour!Registration(t) OBVIOUS
<1> HIDE DEF missing
<1>10. /\ DOMAIN files' = DOMAIN files \cup (missing \ failed) /\ DOMAIN files' \subseteq Keys
       /\ files' \in [DOMAIN files' -> FileStates]
       /\ \A k \in DOMAIN files : files'[k] = files[k]
       /\ \A k \in missing \ failed : ~files'[k].active /\ files'[k].state = settings.state
  <2>1. DOMAIN files \subseteq Keys /\ files \in [DOMAIN files -> FileStates] /\ missing \ failed \in SUBSET Keys
    BY <1>3 DEF BonjourTypeOK
  <2>2. /\ DOMAIN files' = DOMAIN files \cup (missing \ failed) /\ DOMAIN files' \subseteq Keys
        /\ files' \in [DOMAIN files' -> FileStates]
        /\ \A k \in DOMAIN files : files'[k] = files[k]
        /\ \A k \in (missing \ failed) \ DOMAIN files :
             /\ ~files'[k].active /\ ~files'[k].told /\ files'[k].state = settings.state /\ files'[k].seen = {}
    BY <2>1, <1>1, OpenedFiles, Zenon
  <2> QED BY <2>2, <1>3
<1>11. DaemonOK' BY <1>1, <1>4, <1>6, <1>7, <1>10 DEF DaemonOK, BonjourTypeOK, Rests
<1>12. NothingLeft /\ service.returning # "no" => NothingLeft'
  <2> SUFFICES ASSUME NothingLeft, service.returning # "no" PROVE NothingLeft' OBVIOUS
  <2>1. missing = {} BY <1>2 DEF BonjourTypeOK
  <2>2. timers' = timers
    <3>1. timers = [what \in Timers |-> "none"] /\ DOMAIN timers' = Timers BY <1>7 DEF NothingLeft
    <3>2. \A what \in Timers : timers'[what] = timers[what] BY <2>1, <3>1, <1>7 DEF Timers
    <3> QED BY <3>1, <3>2, <1>7
  <2> QED BY <2>1, <2>2, <1>1, <1>10 DEF NothingLeft
<1>13. Ending' BY <1>4, <1>5, <1>6, <1>12, EndingAfter
<1>14. Selected' BY <1>1, <1>4, <1>5, <1>10, SelectedAfter
<1>15. Sent' BY <1>4, <1>5, <1>7, SentAfter DEF Timers
<1>16. Resolved'
  <2>1. \A k : Bonjour!Kind(k) # "registration" =>
           /\ k \in DOMAIN files' <=> k \in DOMAIN files
           /\ k \in DOMAIN files => files'[k] = files[k]
    BY <1>3, <1>10
  <2> QED BY <2>1, <1>1, <1>5, ResolvedBeside
<1>17. ASSUME Stays' PROVE Registered' /\ Browsing'
  <2>1. Registered /\ Browsing BY <1>17, <1>5 DEF Watching, Stays, StopTurn
  <2>2. (Renewed => Renewed') /\ (Sought => Sought') /\ (HasIn(channel, "update") => HasIn(channel', "update"))
        /\ \A w : Reported(w) <=> Reported(w)'
    BY <1>4 DEF Renewed, Sought, Rests, Reported
  <2>3. Bonjour!Supported' = Bonjour!Supported BY DEF Bonjour!Supported
  <2>4. \A t \in Transports : Bonjour!Registration(t) \in DOMAIN files' => t \in Bonjour!Supported \/ Renewed'
    <3> SUFFICES ASSUME NEW t \in Transports, Bonjour!Registration(t) \in DOMAIN files'
                 PROVE  t \in Bonjour!Supported \/ Renewed'
      OBVIOUS
    <3>1. CASE Bonjour!Registration(t) \in DOMAIN files BY <3>1, <2>1, <2>2 DEF Registered
    <3>2. CASE Bonjour!Registration(t) \in missing
      <4>1. PICK u \in Bonjour!Supported : Bonjour!Registration(t) = Bonjour!Registration(u) BY <3>2, <1>9
      <4> QED BY <4>1, KeyFacts
    <3> QED BY <3>1, <3>2, <1>10
  <2>5. \A t \in Bonjour!Supported : Bonjour!Registration(t) \in DOMAIN files' \/ timers'["register"] = "armed"
    BY <1>7, <1>8, <1>10
  <2>6. \A k \in DOMAIN files' :
          Bonjour!Kind(k) = "registration" =>
            \/ files'[k].state = settings'.state
            \/ Reported("state")' \/ HasIn(channel', "update") \/ timers'["update"] = "armed"
    BY <2>1, <2>2, <1>7, <1>10 DEF Registered
  <2>7. Registered' BY <2>3, <2>4, <2>5, <2>6 DEF Registered, Bonjour!Kind, Bonjour!Registration
  <2>8. Browsing' BY <2>1, <2>2, <1>1, <1>7, <1>10, BrowsingKept
  <2> QED BY <2>7, <2>8
<1>18. Watching' BY <1>17 DEF Watching
<1> QED BY <1>2, <1>11, <1>13, <1>14, <1>15, <1>16, <1>18 DEF Serviced
LEMMA UnregisterStep ==
  ASSUME BonjourTypeOK, Serviced, lapses' = {}, channel # <<>>, batch = Bonjour!NoBatch, service.started,
         Head(channel).name = "unregister", Bonjour!_CH_unregister,
         UNCHANGED <<holder, settings, reports, turns, there>>
  PROVE  lapses = {} /\ DaemonOK' /\ Serviced'
<1> DEFINE gone == Bonjour!OfKind("registration", DOMAIN files)
<1>1. /\ timers' = [timers EXCEPT !["register"] = "none", !["update"] = "none"]
      /\ files' = Bonjour!Left(files, gone) /\ Bonjour!Rest(gone) /\ Bonjour!Yields /\ UNCHANGED <<batch, neighbours, lapses>>
  BY DEF Bonjour!_CH_unregister
<1>2. \A k : k \in gone <=> k \in DOMAIN files /\ Bonjour!Kind(k) = "registration" BY DEF Bonjour!OfKind
<1> HIDE DEF gone
<1>4. Rests(gone, {}) BY <1>1, TakesFirst DEF BonjourTypeOK
<1>5. Ending /\ Selected /\ Sent /\ Watching /\ Resolved BY DEF Serviced
<1>6. /\ service' \in [started : BOOLEAN, returning : {"no", "ready", "due"}]
      /\ service'.started = service.started /\ (service'.returning = "no" <=> service.returning = "no")
  BY <1>1, <1>5, YieldsStep
<1>7. /\ timers' \in [Timers -> {"none", "armed", "fired"}]
      /\ timers'["register"] = "none" /\ timers'["update"] = "none" /\ timers'["discover"] = timers["discover"]
  BY <1>1 DEF BonjourTypeOK, Timers
<1>10. /\ DOMAIN files' = DOMAIN files \ gone /\ DOMAIN files' \subseteq Keys
       /\ files' \in [DOMAIN files' -> FileStates]
       /\ \A k \in DOMAIN files' : files'[k] = files[k]
  <2>1. DOMAIN files \subseteq Keys /\ files \in [DOMAIN files -> FileStates] BY DEF BonjourTypeOK
  <2>2. /\ DOMAIN Bonjour!Left(files, gone) = DOMAIN files \ gone
        /\ Bonjour!Left(files, gone) \in [DOMAIN files \ gone -> FileStates]
        /\ \A k \in DOMAIN files \ gone : Bonjour!Left(files, gone)[k] = files[k]
    BY <2>1, LeftFiles
  <2> QED BY <2>1, <2>2, <1>1
<1>11. DaemonOK' BY <1>1, <1>4, <1>6, <1>7, <1>10 DEF DaemonOK, BonjourTypeOK, Rests
<1>12. NothingLeft /\ service.returning # "no" => NothingLeft'
  <2> SUFFICES ASSUME NothingLeft PROVE NothingLeft' OBVIOUS
  <2>1. timers' = timers
    <3>1. timers = [what \in Timers |-> "none"] /\ DOMAIN timers' = Timers BY <1>7 DEF NothingLeft
    <3>2. \A what \in Timers : timers'[what] = timers[what] BY <3>1, <1>7 DEF Timers
    <3> QED BY <3>1, <3>2, <1>7
  <2> QED BY <2>1, <1>1, <1>10 DEF NothingLeft
<1>13. Ending' BY <1>4, <1>5, <1>6, <1>12, EndingAfter
<1>14. Selected' BY <1>1, <1>4, <1>5, <1>10, SelectedAfter
<1>15. Sent' BY <1>4, <1>5, <1>7, SentAfter DEF Timers
<1>16. Resolved' BY <1>1, <1>2, <1>5, <1>10, ResolvedBeside
<1>17. ASSUME Stays' PROVE Registered' /\ Browsing'
  <2>1. Registered /\ Browsing BY <1>17, <1>5 DEF Watching, Stays, StopTurn
  <2>2. HasIn(channel', "register") /\ (Sought => Sought') BY <1>4, <1>5 DEF Sought, Rests, Sent, Reported
  <2>3. \A t : Bonjour!Registration(t) \notin DOMAIN files' BY <1>2, <1>10, KeyFacts
  <2>4. \A k \in DOMAIN files' : Bonjour!Kind(k) # "registration" BY <1>2, <1>10
  <2>5. Registered' BY <2>2, <2>3, <2>4 DEF Registered, Bonjour!Kind, Bonjour!Registration
  <2>6. Browsing' BY <2>1, <2>2, <1>1, <1>2, <1>7, <1>10, BrowsingKept
  <2> QED BY <2>5, <2>6
<1>18. Watching' BY <1>17 DEF Watching
<1> QED BY <1>1, <1>11, <1>13, <1>14, <1>15, <1>16, <1>18 DEF Serviced
LEMMA UpdateStep ==
  ASSUME BonjourTypeOK, Serviced, lapses' = {}, channel # <<>>, batch = Bonjour!NoBatch, service.started,
         Head(channel).name = "update", Bonjour!_CH_update_registrations,
         UNCHANGED <<holder, settings, reports, turns, there>>
  PROVE  lapses = {} /\ DaemonOK' /\ Serviced'
<1> DEFINE registered == Bonjour!OfKind("registration", DOMAIN files)
           gone == {k \in registered : k[2] \notin settings.listed}
           kept == Bonjour!Left(files, gone)
<1>1. PICK failed \in SUBSET (registered \ gone) :
        /\ Bonjour!Again("update", failed)
        /\ files' = [k \in DOMAIN kept |->
                       IF k \in registered \ (gone \cup failed) THEN [kept[k] EXCEPT !.state = settings.state] ELSE kept[k]]
        /\ channel' = Append(Bonjour!Forgets(Tail(channel), gone), Bonjour!Command("register"))
        /\ Bonjour!Yields /\ UNCHANGED <<batch, neighbours>>
        /\ lapses' = lapses \cup Bonjour!Lapse("uncertified", \E k \in registered \ gone : k[2] \notin Bonjour!Supported)
  BY DEF Bonjour!_CH_update_registrations
<1>2. lapses = {} /\ \A k \in registered \ gone : k[2] \in Bonjour!Supported BY <1>1 DEF Bonjour!Lapse
<1>3. \A k : k \in registered <=> k \in DOMAIN files /\ Bonjour!Kind(k) = "registration" BY DEF Bonjour!OfKind
<1>4. gone \subseteq registered OBVIOUS
<1>5. DOMAIN files \subseteq Keys /\ files \in [DOMAIN files -> FileStates] BY DEF BonjourTypeOK
<1> HIDE DEF gone, registered
<1>6. /\ DOMAIN kept = DOMAIN files \ gone
      /\ \A k \in DOMAIN files \ gone : kept[k] = files[k] /\ kept[k] \in FileStates
  <2>1. /\ DOMAIN Bonjour!Left(files, gone) = DOMAIN files \ gone
        /\ Bonjour!Left(files, gone) \in [DOMAIN files \ gone -> FileStates]
        /\ \A k \in DOMAIN files \ gone : Bonjour!Left(files, gone)[k] = files[k]
    BY <1>5, LeftFiles
  <2> QED BY <2>1
<1> HIDE DEF kept
<1>7. DOMAIN files' = DOMAIN files \ gone /\ DOMAIN files' \subseteq Keys BY <1>1, <1>5, <1>6
<1>8. \A k \in DOMAIN files' : /\ files'[k] \in FileStates /\ (files'[k].active <=> files[k].active)
                               /\ k \in registered \ failed => files'[k].state = settings.state
                               /\ k \notin registered => files'[k] = files[k]
  <2> SUFFICES ASSUME NEW k \in DOMAIN files'
               PROVE  /\ files'[k] \in FileStates /\ (files'[k].active <=> files[k].active)
                      /\ k \in registered \ failed => files'[k].state = settings.state
                      /\ k \notin registered => files'[k] = files[k]
    OBVIOUS
  <2>1. k \in DOMAIN kept /\ k \notin gone /\ kept[k] = files[k] /\ files[k] \in FileStates BY <1>6, <1>7
  <2>2. settings.state \in {0, 1} BY DEF BonjourTypeOK
  <2>3. CASE k \in registered \ failed
    <3>1. files'[k] = [files[k] EXCEPT !.state = settings.state] BY <2>1, <2>3, <1>1
    <3> QED BY <3>1, <2>1, <2>2, <2>3 DEF FileStates
  <2>4. CASE k \notin registered \ failed
    <3>1. files'[k] = files[k] BY <2>1, <2>4, <1>1
    <3> QED BY <3>1, <2>1, <2>4
  <2> QED BY <2>3, <2>4
<1>9. files' \in [DOMAIN files' -> FileStates]
  <2>1. files' = [k \in DOMAIN files' |-> files'[k]] BY <1>1
  <2> QED BY <2>1, <1>8
<1>10. Rests(gone, {"register"}) BY <1>1, TakesAndSends DEF BonjourTypeOK
<1>11. Ending /\ Selected /\ Sent /\ Watching /\ Resolved BY DEF Serviced
<1>12. /\ service' \in [started : BOOLEAN, returning : {"no", "ready", "due"}]
       /\ service'.started = service.started /\ (service'.returning = "no" <=> service.returning = "no")
  BY <1>1, <1>11, YieldsStep
<1>13. /\ timers' \in [Timers -> {"none", "armed", "fired"}]
       /\ timers'["update"] = IF failed = {} THEN "none" ELSE "armed"
       /\ timers'["discover"] = timers["discover"] /\ timers'["register"] = timers["register"]
  BY <1>1 DEF Bonjour!Again, BonjourTypeOK, Timers
<1>14. DaemonOK' BY <1>1, <1>7, <1>9, <1>10, <1>12, <1>13 DEF DaemonOK, BonjourTypeOK, Rests
<1>15. NothingLeft /\ service.returning # "no" => NothingLeft'
  <2> SUFFICES ASSUME NothingLeft PROVE NothingLeft' OBVIOUS
  <2>1. failed = {} BY <1>1, <1>3 DEF NothingLeft
  <2>2. timers' = timers
    <3>1. timers = [what \in Timers |-> "none"] /\ DOMAIN timers' = Timers BY <1>13 DEF NothingLeft
    <3>2. \A what \in Timers : timers'[what] = timers[what] BY <2>1, <3>1, <1>13 DEF Timers
    <3> QED BY <3>1, <3>2, <1>13
  <2> QED BY <2>2, <1>1, <1>7 DEF NothingLeft
<1>16. Ending' BY <1>10, <1>11, <1>12, <1>15, EndingAfter
<1>17. Selected' BY <1>1, <1>7, <1>8, <1>10, <1>11, SelectedAfter
<1>18. Sent' BY <1>10, <1>11, <1>13, SentAfter DEF Timers
<1>19. Resolved' BY <1>1, <1>3, <1>4, <1>7, <1>8, <1>11, ResolvedBeside
<1>20. ASSUME Stays' PROVE Registered' /\ Browsing'
  <2>1. Browsing BY <1>20, <1>11 DEF Watching, Stays, StopTurn
  <2>2. HasIn(channel', "register") /\ (Sought => Sought') BY <1>10 DEF Sought, Rests, Reported
  <2>3. \A k \in DOMAIN files' : Bonjour!Kind(k) = "registration" => k \in registered \ gone BY <1>3, <1>7
  <2>4. \A t \in Transports : Bonjour!Registration(t) \in DOMAIN files' => t \in Bonjour!Supported
    BY <2>3, <1>2, KeyFacts
  <2>5. \A k \in DOMAIN files' :
          Bonjour!Kind(k) = "registration" => files'[k].state = settings'.state \/ timers'["update"] = "armed"
    BY <2>3, <1>8, <1>13
  <2>6. Bonjour!Supported' = Bonjour!Supported BY DEF Bonjour!Supported
  <2>7. Registered' BY <2>2, <2>4, <2>5, <2>6 DEF Registered, Bonjour!Kind, Bonjour!Registration
  <2>8. Browsing'
    <3>1. \A k \in DOMAIN files : Bonjour!Kind(k) = "discovery" => k \in DOMAIN files' BY <1>3, <1>4, <1>7
    <3> QED BY <3>1, <2>1, <2>2, <1>1, <1>13, BrowsingKept
  <2> QED BY <2>7, <2>8
<1>21. Watching' BY <1>20 DEF Watching
<1> QED BY <1>2, <1>14, <1>16, <1>17, <1>18, <1>19, <1>21 DEF Serviced
LEMMA StopStep ==
  ASSUME BonjourTypeOK, Serviced, channel # <<>>, batch = Bonjour!NoBatch, service.started,
         Head(channel).name = "stop", Bonjour!_CH_stop,
         UNCHANGED <<holder, settings, reports, turns, there>>
  PROVE  UNCHANGED lapses /\ DaemonOK' /\ Serviced'
<1>1. /\ timers' = [what \in DOMAIN timers |-> "none"] /\ files' = Bonjour!Left(files, DOMAIN files)
      /\ Bonjour!Rest(DOMAIN files) /\ neighbours' = {} /\ service' = [service EXCEPT !.returning = "ready"]
      /\ UNCHANGED <<batch, lapses>>
  BY DEF Bonjour!_CH_stop
<1>2. Rests(DOMAIN files, {}) BY <1>1, TakesFirst DEF BonjourTypeOK
<1>3. Ending /\ Selected /\ Sent /\ Watching /\ Resolved BY DEF Serviced
<1>4. HasIn(channel, "stop")
  <2>1. 1 \in DOMAIN channel /\ Head(channel) = channel[1] BY EmptySeq DEF BonjourTypeOK
  <2> QED BY <2>1 DEF HasIn
<1>5. holder.locked /\ ~holder.alive BY <1>3, <1>4 DEF Ending
<1>6. DOMAIN files \subseteq Keys /\ files \in [DOMAIN files -> FileStates] BY DEF BonjourTypeOK
<1>7. DOMAIN files' = {} /\ files' \in [DOMAIN files' -> FileStates]
  <2>1. /\ DOMAIN Bonjour!Left(files, DOMAIN files) = DOMAIN files \ DOMAIN files
        /\ Bonjour!Left(files, DOMAIN files) \in [DOMAIN files \ DOMAIN files -> FileStates]
    BY <1>6, LeftFiles
  <2> QED BY <2>1, <1>1
<1>8. timers' = [what \in Timers |-> "none"] BY <1>1 DEF BonjourTypeOK
<1>9. batch.files = {} /\ batch.left = {} BY DEF Bonjour!NoBatch
<1>10. NothingLeft' BY <1>1, <1>7, <1>8, <1>9 DEF NothingLeft
<1>11. /\ service' \in [started : BOOLEAN, returning : {"no", "ready", "due"}]
       /\ service'.started = service.started /\ service'.returning = "ready"
  BY <1>1 DEF BonjourTypeOK
<1>12. timers' \in [Timers -> {"none", "armed", "fired"}] BY <1>8
<1>13. DaemonOK' BY <1>1, <1>2, <1>7, <1>11, <1>12 DEF DaemonOK, BonjourTypeOK, Rests
<1>14. OneStop(channel') /\ ~HasIn(channel', "stop") BY <1>2, <1>3 DEF Rests, Ending
<1>15. Ending' BY <1>5, <1>10, <1>11, <1>14, <1>3 DEF Ending
<1>16. Selected' BY <1>1, <1>2, <1>3, <1>7, SelectedAfter
<1>17. Sent' BY <1>2, <1>3, <1>8, SentAfter
<1>18. Watching' BY <1>5 DEF Watching, Stays
<1>19. Resolved' BY <1>10, NothingResolved DEF Resolved, NothingLeft
<1> QED BY <1>1, <1>13, <1>15, <1>16, <1>17, <1>18, <1>19 DEF Serviced
LEMMA ResultsStep ==
  ASSUME BonjourTypeOK, Serviced, channel # <<>>, batch = Bonjour!NoBatch, service.started,
         Head(channel).name = "results", Bonjour!_CH_process_results,
         UNCHANGED <<holder, settings, reports, turns, there>>
  PROVE  UNCHANGED lapses /\ DaemonOK' /\ Serviced'
<1>1. /\ batch' = [on |-> TRUE, files |-> Head(channel).files, left |-> Head(channel).files] /\ Bonjour!Rest({})
      /\ UNCHANGED <<service, files, neighbours, timers, lapses>>
  BY DEF Bonjour!_CH_process_results
<1>2. Rests({}, {}) BY <1>1, TakesFirst DEF BonjourTypeOK
<1>3. Ending /\ Selected /\ Sent /\ Watching /\ Resolved BY DEF Serviced
<1>4. Head(channel) \in Commands BY EmptySeq DEF BonjourTypeOK
<1>5. Head(channel).files \subseteq DOMAIN files BY <1>2, <1>3 DEF Rests, Selected
<1>6. batch' \in [on : BOOLEAN, files : SUBSET Keys, left : SUBSET Keys] BY <1>1, <1>4 DEF Commands
<1>7. DaemonOK' BY <1>1, <1>2, <1>6 DEF DaemonOK, BonjourTypeOK, Rests
<1>8. NothingLeft => NothingLeft' BY <1>1, <1>5 DEF NothingLeft
<1>9. Ending' BY <1>1, <1>2, <1>3, <1>8, EndingAfter
<1>10. Selected'
  <2>1. KeptIn(channel', DOMAIN files')
    <3>1. KeptIn(channel', DOMAIN files \ {}) BY <1>2, <1>3 DEF Rests, Selected
    <3>2. DOMAIN files \ {} = DOMAIN files' BY <1>1
    <3> QED BY <3>1, <3>2
  <2>2. batch'.on /\ batch'.files = Head(channel).files /\ batch'.left = Head(channel).files BY <1>1
  <2>3. \A k \in DOMAIN files' : files'[k].active => k \in batch'.files \/ HeldIn(channel', k)
    <3>1. batch.files = {} BY DEF Bonjour!NoBatch
    <3> QED BY <3>1, <2>2, <1>1, <1>2, <1>3 DEF Selected, Rests
  <2> QED BY <2>1, <2>2, <2>3, <1>1, <1>5 DEF Selected
<1>11. \A what \in Timers : what # "results" BY DEF Timers
<1>12. Sent' BY <1>1, <1>2, <1>3, <1>11, SentAfter
<1>13. Watching'
  <2>1. Stays' => Stays BY DEF Stays, StopTurn
  <2>2. \A name \in Timers : HasIn(channel, name) => HasIn(channel', name) BY <1>2, <1>11 DEF Rests
  <2>3. HasIn(channel, "update") => HasIn(channel', "update") BY <2>2 DEF Timers
  <2> QED BY <2>1, <2>2, <2>3, <1>1, <1>3, WatchingKept DEF Reported
<1>14. Resolved' BY <1>1, <1>3, ResolvedKept
<1> QED BY <1>1, <1>7, <1>9, <1>10, <1>12, <1>13, <1>14 DEF Serviced
\* A command that finds the service not started.
LEMMA DroppedStep ==
  ASSUME BonjourTypeOK, Serviced, channel # <<>>, ~service.started, Bonjour!Rest({}),
         UNCHANGED <<service, batch, files, neighbours, timers, lapses, holder, settings, reports, turns, there>>
  PROVE  DaemonOK' /\ Serviced'
<1>1. Rests({}, {}) BY TakesFirst DEF BonjourTypeOK
<1>2. Ending /\ Selected /\ Sent /\ Watching /\ Resolved BY DEF Serviced
<1>3. ~holder.alive /\ ~holder.locked /\ NothingLeft BY <1>2 DEF Ending
<1>4. DaemonOK' BY <1>1 DEF DaemonOK, BonjourTypeOK, Rests
<1>5. NothingLeft' BY <1>3 DEF NothingLeft
<1>6. OneStop(channel') /\ (HasIn(channel', "stop") => HasIn(channel, "stop")) BY <1>1, <1>2 DEF Rests, Ending
<1>7. Ending' BY <1>2, <1>5, <1>6, EndingKept
<1>8. Selected'
  <2>1. KeptIn(channel', DOMAIN files \ {}) BY <1>1, <1>2 DEF Rests, Selected
  <2>2. DOMAIN files \ {} = DOMAIN files' OBVIOUS
  <2>3. KeptIn(channel', DOMAIN files') BY <2>1, <2>2
  <2> QED BY <2>3, <1>2, <1>3 DEF Selected, NothingLeft
<1>9. Sent' BY <1>1, <1>2, <1>3 DEF Sent, NothingLeft, Rests
<1>10. Watching' BY <1>3 DEF Watching, Stays
<1>11. Resolved' BY <1>5, NothingResolved DEF Resolved, NothingLeft
<1> QED BY <1>4, <1>7, <1>8, <1>9, <1>10, <1>11 DEF Serviced
LEMMA RegisteredKept ==
  ASSUME Registered, UNCHANGED settings, Renewed => Renewed', HasIn(channel, "register") => HasIn(channel', "register"),
         HasIn(channel, "update") => HasIn(channel', "update"), Reported("state") => Reported("state")',
         timers["register"] = "armed" => timers'["register"] = "armed",
         timers["update"] = "armed" => timers'["update"] = "armed",
         \A k : Bonjour!Kind(k) = "registration" =>
           /\ k \in DOMAIN files' <=> k \in DOMAIN files
           /\ k \in DOMAIN files => files'[k].state = files[k].state
  PROVE  Registered'
<1>1. Bonjour!Supported' = Bonjour!Supported BY DEF Bonjour!Supported
<1>2. \A t : Bonjour!Kind(Bonjour!Registration(t)) = "registration" /\ Bonjour!Registration(t)' = Bonjour!Registration(t)
  BY DEF Bonjour!Kind, Bonjour!Registration
<1>3. \A t \in Transports : Bonjour!Registration(t) \in DOMAIN files' => t \in Bonjour!Supported \/ Renewed'
  BY <1>2 DEF Registered
<1>4. \A t \in Bonjour!Supported :
        Bonjour!Registration(t) \in DOMAIN files' \/ Renewed' \/ HasIn(channel', "register") \/ timers'["register"] = "armed"
  BY <1>2 DEF Registered
<1>5. \A k \in DOMAIN files' :
        Bonjour!Kind(k) = "registration" =>
          \/ files'[k].state = settings'.state
          \/ Reported("state")' \/ HasIn(channel', "update") \/ timers'["update"] = "armed"
  BY DEF Registered
<1> QED BY <1>1, <1>2, <1>3, <1>4, <1>5 DEF Registered, Bonjour!Kind
LEMMA DiscoverStep ==
  ASSUME BonjourTypeOK, Serviced, lapses' = {}, channel # <<>>, batch = Bonjour!NoBatch, service.started,
         service.returning # "due", Head(channel).name = "discover", Bonjour!_CH_discover,
         UNCHANGED <<holder, settings, reports, turns, there>>
  PROVE  lapses = {} /\ DaemonOK' /\ Serviced'
<1> DEFINE browsing == Bonjour!OfKind("discovery", DOMAIN files)
           gone == UNION {{k} \cup Bonjour!FoundBy(k, DOMAIN files) : k \in {d \in browsing : d[2] \notin Bonjour!Discoverable}}
           missing == {Bonjour!Discovery(t) : t \in Bonjour!Discoverable} \ browsing
           dropped == {n \in neighbours : TransportOf[n] \notin Bonjour!Supported}
<1>1. PICK failed \in SUBSET missing :
        /\ Bonjour!Again("discover", failed)
        /\ files' = Bonjour!Opened(Bonjour!Left(files, gone), missing \ failed) /\ Bonjour!Rest(gone) /\ Bonjour!Yields
        /\ neighbours' = neighbours \ dropped /\ UNCHANGED batch
        /\ lapses' = lapses
             \cup Bonjour!Lapse("forgotten", \E n \in dropped, k \in browsing \ gone : n \in files[k].seen)
             \cup Bonjour!Lapse("after", service.returning = "ready" /\ missing # {})
  BY DEF Bonjour!_CH_discover
<1>2. /\ lapses = {} /\ ~(service.returning = "ready" /\ missing # {})
      /\ \A n \in dropped : \A k \in browsing \ gone : n \notin files[k].seen
  BY <1>1 DEF Bonjour!Lapse
<1>3. \A k : k \in browsing <=> k \in DOMAIN files /\ Bonjour!Kind(k) = "discovery" BY DEF Bonjour!OfKind
<1>4. \A n : BrowseOf(n)[2] \in Bonjour!Discoverable <=> Bonjour!Browsed(TransportOf[n]) \in Bonjour!Discoverable
  BY KeyFacts DEF BrowseOf
<1>5. \A k : k \in gone => k \in DOMAIN files /\ Bonjour!Kind(k) # "registration"
  BY <1>3 DEF Bonjour!FoundBy, Bonjour!OfKind
<1>6. \A k \in browsing : k \in gone <=> k[2] \notin Bonjour!Discoverable
  BY <1>3 DEF Bonjour!FoundBy, Bonjour!OfKind
<1>7. \A n : Bonjour!Resolution(n) \in DOMAIN files =>
        (Bonjour!Resolution(n) \in gone <=> BrowseOf(n) \in browsing /\ BrowseOf(n)[2] \notin Bonjour!Discoverable)
  <2> SUFFICES ASSUME NEW n, Bonjour!Resolution(n) \in DOMAIN files
               PROVE  Bonjour!Resolution(n) \in gone <=> BrowseOf(n) \in browsing /\ BrowseOf(n)[2] \notin Bonjour!Discoverable
    OBVIOUS
  <2>1. Bonjour!Kind(Bonjour!Resolution(n)) = "resolution" /\ Bonjour!Resolution(n)[2] = n BY KeyFacts
  <2>2. Bonjour!Resolution(n) \notin browsing BY <2>1, <1>3
  <2>3. \A k : Bonjour!Resolution(n) \in Bonjour!FoundBy(k, DOMAIN files) <=> k = BrowseOf(n)
    BY <2>1 DEF Bonjour!FoundBy, Bonjour!OfKind, BrowseOf
  <2> HIDE DEF browsing
  <2> QED BY <2>2, <2>3
<1>8. \A k \in missing : k \in Keys /\ Bonjour!Kind(k) = "discovery" /\ k \notin DOMAIN files
  <2> SUFFICES ASSUME NEW k \in missing PROVE k \in Keys /\ Bonjour!Kind(k) = "discovery" /\ k \notin DOMAIN files
    OBVIOUS
  <2>1. PICK t \in Bonjour!Discoverable : k = Bonjour!Discovery(t) OBVIOUS
  <2>2. k \in Keys /\ Bonjour!Kind(k) = "discovery" BY <2>1, KeyFacts
  <2> QED BY <2>2, <1>3
<1>9. \A t \in Bonjour!Discoverable : Bonjour!Discovery(t) \in browsing \/ Bonjour!Discovery(t) \in missing OBVIOUS
<1>10. \A n : n \in dropped <=> n \in neighbours /\ TransportOf[n] \notin Bonjour!Supported OBVIOUS
<1>11. \A n : TransportOf[n] \in Bonjour!Supported => Bonjour!Browsed(TransportOf[n]) \in Bonjour!Discoverable
  BY DEF Bonjour!Discoverable
<1> HIDE DEF browsing, gone, missing, dropped
<1>12. /\ DOMAIN files' = (DOMAIN files \ gone) \cup (missing \ failed) /\ DOMAIN files' \subseteq Keys
       /\ files' \in [DOMAIN files' -> FileStates]
       /\ \A k \in DOMAIN files \ gone : files'[k] = files[k]
       /\ \A k \in missing \ failed : ~files'[k].active /\ files'[k].seen = {}
  <2>1. DOMAIN files \subseteq Keys /\ files \in [DOMAIN files -> FileStates] BY DEF BonjourTypeOK
  <2> DEFINE fs == Bonjour!Left(files, gone)
  <2>2. /\ DOMAIN fs = DOMAIN files \ gone /\ fs \in [DOMAIN files \ gone -> FileStates]
        /\ \A k \in DOMAIN files \ gone : fs[k] = files[k]
    BY <2>1, LeftFiles
  <2>3. files' = Bonjour!Opened(fs, missing \ failed) BY <1>1
  <2> HIDE DEF fs
  <2>4. DOMAIN fs \subseteq Keys /\ fs \in [DOMAIN fs -> FileStates] /\ missing \ failed \in SUBSET Keys
    BY <2>1, <2>2, <1>8
  <2>5. /\ DOMAIN files' = DOMAIN fs \cup (missing \ failed) /\ DOMAIN files' \subseteq Keys
        /\ files' \in [DOMAIN files' -> FileStates]
        /\ \A k \in DOMAIN fs : files'[k] = fs[k]
        /\ \A k \in (missing \ failed) \ DOMAIN fs :
             /\ ~files'[k].active /\ ~files'[k].told /\ files'[k].state = settings.state /\ files'[k].seen = {}
    BY <2>3, <2>4, OpenedFiles, Zenon
  <2>6. \A k \in missing \ failed : k \notin DOMAIN fs BY <2>2, <1>8
  <2> QED BY <2>2, <2>5, <2>6
<1>13. Rests(gone, {}) BY <1>1, TakesFirst DEF BonjourTypeOK
<1>14. Ending /\ Selected /\ Sent /\ Watching /\ Resolved BY DEF Serviced
<1>15. /\ service' \in [started : BOOLEAN, returning : {"no", "ready", "due"}]
       /\ service'.started = service.started /\ (service'.returning = "no" <=> service.returning = "no")
  BY <1>1, <1>14, YieldsStep
<1>16. /\ timers' \in [Timers -> {"none", "armed", "fired"}]
       /\ timers'["discover"] = IF failed = {} THEN "none" ELSE "armed"
       /\ timers'["update"] = timers["update"] /\ timers'["register"] = timers["register"]
  BY <1>1 DEF Bonjour!Again, BonjourTypeOK, Timers
<1>17. DaemonOK' BY <1>1, <1>12, <1>13, <1>15, <1>16 DEF DaemonOK, BonjourTypeOK, Rests
<1>18. NothingLeft /\ service.returning # "no" => NothingLeft'
  <2> SUFFICES ASSUME NothingLeft, service.returning # "no" PROVE NothingLeft' OBVIOUS
  <2>1. missing = {} BY <1>2 DEF BonjourTypeOK
  <2>2. timers' = timers
    <3>1. timers = [what \in Timers |-> "none"] /\ DOMAIN timers' = Timers BY <1>16 DEF NothingLeft
    <3>2. \A what \in Timers : timers'[what] = timers[what] BY <2>1, <3>1, <1>1, <1>16 DEF Timers
    <3> QED BY <3>1, <3>2, <1>16
  <2> QED BY <2>1, <2>2, <1>1, <1>12 DEF NothingLeft
<1>19. Ending' BY <1>13, <1>14, <1>15, <1>18, EndingAfter
<1>20. Selected'
  <2>1. \A k \in DOMAIN files' : files'[k].active => k \in DOMAIN files /\ files[k].active /\ k \notin gone BY <1>12
  <2> QED BY <2>1, <1>1, <1>12, <1>13, <1>14, SelectedAfter
<1>21. Sent' BY <1>13, <1>14, <1>16, SentAfter DEF Timers
<1>22. Resolved'
  <2>1. \A n : BrowseOf(n)' = BrowseOf(n) /\ Bonjour!Resolution(n)' = Bonjour!Resolution(n)
    BY DEF BrowseOf, Bonjour!Discovery, Bonjour!Browsed, Bonjour!Resolution
  <2>2. \A n : Bonjour!Kind(BrowseOf(n)) = "discovery" BY KeyFacts DEF BrowseOf
  <2>3. \A n : Bonjour!Resolution(n) \in DOMAIN files' <=> Bonjour!Resolution(n) \in DOMAIN files \ gone
    BY <1>8, <1>12, KeyFacts
  <2>4. \A k : Bonjour!Kind(k) = "discovery" /\ k \in DOMAIN files' =>
          k \in missing \ failed \/ (k \in browsing \ gone /\ files'[k] = files[k])
    BY <1>3, <1>12
  <2>5. ASSUME NEW n \in Names, Bonjour!Resolution(n) \in DOMAIN files'
        PROVE  /\ BrowseOf(n) \in browsing \ gone /\ BrowseOf(n) \in DOMAIN files' /\ n \in files[BrowseOf(n)].seen
               /\ n \in files'[BrowseOf(n)].seen
    <3>1. BrowseOf(n) \in DOMAIN files /\ n \in files[BrowseOf(n)].seen BY <2>3, <2>5, <1>14 DEF Resolved
    <3>2. BrowseOf(n) \in browsing BY <3>1, <2>2, <1>3
    <3>3. BrowseOf(n) \notin gone BY <3>2, <2>3, <2>5, <1>6, <1>7
    <3> QED BY <3>1, <3>2, <3>3, <1>12
  <2>6. ASSUME NEW k \in DOMAIN files', NEW n \in files'[k].seen, Bonjour!Kind(k) = "discovery"
        PROVE  k = BrowseOf(n) /\ (Bonjour!Resolution(n) \in DOMAIN files' \/ n \in neighbours')
    <3>1. k \in browsing \ gone /\ files'[k] = files[k] BY <2>4, <2>6, <1>12
    <3>2. k \in DOMAIN files /\ n \in files[k].seen BY <3>1, <2>6, <1>3
    <3>3. k = BrowseOf(n) /\ (Bonjour!Resolution(n) \in DOMAIN files \/ n \in neighbours)
      BY <3>2, <2>6, <1>14 DEF Resolved
    <3>4. CASE Bonjour!Resolution(n) \in DOMAIN files
      <4>1. Bonjour!Resolution(n) \notin gone BY <3>1, <3>3, <3>4, <1>6, <1>7
      <4> QED BY <4>1, <3>3, <3>4, <2>3
    <3>5. CASE n \in neighbours
      <4>1. n \notin dropped BY <3>1, <3>2, <1>2
      <4> QED BY <4>1, <3>3, <3>5, <1>1
    <3> QED BY <3>3, <3>4, <3>5
  <2>7. ASSUME NEW n \in Names, Bonjour!Resolution(n) \in DOMAIN files', files'[Bonjour!Resolution(n)].told
        PROVE  n \in neighbours'
    <3>1. Bonjour!Resolution(n) \in DOMAIN files \ gone /\ files[Bonjour!Resolution(n)].told BY <2>3, <2>7, <1>12
    <3>2. n \in neighbours BY <3>1, <1>14 DEF Resolved
    <3>3. n \notin dropped BY <2>5, <2>7, <1>2
    <3> QED BY <3>2, <3>3, <1>1
  <2>8. ASSUME NEW n \in neighbours' PROVE Bonjour!Resolution(n) \in DOMAIN files' \/ n \in there'
    <3>1. n \in neighbours /\ TransportOf[n] \in Bonjour!Supported BY <1>1, <1>10
    <3>2. BrowseOf(n)[2] \in Bonjour!Discoverable BY <3>1, <1>4, <1>11
    <3>3. Bonjour!Resolution(n) \in DOMAIN files \/ n \in there BY <3>1, <1>14 DEF Resolved
    <3> QED BY <3>2, <3>3, <2>3, <1>7
  <2> QED BY <2>1, <2>5, <2>6, <2>7, <2>8 DEF Resolved, Bonjour!Kind
<1>23. ASSUME Stays' PROVE Registered' /\ Browsing'
  <2>1. Registered /\ Browsing BY <1>23, <1>14 DEF Watching, Stays, StopTurn
  <2>2. /\ \A w : Reported(w) <=> Reported(w)'
        /\ HasIn(channel, "update") => HasIn(channel', "update")
        /\ HasIn(channel, "register") => HasIn(channel', "register")
    BY <1>13 DEF Rests, Reported
  <2>3. Renewed => Renewed' BY <2>2 DEF Renewed
  <2>4. \A k : Bonjour!Kind(k) = "registration" =>
          /\ k \in DOMAIN files' <=> k \in DOMAIN files
          /\ k \in DOMAIN files => files'[k].state = files[k].state
    BY <1>5, <1>8, <1>12
  <2>5. Registered' BY <2>1, <2>2, <2>3, <2>4, <1>16, RegisteredKept
  <2>6. Bonjour!Supported' = Bonjour!Supported /\ Bonjour!Discoverable' = Bonjour!Discoverable
    BY DEF Bonjour!Supported, Bonjour!Discoverable
  <2>7. \A t \in Bonjour!Discoverable : Bonjour!Discovery(t) \in DOMAIN files' \/ timers'["discover"] = "armed"
    <3> SUFFICES ASSUME NEW t \in Bonjour!Discoverable
                 PROVE  Bonjour!Discovery(t) \in DOMAIN files' \/ timers'["discover"] = "armed"
      OBVIOUS
    <3>1. CASE Bonjour!Discovery(t) \in browsing
      <4>1. Bonjour!Discovery(t) \notin gone BY <3>1, <1>6, KeyFacts
      <4> QED BY <4>1, <3>1, <1>3, <1>12
    <3>2. CASE Bonjour!Discovery(t) \in missing BY <3>2, <1>12, <1>16
    <3> QED BY <3>1, <3>2, <1>9
  <2>8. \A n \in neighbours' : TransportOf[n] \in Bonjour!Supported BY <1>1, <1>10
  <2>9. Browsing' BY <2>6, <2>7, <2>8 DEF Browsing, Bonjour!Discovery
  <2> QED BY <2>5, <2>9
<1>24. Watching' BY <1>23 DEF Watching
<1> QED BY <1>2, <1>17, <1>19, <1>20, <1>21, <1>22, <1>24 DEF Serviced
LEMMA TakesBonjourCommandStep ==
  ASSUME BonjourTypeOK, Turning, Serviced, lapses' = {}, Bonjour!TakesBonjourCommand
  PROVE  lapses = {} /\ BonjourTypeOK' /\ Turning' /\ Serviced'
<1>1. /\ channel # <<>> /\ batch = Bonjour!NoBatch /\ service.returning # "due"
      /\ IF service.started THEN Bonjour!Handles(Head(channel).name)
         ELSE Bonjour!Rest({}) /\ UNCHANGED <<act, service, batch, files, neighbours, timers, lapses>>
      /\ UNCHANGED <<going, holder, settings, reports, turns, there>>
  BY DEF Bonjour!TakesBonjourCommand
<1>2. ASSUME DaemonOK' PROVE BonjourTypeOK' BY <1>1, <1>2 DEF BonjourTypeOK, DaemonOK
<1>3. Turning' BY <1>1, TurningKept DEF Reported
<1>4. CASE ~service.started BY <1>1, <1>2, <1>3, <1>4, DroppedStep
<1>5. CASE service.started
  <2>1. Bonjour!Handles(Head(channel).name) BY <1>1, <1>5
  <2>2. CASE Head(channel).name = "register" /\ Bonjour!_CH_register BY <2>2, <1>1, <1>2, <1>3, <1>5, RegisterStep
  <2>3. CASE Head(channel).name = "unregister" /\ Bonjour!_CH_unregister BY <2>3, <1>1, <1>2, <1>3, <1>5, UnregisterStep
  <2>4. CASE Head(channel).name = "update" /\ Bonjour!_CH_update_registrations
    BY <2>4, <1>1, <1>2, <1>3, <1>5, UpdateStep
  <2>5. CASE Head(channel).name = "discover" /\ Bonjour!_CH_discover BY <2>5, <1>1, <1>2, <1>3, <1>5, DiscoverStep
  <2>6. CASE Head(channel).name = "stop" /\ Bonjour!_CH_stop BY <2>6, <1>1, <1>2, <1>3, <1>5, StopStep
  <2>7. CASE Head(channel).name = "results" /\ Bonjour!_CH_process_results BY <2>7, <1>1, <1>2, <1>3, <1>5, ResultsStep
  <2> QED BY <2>1, <2>2, <2>3, <2>4, <2>5, <2>6, <2>7 DEF Bonjour!Handles
<1> QED BY <1>4, <1>5

-----------------------------------------------------------------------------
\* A file of the results under way has its turn, and some are closed.
Leaves(k, gone) ==
  /\ Passes(gone)
  /\ batch' \in [on : BOOLEAN, files : SUBSET Keys, left : SUBSET Keys] /\ batch'.on = batch.on
  /\ batch'.files = batch.files \ gone /\ batch'.left = batch.left \ (gone \cup {k})
LEMMA GoesStep ==
  ASSUME BonjourTypeOK, NEW k, Bonjour!Goes(k)
  PROVE  Leaves(k, {})
<1>1. batch' = [batch EXCEPT !.left = batch.left \ {k}] /\ UNCHANGED channel BY DEF Bonjour!Goes
<1>2. Passes({})
  <2>1. channel \in Seq(Commands) BY DEF BonjourTypeOK
  <2>2. ASSUME NEW keys, KeptIn(channel, keys) PROVE KeptIn(channel, keys \ {})
    <3>1. keys \ {} = {x \in keys : TRUE} OBVIOUS
    <3> QED BY <2>2 DEF KeptIn
  <2> QED BY <2>1, <2>2, <1>1 DEF Passes
<1> QED BY <1>1, <1>2 DEF Leaves, BonjourTypeOK
LEMMA ClosesStep ==
  ASSUME BonjourTypeOK, NEW k, NEW fs, NEW keys, Bonjour!Closes(k, fs, keys)
  PROVE  Leaves(k, keys) /\ files' = Bonjour!Left(fs, keys)
<1>1. /\ files' = Bonjour!Left(fs, keys) /\ channel' = Bonjour!Forgets(channel, keys)
      /\ batch' = [batch EXCEPT !.files = batch.files \ keys, !.left = batch.left \ (keys \cup {k})]
  BY DEF Bonjour!Closes
<1>2. Passes(keys) BY <1>1, ClosesFiles DEF BonjourTypeOK
<1> QED BY <1>1, <1>2 DEF Leaves, BonjourTypeOK
LEMMA RetriesLaterStep ==
  ASSUME BonjourTypeOK, Sent, NEW what \in Timers, Bonjour!RetriesLater(what)
  PROVE  /\ timers' \in [Timers -> {"none", "armed", "fired"}]
         /\ timers'[what] = "armed" \/ HasIn(channel, what)
         /\ \A w \in Timers : /\ timers'[w] = "fired" => timers[w] = "fired"
                              /\ timers[w] = "armed" => timers'[w] = "armed"
<1>1. timers \in [Timers -> {"none", "armed", "fired"}] BY DEF BonjourTypeOK
<1>2. timers' = [timers EXCEPT ![what] = IF timers[what] = "none" THEN "armed" ELSE timers[what]]
  BY DEF Bonjour!RetriesLater
<1>3. timers[what] = "fired" => HasIn(channel, what) BY DEF Sent
<1> QED BY <1>1, <1>2, <1>3
LEMMA LeavesStep ==
  ASSUME BonjourTypeOK, Turning, Serviced, UNCHANGED <<going, holder, settings, reports, turns, service, there>>,
         NEW k \in batch.left, NEW gone, Leaves(k, gone), DOMAIN files \ gone \subseteq DOMAIN files',
         \A x \in DOMAIN files' : files'[x].active => x \in DOMAIN files /\ files[x].active /\ x \notin gone,
         DOMAIN files' \subseteq Keys, files' \in [DOMAIN files' -> FileStates], neighbours' \subseteq Names,
         timers' \in [Timers -> {"none", "armed", "fired"}],
         \A w \in Timers : timers'[w] = "fired" => timers[w] = "fired"
  PROVE  /\ BonjourTypeOK' /\ Turning' /\ Ending' /\ Selected' /\ Sent'
         /\ \A w : Reported(w) <=> Reported(w)'
         /\ \A name : HasIn(channel', name) <=> HasIn(channel, name)
         /\ Stays' <=> Stays
<1>1. Ending /\ Selected /\ Sent BY DEF Serviced
<1>2. Passes(gone) BY DEF Leaves
<1>3. BonjourTypeOK' BY <1>2 DEF BonjourTypeOK, Leaves, Passes
<1>4. \A w : Reported(w) <=> Reported(w)' BY DEF Reported
<1>5. Turning' BY <1>4, TurningKept
<1>6. k \in batch.files /\ k \in DOMAIN files BY <1>1 DEF Selected
<1>7. ~NothingLeft BY <1>6 DEF NothingLeft
<1>8. OneStop(channel') /\ \A name : HasIn(channel', name) <=> HasIn(channel, name)
  BY <1>1, <1>2 DEF Passes, Ending
<1>9. Ending' BY <1>1, <1>7, <1>8, EndingKept
<1>10. Selected'
  <2>1. KeptIn(channel', DOMAIN files') BY <1>1, <1>2 DEF Passes, Selected, KeptIn
  <2>2. batch'.left \subseteq batch'.files /\ batch'.files \subseteq DOMAIN files' /\ (~batch'.on => batch'.files = {})
    BY <1>1 DEF Selected, Leaves
  <2>3. \A x \in DOMAIN files' : files'[x].active => x \in batch'.files \/ HeldIn(channel', x)
    BY <1>1, <1>2 DEF Selected, Leaves, Passes
  <2> QED BY <2>1, <2>2, <2>3 DEF Selected
<1>11. Sent' BY <1>1, <1>2, <1>8, SentKept DEF Passes, Sent
<1>12. Stays' <=> Stays BY DEF Stays, StopTurn
<1> QED BY <1>3, <1>4, <1>5, <1>8, <1>9, <1>10, <1>11, <1>12
\* one file is replaced
LEMMA ReplacedFile ==
  ASSUME BonjourTypeOK, NEW k \in DOMAIN files, NEW file \in FileStates, NEW fs, fs = [files EXCEPT ![k] = file]
  PROVE  /\ DOMAIN fs = DOMAIN files /\ DOMAIN fs \subseteq Keys /\ fs \in [DOMAIN fs -> FileStates]
         /\ fs[k] = file /\ \A x \in DOMAIN files : x # k => fs[x] = files[x]
<1>1. DOMAIN files \subseteq Keys /\ files \in [DOMAIN files -> FileStates] BY DEF BonjourTypeOK
<1> QED BY <1>1
LEMMA RegisterCallbackStep ==
  ASSUME BonjourTypeOK, Turning, Serviced, UNCHANGED <<going, holder, settings, reports, turns, service, there>>,
         NEW k \in batch.left, Bonjour!_register_cb(k)
  PROVE  UNCHANGED lapses /\ BonjourTypeOK' /\ Turning' /\ Serviced'
<1>1. Bonjour!Kind(k) = "registration" /\ UNCHANGED <<neighbours, lapses>> BY DEF Bonjour!_register_cb
<1>2. Ending /\ Selected /\ Sent /\ Watching /\ Resolved BY DEF Serviced
<1>3. k \in DOMAIN files /\ DOMAIN files \subseteq Keys /\ files \in [DOMAIN files -> FileStates]
  BY <1>2 DEF Selected, BonjourTypeOK
<1>4. neighbours \subseteq Names /\ timers \in [Timers -> {"none", "armed", "fired"}] BY DEF BonjourTypeOK
<1>5. CASE files' = [files EXCEPT ![k].told = TRUE] /\ Bonjour!Goes(k) /\ UNCHANGED timers
  <2> DEFINE file == [files[k] EXCEPT !.told = TRUE]
  <2>1. file \in FileStates /\ file.active = files[k].active /\ file.state = files[k].state BY <1>3 DEF FileStates
  <2>2. files' = [files EXCEPT ![k] = file] BY <1>5
  <2> HIDE DEF file
  <2>3. /\ DOMAIN files' = DOMAIN files /\ DOMAIN files' \subseteq Keys /\ files' \in [DOMAIN files' -> FileStates]
        /\ files'[k] = file /\ \A x \in DOMAIN files : x # k => files'[x] = files[x]
    BY <2>1, <2>2, <1>3, ReplacedFile
  <2>4. Leaves(k, {}) BY <1>5, GoesStep
  <2>5. /\ BonjourTypeOK' /\ Turning' /\ Ending' /\ Selected' /\ Sent'
        /\ \A w : Reported(w) <=> Reported(w)'
        /\ \A name : HasIn(channel', name) <=> HasIn(channel, name)
        /\ Stays' <=> Stays
    BY <2>1, <2>3, <2>4, <1>1, <1>4, <1>5, LeavesStep
  <2>6. Resolved' BY <2>3, <1>1, <1>2, ResolvedBeside
  <2>7. Watching'
    <3>1. \A x \in DOMAIN files : files'[x].state = files[x].state BY <2>1, <2>3
    <3> QED BY <3>1, <2>3, <2>5, <1>1, <1>2, <1>5, WatchingKept
  <2> QED BY <2>5, <2>6, <2>7, <1>1 DEF Serviced
<1>6. CASE Bonjour!Closes(k, files, {k}) /\ Bonjour!RetriesLater("register")
  <2>1. Leaves(k, {k}) /\ files' = Bonjour!Left(files, {k}) BY <1>6, ClosesStep
  <2>2. /\ DOMAIN Bonjour!Left(files, {k}) = DOMAIN files \ {k}
        /\ Bonjour!Left(files, {k}) \in [DOMAIN files \ {k} -> FileStates]
        /\ \A x \in DOMAIN files \ {k} : Bonjour!Left(files, {k})[x] = files[x]
    BY <1>3, LeftFiles
  <2>3. /\ DOMAIN files' = DOMAIN files \ {k} /\ DOMAIN files' \subseteq Keys /\ files' \in [DOMAIN files' -> FileStates]
        /\ \A x \in DOMAIN files' : files'[x] = files[x]
    BY <2>1, <2>2, <1>3
  <2>4. "register" \in Timers BY DEF Timers
  <2>5. /\ timers' \in [Timers -> {"none", "armed", "fired"}]
        /\ timers'["register"] = "armed" \/ HasIn(channel, "register")
        /\ \A w \in Timers : /\ timers'[w] = "fired" => timers[w] = "fired"
                             /\ timers[w] = "armed" => timers'[w] = "armed"
    BY <2>4, <1>2, <1>6, RetriesLaterStep
  <2>6. /\ BonjourTypeOK' /\ Turning' /\ Ending' /\ Selected' /\ Sent'
        /\ \A w : Reported(w) <=> Reported(w)'
        /\ \A name : HasIn(channel', name) <=> HasIn(channel, name)
        /\ Stays' <=> Stays
    BY <2>1, <2>3, <2>5, <1>1, <1>4, LeavesStep
  <2>7. Resolved' BY <2>3, <1>1, <1>2, ResolvedBeside
  <2>8. ASSUME Stays' PROVE Registered' /\ Browsing'
    <3>1. Registered /\ Browsing BY <2>6, <2>8, <1>2 DEF Watching
    <3>2. (Renewed <=> Renewed') /\ (Sought <=> Sought') BY <2>6 DEF Renewed, Sought
    <3>3. timers'["register"] = "armed" \/ HasIn(channel', "register") BY <2>5, <2>6
    <3>4. timers["update"] = "armed" => timers'["update"] = "armed" BY <2>5 DEF Timers
    <3>5. \A t \in Transports : Bonjour!Registration(t) \in DOMAIN files' => t \in Bonjour!Supported \/ Renewed'
      BY <3>1, <3>2, <2>3 DEF Registered
    <3>6. \A x \in DOMAIN files' :
            Bonjour!Kind(x) = "registration" =>
              \/ files'[x].state = settings'.state
              \/ Reported("state")' \/ HasIn(channel', "update") \/ timers'["update"] = "armed"
      BY <3>1, <3>4, <2>3, <2>6 DEF Registered
    <3>7. Bonjour!Supported' = Bonjour!Supported BY DEF Bonjour!Supported
    <3>8. Registered' BY <3>3, <3>5, <3>6, <3>7 DEF Registered, Bonjour!Kind, Bonjour!Registration
    <3>9. \A x \in DOMAIN files : Bonjour!Kind(x) = "discovery" => x \in DOMAIN files' BY <2>3, <1>1
    <3>10. timers["discover"] = "armed" => timers'["discover"] = "armed" BY <2>5 DEF Timers
    <3>11. Browsing' BY <3>1, <3>2, <3>9, <3>10, <1>1, BrowsingKept
    <3> QED BY <3>8, <3>11
  <2>9. Watching' BY <2>8 DEF Watching
  <2> QED BY <2>6, <2>7, <2>9, <1>1 DEF Serviced
<1> QED BY <1>5, <1>6 DEF Bonjour!_register_cb
LEMMA BrowseFailsStep ==
  ASSUME BonjourTypeOK, Turning, Serviced, UNCHANGED <<going, holder, settings, reports, turns, service, there>>,
         lapses' = {}, NEW k \in batch.left, Bonjour!Kind(k) = "discovery", Bonjour!BrowseFails(k)
  PROVE  lapses = {} /\ BonjourTypeOK' /\ Turning' /\ Serviced'
<1> DEFINE gone == {k} \cup Bonjour!FoundBy(k, DOMAIN files)
<1>1. /\ Bonjour!Closes(k, files, gone) /\ lapses' = lapses \cup Bonjour!Ghosts(gone)
      /\ Bonjour!RetriesLater("discover") /\ UNCHANGED neighbours
  BY DEF Bonjour!BrowseFails
<1>2. Ending /\ Selected /\ Sent /\ Watching /\ Resolved BY DEF Serviced
<1>3. k \in DOMAIN files /\ DOMAIN files \subseteq Keys /\ files \in [DOMAIN files -> FileStates]
  BY <1>2 DEF Selected, BonjourTypeOK
<1>4. neighbours \subseteq Names BY DEF BonjourTypeOK
<1>5. lapses = {} /\ \A n \in neighbours : Bonjour!Resolution(n) \in gone => n \in there
  BY <1>1 DEF Bonjour!Ghosts, Bonjour!Lapse
<1>6. \A x : x \in gone => x \in DOMAIN files /\ (x = k \/ Bonjour!Kind(x) = "resolution")
  BY <1>3 DEF Bonjour!FoundBy, Bonjour!OfKind
<1>7. \A n : Bonjour!Resolution(n) \in DOMAIN files => (Bonjour!Resolution(n) \in gone <=> k = BrowseOf(n))
  <2>1. \A n : Bonjour!Kind(Bonjour!Resolution(n)) = "resolution" /\ Bonjour!Resolution(n)[2] = n BY KeyFacts
  <2>2. \A n : Bonjour!Resolution(n) # k BY <2>1
  <2> QED BY <2>1, <2>2 DEF Bonjour!FoundBy, Bonjour!OfKind, BrowseOf
<1>8. k \in gone OBVIOUS
<1> HIDE DEF gone
<1>9. Leaves(k, gone) /\ files' = Bonjour!Left(files, gone) BY <1>1, ClosesStep
<1>10. /\ DOMAIN Bonjour!Left(files, gone) = DOMAIN files \ gone
       /\ Bonjour!Left(files, gone) \in [DOMAIN files \ gone -> FileStates]
       /\ \A x \in DOMAIN files \ gone : Bonjour!Left(files, gone)[x] = files[x]
  BY <1>3, LeftFiles
<1>11. /\ DOMAIN files' = DOMAIN files \ gone /\ DOMAIN files' \subseteq Keys /\ files' \in [DOMAIN files' -> FileStates]
       /\ \A x \in DOMAIN files' : files'[x] = files[x]
  BY <1>3, <1>9, <1>10
<1>12. "discover" \in Timers BY DEF Timers
<1>13. /\ timers' \in [Timers -> {"none", "armed", "fired"}]
       /\ timers'["discover"] = "armed" \/ HasIn(channel, "discover")
       /\ \A w \in Timers : /\ timers'[w] = "fired" => timers[w] = "fired"
                            /\ timers[w] = "armed" => timers'[w] = "armed"
  BY <1>1, <1>2, <1>12, RetriesLaterStep
<1>14. /\ BonjourTypeOK' /\ Turning' /\ Ending' /\ Selected' /\ Sent'
       /\ \A w : Reported(w) <=> Reported(w)'
       /\ \A name : HasIn(channel', name) <=> HasIn(channel, name)
       /\ Stays' <=> Stays
  BY <1>1, <1>4, <1>9, <1>11, <1>13, LeavesStep
<1>15. Resolved'
  <2>1. \A n : BrowseOf(n)' = BrowseOf(n) /\ Bonjour!Resolution(n)' = Bonjour!Resolution(n)
    BY DEF BrowseOf, Bonjour!Discovery, Bonjour!Browsed, Bonjour!Resolution
  <2>2. \A n : Bonjour!Kind(BrowseOf(n)) = "discovery" BY KeyFacts DEF BrowseOf
  <2>3. ASSUME NEW n \in Names, Bonjour!Resolution(n) \in DOMAIN files'
        PROVE  BrowseOf(n) \in DOMAIN files' /\ n \in files'[BrowseOf(n)].seen
    <3>1. Bonjour!Resolution(n) \in DOMAIN files \ gone BY <2>3, <1>11
    <3>2. BrowseOf(n) # k BY <3>1, <1>7
    <3>3. BrowseOf(n) \in DOMAIN files /\ n \in files[BrowseOf(n)].seen BY <3>1, <1>2 DEF Resolved
    <3>4. BrowseOf(n) \notin gone BY <3>2, <2>2, <1>6
    <3> QED BY <3>3, <3>4, <1>11
  <2>4. ASSUME NEW x \in DOMAIN files', NEW n \in files'[x].seen, Bonjour!Kind(x) = "discovery"
        PROVE  x = BrowseOf(n) /\ (Bonjour!Resolution(n) \in DOMAIN files' \/ n \in neighbours')
    <3>1. x \in DOMAIN files /\ x # k /\ n \in files[x].seen BY <2>4, <1>8, <1>11
    <3>2. x = BrowseOf(n) /\ (Bonjour!Resolution(n) \in DOMAIN files \/ n \in neighbours) BY <3>1, <2>4, <1>2 DEF Resolved
    <3> QED BY <3>1, <3>2, <1>1, <1>7, <1>11
  <2>5. \A n \in Names : Bonjour!Resolution(n) \in DOMAIN files' /\ files'[Bonjour!Resolution(n)].told => n \in neighbours'
    BY <1>1, <1>2, <1>11 DEF Resolved
  <2>6. \A n \in neighbours' : Bonjour!Resolution(n) \in DOMAIN files' \/ n \in there' BY <1>1, <1>2, <1>5, <1>11 DEF Resolved
  <2> QED BY <2>1, <2>3, <2>4, <2>5, <2>6 DEF Resolved, Bonjour!Kind
<1>16. ASSUME Stays' PROVE Registered' /\ Browsing'
  <2>1. Registered /\ Browsing BY <1>14, <1>16, <1>2 DEF Watching
  <2>2. (Renewed <=> Renewed') /\ (Sought <=> Sought') BY <1>14 DEF Renewed, Sought
  <2>3. /\ timers["register"] = "armed" => timers'["register"] = "armed"
        /\ timers["update"] = "armed" => timers'["update"] = "armed"
    BY <1>13 DEF Timers
  <2>4. timers'["discover"] = "armed" \/ Sought' BY <1>13, <1>14 DEF Sought
  <2>5. \A x : Bonjour!Kind(x) = "registration" =>
          /\ x \in DOMAIN files' <=> x \in DOMAIN files
          /\ x \in DOMAIN files => files'[x].state = files[x].state
    BY <1>6, <1>11
  <2>6. Registered' BY <2>1, <2>2, <2>3, <2>5, <1>14, RegisteredKept
  <2>7. Bonjour!Supported' = Bonjour!Supported BY DEF Bonjour!Supported
  <2>8. \A n \in neighbours' : TransportOf[n] \in Bonjour!Supported \/ Sought' BY <2>1, <2>2, <1>1 DEF Browsing
  <2>9. Browsing' BY <2>4, <2>7, <2>8 DEF Browsing
  <2> QED BY <2>6, <2>9
<1>17. Watching' BY <1>16 DEF Watching
<1> QED BY <1>5, <1>14, <1>15, <1>17 DEF Serviced
\* nothing changes for the registrations, and the browses stay
LEMMA WatchingBeside ==
  ASSUME Watching, Stays' => Stays, UNCHANGED <<settings, timers>>,
         \A w : Reported(w) <=> Reported(w)', \A name : HasIn(channel', name) <=> HasIn(channel, name),
         \A x : Bonjour!Kind(x) = "registration" =>
           /\ x \in DOMAIN files' <=> x \in DOMAIN files
           /\ x \in DOMAIN files => files'[x].state = files[x].state,
         \A x \in DOMAIN files : Bonjour!Kind(x) = "discovery" => x \in DOMAIN files',
         \A n \in neighbours' : n \in neighbours \/ TransportOf[n] \in Bonjour!Supported
  PROVE  Watching'
<1> SUFFICES ASSUME Registered, Browsing PROVE Registered' /\ Browsing' BY DEF Watching
<1>1. (Renewed <=> Renewed') /\ (Sought <=> Sought') BY DEF Renewed, Sought
<1>2. Registered' BY <1>1, RegisteredKept
<1>3. Bonjour!Supported' = Bonjour!Supported /\ Bonjour!Discoverable' = Bonjour!Discoverable
  BY DEF Bonjour!Supported, Bonjour!Discoverable
<1>4. \A t \in Bonjour!Discoverable : Bonjour!Discovery(t) \in DOMAIN files' \/ Sought' \/ timers'["discover"] = "armed"
  <2>1. \A t : Bonjour!Kind(Bonjour!Discovery(t)) = "discovery" BY DEF Bonjour!Kind, Bonjour!Discovery
  <2> QED BY <2>1, <1>1 DEF Browsing
<1>5. \A n \in neighbours' : TransportOf[n] \in Bonjour!Supported \/ Sought' BY <1>1 DEF Browsing
<1>6. Browsing' BY <1>3, <1>4, <1>5 DEF Browsing, Bonjour!Discovery
<1> QED BY <1>2, <1>6
LEMMA BrowseAddsStep ==
  ASSUME BonjourTypeOK, Turning, Serviced, UNCHANGED <<going, holder, settings, reports, turns, service, there>>,
         lapses' = {}, NEW k \in batch.left, Bonjour!Kind(k) = "discovery", NEW n \in Names, Bonjour!BrowseAdds(k, n)
  PROVE  lapses = {} /\ BonjourTypeOK' /\ Turning' /\ Serviced'
<1> DEFINE file == [files[k] EXCEPT !.seen = files[k].seen \cup {n}]
           seen == [files EXCEPT ![k] = file]
<1>1. Ending /\ Selected /\ Sent /\ Watching /\ Resolved BY DEF Serviced
<1>2. k \in DOMAIN files /\ DOMAIN files \subseteq Keys /\ files \in [DOMAIN files -> FileStates]
  BY <1>1 DEF Selected, BonjourTypeOK
<1>3. /\ n \in Bonjour!NamesOn(k) \cap (there \ files[k].seen) /\ Bonjour!Goes(k) /\ UNCHANGED <<neighbours, timers>>
      /\ files' = Bonjour!Opened(seen, {Bonjour!Resolution(n)}) /\ UNCHANGED lapses
  BY DEF Bonjour!BrowseAdds
<1>4. k = BrowseOf(n) BY <1>3 DEF Bonjour!NamesOn, BrowseOf
<1>5. /\ file \in FileStates /\ file.active = files[k].active /\ file.state = files[k].state
      /\ file.seen = files[k].seen \cup {n}
  BY <1>2 DEF FileStates
<1> HIDE DEF file
<1>6. /\ DOMAIN seen = DOMAIN files /\ DOMAIN seen \subseteq Keys /\ seen \in [DOMAIN seen -> FileStates]
      /\ seen[k] = file /\ \A x \in DOMAIN files : x # k => seen[x] = files[x]
  BY <1>2, <1>5, ReplacedFile
<1> HIDE DEF seen
<1>7. {Bonjour!Resolution(n)} \in SUBSET Keys BY KeyFacts
<1>8. /\ DOMAIN files' = DOMAIN seen \cup {Bonjour!Resolution(n)} /\ DOMAIN files' \subseteq Keys
      /\ files' \in [DOMAIN files' -> FileStates]
      /\ \A x \in DOMAIN seen : files'[x] = seen[x]
      /\ \A x \in {Bonjour!Resolution(n)} \ DOMAIN seen :
           /\ ~files'[x].active /\ ~files'[x].told /\ files'[x].state = settings.state /\ files'[x].seen = {}
  BY <1>3, <1>6, <1>7, OpenedFiles, Zenon
<1>9. /\ DOMAIN files' = DOMAIN files \cup {Bonjour!Resolution(n)}
      /\ files'[k] = file /\ \A x \in DOMAIN files : x # k => files'[x] = files[x]
      /\ Bonjour!Resolution(n) \notin DOMAIN files =>
           ~files'[Bonjour!Resolution(n)].active /\ ~files'[Bonjour!Resolution(n)].told
  BY <1>2, <1>6, <1>8
<1>10. Leaves(k, {}) BY <1>3, GoesStep
<1>11. \A x \in DOMAIN files' : files'[x].active => x \in DOMAIN files /\ files[x].active BY <1>5, <1>9
<1>12. neighbours \subseteq Names /\ timers \in [Timers -> {"none", "armed", "fired"}] BY DEF BonjourTypeOK
<1>13. /\ BonjourTypeOK' /\ Turning' /\ Ending' /\ Selected' /\ Sent'
       /\ \A w : Reported(w) <=> Reported(w)'
       /\ \A name : HasIn(channel', name) <=> HasIn(channel, name)
       /\ Stays' <=> Stays
  BY <1>3, <1>8, <1>9, <1>10, <1>11, <1>12, LeavesStep
<1>14. \A m : Bonjour!Kind(Bonjour!Resolution(m)) = "resolution" /\ Bonjour!Resolution(m)[2] = m BY KeyFacts
<1>15. Resolved'
  <2>1. \A m : BrowseOf(m)' = BrowseOf(m) /\ Bonjour!Resolution(m)' = Bonjour!Resolution(m)
    BY DEF BrowseOf, Bonjour!Discovery, Bonjour!Browsed, Bonjour!Resolution
  <2>2. ASSUME NEW m \in Names, Bonjour!Resolution(m) \in DOMAIN files'
        PROVE  BrowseOf(m) \in DOMAIN files' /\ m \in files'[BrowseOf(m)].seen
    <3>1. CASE m = n BY <3>1, <1>2, <1>4, <1>5, <1>9
    <3>2. CASE m # n
      <4>1. Bonjour!Resolution(m) \in DOMAIN files BY <3>2, <2>2, <1>9, <1>14
      <4>2. BrowseOf(m) \in DOMAIN files /\ m \in files[BrowseOf(m)].seen BY <4>1, <1>1 DEF Resolved
      <4> QED BY <4>2, <1>5, <1>9
    <3> QED BY <3>1, <3>2
  <2>3. ASSUME NEW x \in DOMAIN files', NEW m \in files'[x].seen, Bonjour!Kind(x) = "discovery"
        PROVE  x = BrowseOf(m) /\ (Bonjour!Resolution(m) \in DOMAIN files' \/ m \in neighbours')
    <3>1. x \in DOMAIN files BY <2>3, <1>9, <1>14
    <3>2. CASE m \in files[x].seen BY <3>1, <3>2, <2>3, <1>1, <1>3, <1>9 DEF Resolved
    <3>3. CASE m \notin files[x].seen
      <4>1. x = k /\ m = n BY <3>1, <3>3, <2>3, <1>5, <1>9
      <4> QED BY <4>1, <1>4, <1>9
    <3> QED BY <3>2, <3>3
  <2>4. ASSUME NEW m \in Names, Bonjour!Resolution(m) \in DOMAIN files', files'[Bonjour!Resolution(m)].told
        PROVE  m \in neighbours'
    <3>1. Bonjour!Resolution(m) \in DOMAIN files BY <2>4, <1>9
    <3>2. Bonjour!Resolution(m) # k BY <1>14
    <3> QED BY <3>1, <3>2, <2>4, <1>1, <1>3, <1>9 DEF Resolved
  <2>5. \A m \in neighbours' : Bonjour!Resolution(m) \in DOMAIN files' \/ m \in there' BY <1>1, <1>3, <1>9 DEF Resolved
  <2> QED BY <2>1, <2>2, <2>3, <2>4, <2>5 DEF Resolved, Bonjour!Kind
<1>16. Watching'
  <2>1. \A x : Bonjour!Kind(x) = "registration" =>
          /\ x \in DOMAIN files' <=> x \in DOMAIN files
          /\ x \in DOMAIN files => files'[x].state = files[x].state
    BY <1>5, <1>9, <1>14
  <2> QED BY <2>1, <1>1, <1>3, <1>9, <1>13, WatchingBeside
<1> QED BY <1>3, <1>13, <1>15, <1>16 DEF Serviced
LEMMA BrowseRemovesStep ==
  ASSUME BonjourTypeOK, Turning, Serviced, UNCHANGED <<going, holder, settings, reports, turns, service, there>>,
         NEW k \in batch.left, Bonjour!Kind(k) = "discovery", NEW n \in Names, Bonjour!BrowseRemoves(k, n)
  PROVE  UNCHANGED lapses /\ BonjourTypeOK' /\ Turning' /\ Serviced'
<1> DEFINE file == [files[k] EXCEPT !.seen = files[k].seen \ {n}]
           seen == [files EXCEPT ![k] = file]
           gone == {Bonjour!Resolution(n)} \cap DOMAIN files
<1>1. Ending /\ Selected /\ Sent /\ Watching /\ Resolved BY DEF Serviced
<1>2. k \in DOMAIN files /\ DOMAIN files \subseteq Keys /\ files \in [DOMAIN files -> FileStates]
  BY <1>1 DEF Selected, BonjourTypeOK
<1>3. /\ n \in files[k].seen \ there /\ UNCHANGED <<timers, lapses>> /\ Bonjour!Closes(k, seen, gone)
      /\ neighbours' = IF gone = {} THEN neighbours ELSE neighbours \ {n}
  BY DEF Bonjour!BrowseRemoves
<1>4. k = BrowseOf(n) BY <1>1, <1>2, <1>3 DEF Resolved
<1>5. /\ file \in FileStates /\ file.active = files[k].active /\ file.state = files[k].state
      /\ file.seen = files[k].seen \ {n}
  BY <1>2 DEF FileStates
<1> HIDE DEF file
<1>6. /\ DOMAIN seen = DOMAIN files /\ DOMAIN seen \subseteq Keys /\ seen \in [DOMAIN seen -> FileStates]
      /\ seen[k] = file /\ \A x \in DOMAIN files : x # k => seen[x] = files[x]
  BY <1>2, <1>5, ReplacedFile
<1>7. \A m : Bonjour!Kind(Bonjour!Resolution(m)) = "resolution" /\ Bonjour!Resolution(m)[2] = m BY KeyFacts
<1>8. \A x : x \in gone <=> x = Bonjour!Resolution(n) /\ x \in DOMAIN files OBVIOUS
<1> HIDE DEF seen, gone
<1>9. Leaves(k, gone) /\ files' = Bonjour!Left(seen, gone) BY <1>3, ClosesStep
<1>10. /\ DOMAIN Bonjour!Left(seen, gone) = DOMAIN seen \ gone
       /\ Bonjour!Left(seen, gone) \in [DOMAIN seen \ gone -> FileStates]
       /\ \A x \in DOMAIN seen \ gone : Bonjour!Left(seen, gone)[x] = seen[x]
  BY <1>6, LeftFiles
<1>11. /\ DOMAIN files' = DOMAIN files \ gone /\ DOMAIN files' \subseteq Keys /\ files' \in [DOMAIN files' -> FileStates]
       /\ k \in DOMAIN files' /\ files'[k] = file /\ \A x \in DOMAIN files' : x # k => files'[x] = files[x]
  BY <1>2, <1>6, <1>7, <1>8, <1>9, <1>10
<1>12. \A x \in DOMAIN files' : files'[x].active => x \in DOMAIN files /\ files[x].active /\ x \notin gone BY <1>5, <1>11
<1>13. /\ neighbours \subseteq Names /\ neighbours' \subseteq neighbours /\ timers \in [Timers -> {"none", "armed", "fired"}]
  BY <1>3 DEF BonjourTypeOK
<1>14. /\ BonjourTypeOK' /\ Turning' /\ Ending' /\ Selected' /\ Sent'
       /\ \A w : Reported(w) <=> Reported(w)'
       /\ \A name : HasIn(channel', name) <=> HasIn(channel, name)
       /\ Stays' <=> Stays
  BY <1>3, <1>9, <1>11, <1>12, <1>13, LeavesStep
<1>15. Resolved'
  <2>1. \A m : BrowseOf(m)' = BrowseOf(m) /\ Bonjour!Resolution(m)' = Bonjour!Resolution(m)
    BY DEF BrowseOf, Bonjour!Discovery, Bonjour!Browsed, Bonjour!Resolution
  <2>2. \A m : Bonjour!Kind(BrowseOf(m)) = "discovery" BY KeyFacts DEF BrowseOf
  <2>3. \A m : Bonjour!Resolution(m) \in DOMAIN files' => m # n /\ Bonjour!Resolution(m) \in DOMAIN files BY <1>8, <1>11
  <2>4. \A m : m # n /\ Bonjour!Resolution(m) \in DOMAIN files => Bonjour!Resolution(m) \in DOMAIN files'
    BY <1>7, <1>8, <1>11
  <2>5. \A m : m # n /\ m \in neighbours => m \in neighbours' BY <1>3
  <2>6. ASSUME NEW m \in Names, Bonjour!Resolution(m) \in DOMAIN files'
        PROVE  BrowseOf(m) \in DOMAIN files' /\ m \in files'[BrowseOf(m)].seen
    <3>1. m # n /\ BrowseOf(m) \in DOMAIN files /\ m \in files[BrowseOf(m)].seen BY <2>3, <2>6, <1>1 DEF Resolved
    <3>2. BrowseOf(m) \in DOMAIN files' BY <3>1, <2>2, <1>7, <1>8, <1>11
    <3> QED BY <3>1, <3>2, <1>5, <1>11
  <2>7. ASSUME NEW x \in DOMAIN files', NEW m \in files'[x].seen, Bonjour!Kind(x) = "discovery"
        PROVE  x = BrowseOf(m) /\ (Bonjour!Resolution(m) \in DOMAIN files' \/ m \in neighbours')
    <3>1. x \in DOMAIN files /\ m \in files[x].seen /\ (x = k => m # n) BY <2>7, <1>5, <1>11
    <3>2. x = BrowseOf(m) /\ (Bonjour!Resolution(m) \in DOMAIN files \/ m \in neighbours) BY <3>1, <2>7, <1>1 DEF Resolved
    <3>3. m # n BY <3>1, <3>2, <1>4
    <3> QED BY <3>2, <3>3, <2>4, <2>5
  <2>8. ASSUME NEW m \in Names, Bonjour!Resolution(m) \in DOMAIN files', files'[Bonjour!Resolution(m)].told
        PROVE  m \in neighbours'
    <3>1. m # n /\ Bonjour!Resolution(m) \in DOMAIN files /\ Bonjour!Resolution(m) # k BY <2>3, <2>8, <1>7
    <3> QED BY <3>1, <2>5, <2>8, <1>1, <1>11 DEF Resolved
  <2>9. ASSUME NEW m \in neighbours' PROVE Bonjour!Resolution(m) \in DOMAIN files' \/ m \in there'
    <3>1. m \in neighbours /\ (Bonjour!Resolution(m) \in DOMAIN files \/ m \in there) BY <2>9, <1>1, <1>13 DEF Resolved
    <3>2. CASE m = n
      <4>1. gone = {} BY <3>2, <2>9, <1>3
      <4>2. Bonjour!Resolution(m) \notin DOMAIN files BY <4>1, <3>2, <1>8
      <4> QED BY <4>2, <3>1
    <3>3. CASE m # n BY <3>1, <3>3, <2>4
    <3> QED BY <3>2, <3>3
  <2> QED BY <2>1, <2>6, <2>7, <2>8, <2>9 DEF Resolved, Bonjour!Kind
<1>16. Watching'
  <2>1. \A x : Bonjour!Kind(x) = "registration" =>
          /\ x \in DOMAIN files' <=> x \in DOMAIN files
          /\ x \in DOMAIN files => files'[x].state = files[x].state
    BY <1>5, <1>7, <1>8, <1>11
  <2>2. \A x \in DOMAIN files : Bonjour!Kind(x) = "discovery" => x \in DOMAIN files' BY <1>7, <1>8, <1>11
  <2> QED BY <2>1, <2>2, <1>1, <1>3, <1>13, <1>14, WatchingBeside
<1> QED BY <1>3, <1>14, <1>15, <1>16 DEF Serviced
LEMMA ResolveCallbackStep ==
  ASSUME BonjourTypeOK, Turning, Serviced, UNCHANGED <<going, holder, settings, reports, turns, service, there>>,
         lapses' = {}, NEW k \in batch.left, Bonjour!_resolve_cb(k)
  PROVE  lapses = {} /\ BonjourTypeOK' /\ Turning' /\ Serviced'
<1> DEFINE n == k[2]
<1>1. Bonjour!Kind(k) = "resolution" /\ UNCHANGED timers BY DEF Bonjour!_resolve_cb
<1>2. Ending /\ Selected /\ Sent /\ Watching /\ Resolved BY DEF Serviced
<1>3. k \in DOMAIN files /\ DOMAIN files \subseteq Keys /\ files \in [DOMAIN files -> FileStates]
  BY <1>2 DEF Selected, BonjourTypeOK
<1>4. neighbours \subseteq Names /\ timers \in [Timers -> {"none", "armed", "fired"}] BY DEF BonjourTypeOK
<1>5. n \in Names /\ k = Bonjour!Resolution(n) BY <1>1, <1>3, KeyFacts
<1>6. \A m : Bonjour!Kind(Bonjour!Resolution(m)) = "resolution" /\ Bonjour!Resolution(m)[2] = m BY KeyFacts
<1>7. \A m : Bonjour!Resolution(m) = k => m = n BY <1>6
<1>8. \A m : BrowseOf(m)' = BrowseOf(m) /\ Bonjour!Resolution(m)' = Bonjour!Resolution(m)
  BY DEF BrowseOf, Bonjour!Discovery, Bonjour!Browsed, Bonjour!Resolution
<1>9. \A m : Bonjour!Kind(BrowseOf(m)) = "discovery" BY KeyFacts DEF BrowseOf
<1>10. CASE /\ files' = [files EXCEPT ![k].told = TRUE] /\ Bonjour!Goes(k)
            /\ neighbours' = IF TransportOf[n] \in Bonjour!Supported THEN neighbours \cup {n} ELSE neighbours \ {n}
            /\ lapses' = lapses \cup Bonjour!Lapse("forgotten", TransportOf[n] \notin Bonjour!Supported)
  <2> DEFINE file == [files[k] EXCEPT !.told = TRUE]
  <2>1. lapses = {} /\ TransportOf[n] \in Bonjour!Supported BY <1>10 DEF Bonjour!Lapse
  <2>2. neighbours' = neighbours \cup {n} BY <2>1, <1>10
  <2>3. file \in FileStates /\ file.active = files[k].active /\ file.seen = files[k].seen BY <1>3 DEF FileStates
  <2>4. files' = [files EXCEPT ![k] = file] BY <1>10
  <2> HIDE DEF file, n
  <2>5. /\ DOMAIN files' = DOMAIN files /\ DOMAIN files' \subseteq Keys /\ files' \in [DOMAIN files' -> FileStates]
        /\ files'[k] = file /\ \A x \in DOMAIN files : x # k => files'[x] = files[x]
    BY <2>3, <2>4, <1>3, ReplacedFile
  <2>6. Leaves(k, {}) BY <1>10, GoesStep
  <2>7. \A x \in DOMAIN files' : files'[x].active => x \in DOMAIN files /\ files[x].active BY <2>3, <2>5
  <2>8. /\ BonjourTypeOK' /\ Turning' /\ Ending' /\ Selected' /\ Sent'
        /\ \A w : Reported(w) <=> Reported(w)'
        /\ \A name : HasIn(channel', name) <=> HasIn(channel, name)
        /\ Stays' <=> Stays
    BY <2>2, <2>5, <2>6, <2>7, <1>1, <1>4, <1>5, LeavesStep
  <2>9. Resolved'
    <3>1. \A x \in DOMAIN files : files'[x].seen = files[x].seen BY <2>3, <2>5
    <3>2. \A m \in Names : Bonjour!Resolution(m) \in DOMAIN files' => BrowseOf(m) \in DOMAIN files' /\ m \in files'[BrowseOf(m)].seen
      BY <3>1, <2>5, <1>2 DEF Resolved
    <3>3. \A x \in DOMAIN files' : \A m \in files'[x].seen :
            Bonjour!Kind(x) = "discovery" => x = BrowseOf(m) /\ (Bonjour!Resolution(m) \in DOMAIN files' \/ m \in neighbours')
      BY <3>1, <2>2, <2>5, <1>2 DEF Resolved
    <3>4. \A m \in Names : Bonjour!Resolution(m) \in DOMAIN files' /\ files'[Bonjour!Resolution(m)].told => m \in neighbours'
      BY <2>2, <2>5, <1>2, <1>7 DEF Resolved
    <3>5. \A m \in neighbours' : Bonjour!Resolution(m) \in DOMAIN files' \/ m \in there'
      BY <2>2, <2>5, <1>2, <1>3, <1>5 DEF Resolved
    <3> QED BY <3>2, <3>3, <3>4, <3>5, <1>8 DEF Resolved, Bonjour!Kind
  <2>10. \A x : Bonjour!Kind(x) = "registration" =>
           /\ x \in DOMAIN files' <=> x \in DOMAIN files
           /\ x \in DOMAIN files => files'[x].state = files[x].state
    BY <2>5, <1>1
  <2>11. \A m \in neighbours' : m \in neighbours \/ TransportOf[m] \in Bonjour!Supported BY <2>1, <2>2
  <2>12. Watching' BY <2>5, <2>8, <2>10, <2>11, <1>1, <1>2, WatchingBeside
  <2> QED BY <2>1, <2>8, <2>9, <2>12 DEF Serviced
<1>11. CASE /\ Bonjour!Closes(k, files, {k}) /\ UNCHANGED neighbours
            /\ lapses' = lapses \cup Bonjour!Lapse("unresolved", n \notin neighbours) \cup Bonjour!Ghosts({k})
  <2>1. lapses = {} /\ n \in neighbours /\ n \in there
    BY <1>5, <1>11 DEF Bonjour!Lapse, Bonjour!Ghosts
  <2> HIDE DEF n
  <2>2. Leaves(k, {k}) /\ files' = Bonjour!Left(files, {k}) BY <1>11, ClosesStep
  <2>3. /\ DOMAIN Bonjour!Left(files, {k}) = DOMAIN files \ {k}
        /\ Bonjour!Left(files, {k}) \in [DOMAIN files \ {k} -> FileStates]
        /\ \A x \in DOMAIN files \ {k} : Bonjour!Left(files, {k})[x] = files[x]
    BY <1>3, LeftFiles
  <2>4. /\ DOMAIN files' = DOMAIN files \ {k} /\ DOMAIN files' \subseteq Keys /\ files' \in [DOMAIN files' -> FileStates]
        /\ \A x \in DOMAIN files' : files'[x] = files[x]
    BY <2>2, <2>3, <1>3
  <2>5. /\ BonjourTypeOK' /\ Turning' /\ Ending' /\ Selected' /\ Sent'
        /\ \A w : Reported(w) <=> Reported(w)'
        /\ \A name : HasIn(channel', name) <=> HasIn(channel, name)
        /\ Stays' <=> Stays
    BY <2>2, <2>4, <1>1, <1>4, <1>11, LeavesStep
  <2>6. Resolved'
    <3>1. \A m \in Names : Bonjour!Resolution(m) \in DOMAIN files' => BrowseOf(m) \in DOMAIN files' /\ m \in files'[BrowseOf(m)].seen
      BY <2>4, <1>1, <1>2, <1>9 DEF Resolved
    <3>2. \A x \in DOMAIN files' : \A m \in files'[x].seen :
            Bonjour!Kind(x) = "discovery" => x = BrowseOf(m) /\ (Bonjour!Resolution(m) \in DOMAIN files' \/ m \in neighbours')
      BY <2>1, <2>4, <1>2, <1>7, <1>11 DEF Resolved
    <3>3. \A m \in Names : Bonjour!Resolution(m) \in DOMAIN files' /\ files'[Bonjour!Resolution(m)].told => m \in neighbours'
      BY <2>4, <1>2, <1>11 DEF Resolved
    <3>4. \A m \in neighbours' : Bonjour!Resolution(m) \in DOMAIN files' \/ m \in there'
      BY <2>1, <2>4, <1>2, <1>7, <1>11 DEF Resolved
    <3> QED BY <3>1, <3>2, <3>3, <3>4, <1>8 DEF Resolved, Bonjour!Kind
  <2>7. \A x : Bonjour!Kind(x) = "registration" =>
          /\ x \in DOMAIN files' <=> x \in DOMAIN files
          /\ x \in DOMAIN files => files'[x].state = files[x].state
    BY <2>4, <1>1
  <2>8. \A x \in DOMAIN files : Bonjour!Kind(x) = "discovery" => x \in DOMAIN files' BY <2>4, <1>1
  <2>9. Watching' BY <2>5, <2>7, <2>8, <1>1, <1>2, <1>11, WatchingBeside
  <2> QED BY <2>1, <2>5, <2>6, <2>9 DEF Serviced
<1> QED BY <1>10, <1>11 DEF Bonjour!_resolve_cb
LEMMA ToldStep ==
  ASSUME BonjourTypeOK, Turning, Serviced, UNCHANGED <<going, holder, settings, reports, turns, service, there>>,
         NEW k \in batch.left, Bonjour!Goes(k), UNCHANGED <<files, neighbours, timers>>
  PROVE  BonjourTypeOK' /\ Turning' /\ Serviced'
<1>1. Ending /\ Selected /\ Sent /\ Watching /\ Resolved BY DEF Serviced
<1>2. Leaves(k, {}) BY GoesStep
<1>3. /\ DOMAIN files \subseteq Keys /\ files \in [DOMAIN files -> FileStates] /\ neighbours \subseteq Names
      /\ timers \in [Timers -> {"none", "armed", "fired"}]
  BY DEF BonjourTypeOK
<1>4. /\ BonjourTypeOK' /\ Turning' /\ Ending' /\ Selected' /\ Sent'
      /\ \A w : Reported(w) <=> Reported(w)'
      /\ \A name : HasIn(channel', name) <=> HasIn(channel, name)
      /\ Stays' <=> Stays
  BY <1>2, <1>3, LeavesStep
<1>5. Watching' BY <1>1, <1>4, WatchingBeside
<1>6. Resolved' BY <1>1, ResolvedKept
<1> QED BY <1>4, <1>5, <1>6 DEF Serviced
LEMMA ProcessesStep ==
  ASSUME BonjourTypeOK, Turning, Serviced, lapses' = {}, Bonjour!Processes
  PROVE  lapses = {} /\ BonjourTypeOK' /\ Turning' /\ Serviced'
<1>1. UNCHANGED <<going, holder, settings, reports, turns, service, there>> BY DEF Bonjour!Processes
<1>2. PICK k \in batch.left : Bonjour!_register_cb(k) \/ Bonjour!_browse_cb(k) \/ Bonjour!_resolve_cb(k)
  BY DEF Bonjour!Processes
<1>3. CASE Bonjour!_register_cb(k) BY <1>1, <1>3, RegisterCallbackStep
<1>4. CASE Bonjour!_browse_cb(k)
  <2>1. Bonjour!Kind(k) = "discovery" BY <1>4 DEF Bonjour!_browse_cb
  <2>2. CASE Bonjour!BrowseFails(k) BY <2>1, <2>2, <1>1, BrowseFailsStep
  <2>3. CASE \E n \in Names : Bonjour!BrowseAdds(k, n) \/ Bonjour!BrowseRemoves(k, n)
    <3>1. PICK n \in Names : Bonjour!BrowseAdds(k, n) \/ Bonjour!BrowseRemoves(k, n) BY <2>3
    <3>2. CASE Bonjour!BrowseAdds(k, n) BY <3>2, <2>1, <1>1, BrowseAddsStep
    <3>3. CASE Bonjour!BrowseRemoves(k, n) BY <3>3, <2>1, <1>1, BrowseRemovesStep
    <3> QED BY <3>1, <3>2, <3>3
  <2>4. CASE Bonjour!Goes(k) /\ UNCHANGED <<act, files, neighbours, timers, lapses>> BY <2>4, <1>1, ToldStep
  <2> QED BY <2>2, <2>3, <2>4, <1>4 DEF Bonjour!_browse_cb
<1>5. CASE Bonjour!_resolve_cb(k) BY <1>1, <1>5, ResolveCallbackStep
<1> QED BY <1>2, <1>3, <1>4, <1>5

-----------------------------------------------------------------------------
\* How it begins, what a step keeps, and what it says of an account at rest.
LEMMA BonjourStarts == ASSUME Bonjour!BonjourInit PROVE BonjourInv
<1>1. /\ going = FALSE /\ holder = [alive |-> FALSE, locked |-> FALSE, leaving |-> FALSE]
      /\ service = [started |-> FALSE, returning |-> "no"]
      /\ reports = <<>> /\ turns = <<>> /\ channel = <<>> /\ batch = Bonjour!NoBatch
      /\ files = [k \in {} |-> Bonjour!NewFile] /\ neighbours = {} /\ there \in SUBSET Names
      /\ timers = [what \in {"register", "discover", "update"} |-> "none"]
  BY DEF Bonjour!BonjourInit
<1>2. /\ DOMAIN files = {} /\ files \in [DOMAIN files -> FileStates] BY <1>1
<1>3. BonjourTypeOK
  <2>1. settings \in [enabled : BOOLEAN, listed : Lists, certified : BOOLEAN, state : {0, 1}] BY DEF Bonjour!BonjourInit
  <2>2. batch \in [on : BOOLEAN, files : SUBSET Keys, left : SUBSET Keys] BY <1>1 DEF Bonjour!NoBatch
  <2>3. timers \in [Timers -> {"none", "armed", "fired"}] BY <1>1 DEF Timers
  <2>4. reports \in Seq({"enabled", "transports", "state"}) /\ turns \in Seq({"activate", "deactivate", "stop"})
        /\ channel \in Seq(Commands)
    BY <1>1
  <2>5. /\ holder \in [alive : BOOLEAN, locked : BOOLEAN, leaving : BOOLEAN]
        /\ service \in [started : BOOLEAN, returning : {"no", "ready", "due"}]
    BY <1>1
  <2> QED BY <2>1, <2>2, <2>3, <2>4, <2>5, <1>1, <1>2 DEF BonjourTypeOK
<1>4. Turning BY <1>1 DEF Turning, StopTurn, LastTurn
<1>5. NothingLeft BY <1>1, <1>2 DEF NothingLeft, Timers, Bonjour!NoBatch
<1>6. OneStop(channel) /\ Followed(channel) /\ (\A name : ~HasIn(channel, name)) /\ \A keys : KeptIn(channel, keys)
  BY <1>1 DEF OneStop, Followed, HasIn, KeptIn
<1>7. Ending BY <1>1, <1>5, <1>6 DEF Ending
<1>8. Selected BY <1>1, <1>2, <1>6 DEF Selected, Bonjour!NoBatch
<1>9. Sent BY <1>1, <1>6 DEF Sent, Timers
<1>10. Watching BY <1>1 DEF Watching, Stays
<1>11. Resolved BY <1>5, NothingResolved
<1>12. Heard BY <1>3 DEF Heard, BonjourTypeOK
<1> QED BY <1>3, <1>4, <1>7, <1>8, <1>9, <1>10, <1>11, <1>12 DEF BonjourInv
LEMMA LapsesStay == ASSUME Heard, Bonjour!BonjourNext PROVE Heard' /\ lapses \subseteq lapses'
<1>1. Heard'
  <2>1. CASE UNCHANGED reports BY <2>1 DEF Heard
  <2>2. CASE Bonjour!SettingChanges
    <3>1. \E what \in {"enabled", "transports", "state"} : reports' = Append(reports, what)
      BY <2>2 DEF Bonjour!SettingChanges
    <3> QED BY <3>1 DEF Heard
  <2>3. CASE Bonjour!SettingDidChange
    <3>1. reports # <<>> /\ reports' = Tail(reports) BY <2>3 DEF Bonjour!SettingDidChange
    <3> QED BY <3>1 DEF Heard
  <2>4. UNCHANGED reports \/ Bonjour!SettingChanges \/ Bonjour!SettingDidChange
    BY DEF Bonjour!BonjourNext, Bonjour!BonjourHandles, Bonjour!DeactivateReturns, Bonjour!TakesTurn,
       Bonjour!TimerFires, Bonjour!TakesBonjourCommand, Bonjour!Selects, Bonjour!Processes, Bonjour!Processed,
       Bonjour!BonjourStart, Bonjour!BonjourStop, Bonjour!NetworkDidChange, Bonjour!OthersMove
  <2> QED BY <2>1, <2>2, <2>3, <2>4
<1>2. ASSUME Bonjour!BonjourHandles PROVE lapses \subseteq lapses'
  <2>1. ASSUME Bonjour!TakesBonjourCommand PROVE lapses \subseteq lapses'
    <3>1. CASE service.started
      BY <2>1, <3>1 DEF Bonjour!TakesBonjourCommand, Bonjour!Handles, Bonjour!_CH_register, Bonjour!_CH_unregister,
         Bonjour!_CH_update_registrations, Bonjour!_CH_discover, Bonjour!_CH_stop, Bonjour!_CH_process_results
    <3>2. CASE ~service.started BY <2>1, <3>2 DEF Bonjour!TakesBonjourCommand
    <3> QED BY <3>1, <3>2
  <2>2. ASSUME Bonjour!Processes PROVE lapses \subseteq lapses'
    BY <2>2 DEF Bonjour!Processes, Bonjour!_register_cb, Bonjour!_browse_cb, Bonjour!_resolve_cb, Bonjour!BrowseFails,
       Bonjour!BrowseAdds, Bonjour!BrowseRemoves
  <2>3. ASSUME Bonjour!SettingDidChange PROVE lapses \subseteq lapses'
    <3>1. \A op : Bonjour!Enters(op) => UNCHANGED lapses BY DEF Bonjour!Enters
    <3>2. CASE Head(reports) = "enabled" BY <2>3, <3>1, <3>2 DEF Bonjour!SettingDidChange, Bonjour!accountKept
    <3>3. CASE Head(reports) = "transports" BY <2>3, <3>3 DEF Bonjour!SettingDidChange
    <3>4. CASE Head(reports) = "state" BY <2>3, <3>4 DEF Bonjour!SettingDidChange, Bonjour!accountKept
    <3>5. reports # <<>> BY <2>3 DEF Bonjour!SettingDidChange
    <3>6. Head(reports) \in {"enabled", "transports", "state"} BY <3>5, EmptySeq DEF Heard
    <3> QED BY <3>2, <3>3, <3>4, <3>6
  <2> QED BY <1>2, <2>1, <2>2, <2>3 DEF Bonjour!BonjourHandles, Bonjour!DeactivateReturns, Bonjour!TakesTurn,
             Bonjour!TimerFires, Bonjour!Selects, Bonjour!Processed, Bonjour!accountKept
<1> QED BY <1>1, <1>2 DEF Bonjour!BonjourNext, Bonjour!BonjourStart, Bonjour!BonjourStop, Bonjour!SettingChanges,
           Bonjour!NetworkDidChange, Bonjour!OthersMove, Bonjour!Enters, Bonjour!accountKept
LEMMA BonjourKept == ASSUME BonjourInv, Bonjour!BonjourNext PROVE BonjourInv'
<1>1. Heard' /\ lapses \subseteq lapses' BY LapsesStay DEF BonjourInv
<1> SUFFICES ASSUME lapses' = {} PROVE BonjourTypeOK' /\ Turning' /\ Serviced'
  BY <1>1 DEF BonjourInv, Serviced
<1>2. BonjourTypeOK /\ Turning /\ Serviced BY <1>1 DEF BonjourInv, Serviced
<1>3. CASE Bonjour!BonjourHandles
  <2>1. CASE Bonjour!DeactivateReturns BY <2>1, <1>2, DeactivateReturnsStep
  <2>2. CASE Bonjour!TakesTurn BY <2>2, <1>2, TakesTurnStep
  <2>3. CASE Bonjour!SettingDidChange BY <2>3, <1>2, SettingDidChangeStep
  <2>4. CASE Bonjour!TimerFires BY <2>4, <1>2, TimerFiresStep
  <2>5. CASE Bonjour!TakesBonjourCommand BY <2>5, <1>2, TakesBonjourCommandStep
  <2>6. CASE Bonjour!Selects BY <2>6, <1>2, SelectsStep
  <2>7. CASE Bonjour!Processes BY <2>7, <1>2, ProcessesStep
  <2>8. CASE Bonjour!Processed BY <2>8, <1>2, ProcessedStep
  <2> QED BY <1>3, <2>1, <2>2, <2>3, <2>4, <2>5, <2>6, <2>7, <2>8 DEF Bonjour!BonjourHandles
<1>4. CASE Bonjour!BonjourStart BY <1>4, <1>2, BonjourStartStep
<1>5. CASE Bonjour!BonjourStop BY <1>5, <1>2, BonjourStopStep
<1>6. CASE Bonjour!SettingChanges BY <1>6, <1>2, SettingChangesStep
<1>7. CASE Bonjour!NetworkDidChange BY <1>7, <1>2, NetworkDidChangeStep
<1>8. CASE Bonjour!OthersMove BY <1>8, <1>2, OthersMoveStep
<1> QED BY <1>3, <1>4, <1>5, <1>6, <1>7, <1>8 DEF Bonjour!BonjourNext
LEMMA BonjourSame == ASSUME BonjourInv, UNCHANGED theBonjourVars PROVE BonjourInv'
<1>1. UNCHANGED <<act, going, holder, settings, reports, turns, service, channel, batch, files, neighbours, timers,
                  there, lapses>>
  BY DEF theBonjourVars
<1>2. Heard' BY <1>1 DEF BonjourInv, Heard
<1> SUFFICES ASSUME lapses' = {} PROVE BonjourTypeOK' /\ Turning' /\ Serviced'
  BY <1>2 DEF BonjourInv, Serviced
<1>3. BonjourTypeOK /\ Turning /\ Ending /\ Selected /\ Sent /\ Watching /\ Resolved BY <1>1 DEF BonjourInv
<1>4. BonjourTypeOK' BY <1>1, <1>3 DEF BonjourTypeOK
<1>5. \A w : Reported(w) <=> Reported(w)' BY <1>1 DEF Reported
<1>6. Turning' BY <1>1, <1>3, <1>5, TurningKept
<1>7. Ending' /\ Selected' /\ Sent' BY <1>1, <1>3 DEF Ending, NothingLeft, Selected, Sent
<1>8. Stays' => Stays BY <1>1 DEF Stays, StopTurn
<1>9. Watching' BY <1>1, <1>3, <1>5, <1>8, WatchingBeside
<1>10. Resolved' BY <1>1, <1>3, ResolvedKept
<1> QED BY <1>4, <1>6, <1>7, <1>9, <1>10 DEF Serviced

LEMMA NeighboursAtRest == ASSUME BonjourInv PROVE Bonjour!ThereAsSet
<1> SUFFICES ASSUME Bonjour!BonjourQuiet, lapses = {}
             PROVE  /\ holder.alive = (going /\ settings.enabled)
                    /\ {k[2] : k \in Bonjour!OfKind("registration", DOMAIN files)} = IF holder.alive THEN Bonjour!Supported ELSE {}
                    /\ \A k \in Bonjour!OfKind("registration", DOMAIN files) : files[k].state = settings.state
                    /\ neighbours = IF holder.alive THEN {n \in there : TransportOf[n] \in Bonjour!Supported} ELSE {}
                    /\ ~holder.alive => DOMAIN files = {}
  BY DEF Bonjour!ThereAsSet
<1>1. BonjourTypeOK /\ Turning /\ Ending /\ Selected /\ Sent /\ Watching /\ Resolved BY DEF BonjourInv
<1>2. /\ reports = <<>> /\ turns = <<>> /\ ~holder.locked /\ (channel = <<>> \/ ~Bonjour!Serving) /\ batch = Bonjour!NoBatch
      /\ \A what \in DOMAIN timers : timers[what] # "armed"
      /\ Bonjour!Serving => \A k \in DOMAIN files : Bonjour!Told(k) \/ files[k].active
  BY DEF Bonjour!BonjourQuiet
<1>3. (\A w : ~Reported(w)) /\ ~StopTurn BY <1>2 DEF Reported, StopTurn
<1>4. holder.alive <=> going /\ settings.enabled BY <1>1, <1>2, <1>3 DEF Turning, LastTurn
<1>5. holder.alive \in BOOLEAN /\ going \in BOOLEAN /\ settings.enabled \in BOOLEAN BY <1>1 DEF BonjourTypeOK
<1>6. holder.alive = (going /\ settings.enabled)
  <2>1. CASE going /\ settings.enabled BY <2>1, <1>4, <1>5
  <2>2. CASE ~(going /\ settings.enabled) BY <2>2, <1>4, <1>5
  <2> QED BY <2>1, <2>2
<1>7. \A k : k \in Bonjour!OfKind("registration", DOMAIN files) <=> k \in DOMAIN files /\ Bonjour!Kind(k) = "registration"
  BY DEF Bonjour!OfKind
<1>8. CASE ~holder.alive
  <2>1. DOMAIN files = {} /\ neighbours = {} BY <1>1, <1>2, <1>8 DEF Ending, NothingLeft
  <2>2. Bonjour!OfKind("registration", DOMAIN files) = {} BY <2>1, <1>7
  <2> QED BY <2>1, <2>2, <1>6, <1>8
<1>9. CASE holder.alive
  <2>1. channel = <<>> /\ \A k \in DOMAIN files : Bonjour!Told(k) \/ files[k].active
    BY <1>2, <1>4, <1>9 DEF Bonjour!Serving
  <2>2. (\A name : ~HasIn(channel, name)) /\ \A k : ~HeldIn(channel, k) BY <2>1 DEF HasIn, HeldIn
  <2>3. \A k \in DOMAIN files : Bonjour!Told(k)
    <3>1. batch.files = {} BY <1>2 DEF Bonjour!NoBatch
    <3> QED BY <3>1, <2>1, <2>2, <1>1 DEF Selected
  <2>4. Registered /\ Browsing BY <1>1, <1>3, <1>9 DEF Watching, Stays
  <2>5. timers["register"] # "armed" /\ timers["discover"] # "armed" /\ timers["update"] # "armed"
    BY <1>1, <1>2 DEF BonjourTypeOK, Timers
  <2>6. ~Renewed /\ ~Sought BY <2>2, <1>3 DEF Renewed, Sought
  <2>7. {k[2] : k \in Bonjour!OfKind("registration", DOMAIN files)} = Bonjour!Supported
    <3>1. ASSUME NEW k \in Bonjour!OfKind("registration", DOMAIN files) PROVE k[2] \in Bonjour!Supported
      <4>1. k \in DOMAIN files /\ Bonjour!Kind(k) = "registration" /\ k \in Keys BY <3>1, <1>1, <1>7 DEF BonjourTypeOK
      <4>2. k[2] \in Transports /\ k = Bonjour!Registration(k[2]) BY <4>1, <1>1, KeyFacts
      <4>3. Bonjour!Registration(k[2]) \in DOMAIN files BY <4>1, <4>2
      <4> QED BY <4>2, <4>3, <2>4, <2>6 DEF Registered
    <3>2. ASSUME NEW t \in Bonjour!Supported
          PROVE  \E k \in Bonjour!OfKind("registration", DOMAIN files) : k[2] = t
      <4>1. Bonjour!Registration(t) \in DOMAIN files BY <2>2, <2>4, <2>5, <2>6 DEF Registered
      <4>2. Bonjour!Kind(Bonjour!Registration(t)) = "registration" /\ Bonjour!Registration(t)[2] = t BY <1>1, KeyFacts
      <4> QED BY <4>1, <4>2, <1>7
    <3> QED BY <3>1, <3>2
  <2>8. \A k \in Bonjour!OfKind("registration", DOMAIN files) : files[k].state = settings.state
    BY <2>2, <2>4, <2>5, <1>3, <1>7 DEF Registered
  <2>9. \A k \in DOMAIN files : Bonjour!Kind(k) = "discovery" => files[k].seen = there \cap Bonjour!NamesOn(k)
    BY <2>3 DEF Bonjour!Told
  <2>10. \A n \in Names : Bonjour!Resolution(n) \in DOMAIN files => files[Bonjour!Resolution(n)].told
    <3> SUFFICES ASSUME NEW n \in Names, Bonjour!Resolution(n) \in DOMAIN files PROVE files[Bonjour!Resolution(n)].told
      OBVIOUS
    <3>1. Bonjour!Kind(Bonjour!Resolution(n)) # "discovery" BY <1>1, KeyFacts
    <3> QED BY <3>1, <2>3 DEF Bonjour!Told
  <2>11. \A n : Bonjour!Kind(BrowseOf(n)) = "discovery" BY <1>1, KeyFacts DEF BrowseOf
  <2>12. ASSUME NEW n \in neighbours PROVE n \in there /\ TransportOf[n] \in Bonjour!Supported
    <3>1. TransportOf[n] \in Bonjour!Supported BY <2>4, <2>6 DEF Browsing
    <3>2. CASE Bonjour!Resolution(n) \in DOMAIN files
      <4>1. n \in Names BY <1>1 DEF BonjourTypeOK
      <4>2. BrowseOf(n) \in DOMAIN files /\ n \in files[BrowseOf(n)].seen BY <4>1, <3>2, <1>1 DEF Resolved
      <4> QED BY <4>2, <3>1, <2>9, <2>11
    <3>3. CASE Bonjour!Resolution(n) \notin DOMAIN files BY <3>1, <3>3, <1>1 DEF Resolved
    <3> QED BY <3>2, <3>3
  <2>13. ASSUME NEW n \in there, TransportOf[n] \in Bonjour!Supported PROVE n \in neighbours
    <3>1. n \in Names BY <1>1 DEF BonjourTypeOK
    <3>2. Bonjour!Browsed(TransportOf[n]) \in Bonjour!Discoverable BY <2>13 DEF Bonjour!Discoverable
    <3>3. BrowseOf(n) \in DOMAIN files BY <3>2, <2>4, <2>5, <2>6 DEF Browsing, BrowseOf
    <3>4. n \in Bonjour!NamesOn(BrowseOf(n)) BY <3>1 DEF Bonjour!NamesOn, BrowseOf
    <3>5. n \in files[BrowseOf(n)].seen BY <3>3, <3>4, <2>9, <2>11
    <3>6. Bonjour!Resolution(n) \in DOMAIN files \/ n \in neighbours BY <3>3, <3>5, <2>11, <1>1 DEF Resolved
    <3> QED BY <3>1, <3>6, <2>10, <1>1 DEF Resolved
  <2>14. neighbours = {n \in there : TransportOf[n] \in Bonjour!Supported} BY <2>12, <2>13
  <2> QED BY <2>7, <2>8, <2>14, <1>6, <1>9
<1> QED BY <1>8, <1>9

-----------------------------------------------------------------------------
\* Whoever else has a part in the behaviour, the accounts do what they do by themselves.
LEMMA HandlersTakePart == Spec => HandlersSpec
<1>1. Init => HandlersInit BY DEF Init
<1>2. [Next]_vars => [HandlersNext]_handlersVars
  BY DEF Next, AccountsNext, vars
<1> QED BY <1>1, <1>2, PTL DEF Spec, HandlersSpec
LEMMA SceneStays == ASSUME AccountInv, [Next]_vars PROVE scene'.kind = scene.kind
<1>1. CASE HandlersNext
  BY <1>1, PublisherSteps, SubscriberSteps, AccountKeepsKind DEF HandlersNext, HandlerStep, SameKind
<1>2. CASE UNCHANGED handlersVars BY <1>2 DEF handlersVars
<1> QED BY <1>1, <1>2 DEF Next, AccountsNext, vars
\* While something is under way the Bonjour account, its service, its commands, its files and its neighbours
\* are as far as the calls, the reports, the commands and the timers that are still to come will bring them
\* (BonjourAccount, BonjourServices).
BonjourInStep == scene.kind = "bonjour" => BonjourInv
THEOREM BonjourAlwaysInStep == Spec => []BonjourInStep
<1>1. Init => BonjourInStep BY BonjourStarts DEF Init, BonjourInStep
<1>2. BonjourInStep /\ AccountInv /\ [Next]_vars => BonjourInStep'
  <2> SUFFICES ASSUME BonjourInStep, AccountInv, [Next]_vars, scene'.kind = "bonjour" PROVE BonjourInv'
    BY DEF BonjourInStep
  <2>1. BonjourInv BY SceneStays DEF BonjourInStep
  <2>2. CASE UNCHANGED theBonjourVars BY <2>1, <2>2, BonjourSame
  <2>3. CASE Bonjour!BonjourNext BY <2>1, <2>3, BonjourKept
  <2> QED BY <2>2, <2>3 DEF Next, vars
<1> QED BY <1>1, <1>2, HandlersTakePart, AccountInStep, PTL DEF Spec
\* Whatever is changed, withdrawn, restarted or lost, when nothing is under way any more the active Bonjour
\* account is registered under the transports it supports, with its state, and shows exactly the others that
\* are there; one that is not active shows and leaves nothing.
THEOREM NeighboursAlwaysAsThere == Spec => []NeighboursAsThere
<1>1. BonjourInStep => NeighboursAsThere BY NeighboursAtRest DEF BonjourInStep, NeighboursAsThere
<1> QED BY <1>1, BonjourAlwaysInStep, PTL
=============================================================================
