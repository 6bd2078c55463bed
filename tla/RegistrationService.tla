------------------------ MODULE RegistrationService ------------------------
(***************************************************************************)
(* What a Registration object promises to the one who uses it, without the *)
(* requests it is made of: at most one call is pending, each notification  *)
(* that reaches the observer answers the pending call or reports on the    *)
(* binding, and a binding that was reported ends exactly once.             *)
(***************************************************************************)
EXTENDS Sequences

CONSTANTS Registrations, Codes, NoCode

VARIABLES
    bound,     \* [Registrations -> is there a binding (is_registered)?]
    pending,   \* [Registrations -> the call that has not been answered]
    watched,   \* the objects somebody observes
    outbox     \* notifications the observers have not handled yet

vars == <<bound, pending, watched, outbox>>

Pending == {"none", "register", "end"}

TypeOK == /\ bound \in [Registrations -> BOOLEAN]
          /\ pending \in [Registrations -> Pending]
          /\ watched \subseteq Registrations

Init == /\ bound = [g \in Registrations |-> FALSE]
        /\ pending = [g \in Registrations |-> "none"]
        /\ watched \subseteq Registrations
        /\ outbox = <<>>

\* Notifications reach the outbox while somebody observes the object.
Tell(g, n, c) ==
    outbox' = IF g \in watched
              THEN Append(outbox, [name |-> n, obj |-> g, code |-> c])
              ELSE outbox

Watch == /\ watched' \subseteq Registrations
         /\ UNCHANGED <<bound, pending, outbox>>

\* A call replaces the pending one, which is not answered any more.
Register(g) == /\ pending' = [pending EXCEPT ![g] = "register"]
               /\ UNCHANGED <<bound, watched, outbox>>

End(g) == /\ bound[g]
          /\ pending' = [pending EXCEPT ![g] = "end"]
          /\ UNCHANGED <<bound, watched, outbox>>

\* A call that fails at once may have withdrawn the pending one.
Withdraw(g) == /\ pending' = [pending EXCEPT ![g] = "none"]
               /\ UNCHANGED <<bound, watched, outbox>>

Registered(g) ==
    /\ pending[g] = "register"
    /\ bound' = [bound EXCEPT ![g] = TRUE]
    /\ pending' = [pending EXCEPT ![g] = "none"]
    /\ Tell(g, "SIPRegistrationDidSucceed", NoCode)
    /\ UNCHANGED watched

Refused(g) ==
    /\ pending[g] = "register"
    /\ pending' = [pending EXCEPT ![g] = "none"]
    /\ \E c \in Codes : Tell(g, "SIPRegistrationDidFail", c)
    /\ UNCHANGED <<bound, watched>>

NotEnded(g) ==
    /\ pending[g] = "end"
    /\ pending' = [pending EXCEPT ![g] = "none"]
    /\ \E c \in Codes : Tell(g, "SIPRegistrationDidNotEnd", c)
    /\ UNCHANGED <<bound, watched>>

\* The binding ends: it was ended, or it expired and took the pending call
\* with it.  Either way the observer learns it once.
Ended(g) ==
    /\ bound[g]
    /\ bound' = [bound EXCEPT ![g] = FALSE]
    /\ pending' = [pending EXCEPT ![g] = "none"]
    /\ Tell(g, "SIPRegistrationDidEnd", NoCode)
    /\ UNCHANGED watched

Expiring(g) ==
    /\ bound[g]
    /\ Tell(g, "SIPRegistrationWillExpire", NoCode)
    /\ UNCHANGED <<bound, pending, watched>>

Deliver == /\ outbox # <<>>
           /\ outbox' = Tail(outbox)
           /\ UNCHANGED <<bound, pending, watched>>

Next == \/ Deliver \/ Watch
        \/ \E g \in Registrations :
              \/ Register(g) \/ End(g) \/ Withdraw(g) \/ Registered(g)
              \/ Refused(g) \/ NotEnded(g) \/ Ended(g) \/ Expiring(g)

Spec == Init /\ [][Next]_vars

=============================================================================
