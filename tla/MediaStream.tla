----------------------------- MODULE MediaStream -----------------------------
(***************************************************************************)
(* What a session relies on in a media stream (the IMediaStream interface  *)
(* and the notifications it waits for): an initialize() has one outcome,   *)
(* a start() as well, nothing starts that was not asked to, and what has   *)
(* failed does not come back.  After deactivate() the session does not     *)
(* listen any more.                                                        *)
(***************************************************************************)
VARIABLE life

Init == life = "new"

Becomes(from, to) == life \in from /\ life' = to

\* initialize() may fail before it returns, and start() may succeed before it does
Initialize     == Becomes({"new"}, "init") \/ Becomes({"new"}, "failed")
Initialized    == Becomes({"init"}, "ready")
NotInitialized == Becomes({"init"}, "failed")
Start          == Becomes({"ready"}, "starting") \/ Becomes({"ready"}, "on")
Started        == Becomes({"starting"}, "on")
Fails          == Becomes({"starting", "on"}, "failed")
Deactivate     == Becomes({"init", "ready", "starting", "on", "failed"}, "leaving")
End            == Becomes({"leaving"}, "over")

Next == \/ Initialize \/ Initialized \/ NotInitialized \/ Start \/ Started
        \/ Fails \/ Deactivate \/ End

Spec == Init /\ [][Next]_life
=============================================================================
