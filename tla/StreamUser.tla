----------------------------- MODULE StreamUser -----------------------------
(***************************************************************************)
(* The session's side of a media stream: the calls it makes, in the order  *)
(* in which Session makes them, and what it notes of the notifications.    *)
(***************************************************************************)
EXTENDS Naturals, Sequences

VARIABLES
  kind,    \* the stream that this behaviour is about
  life,    \* what the session knows of it
  told,    \* the notifications MediaStream... that it has posted
  slips    \* ways of losing something that this behaviour took (see the README)

userVars == <<kind, life, told, slips>>

UserInit == life = "new" /\ told = {} /\ slips = {}

Over == life \in {"leaving", "over"}

\* MediaStream<n> is posted, and the session takes note of it as long as it listens
Tell(n) ==
  /\ told' = told \cup {n}
  /\ life' = IF Over THEN life
             ELSE CASE n = "DidInitialize" -> "ready"
                    [] n = "DidStart" -> "on"
                    [] n \in {"DidNotInitialize", "DidFail"} -> "failed"
                    [] OTHER -> life
  /\ UNCHANGED kind
Silent == UNCHANGED <<kind, life, told>>

\* stream.initialize(), stream.start(), stream.deactivate() and stream.end()
Calls(from, to) == life \in from /\ life' = to /\ UNCHANGED <<kind, told, slips>>
CallInitialize == Calls({"new"}, "init")
CallStart      == Calls({"ready"}, "starting")
CallDeactivate == Calls({"init", "ready", "starting", "on", "failed"}, "leaving")
CallEnd        == Calls({"leaving"}, "over")

\* The stream behaves as the session relies on.
Contract == INSTANCE MediaStream
ImplementsMediaStream == Contract!Spec
=============================================================================
