----------------------------- MODULE WavePlayer -----------------------------
(***************************************************************************)
(* WavePlayer: a green thread that plays a file some times over, with      *)
(* pauses, at the commands in a channel of its own for each play().  The   *)
(* engine tells on its thread that the file has been played; the handler   *)
(* runs later on the reactor, and sends to whatever channel there is then. *)
(***************************************************************************)
EXTENDS Naturals, Sequences

CONSTANTS MaxPlays,     \* bound: calls of play()
          MaxLoops      \* bound: times the file is played in a play()

VARIABLES tune, slipped
playerVars == <<tune, slipped>>

\* of the play that is on: loops asked for, times the file was played to its end, what was told,
\* whether a stop was asked for; and the handlers that are on their way to the reactor, by play
PlayerInit ==
  /\ slipped = {}
  /\ tune = [state |-> "stopped", plays |-> 0, loops |-> 1, current |-> 0, delay |-> FALSE,
             channel |-> <<>>, timers |-> {}, file |-> "none", calls |-> <<>>,
             played |-> 0, told |-> {}, stop |-> FALSE, failed |-> FALSE]

Sends(t, command) == [t EXCEPT !.channel = Append(@, command)]
\* callLater keeps the channel of its play
Later(t) == [t EXCEPT !.timers = @ \cup {t.plays}]

Play ==
  /\ tune.state = "stopped" /\ tune.plays < MaxPlays /\ slipped' = {}
  /\ \E loops \in 0..MaxLoops, delay \in BOOLEAN :
       LET t == [tune EXCEPT !.state = "started", !.plays = @ + 1, !.loops = loops, !.current = 0,
                             !.delay = delay, !.channel = <<>>, !.played = 0, !.told = {},
                             !.stop = FALSE, !.failed = FALSE]
       IN tune' = IF delay THEN Later(t) ELSE Sends(t, "play")
TimerFires ==
  /\ UNCHANGED slipped
  /\ \E g \in tune.timers :
       LET t == [tune EXCEPT !.timers = @ \ {g}]
       IN tune' = IF g = tune.plays /\ tune.state = "started" THEN Sends(t, "play") ELSE t
Stop ==
  /\ tune.state = "started" /\ ~tune.stop /\ UNCHANGED slipped
  /\ tune' = [Sends(tune, "stop") EXCEPT !.stop = TRUE]

\* the engine reaches the end of the file, and the handler runs
FileFinishes ==
  /\ tune.file = "playing" /\ UNCHANGED slipped
  /\ tune' = [tune EXCEPT !.file = "finished", !.calls = Append(@, tune.plays),
                         !.played = IF tune.loops = 0 THEN 1 ELSE @ + 1]
HandlerRuns ==
  /\ tune.calls # <<>>
  /\ LET t == [tune EXCEPT !.calls = Tail(@)]
     IN IF tune.state = "stopped" THEN tune' = t /\ UNCHANGED slipped
        ELSE /\ tune' = Sends(t, "reschedule")
             /\ slipped' = slipped \cup IF Head(tune.calls) # tune.plays THEN {"stale"} ELSE {}

\* ---- _run()
Takes(command) == tune.state = "started" /\ tune.channel # <<>> /\ Head(tune.channel) = command
Taken == [tune EXCEPT !.channel = Tail(@)]
Over(t) == [t EXCEPT !.state = "stopped", !.channel = <<>>]
Starts ==
  /\ Takes("play") /\ UNCHANGED slipped
  /\ \/ tune' = [Taken EXCEPT !.file = "playing", !.told = IF tune.current = 0 THEN @ \cup {"DidStart"} ELSE @]
     \/ tune' = [Over(Taken) EXCEPT !.file = "failed", !.told = @ \cup {"DidFail"}, !.failed = TRUE]
PlaysOn == tune.loops = 0 \/ tune.current + 1 < tune.loops
Reschedules ==
  /\ Takes("reschedule") /\ UNCHANGED slipped
  /\ LET t == [Taken EXCEPT !.current = IF tune.loops = 0 THEN 1 ELSE @ + 1, !.file = "none"]
     IN tune' = IF tune.file = "none" THEN Over(t)
                ELSE IF PlaysOn THEN Later(t)
                ELSE [Over(t) EXCEPT !.told = @ \cup {"DidEnd"}]
Stops ==
  /\ Takes("stop")
  /\ IF tune.file # "none"
     THEN tune' = [Over(Taken) EXCEPT !.file = "none", !.told = @ \cup {"DidEnd"}]
     ELSE tune' = Over(Taken)
  /\ slipped' = slipped \cup (IF tune.file = "none" /\ "DidStart" \in tune.told THEN {"silent"} ELSE {})
                         \cup (IF tune.file = "failed" THEN {"leftover"} ELSE {})
PlayerRuns == Starts \/ Reschedules \/ Stops
PlayerNext == Play \/ TimerFires \/ Stop \/ FileFinishes \/ HandlerRuns \/ PlayerRuns

\* A play that nobody stopped plays the file as often as it was asked to, and says that it
\* started and ended, or that it failed; one that was stopped does not play more, and is silent
\* afterwards: whatever was on its way from the engine or a timer when it was stopped.
PlayedAsAsked ==
  /\ tune.loops > 0 => tune.played <= tune.loops
  /\ tune.state = "stopped" /\ tune.plays > 0 /\ slipped = {} =>
       /\ tune.file \in {"none", "failed"}
       /\ "DidFail" \in tune.told <=> tune.failed
       /\ "DidEnd" \in tune.told => "DidStart" \in tune.told /\ ~tune.failed
       /\ "DidStart" \in tune.told => "DidEnd" \in tune.told \/ tune.failed
       /\ ~tune.stop /\ ~tune.failed => tune.played = tune.loops /\ "DidEnd" \in tune.told

\* what is left of a play that was stopped
PlayerGone == tune.state = "stopped" /\ tune.file # "playing"
=============================================================================
