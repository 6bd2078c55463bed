------------------------ MODULE ScreenSharingStream -------------------------
(***************************************************************************)
(* ScreenSharingStream and its handler: two green threads carry data       *)
(* between the MSRP connection and the handler, two more between the       *)
(* handler and the VNC program.  The handler of an external program first  *)
(* waits for its connection in a thread of its own.                        *)
(***************************************************************************)
EXTENDS MSRPStream

VARIABLE screen
screenVars == <<userVars, msrp, screen>>

\* the viewer of an external program listens from its creation on
ScreenInit ==
  \E handler \in {"internal", "viewer", "server"} :
    screen = [handler |-> handler, watching |-> FALSE, threads |-> {}, data |-> FALSE,
              socket |-> IF handler = "viewer" THEN "listening" ELSE "none"]

ScreenKept == UNCHANGED screen
LinkKept == UNCHANGED <<slips, msrp>>
Alive(thread) == thread \in screen.threads
Without(thread) == [screen EXCEPT !.threads = @ \ {thread}]
\* the stream is told by its thread or by the handler, and tells the session
TellsFailure == Tell("DidFail")

ScreenInitialized == Initialized /\ screen' = [screen EXCEPT !.watching = TRUE]
ScreenStarted ==
  /\ Started
  /\ screen' = [screen EXCEPT !.threads =
       {"reader", "writer"} \cup IF ~screen.watching THEN {}
                                 ELSE IF screen.handler = "internal" THEN {"handlerReader"}
                                 ELSE {"starter"}]
\* the threads are killed; the socket goes with the handler that was initialised
ScreenWillEnd ==
  /\ WillEnd
  /\ screen' = [screen EXCEPT !.watching = FALSE, !.threads = {},
                              !.socket = IF screen.watching /\ @ # "none" THEN "closed" ELSE @]

\* data comes from the peer, or the connection is broken; the reader tells, unless it is wanted
ReaderReads ==
  /\ Alive("reader") /\ msrp.session = "open" /\ screen' = [screen EXCEPT !.data = TRUE]
  /\ UNCHANGED <<userVars, msrp>>
ScreenConnectionLost ==
  /\ msrp.session = "open" /\ msrp' = [msrp EXCEPT !.session = "lost"]
  /\ ScreenKept /\ UNCHANGED userVars
CarrierFails(thread) ==
  /\ Alive(thread) /\ msrp.session # "open" /\ screen' = Without(thread)
  /\ \/ msrp.shutting /\ Silent
     \/ TellsFailure
  /\ LinkKept

\* the external program connects, or it does not in time
ProgramConnects ==
  /\ Alive("starter") /\ UNCHANGED <<userVars, msrp>>
  /\ screen' = [screen EXCEPT !.threads = (@ \ {"starter"}) \cup {"handlerReader", "handlerWriter"},
                              !.socket = "open"]
ProgramMissing ==
  /\ Alive("starter") /\ TellsFailure /\ LinkKept
  /\ screen' = [Without("starter") EXCEPT !.socket = IF @ = "none" THEN "open" ELSE @]
\* it takes what the peer has sent, or closes the connection
ProgramTakes ==
  /\ Alive("handlerReader") /\ screen.data /\ UNCHANGED <<slips, msrp>>
  /\ \/ screen' = [screen EXCEPT !.data = FALSE] /\ Silent
     \/ /\ screen.handler # "internal"
        /\ screen' = [Without("handlerReader") EXCEPT !.data = FALSE] /\ TellsFailure
ProgramCloses ==
  /\ Alive("handlerWriter") /\ screen' = Without("handlerWriter") /\ TellsFailure /\ LinkKept

ScreenKeeps ==
  /\ \/ DoInitialize \/ DoStart \/ DoDeactivate \/ DoEnd
     \/ Resuming \/ NotInitialized \/ NotStarted \/ Interrupted
     \/ Closes \/ Forgets
  /\ ScreenKept
ScreenNext ==
  \/ ScreenKeeps \/ ScreenInitialized \/ ScreenStarted \/ ScreenWillEnd
  \/ ReaderReads \/ ScreenConnectionLost \/ CarrierFails("reader") \/ CarrierFails("writer")
  \/ ProgramConnects \/ ProgramMissing \/ ProgramTakes \/ ProgramCloses

ScreenGone ==
  /\ MSRPGone /\ screen.threads = {} /\ ~screen.watching
  /\ screen.socket \notin {"listening", "open"}
\* not closed by any code: the socket of a viewer's handler whose stream did not initialise
ListensForever == screen.socket = "listening" /\ ~screen.watching /\ "DidNotInitialize" \in told
=============================================================================
