----------------------------- MODULE ChatStream -----------------------------
(***************************************************************************)
(* ChatStream: messages are queued from any thread, at any time, and sent  *)
(* by a green thread that lives from the start of the stream to its end.   *)
(* Each is answered by its transaction, by reports, or by the end.         *)
(***************************************************************************)
EXTENDS MSRPStream, FiniteSets, SequencesExt

CONSTANTS Messages,   \* messages of the application that want to know their fate
          MaxParts    \* bound: parts of a message that the peer sends

VARIABLE chat
chatVars == <<userVars, msrp, chat>>

ChatInit ==
  chat = [asked |-> {}, posted |-> <<>>, queue |-> <<>>, sent |-> {}, thread |-> "none",
          encryption |-> TRUE, fates |-> [m \in Messages |-> 0],
          stored |-> 0, flown |-> 0, whole |-> TRUE]

Fate(ms) == [m \in Messages |-> IF m \in ms THEN chat.fates[m] + 1 ELSE chat.fates[m]]
ChatKept == UNCHANGED chat

\* what is queued cannot be sent any more
Drained == [chat EXCEPT !.queue = <<>>, !.fates = Fate(ToSet(chat.queue))]
\* altered: the messages that wait for their reports are forgotten
ThreadDrainedQueue == [chat EXCEPT !.thread = "none", !.sent = {}, !.queue = <<>>,
                                   !.fates = Fate(ToSet(chat.queue))]
ThreadDrained == [chat EXCEPT !.thread = "none", !.sent = {}, !.queue = <<>>,
                              !.fates = Fate(ToSet(chat.queue) \cup chat.sent)]

\* the life of the stream; the encryption goes with its first end
ChatNotInitialized ==
  /\ \/ NotInitialized
     \/ Interrupted
  /\ chat' = [Drained EXCEPT !.encryption = FALSE]
ChatStarted == Started /\ chat' = [chat EXCEPT !.thread = "run"]
ChatCloses ==
  /\ Closes
  /\ LET left == IF chat.thread = "none" THEN Drained ELSE [chat EXCEPT !.thread = "dying"]
     IN chat' = [left EXCEPT !.encryption = FALSE]
ChatForgets == chat.thread # "dying" /\ Forgets /\ ChatKept
ThreadDies == chat.thread = "dying" /\ chat' = ThreadDrained /\ UNCHANGED <<userVars, msrp>>

\* the application sends, and the reactor queues
SendMessage(m) ==
  /\ m \notin chat.asked /\ life # "new"
  /\ chat' = [chat EXCEPT !.asked = @ \cup {m}, !.posted = Append(@, m)]
  /\ UNCHANGED <<userVars, msrp>>
EnqueueMessage ==
  /\ chat.posted # <<>>
  /\ LET m == Head(chat.posted)
         taken == [chat EXCEPT !.posted = Tail(@)]
     IN chat' = IF msrp.done THEN [taken EXCEPT !.fates = Fate({m})]
                ELSE [taken EXCEPT !.queue = Append(@, m)]
  /\ UNCHANGED <<userVars, msrp>>

\* the green thread takes a message: it goes out, or it cannot be sent
TakeMessage ==
  /\ chat.thread \in {"run", "dying"} /\ chat.queue # <<>>
  /\ LET m == Head(chat.queue)
         taken == [chat EXCEPT !.queue = Tail(@)]
     IN \/ msrp.session = "open" /\ chat' = [taken EXCEPT !.sent = @ \cup {m}]
        \/ chat' = [taken EXCEPT !.fates = Fate({m})]
  /\ UNCHANGED <<userVars, msrp>>
\* ... or its handling raises what the loop does not expect, and the thread ends without it
Chokes ==
  /\ chat.thread = "run" /\ chat.queue # <<>>
  /\ LET m == Head(chat.queue)
     IN chat' = [ThreadDrained EXCEPT !.fates[m] = chat.fates[m]]
  /\ slips' = slips \cup {"choked"} /\ Silent /\ UNCHANGED msrp

\* its transaction fails, or a report comes
Answered(m) ==
  /\ msrp.session = "open" /\ m \in chat.sent
  /\ chat' = [chat EXCEPT !.sent = @ \ {m}, !.fates = Fate({m})]
  /\ UNCHANGED <<userVars, msrp>>

PartAborted == [chat EXCEPT !.flown = 0, !.stored = 0]
\* a part of an incoming message: it is continued, aborted, or complete
ReceivePart ==
  /\ msrp.session = "open"
  /\ \/ chat.flown < MaxParts /\ chat' = [chat EXCEPT !.stored = @ + 1, !.flown = @ + 1]
     \/ chat.flown > 0 /\ chat' = PartAborted
     \/ chat' = [chat EXCEPT !.whole = chat.stored = chat.flown, !.stored = 0, !.flown = 0]
  /\ UNCHANGED <<userVars, msrp>>

ChatKeeps ==
  /\ \/ DoInitialize \/ DoStart \/ DoDeactivate \/ DoEnd
     \/ Resuming \/ Initialized \/ NotStarted \/ WillEnd \/ ConnectionLost
  /\ ChatKept
ChatNext ==
  \/ ChatKeeps
  \/ ChatNotInitialized \/ ChatStarted \/ ChatCloses \/ ChatForgets \/ ThreadDies
  \/ \E m \in Messages : SendMessage(m) \/ Answered(m)
  \/ EnqueueMessage \/ TakeMessage \/ Chokes \/ ReceivePart

ChatGone == MSRPGone /\ chat.thread = "none" /\ ~chat.encryption

\* A message that the application sends has one fate, whenever the stream ends or the
\* peer answers: ChatStreamDidDeliverMessage or ChatStreamDidNotDeliverMessage, once.
\* And what is announced as a message of the peer is all of one message.
EachMessageOnce ==
  kind = "chat" =>
    /\ \A m \in Messages : chat.fates[m] <= 1
    /\ chat.whole
    /\ msrp.ending = "over" /\ chat.posted = <<>> /\ slips = {} =>
         \A m \in chat.asked : chat.fates[m] = 1
=============================================================================
