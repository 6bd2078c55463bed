------------------------- MODULE FileTransferStream -------------------------
(***************************************************************************)
(* FileTransferStream and its handler.  The handler works in a thread of a *)
(* pool (it hashes, writes or reads the file); what the thread posts, and  *)
(* the chunks it wants sent, reach the reactor in order, later.  The       *)
(* handler lets go of the file and of its observers when it has ended; the *)
(* file of a receiver that did not get it all is remembered, to be resumed.*)
(***************************************************************************)
EXTENDS MSRPStream, FiniteSets

CONSTANTS Parts,       \* parts of the file
          MaxChunks    \* bound: chunks that the peer sends

ASSUME FileAssumption == Parts \in Nat \ {0} /\ MaxChunks \in Nat

VARIABLE transfer
transferVars == <<userVars, msrp, transfer>>

Sound(p) == <<p, TRUE>>
Whole == [p \in 1..Parts |-> Sound(p)]
Beginning == [p \in 1..(Parts - 1) |-> Sound(p)]

\* the handler, the thread, the file; an earlier transfer may have left the beginning of the
\* file (entry), and the stream may be part of a new session or of a proposal in one
TransferInit ==
  \E outgoing, proposal, asks \in BOOLEAN, entry \in {<<>>, Beginning} :
    transfer =
      [outgoing |-> outgoing, proposal |-> proposal, asks |-> asks, entry |-> entry,
       handler |-> "new", heard |-> FALSE, known |-> FALSE, good |-> FALSE,
       started |-> FALSE, born |-> FALSE, sessionFailed |-> FALSE,
       thread |-> "none", mail |-> <<>>, stop |-> FALSE, outcomes |-> <<>>, lost |-> {},
       fd |-> "none", file |-> <<>>, hash |-> <<>>, queue |-> <<>>, received |-> 0,
       offset |-> 0, from |-> 0, asked |-> FALSE, answered |-> FALSE, read |-> 0,
       wire |-> <<>>, reported |-> {}, finished |-> FALSE]

TransferKept == UNCHANGED transfer
StreamKept == UNCHANGED <<userVars, msrp>>
On(t) == t.handler = "on"

\* __terminate()
Terminated(t) == [t EXCEPT !.handler = "off", !.fd = "closed"]
\* _NH_MediaStreamDidNotInitialize: an empty file is removed, the rest of one is not remembered
HandlerNotInitialized(t) ==
  IF ~On(t) THEN t
  ELSE Terminated([t EXCEPT !.stop = @ \/ ~t.known,
                            !.lost = IF ~t.outgoing /\ t.file # <<>> THEN @ \cup {"forgot"} ELSE @])
\* _NH_FileTransferHandlerDidEnd: what was received is remembered; it fails when the file is gone
Ended(t, ok) ==
  IF ~On(t) THEN t
  ELSE IF t.outgoing \/ ok THEN Terminated(t)
  ELSE IF "removed" \in t.lost THEN [t EXCEPT !.lost = @ \cup {"mismatch"}]
  ELSE Terminated([t EXCEPT !.entry = t.file])
\* FileTransferHandlerDidEnd is posted on the reactor
EndsHere(t, ok) == Ended([t EXCEPT !.outcomes = Append(@, ok)], ok)

Mailed(t, letter) == [t EXCEPT !.mail = Append(@, letter)]
\* ... or by the thread, which is over
Posts(t, ok) ==
  Mailed([t EXCEPT !.outcomes = Append(@, ok), !.thread = "gone", !.fd = "closed"],
         [about |-> "end", ok |-> ok])
PostsError(t) == Mailed(t, [about |-> "error", ok |-> t.heard])

\* initialize() of an incoming transfer: the file is opened, at the end of what there is of it
OpensFile ==
  /\ ~transfer.outgoing /\ CallInitialize /\ Later("initialize")
  /\ transfer' = [transfer EXCEPT !.handler = "on", !.heard = TRUE, !.known = TRUE, !.good = TRUE,
                                  !.fd = "open", !.file = transfer.entry, !.hash = transfer.entry,
                                  !.offset = Len(transfer.entry), !.entry = <<>>]
\* of an outgoing one: the hash is known, or a thread finds it
KnowsHash ==
  /\ transfer.outgoing /\ CallInitialize /\ Later("initialize")
  /\ transfer' = [transfer EXCEPT !.handler = "on", !.heard = TRUE, !.known = TRUE, !.good = TRUE,
                                  !.fd = "open"]
StartsHashing ==
  /\ transfer.outgoing /\ CallInitialize /\ UNCHANGED msrp
  /\ transfer' = [transfer EXCEPT !.handler = "on", !.heard = TRUE, !.thread = "hashing",
                                  !.fd = "open"]
CannotTransfer ==
  /\ life = "new" /\ Tell("DidNotInitialize") /\ UNCHANGED <<slips, msrp>>
  /\ transfer' = [transfer EXCEPT !.handler = "off", !.heard = TRUE, !.known = TRUE]
Hashes ==
  /\ transfer.thread = "hashing" /\ StreamKept
  /\ LET done == [transfer EXCEPT !.thread = "none"]
     IN \/ transfer.fd = "open" /\ ~transfer.stop
           /\ transfer' = Mailed(done, [about |-> "hash", ok |-> TRUE])
        \/ transfer' = Mailed([done EXCEPT !.fd = "closed"], [about |-> "hash", ok |-> FALSE])
        \/ transfer.handler = "off" /\ transfer' = done

Delivers(about) == transfer.mail # <<>> /\ Head(transfer.mail).about = about
Letter == Head(transfer.mail)
Opened == [transfer EXCEPT !.mail = Tail(@)]

\* FileTransferHandlerDidInitialize and ...DidNotInitialize: the stream goes on, or fails
GotHash ==
  /\ Delivers("hash") /\ Letter.ok
  /\ transfer' = [Opened EXCEPT !.known = TRUE, !.good = TRUE]
  /\ IF msrp.done THEN UNCHANGED msrp ELSE Later("initialize")
  /\ UNCHANGED userVars
GotNoHash ==
  /\ Delivers("hash") /\ ~Letter.ok
  /\ IF msrp.done THEN transfer' = Opened /\ Silent
     ELSE transfer' = HandlerNotInitialized([Opened EXCEPT !.known = TRUE]) /\ Tell("DidNotInitialize")
  /\ UNCHANGED <<slips, msrp>>

\* the life of the stream
TransferNotInitialized ==
  /\ \/ NotInitialized
     \/ EndsUninitialized
     \/ Interrupted
  /\ transfer' = HandlerNotInitialized(transfer)
SessionWillStart ==
  /\ ~transfer.proposal /\ ~transfer.born /\ life = "ready"
  /\ transfer' = [transfer EXCEPT !.born = TRUE] /\ StreamKept
\* a session that never began fails when it has ended its streams
SessionDidFail ==
  /\ ~transfer.proposal /\ ~transfer.born /\ ~transfer.sessionFailed /\ life = "over"
  /\ LET t == [transfer EXCEPT !.sessionFailed = TRUE]
     IN transfer' = IF On(t) /\ t.good THEN EndsHere(t, FALSE) ELSE t
  /\ StreamKept
TransferStart == (transfer.proposal \/ transfer.born) /\ DoStart /\ TransferKept
TransferStarted ==
  /\ Started
  /\ transfer' = IF ~On(transfer) THEN transfer
       ELSE [transfer EXCEPT !.started = TRUE,
               !.thread = IF ~transfer.outgoing THEN "writing"
                          ELSE IF transfer.asks THEN "asking" ELSE "seeking"]
TransferWillEnd ==
  /\ WillEnd
  /\ LET t == [transfer EXCEPT !.heard = FALSE]
     IN transfer' =
          IF ~On(t) THEN t
          ELSE IF t.started THEN [t EXCEPT !.stop = TRUE, !.queue = Append(@, <<0, TRUE>>)]
          ELSE IF t.born THEN EndsHere(t, FALSE)
          ELSE [t EXCEPT !.lost = IF t.proposal THEN @ \cup {"proposed"} ELSE @]
GotError ==
  /\ Delivers("error") /\ transfer' = Opened
  /\ IF Letter.ok THEN Tell("DidFail") ELSE Silent
  /\ UNCHANGED <<slips, msrp>>
GotEnd == Delivers("end") /\ transfer' = Ended(Opened, Letter.ok) /\ StreamKept

\* a chunk of an incoming file: the first one may be the beginning of the whole file
ReceiveChunk(p, sound) ==
  /\ ~transfer.outgoing /\ msrp.session = "open" /\ ~msrp.done /\ On(transfer)
  /\ transfer.received < MaxChunks
  /\ LET t == IF transfer.received = 0 /\ p = 1
              THEN [transfer EXCEPT !.file = <<>>, !.hash = <<>>, !.offset = 0] ELSE transfer
     IN transfer' = [t EXCEPT !.received = @ + 1, !.queue = Append(@, <<p, sound>>)]
  /\ StreamKept
\* the thread writes it, or cannot; EndTransfer is the part 0
WriteChunk ==
  /\ transfer.thread = "writing" /\ transfer.queue # <<>> /\ StreamKept
  /\ LET part == Head(transfer.queue)
         taken == [transfer EXCEPT !.queue = Tail(@)]
     IN \/ part[1] = 0 /\ transfer' = [taken EXCEPT !.thread = "checking"]
        \/ /\ part[1] # 0
           /\ transfer' = [taken EXCEPT !.file = Append(@, part), !.hash = Append(@, part),
                                        !.offset = @ + 1,
                                        !.thread = IF part[1] = Parts THEN "checking" ELSE @]
        \/ part[1] # 0 /\ transfer' = Posts(PostsError(taken), FALSE)
\* altered: the hash of the file is not looked at
CheckSize ==
  /\ transfer.thread = "checking" /\ StreamKept
  /\ transfer' = Posts(transfer, transfer.offset = Parts)
CheckFile ==
  /\ transfer.thread = "checking" /\ StreamKept
  /\ transfer' =
       CASE transfer.offset # Parts -> Posts(transfer, FALSE)
         [] transfer.hash # Whole /\ transfer.offset = Parts ->
              Posts([transfer EXCEPT !.file = <<>>, !.lost = @ \cup {"removed"}], FALSE)
         [] OTHER -> Posts(transfer, TRUE)

\* an outgoing file: the peer is asked how much of it it has
AskOffset ==
  /\ transfer.thread = "asking" /\ StreamKept
  /\ transfer' = Mailed([transfer EXCEPT !.thread = "waiting"], [about |-> "ask"])
SendsAsk ==
  /\ Delivers("ask") /\ UNCHANGED <<slips, msrp>>
  /\ \/ transfer.stop /\ transfer' = [Opened EXCEPT !.answered = TRUE] /\ Silent
     \/ ~transfer.stop /\ transfer' = [Opened EXCEPT !.asked = TRUE] /\ Silent
     \/ ~transfer.stop /\ transfer' = Opened /\ (IF transfer.heard THEN Tell("DidFail") ELSE Silent)
OffsetAnswer ==
  /\ transfer.asked /\ msrp.session = "open" /\ StreamKept
  /\ \E offset \in 0..Parts :
       transfer' = [transfer EXCEPT !.asked = FALSE, !.answered = TRUE,
                                    !.offset = IF transfer.stop THEN @ ELSE offset]
SeekOffset ==
  /\ \/ transfer.thread = "seeking"
     \/ transfer.thread = "waiting" /\ (transfer.answered \/ transfer.stop)
  /\ transfer' = [transfer EXCEPT !.thread = "sending", !.from = transfer.offset,
                                  !.read = transfer.offset]
  /\ StreamKept
\* the thread reads; the reactor sends, after what was sent before
ReadPart ==
  /\ transfer.thread = "sending" /\ StreamKept
  /\ \/ transfer.stop /\ transfer' = Posts(transfer, FALSE)
     \/ ~transfer.stop /\ transfer' = Posts(transfer, FALSE)
     \/ /\ ~transfer.stop /\ transfer.read < Parts
        /\ transfer' = Mailed([transfer EXCEPT !.read = @ + 1],
                              [about |-> "part", part |-> transfer.read + 1])
     \/ /\ ~transfer.stop /\ transfer.read = Parts
        /\ transfer' = [transfer EXCEPT !.thread = "finishing", !.fd = "closed"]
SendsPart ==
  /\ Delivers("part") /\ UNCHANGED <<slips, msrp>>
  /\ \/ transfer.stop /\ transfer' = Opened /\ Silent
     \/ /\ ~transfer.stop /\ msrp.session = "open" /\ Silent
        /\ transfer' = [Opened EXCEPT !.offset = @ + 1,
                                      !.wire = Append(@, <<Letter.part, transfer.offset + 1>>)]
     \/ ~transfer.stop /\ transfer' = Opened /\ (IF transfer.heard THEN Tell("DidFail") ELSE Silent)
\* a response or a report for a chunk
Report(i) ==
  /\ i \in DOMAIN transfer.wire /\ i \notin transfer.reported /\ msrp.session = "open"
  /\ LET t == [transfer EXCEPT !.reported = @ \cup {i}]
     IN \/ /\ transfer.wire[i][2] = Parts /\ Silent
           /\ transfer' = [t EXCEPT !.finished = TRUE, !.stop = TRUE]
        \/ transfer.wire[i][2] # Parts /\ transfer' = t /\ Silent
        \/ transfer' = [t EXCEPT !.stop = TRUE] /\ (IF t.heard THEN Tell("DidFail") ELSE Silent)
  /\ UNCHANGED <<slips, msrp>>
FinishSending ==
  /\ transfer.thread = "finishing" /\ transfer.stop /\ StreamKept
  /\ transfer' = Posts(transfer, transfer.finished)

TransferKeeps ==
  /\ \/ DoDeactivate \/ DoEnd
     \/ Resuming \/ Initialized \/ NotStarted \/ Closes \/ Forgets \/ ConnectionLost
  /\ TransferKept
Receives == WriteChunk \/ CheckFile \/ \E p \in 1..Parts, sound \in BOOLEAN : ReceiveChunk(p, sound)
Sends == \/ AskOffset \/ SendsAsk \/ OffsetAnswer \/ SeekOffset \/ ReadPart \/ SendsPart
         \/ FinishSending
         \/ \E i \in 1..Parts : Report(i)
TransferNext ==
  \/ OpensFile \/ KnowsHash \/ StartsHashing \/ CannotTransfer
  \/ Hashes \/ GotHash \/ GotNoHash \/ GotError \/ GotEnd
  \/ SessionWillStart \/ SessionDidFail
  \/ TransferNotInitialized \/ TransferStart \/ TransferStarted \/ TransferWillEnd \/ TransferKeeps
  \/ Receives \/ Sends

TransferGone ==
  /\ MSRPGone /\ transfer.handler = "off" /\ transfer.fd # "open"
  /\ transfer.thread \in {"none", "gone"}

\* A transfer has one outcome at most.  It succeeds only when the receiver has every part of the
\* file in its place, or when the sender sent every part that was asked for as what it is, up to
\* the last.  What an unsuccessful receiver has got of the file can be resumed.
TransferOutcome ==
  kind = "transfer" =>
    /\ Len(transfer.outcomes) <= 1
    /\ transfer.outcomes = <<TRUE>> =>
         IF transfer.outgoing
         THEN /\ transfer.wire # <<>> /\ transfer.wire[Len(transfer.wire)][2] = Parts
              /\ \A i \in DOMAIN transfer.wire :
                   transfer.wire[i] = <<transfer.from + i, transfer.from + i>>
         ELSE transfer.file = Whole
    /\ ~transfer.outgoing /\ transfer.handler = "off" /\ transfer.lost = {}
         /\ transfer.outcomes # <<TRUE>> /\ transfer.file # <<>>
         => transfer.entry = transfer.file
=============================================================================
