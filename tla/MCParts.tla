------------------------------ MODULE MCParts -------------------------------
(***************************************************************************)
(* What a session is made of, one part in a behaviour: each of the four    *)
(* kinds of media streams in the hands of the session, its conference      *)
(* handler, a request to the conference, its transfer handler; the lookups *)
(* and the nameservers that all of them rely on; and the audio of several  *)
(* sessions in the mixer, with what is played to them.                     *)
(***************************************************************************)
EXTENDS ChatStream, FileTransferStream, ScreenSharingStream, RTPStream

VARIABLES
  desk, subscriptions, posted, data, spent, lost,                          \* of ConferenceHandler
  request, referral, arriving, channel, amiss,                             \* of ReferralHandler
  mover, usage, calls, commands, queue, inbox, tally, astray,              \* of TransferHandler
  lookup, prober, network,                                                 \* of DNSLookup and DNSManager
  voice, joined, live, ports, conference, telling, mishaps,                \* of AudioMixing
  tune, slipped                                                            \* of WavePlayer

CONSTANTS MaxSubscriptions, MaxChanges, MaxReferrals, MaxProgress, MaxTransfers, MaxAsks, Transports, MaxNetworks,
  Callers, Busy, Played, MaxPlays, MaxLoops
Conference == INSTANCE ConferenceHandler
Participant == INSTANCE ReferralHandler
Mover == INSTANCE TransferHandler
Routes == INSTANCE DNSLookup
Nameservers == INSTANCE DNSManager
Mixing == INSTANCE AudioMixing
Waves == INSTANCE WavePlayer

streamVars == <<life, told, slips, msrp, chat, transfer, screen, rtp, talk>>
deskVars == <<desk, subscriptions, posted, data, spent, lost>>
requestVars == <<request, referral, arriving, channel, amiss>>
moverVars == <<mover, usage, calls, commands, queue, inbox, tally, astray>>
dnsVars == <<lookup, prober, network>>
mixVars == <<voice, joined, live, ports, conference, telling, mishaps>>
waveVars == <<tune, slipped>>
otherVars == <<deskVars, requestVars, moverVars, dnsVars, mixVars, waveVars>>
vars == <<kind, streamVars, otherVars>>

-----------------------------------------------------------------------------
OverMSRP == MSRPInit /\ rtp = <<>> /\ talk = <<>>
StreamInit ==
  /\ UserInit
  /\ \/ kind = "chat" /\ OverMSRP /\ ChatInit /\ transfer = <<>> /\ screen = <<>>
     \/ kind = "transfer" /\ OverMSRP /\ TransferInit /\ chat = <<>> /\ screen = <<>>
     \/ kind = "screen" /\ OverMSRP /\ ScreenInit /\ chat = <<>> /\ transfer = <<>>
     \/ kind = "rtp" /\ RTPInit /\ msrp = <<>> /\ chat = <<>> /\ transfer = <<>> /\ screen = <<>>
NoStream ==
  /\ UserInit /\ msrp = <<>> /\ chat = <<>> /\ transfer = <<>> /\ screen = <<>> /\ rtp = <<>> /\ talk = <<>>
NoDesk == desk = <<>> /\ subscriptions = <<>> /\ posted = <<>> /\ data = <<>> /\ spent = 0 /\ lost = {}
NoRequest == request = <<>> /\ referral = <<>> /\ arriving = <<>> /\ channel = <<>> /\ amiss = {}
NoMover ==
  /\ mover = <<>> /\ usage = <<>> /\ calls = <<>> /\ commands = <<>> /\ queue = <<>> /\ inbox = <<>>
  /\ tally = <<>> /\ astray = {}
NoLookup == lookup = <<>>
NoManager == prober = <<>> /\ network = <<>>
NoMixing ==
  /\ voice = <<>> /\ joined = {} /\ live = {} /\ ports = <<>> /\ conference = <<>> /\ telling = <<>>
  /\ mishaps = {}
NoWaves == tune = <<>> /\ slipped = {}
NoAudio == NoMixing /\ NoWaves
MCInit ==
  \/ StreamInit /\ NoDesk /\ NoRequest /\ NoMover /\ NoLookup /\ NoManager /\ NoAudio
  \/ /\ NoStream /\ NoDesk /\ NoRequest /\ NoMover /\ NoLookup /\ NoManager
     /\ \/ kind = "audio" /\ Mixing!AudioInit /\ NoWaves
        \/ kind = "player" /\ Waves!PlayerInit /\ NoMixing
  \/ /\ NoStream /\ NoAudio
     /\ \/ kind = "conference" /\ Conference!ConferenceInit /\ NoRequest /\ NoMover /\ NoLookup /\ NoManager
        \/ kind = "referral" /\ Participant!ReferralInit /\ NoDesk /\ NoMover /\ NoLookup /\ NoManager
        \/ kind = "mover" /\ Mover!TransferHandlerInit /\ NoDesk /\ NoRequest /\ NoLookup /\ NoManager
        \/ kind = "lookup" /\ Routes!LookupInit /\ NoDesk /\ NoRequest /\ NoMover /\ NoManager
        \/ kind = "dns" /\ Nameservers!ManagerInit /\ NoDesk /\ NoRequest /\ NoMover /\ NoLookup

StreamNext ==
  \/ kind = "chat" /\ ChatNext /\ UNCHANGED <<transfer, screen, rtp, talk>>
  \/ kind = "transfer" /\ TransferNext /\ UNCHANGED <<chat, screen, rtp, talk>>
  \/ kind = "screen" /\ ScreenNext /\ UNCHANGED <<chat, transfer, rtp, talk>>
  \/ kind = "rtp" /\ RTPNext /\ UNCHANGED <<msrp, chat, transfer, screen>>
OfConference == kind = "conference" /\ UNCHANGED <<kind, streamVars, requestVars, moverVars, dnsVars, mixVars, waveVars>>
OfReferral == kind = "referral" /\ UNCHANGED <<kind, streamVars, deskVars, moverVars, dnsVars, mixVars, waveVars>>
OfMover == kind = "mover" /\ UNCHANGED <<kind, streamVars, deskVars, requestVars, dnsVars, mixVars, waveVars>>
OfDNS == kind \in {"lookup", "dns"} /\ UNCHANGED <<kind, streamVars, deskVars, requestVars, moverVars, mixVars, waveVars>>
\* bound: the mixer is followed up to the first mishap
OfAudio == kind \in {"audio", "player"} /\ mishaps = {} /\ UNCHANGED <<kind, streamVars, deskVars, requestVars, moverVars, dnsVars>>
MCNext ==
  \/ StreamNext /\ UNCHANGED <<kind, otherVars>>
  \/ OfConference /\ Conference!ConferenceNext
  \/ OfReferral /\ Participant!ReferralNext
  \/ OfMover /\ Mover!TransferHandlerNext
  \/ OfDNS /\ kind = "lookup" /\ Routes!LookupNext /\ UNCHANGED <<prober, network>>
  \/ OfDNS /\ kind = "dns" /\ Nameservers!ManagerNext /\ UNCHANGED lookup
  \/ OfAudio /\ kind = "audio" /\ Mixing!AudioNext /\ UNCHANGED waveVars
  \/ OfAudio /\ kind = "player" /\ Waves!PlayerNext /\ UNCHANGED mixVars

-----------------------------------------------------------------------------
\* What the green threads, the pool and the reactor do by themselves goes on.  The calls of
\* the session and the application, the peer, and what may only happen are left to chance.
\* The engine's requests and subscriptions have timers of their own, so that they come to an end.
MSRPGoesOn == Resuming \/ Initialized \/ EndsUninitialized \/ WillEnd \/ Interrupted \/ Closes \/ Forgets
TransferGoesOn ==
  \/ Hashes \/ GotHash \/ GotNoHash \/ GotError \/ GotEnd \/ SessionDidFail
  \/ TransferNotInitialized \/ TransferWillEnd \/ (MSRPGoesOn /\ TransferNext)
  \/ WriteChunk \/ CheckFile \/ AskOffset \/ SendsAsk \/ SeekOffset \/ ReadPart \/ SendsPart
  \/ FinishSending
ScreenGoesOn == ScreenKeeps \/ ScreenWillEnd \/ CarrierFails("reader") \/ CarrierFails("writer")
RTPGoesOn ==
  \/ LookupEnds \/ LookupActs \/ TransportDidInitialize \/ TransportFailureActs
  \/ ICETells \/ SendKeyframes
MCSpec ==
  /\ MCInit /\ [][MCNext]_vars
  /\ WF_vars(kind = "chat" /\ (ChatForgets \/ ThreadDies \/ ChatNotInitialized \/ ChatCloses \/ ChatKeeps)
             /\ UNCHANGED <<transfer, screen, rtp, talk, otherVars>>)
  /\ WF_vars(kind = "transfer" /\ TransferGoesOn /\ TransferNext /\ UNCHANGED <<chat, screen, rtp, talk, otherVars>>)
  /\ WF_vars(kind = "screen" /\ ScreenGoesOn /\ UNCHANGED <<chat, transfer, rtp, talk, otherVars>>)
  /\ WF_vars(kind = "rtp" /\ RTPGoesOn /\ UNCHANGED <<msrp, chat, transfer, screen, otherVars>>)
  /\ WF_vars(OfConference /\ (Conference!ConferenceRuns \/ Conference!ConferenceAnswered))
  /\ WF_vars(OfReferral /\ Participant!ReferralRuns)
  /\ WF_vars(OfMover /\ Mover!TransferRuns)
  /\ WF_vars(OfAudio /\ kind = "player" /\ Waves!PlayerRuns /\ UNCHANGED mixVars)

Gone == CASE kind = "chat" -> ChatGone
          [] kind = "transfer" -> TransferGone \/ transfer.lost # {}
          [] kind = "screen" -> ScreenGone \/ ListensForever
          [] kind = "rtp" -> RTPGone
          [] kind = "conference" -> Conference!ConferenceGone
          [] kind = "referral" -> Participant!ReferralGone
          [] kind = "mover" -> Mover!TransferHandlerGone
          [] kind = "player" -> Waves!PlayerGone
SessionOver == CASE kind = "conference" -> desk.life = "over"
                 [] kind = "referral" -> request.session = "over"
                 [] kind = "mover" -> ~tally.up
                 [] kind = "player" -> tune.stop
                 [] OTHER -> life = "over" /\ slips = {}

\* When a session has ended one of its parts, what the part had taken is given back in the end: a stream's
\* connection, connectors and transports, its threads, timers, sockets and files, and what
\* listens to it for its encryption; a handler's green threads, timers and what it observes.
EverythingReleased == <>[](SessionOver => Gone)

ConferenceAsWanted == kind = "conference" => Conference!ConferenceAsWanted
RequestAnswered == kind = "referral" => Participant!RequestAnswered
TransferSettled == kind = "mover" => Mover!TransferSettled
HeardAsArranged ==
  /\ kind = "audio" => Mixing!HeardAsArranged
  /\ kind = "player" => Waves!PlayedAsAsked
NamesAsPublished ==
  /\ kind = "lookup" => Routes!RoutesAsPublished
  /\ kind = "dns" => Nameservers!NameserversFollow
=============================================================================
