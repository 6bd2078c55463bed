---------------------------- MODULE AudioMixing -----------------------------
(***************************************************************************)
(* Who hears whom: the bridges of audio streams, the root bridge of a      *)
(* conference, and the connections they make between slots of the mixer.   *)
(* A port that changes its slots tells the bridges, on the thread of the   *)
(* caller and after it has changed: a change that has not been told is in  *)
(* `telling`.  A slot is named after what holds it; the slot of a change   *)
(* that was given back may be given to what is made next.                  *)
(***************************************************************************)
EXTENDS Naturals

CONSTANTS Callers,      \* audio streams, one in a call
          Busy,         \* bound: those that are also recorded, muted and moved
          Played        \* bound: those whose bridge may have a player, or the root bridge

VARIABLES voice, joined, live, ports, conference, telling, mishaps
audioVars == <<voice, joined, live, ports, conference, telling, mishaps>>

Root == "root"
Sound == <<"app", "sound">>
Desk == <<"app", "desk">>
Player == <<"app", "player">>
Tune == <<"app", "tune">>
Freed == <<"app", "freed">>
Stream(s) == <<s, "stream">>
Device(s) == <<s, "device">>
Bridge(s) == <<s, "bridge">>
Recorder(s) == <<s, "recorder">>
Line(s) == <<s, "line">>
Tape(s) == <<s, "tape">>
Mux(s) == <<s, "mux">>
Demux(s) == <<s, "demux">>

Threads == {"application", "reactor"}
NoChange == [port |-> Freed, out |-> {}, newOut |-> {}, into |-> {}, newInto |-> {}, lock |-> Root]
NoVoice == [phase |-> "none", held |-> "no", muted |-> FALSE, taped |-> FALSE, moving |-> FALSE]
AudioInit ==
  /\ voice = [s \in Callers |-> NoVoice] /\ joined = {} /\ live = {Sound} /\ mishaps = {}
  /\ ports = [b \in Callers \cup {Root} |-> IF b = Root THEN {Desk} ELSE {}]
  /\ conference = [streams |-> {}, onHold |-> FALSE, muted |-> FALSE]
  /\ telling = [t \in Threads |-> NoChange]

-----------------------------------------------------------------------------
(***************************************************************************)
(* The slots of a port and the connections it has in a bridge, with its    *)
(* other members and the two slots by which a bridge is a port itself.     *)
(***************************************************************************)
Source(p) ==
  CASE p = Desk -> IF conference.muted THEN {} ELSE {Sound}
    [] p = Player -> {Tune} \cap live
    [] p[2] = "device" -> {Sound}
    [] p[2] = "stream" -> IF voice[p[1]].muted THEN {} ELSE {Line(p[1])} \cap live
    [] p[2] = "bridge" -> {Mux(p[1])} \cap live
    [] p[2] = "recorder" -> {}
Sink(p) ==
  CASE p = Player -> {}
    [] p = Desk \/ p[2] = "device" -> {Sound}
    [] p[2] = "stream" -> {Line(p[1])} \cap live
    [] p[2] = "bridge" -> {Demux(p[1])} \cap live
    [] p[2] = "recorder" -> {Tape(p[1])} \cap live

MuxOf(b) == IF b = Root THEN {} ELSE {Mux(b)} \cap live
DemuxOf(b) == IF b = Root THEN {} ELSE {Demux(b)} \cap live
Fed(b, out, others) == out \X (MuxOf(b) \cup UNION {Sink(q) : q \in others})
Feeding(b, into, others) == (DemuxOf(b) \cup UNION {Source(q) : q \in others}) \X into
Connections(b, p) ==
  Fed(b, Source(p), ports[b] \ {p}) \cup Feeding(b, Sink(p), ports[b] \ {p})
Mesh(b) == UNION {Fed(b, Source(p), ports[b] \ {p}) : p \in ports[b]}

\* A thread that is telling is inside its call, and may hold the lock of a stream.
Free(t) == telling[t] = NoChange
FreeFor(t, s) == Free(t) /\ ~voice[s].moving /\ \A u \in Threads : telling[u].lock # s
\* What a member has lost and the bridge does not know is left connected when it, or the
\* member at the other end, is removed.
Unaware(b) ==
  \E t \in Threads : LET c == telling[t]
                     IN /\ c.port \in ports[b]
                        /\ ((c.out \ c.newOut) \cup (c.into \ c.newInto)) \ {Freed} # {}
Removing(b) == mishaps' = mishaps \cup IF Unaware(b) THEN {"left"} ELSE {}
\* a second change of a port before the first is told
Changing(p) == mishaps' = mishaps \cup IF \E t \in Threads : telling[t].port = p THEN {"disordered"} ELSE {}

\* Slots are given back with their connections; a change that is to be told still names them,
\* and then whatever is given one of them next.
GivenBack(gone, made) ==
  /\ joined' = {c \in made : c[1] \notin gone /\ c[2] \notin gone}
  /\ live' = live \ gone
  /\ telling' = [t \in Threads |->
       [telling[t] EXCEPT !.out = {IF x \in gone THEN Freed ELSE x : x \in @},
                          !.into = {IF x \in gone THEN Freed ELSE x : x \in @},
                          !.newOut = @ \ gone, !.newInto = @ \ gone]]
Renamed(set, x) == IF Freed \in set THEN (set \ {Freed}) \cup {x} ELSE set
MayGet(x) ==
  \/ UNCHANGED telling
  \/ \E t \in Threads :
       /\ Freed \in telling[t].out \cup telling[t].into
       /\ telling' = [telling EXCEPT ![t].out = Renamed(@, x), ![t].into = Renamed(@, x)]

-----------------------------------------------------------------------------
(***************************************************************************)
(* The bridges are told.                                                   *)
(***************************************************************************)
\* altered: what the port had stays connected
ToldOfTheNew(c, b) ==
  joined \cup Fed(b, c.newOut, ports[b] \ {c.port}) \cup Feeding(b, c.newInto, ports[b] \ {c.port})
Told(c, b) ==
  LET others == ports[b] \ {c.port}
  IN (joined \ (Fed(b, c.out, others) \cup Feeding(b, c.into, others)))
       \cup Fed(b, c.newOut, others) \cup Feeding(b, c.newInto, others)
Strange(c) ==
  (c.out \cup c.into) \ {Sound, Tune, Freed, Line(c.port[1]), Tape(c.port[1])}
AudioPortDidChangeSlots(t) ==
  /\ ~Free(t) /\ UNCHANGED <<voice, live, conference>>
  /\ LET c == telling[t]
         places == {b \in DOMAIN ports : c.port \in ports[b]}
         made == IF places = {} THEN joined ELSE Told(c, CHOOSE b \in places : TRUE)
     IN /\ joined' = made
        /\ mishaps' = mishaps \cup
             IF \E x \in joined \ made : {x[1], x[2]} \cap Strange(c) # {} THEN {"cut"} ELSE {}
        /\ ports' = [b \in DOMAIN ports |->
                       IF c.port[2] = "recorder" THEN ports[b] \ {c.port} ELSE ports[b]]
  /\ telling' = [telling EXCEPT ![t] = NoChange]
Tells(t, c) == telling' = [telling EXCEPT ![t] = c]

-----------------------------------------------------------------------------
(***************************************************************************)
(* The streams of the sessions, on the reactor thread.                     *)
(***************************************************************************)
StreamMade(s) ==
  /\ Free("reactor") /\ voice[s].phase = "none" /\ UNCHANGED <<conference, mishaps>>
  /\ voice' = [voice EXCEPT ![s].phase = "new"]
  /\ live' = live \cup {Mux(s), Demux(s)}
  /\ ports' = [ports EXCEPT ![s] = {Device(s)}]
  /\ joined' = joined \cup {<<Demux(s), Sound>>, <<Sound, Mux(s)>>}
  /\ \E x \in {Mux(s), Demux(s)} : MayGet(x)
LineConnections(s) == \* of the transport that starts, as a member of the bridge
  ({Line(s)} \X (MuxOf(s) \cup UNION {Sink(q) : q \in ports[s]}))
    \cup Feeding(s, {Line(s)}, ports[s])
LineStarts(s) ==
  /\ FreeFor("reactor", s) /\ voice[s].phase = "new" /\ UNCHANGED <<conference, mishaps>>
  /\ voice' = [voice EXCEPT ![s].phase = "on"]
  /\ live' = live \cup {Line(s)}
  /\ ports' = [ports EXCEPT ![s] = @ \cup {Stream(s)}]
  /\ joined' = joined \cup LineConnections(s)
  /\ MayGet(Line(s))
Paused(s) ==
  /\ FreeFor("reactor", s) /\ voice[s].phase = "on" /\ voice[s].held = "no"
  /\ voice' = [voice EXCEPT ![s].held = "asked"]
  /\ joined' = joined \ Connections(s, Stream(s))
  /\ ports' = [ports EXCEPT ![s] = @ \ {Stream(s)}]
  /\ Removing(s) /\ UNCHANGED <<live, conference, telling>>
PauseConfirmed(s) ==
  /\ FreeFor("reactor", s) /\ voice[s].phase = "on" /\ voice[s].held = "asked"
  /\ voice' = [voice EXCEPT ![s].held = "yes"]
  /\ IF Recorder(s) \in ports[s]
     THEN /\ joined' = joined \ Connections(s, Recorder(s)) /\ Removing(s)
          /\ ports' = [ports EXCEPT ![s] = @ \ {Recorder(s)}]
     ELSE UNCHANGED <<joined, ports, mishaps>>
  /\ UNCHANGED <<live, conference, telling>>
\* the stream and its recorder are added again, one after the other
Resumed(s) ==
  /\ FreeFor("reactor", s) /\ voice[s].phase = "on" /\ voice[s].held # "no"
  /\ voice' = [voice EXCEPT ![s].held = "no"]
  /\ LET both == {Stream(s)} \cup IF voice[s].taped THEN {Recorder(s)} ELSE {}
     IN /\ ports' = [ports EXCEPT ![s] = @ \cup both]
        /\ joined' = joined \cup UNION {Connections(s, p) : p \in both}
             \cup (Source(Stream(s)) \X UNION {Sink(p) : p \in both \ {Stream(s)}})
  /\ UNCHANGED <<live, conference, telling, mishaps>>

\* update() with another address of the peer: the recorder is taken out, the transport stopped and
\* made anew, the bridge told, and the recorder added again
Moved(s) ==
  /\ FreeFor("reactor", s) /\ s \in Busy /\ voice[s].phase = "on"
  /\ voice[s].taped => Recorder(s) \in ports[s]
  /\ voice' = [voice EXCEPT ![s].moving = TRUE]
  /\ joined' = {c \in joined \ Connections(s, Recorder(s)) : c[1] # Line(s) /\ c[2] # Line(s)}
  /\ ports' = [ports EXCEPT ![s] = @ \ {Recorder(s)}]
  /\ mishaps' = mishaps \cup (IF voice[s].taped /\ Unaware(s) THEN {"left"} ELSE {})
       \cup (IF \E t \in Threads : telling[t].port = Stream(s) THEN {"disordered"} ELSE {})
  /\ \E old \in {Freed, Line(s)} :
       Tells("reactor", [port |-> Stream(s), out |-> IF voice[s].muted THEN {} ELSE {old},
                         newOut |-> Source(Stream(s)), into |-> {old}, newInto |-> {Line(s)}, lock |-> s])
  /\ UNCHANGED <<live, conference>>
MovedOn(s) ==
  /\ Free("reactor") /\ voice[s].moving
  /\ voice' = [voice EXCEPT ![s].moving = FALSE]
  /\ IF voice[s].taped /\ voice[s].held # "yes"
     THEN /\ ports' = [ports EXCEPT ![s] = @ \cup {Recorder(s)}]
          /\ joined' = joined \cup Connections(s, Recorder(s))
     ELSE UNCHANGED <<ports, joined>>
  /\ UNCHANGED <<live, conference, telling, mishaps>>

\* deactivate(): the connections among the members, and the slots of the bridge
Deactivated(s) ==
  /\ FreeFor("reactor", s) /\ voice[s].phase = "on" /\ UNCHANGED conference
  /\ voice' = [voice EXCEPT ![s].phase = "down"]
  /\ ports' = [ports EXCEPT ![s] = {}]
  /\ GivenBack({Mux(s), Demux(s)}, joined \ Mesh(s)) /\ Removing(s)
\* end(): the recorder and the transport stop
Ended(s) ==
  /\ FreeFor("reactor", s) /\ voice[s].phase = "down" /\ UNCHANGED <<ports, conference, mishaps>>
  /\ voice' = [voice EXCEPT ![s].phase = "over", ![s].taped = FALSE]
  /\ GivenBack({Line(s), Tape(s)}, joined)
\* nothing refers to the stream any more; a bridge that was not stopped is stopped now, and its
\* members are disconnected unless the device was collected first
Collected(s) ==
  /\ FreeFor("reactor", s) /\ voice[s].phase \in {"new", "over"} /\ s \notin conference.streams
  /\ \A t \in Threads : telling[t].port[1] # s
  /\ voice' = [voice EXCEPT ![s] = NoVoice]
  /\ ports' = [b \in DOMAIN ports |-> IF b = s THEN {} ELSE ports[b]]
  /\ \/ GivenBack({Mux(s), Demux(s)}, joined \ Mesh(s)) /\ UNCHANGED mishaps
     \/ /\ Mesh(s) # {} /\ GivenBack({Mux(s), Demux(s)}, joined)
        /\ mishaps' = mishaps \cup {"left"}
  /\ UNCHANGED conference

-----------------------------------------------------------------------------
(***************************************************************************)
(* The application, on a thread of its own.                                *)
(***************************************************************************)
Changed(p, out, newOut) ==
  Tells("application", [NoChange EXCEPT !.port = p, !.out = out, !.newOut = newOut])
Mutes(s) ==
  /\ Free("application") /\ s \in Busy /\ voice[s].phase = "on"
  /\ voice' = [voice EXCEPT ![s].muted = ~@]
  /\ Changed(Stream(s), IF voice[s].muted THEN {} ELSE {Line(s)}, IF voice[s].muted THEN {Line(s)} ELSE {})
  /\ Changing(Stream(s)) /\ UNCHANGED <<joined, live, ports, conference>>
MutesInput ==
  /\ Free("application")
  /\ conference' = [conference EXCEPT !.muted = ~@]
  /\ Changed(Desk, IF conference.muted THEN {} ELSE {Sound}, IF conference.muted THEN {Sound} ELSE {})
  /\ Changing(Desk) /\ UNCHANGED <<voice, joined, live, ports>>
TapeStarts(s) ==
  /\ FreeFor("application", s) /\ s \in Busy /\ voice[s].phase = "on" /\ ~voice[s].taped
  /\ voice' = [voice EXCEPT ![s].taped = TRUE]
  /\ live' = live \cup {Tape(s)} /\ MayGet(Tape(s))
  /\ IF voice[s].held = "yes" THEN UNCHANGED <<ports, joined>>
     ELSE /\ ports' = [ports EXCEPT ![s] = @ \cup {Recorder(s)}]
          /\ joined' = joined \cup Feeding(s, {Tape(s)}, ports[s])
  /\ UNCHANGED <<conference, mishaps>>
TapeStops(s) ==
  /\ FreeFor("application", s) /\ voice[s].taped
  /\ voice' = [voice EXCEPT ![s].taped = FALSE]
  /\ joined' = {c \in joined : c[2] # Tape(s)} /\ live' = live \ {Tape(s)}
  /\ Tells("application", [NoChange EXCEPT !.port = Recorder(s), !.into = {Freed}, !.lock = s])
  /\ UNCHANGED <<ports, conference, mishaps>>

\* The conference moves the device of the stream, and then its bridge.
Joins(s) ==
  /\ Free("application") /\ s \notin conference.streams /\ Device(s) \in ports[s]
  /\ conference' = [conference EXCEPT !.streams = @ \cup {s}]
  /\ joined' = (joined \ Connections(s, Device(s))) \cup Connections(Root, Bridge(s))
  /\ ports' = [ports EXCEPT ![s] = @ \ {Device(s)}, ![Root] = @ \cup {Bridge(s)}]
  /\ Removing(s) /\ UNCHANGED <<voice, live, telling>>
PartsFrom(s) ==
  /\ Free("application") /\ s \in conference.streams
  /\ conference' = [conference EXCEPT !.streams = @ \ {s}]
  /\ joined' = (joined \ Connections(Root, Bridge(s))) \cup Connections(s, Device(s))
  /\ ports' = [ports EXCEPT ![s] = @ \cup {Device(s)}, ![Root] = @ \ {Bridge(s)}]
  /\ Removing(Root) /\ UNCHANGED <<voice, live, telling>>
HoldsAll ==
  /\ Free("application") /\ ~conference.onHold
  /\ conference' = [conference EXCEPT !.onHold = TRUE]
  /\ joined' = joined \ Connections(Root, Desk)
  /\ ports' = [ports EXCEPT ![Root] = @ \ {Desk}]
  /\ Removing(Root) /\ UNCHANGED <<voice, live, telling>>
UnholdsAll ==
  /\ Free("application") /\ conference.onHold
  /\ conference' = [conference EXCEPT !.onHold = FALSE]
  /\ joined' = joined \cup Connections(Root, Desk)
  /\ ports' = [ports EXCEPT ![Root] = @ \cup {Desk}]
  /\ UNCHANGED <<voice, live, telling, mishaps>>

\* A player in one of the bridges: its file is played on the reactor thread.
PlayerAdded(b) ==
  /\ Free("application") /\ \A c \in DOMAIN ports : Player \notin ports[c]
  /\ b # Root => voice[b].phase \in {"new", "on"}
  /\ ports' = [ports EXCEPT ![b] = @ \cup {Player}] /\ joined' = joined \cup Connections(b, Player)
  /\ UNCHANGED <<voice, live, conference, telling, mishaps>>
PlayerRemoved(b) ==
  /\ Free("application") /\ Player \in ports[b]
  /\ joined' = joined \ Connections(b, Player) /\ ports' = [ports EXCEPT ![b] = @ \ {Player}]
  /\ Removing(b) /\ UNCHANGED <<voice, live, conference, telling>>
TuneStarts ==
  /\ Free("reactor") /\ Tune \notin live /\ live' = live \cup {Tune}
  /\ Tells("reactor", [NoChange EXCEPT !.port = Player, !.newOut = {Tune}])
  /\ UNCHANGED <<voice, joined, ports, conference, mishaps>>
TuneEnds ==
  /\ Free("reactor") /\ Tune \in live /\ GivenBack({Tune}, joined)
  /\ UNCHANGED <<voice, ports, conference, mishaps>>

AudioNext ==
  \/ \E t \in Threads : AudioPortDidChangeSlots(t)
  \/ \E s \in Callers :
       \/ StreamMade(s) \/ LineStarts(s) \/ Paused(s) \/ PauseConfirmed(s) \/ Resumed(s) \/ Moved(s)
       \/ MovedOn(s) \/ Deactivated(s) \/ Ended(s) \/ Collected(s)
       \/ Mutes(s) \/ TapeStarts(s) \/ TapeStops(s) \/ Joins(s) \/ PartsFrom(s)
  \/ MutesInput \/ HoldsAll \/ UnholdsAll \/ TuneStarts \/ TuneEnds
  \/ \E b \in Played : PlayerAdded(b) \/ PlayerRemoved(b)

-----------------------------------------------------------------------------
\* The mixer carries sound from a slot to another directly or through bridges.
Pipes == {Mux(s) : s \in Callers} \cup {Demux(s) : s \in Callers}
Step(slots) == {c[2] : c \in {d \in joined : d[1] \in slots}}
Carried(a) == LET one == Step({a})
                  two == Step(one \cap Pipes)
              IN one \cup two \cup Step(two \cap Pipes)

\* Who is where by what the user and the sessions have done: in the room of a call, or all in one
\* room when the call is in the conference.
Room(s) == IF s \in conference.streams THEN Root ELSE s
Talking(s) == voice[s].phase = "on" /\ voice[s].held = "no"
Speaks(room) ==
  {Line(s) : s \in {r \in Callers : Talking(r) /\ ~voice[r].muted /\ Room(r) = room}}
    \cup (IF room = Root /\ (conference.onHold \/ conference.muted) THEN {} ELSE {Sound})
    \cup (IF \E b \in DOMAIN ports : Player \in ports[b] /\ room = (IF b = Root THEN b ELSE Room(b))
          THEN {Tune} \cap live ELSE {})
Listens(room) ==
  {Line(s) : s \in {r \in Callers : Talking(r) /\ Room(r) = room}}
    \cup {Tape(s) : s \in {r \in Callers : voice[r].taped /\ voice[r].phase = "on"
                                           /\ voice[r].held # "yes" /\ Room(r) = room}}
    \cup (IF room = Root /\ conference.onHold THEN {} ELSE {Sound})
Rooms == {Root} \cup (Callers \ conference.streams)

\* When no call is under way, the peers, the user, the recordings and what is played hear each
\* other exactly as calls, conference, hold and mute have it, and nobody hears himself: whatever
\* was added, held, muted, moved, recorded and ended on two threads, and whichever slot was reused.
HeardAsArranged ==
  (\A t \in Threads : Free(t)) /\ (\A s \in Callers : ~voice[s].moving) /\ mishaps = {} =>
    \A a \in {Sound, Tune} \cup {Line(s) : s \in Callers} :
      Carried(a) \ Pipes =
        UNION {IF a \in Speaks(room) THEN Listens(room) \ {a} ELSE {} : room \in Rooms}
=============================================================================
