---------------------------- MODULE AudioChannel ----------------------------
(***************************************************************************)
(* The audio conference of the channel: AudioPipelineHandler and the audio *)
(* branches of the gRPC handlers sendPeerMessage and createAudioChannel.   *)
(*                                                                         *)
(* One pipeline mixes what its peers send and hands the mix to all of      *)
(* them.  A peer has four parts in it: the elements it sends into, "send", *)
(* linked to the mixer, "mix", and the elements it receives from, "recv",  *)
(* linked to the tee behind the mixer, "tee".                              *)
(*                                                                         *)
(* A peer's messages are handled one after the other by its session,       *)
(* <<p, "session">>; a message of the media server that cannot be          *)
(* delivered makes another thread, <<p, "failure">>, report the peer as    *)
(* disconnected.  No lock is held over any two of the steps.               *)
(*                                                                         *)
(* Start n of the signalling server makes handler n and pipeline n.  SDP   *)
(* that does not parse and elements that cannot be made are left out.      *)
(***************************************************************************)
EXTENDS Naturals

CONSTANTS
    Peers,      \* peer ids
    MaxStarts   \* bound: starts of the signalling server

ASSUME AudioAssumption == MaxStarts \in Nat

Workers == Peers \X {"session", "failure"}
Starts == 1..MaxStarts

VARIABLES
    session,      \* a peer's websocket: new, open, broken (messages to it
                  \* fail), closed, lost with the signalling server
    channel,      \* peerChannelMap has the channel
    browser,      \* a browser's audio: out, in, answered (its receiving
                  \* connection, too, has candidates)
    starts,       \* calls of createAudioChannel so far
    call,         \* the call each worker is making, and how far it is
    current,      \* the handler in audioPipelineHandlers, or 0
    handlers,     \* the fields of each handler
    launch,       \* the thread of each start: how far it is, its handler
    mixers,       \* the pipelines that have the mixer and the tee
    parts,        \* the parts of peers in each pipeline
    toDeliver,    \* messages on their way to peers
    irregular,    \* history: what happened to the servers that nothing in the
                  \* code prevents
    misused,      \* history: what happened of that kind in the calls about a peer
    fault         \* what the media server died of

clientVars == <<session, channel, browser, starts>>
serverVars == <<current, handlers, launch, mixers, parts, toDeliver>>
historyVars == <<irregular, misused, fault>>
vars == <<clientVars, call, serverVars, historyVars>>

Parts == {"send", "mix", "recv", "tee"}
Kinds == {"join", "senderIce", "answer", "receiverIce", "reset", "close"}
AddPoints == {"register", "addSend", "mix", "registerReceiver", "addReceiver", "tee", "apply"}
RemovePoints == {"remove", "removeReceiver", "eraseSender", "eraseReceiver", "notify"}
Points == {"idle", "lookup", "senderIce", "answer", "receiverIce"} \cup AddPoints \cup RemovePoints
Irregularities == {"relaunch", "restart"}
Misuses == {"overlap", "joinedTwice", "early"}
Faults == {"none", "nullHandler", "nullPeer", "noMixer", "padLink", "unlinked", "mapRace", "iterator", "freed"}

\* dangling: the tree of the receivers' map still has a freed node.
NewHandler == [pipeline |-> 0, senders |-> {}, receivers |-> {}, dangling |-> FALSE]

CallRecords == [at : Points, kind : Kinds, handler : 0..MaxStarts]
HandlerRecords == [pipeline : 0..MaxStarts, senders : SUBSET Peers,
                   receivers : SUBSET Peers, dangling : BOOLEAN]
LaunchRecords == [at : {"none", "fetch", "pipeline", "elements", "running", "over"},
                  handler : 0..MaxStarts]

TypeOK ==
    /\ session \in [Peers -> {"new", "open", "broken", "closed", "lost"}]
    /\ channel \in BOOLEAN
    /\ browser \in [Peers -> {"out", "in", "answered"}]
    /\ starts \in 0..MaxStarts
    /\ call \in [Workers -> CallRecords]
    /\ current \in 0..MaxStarts
    /\ handlers \in [Starts -> HandlerRecords]
    /\ launch \in [Starts -> LaunchRecords]
    /\ mixers \subseteq Starts
    /\ parts \in [Starts -> SUBSET (Parts \X Peers)]
    /\ toDeliver \subseteq {"answer", "offer", "reset"} \X Peers
    /\ irregular \subseteq Irregularities
    /\ misused \in [Peers -> SUBSET Misuses]
    /\ fault \in Faults

Idle == [at |-> "idle", kind |-> "reset", handler |-> 0]
NoLaunch == [at |-> "none", handler |-> 0]

Init ==
    /\ session = [p \in Peers |-> "new"]
    /\ channel = FALSE
    /\ browser = [p \in Peers |-> "out"]
    /\ starts = 0
    /\ call = [w \in Workers |-> Idle]
    /\ current = 0
    /\ handlers = [h \in Starts |-> NewHandler]
    /\ launch = [n \in Starts |-> NoLaunch]
    /\ mixers = {}
    /\ parts = [n \in Starts |-> {}]
    /\ toDeliver = {}
    /\ irregular = {}
    /\ misused = [p \in Peers |-> {}]
    /\ fault = "none"

Up == fault = "none"
At(w, point) == Up /\ call[w].at = point
Goto(w, point) == call' = [call EXCEPT ![w].at = point]
Return(w) == call' = [call EXCEPT ![w] = Idle]
Note(p, what) == misused' = [misused EXCEPT ![p] = @ \cup what]

Crash(cause) ==
    /\ fault' = cause
    /\ UNCHANGED <<clientVars, call, serverVars, irregular, misused>>

----------------------------------------------------------------------------
(* The signalling server, and the browsers.                                *)

\* createAudioChannel: always a new handler, whatever the map has, and a
\* thread that launches its pipeline; then the channel takes peers.
CreateAudioChannel ==
    /\ Up
    /\ ~channel
    /\ starts < MaxStarts
    /\ starts' = starts + 1
    /\ channel' = TRUE
    /\ current' = starts + 1
    /\ launch' = [launch EXCEPT ![starts + 1].at = "fetch"]
    /\ UNCHANGED <<session, browser, call, handlers, mixers, parts, toDeliver, historyVars>>

\* The signalling server starts again: the sessions are gone, and nobody
\* tells the media server.
SignallingRestart ==
    /\ Up
    /\ channel
    /\ channel' = FALSE
    /\ session' = [p \in Peers |-> IF session[p] = "new" THEN "new" ELSE "lost"]
    /\ irregular' = irregular \cup {"relaunch"}
    /\ UNCHANGED <<browser, starts, call, serverVars, misused, fault>>

\* The media server starts again; nobody makes its channels but a start of the
\* signalling server.
ProcessRestart ==
    /\ ~Up
    /\ fault' = "none"
    /\ current' = 0
    /\ handlers' = [h \in Starts |-> NewHandler]
    /\ launch' = [n \in Starts |-> NoLaunch]
    /\ mixers' = {}
    /\ parts' = [n \in Starts |-> {}]
    /\ toDeliver' = {}
    /\ call' = [w \in Workers |-> Idle]
    /\ irregular' = {"restart"}
    /\ misused' = [p \in Peers |-> {}]
    /\ UNCHANGED clientVars

Quiet(p) == Up /\ call[<<p, "session">>].at = "idle"

\* onOpen, once the channel is there.
Connect(p) ==
    /\ Up
    /\ channel
    /\ session[p] = "new"
    /\ session' = [session EXCEPT ![p] = "open"]
    /\ UNCHANGED <<channel, browser, starts, call, serverVars, historyVars>>

Break(p) ==
    /\ Up
    /\ session[p] = "open"
    /\ session' = [session EXCEPT ![p] = "broken"]
    /\ UNCHANGED <<channel, browser, starts, call, serverVars, historyVars>>

\* The message goes to the media server.
Send(w, kind) == call' = [call EXCEPT ![w] = [Idle EXCEPT !.at = "lookup", !.kind = kind]]

\* joinAudio does not look whether the browser has joined.
Join(p) ==
    /\ Quiet(p)
    /\ session[p] = "open"
    /\ browser' = [browser EXCEPT ![p] = "in"]
    /\ Note(p, IF browser[p] # "out" THEN {"joinedTwice"} ELSE {})
    /\ Send(<<p, "session">>, "join")
    /\ UNCHANGED <<session, channel, starts, serverVars, irregular, fault>>

SenderCandidate(p) ==
    /\ Quiet(p)
    /\ session[p] = "open"
    /\ browser[p] # "out"
    /\ Send(<<p, "session">>, "senderIce")
    /\ UNCHANGED <<clientVars, serverVars, historyVars>>

ReceiverAnswer(p) ==
    /\ Quiet(p)
    /\ session[p] = "open"
    /\ browser[p] # "out"
    /\ <<"offer", p>> \in toDeliver
    /\ toDeliver' = toDeliver \ {<<"offer", p>>}
    /\ browser' = [browser EXCEPT ![p] = "answered"]
    /\ Send(<<p, "session">>, "answer")
    /\ UNCHANGED <<session, channel, starts, current, handlers, launch, mixers, parts,
                   historyVars>>

ReceiverCandidate(p) ==
    /\ Quiet(p)
    /\ session[p] = "open"
    /\ browser[p] = "answered"
    /\ Send(<<p, "session">>, "receiverIce")
    /\ UNCHANGED <<clientVars, serverVars, historyVars>>

\* quitAudio sends AUDIO_RESET, joined or not.
QuitAudio(p) ==
    /\ Quiet(p)
    /\ session[p] = "open"
    /\ browser' = [browser EXCEPT ![p] = "out"]
    /\ Send(<<p, "session">>, "reset")
    /\ UNCHANGED <<session, channel, starts, serverVars, historyVars>>

\* onClose sends DISCONNECTED.
Close(p) ==
    /\ Quiet(p)
    /\ session[p] \in {"open", "broken"}
    /\ session' = [session EXCEPT ![p] = "closed"]
    /\ browser' = [browser EXCEPT ![p] = "out"]
    /\ Send(<<p, "session">>, "close")
    /\ UNCHANGED <<channel, starts, serverVars, historyVars>>

\* A bug: the peer is reported although it got the message.
DeliverAndReport(m) ==
    /\ Up
    /\ m \in toDeliver
    /\ call[<<m[2], "failure">>].at = "idle"
    /\ Send(<<m[2], "failure">>, "close")
    /\ toDeliver' = toDeliver \ {m}
    /\ UNCHANGED <<clientVars, current, handlers, launch, mixers, parts, historyVars>>

\* sendToPeer: the peer gets the message (an answer or AUDIO_RESET asks nothing
\* of it), or is reported as disconnected.
Deliver(m) ==
    /\ Up
    /\ m \in toDeliver
    /\ LET w == <<m[2], "failure">> IN
       IF session[m[2]] = "open" THEN UNCHANGED call
       ELSE call[w].at = "idle" /\ Send(w, "close")
    /\ toDeliver' = toDeliver \ {m}
    /\ UNCHANGED <<clientVars, current, handlers, launch, mixers, parts, historyVars>>

\* A webrtcbin that has made its offer or answer finds candidates, and its thread
\* waits for their delivery: only one that cannot be delivered changes anything.
CandidateFails(p) ==
    /\ Up
    /\ session[p] \in {"broken", "closed", "lost"}
    /\ \E n \in Starts : <<"tee", p>> \in parts[n]
    /\ call[<<p, "failure">>].at = "idle"
    /\ Send(<<p, "failure">>, "close")
    /\ UNCHANGED <<clientVars, serverVars, historyVars>>

----------------------------------------------------------------------------
(* sendPeerMessage.                                                        *)

Handler(w) == handlers[call[w].handler]
Pipeline(w) == Handler(w).pipeline
Set(w, handler) == handlers' = [handlers EXCEPT ![call[w].handler] = handler]

\* Whether the pipeline of the worker's handler, if there is one, has the part.
Has(w, part) == Pipeline(w) # 0 /\ <<part, w[1]>> \in parts[Pipeline(w)]

\* A bug: elements are not named after their peer.
PutInUnnamed(w, part) == parts' = [parts EXCEPT ![Pipeline(w)] = @ \cup {part}]

PutIn(w, part) == parts' = [parts EXCEPT ![Pipeline(w)] = @ \cup {<<part, w[1]>>}]

\* A bug: what is taken out is not only the peer's.
TakeOutOfAll(w, both) == parts' = [parts EXCEPT ![Pipeline(w)] = @ \ (both \X Peers)]

TakeOut(w, both) == parts' = [parts EXCEPT ![Pipeline(w)] = @ \ (both \X {w[1]})]

First(kind) ==
    CASE kind = "join" -> "register"
      [] kind = "senderIce" -> "senderIce"
      [] kind = "answer" -> "answer"
      [] kind = "receiverIce" -> "receiverIce"
      [] kind \in {"reset", "close"} -> "remove"

\* Another call about the same peer is under way.
Meets(w) == \E v \in Workers \ {w} : v[1] = w[1] /\ call[v].at # "idle"

\* fetch_audio_pipelinehandler_by_key: only AUDIO_RESET looks whether there is
\* a handler.
Lookup(w) ==
    /\ At(w, "lookup")
    /\ current # 0
    /\ call' = [call EXCEPT ![w].at = First(call[w].kind), ![w].handler = current]
    /\ Note(w[1], (IF Meets(w) THEN {"overlap"} ELSE {})
            \cup (IF call[w].kind = "join" /\ handlers[current].pipeline \notin mixers
                  THEN {"early"} ELSE {}))
    /\ UNCHANGED <<clientVars, serverVars, irregular, fault>>

LookupFails(w) ==
    /\ At(w, "lookup")
    /\ current = 0
    /\ IF call[w].kind = "reset"
       THEN Return(w) /\ UNCHANGED <<clientVars, serverVars, historyVars>>
       ELSE Crash("nullHandler")

\* A candidate or an answer is for the webrtcbin of a peer that must be there.
SenderIce(w) ==
    /\ At(w, "senderIce")
    /\ IF w[1] \in Handler(w).senders
       THEN Return(w) /\ UNCHANGED <<clientVars, serverVars, historyVars>>
       ELSE Crash("nullPeer")

ForReceiver(w) ==
    /\ Up
    /\ call[w].at \in {"answer", "receiverIce"}
    /\ IF w[1] \in Handler(w).receivers
       THEN Return(w) /\ UNCHANGED <<clientVars, serverVars, historyVars>>
       ELSE Crash("nullPeer")

----------------------------------------------------------------------------
(* add_webrtc_audio_sender_receiver, apply_webrtc_audio_sender_sdp.        *)

\* peerAudioSenders[peerId] = ..., before there are elements.
Register(w) ==
    /\ At(w, "register")
    /\ Set(w, [Handler(w) EXCEPT !.senders = @ \cup {w[1]}])
    /\ Goto(w, "addSend")
    /\ UNCHANGED <<clientVars, current, launch, mixers, parts, toDeliver, historyVars>>

\* gst_bin_add_many: without a pipeline the next assertion fails.
AddSend(w) ==
    /\ At(w, "addSend")
    /\ ~Has(w, "send")
    /\ IF Pipeline(w) = 0 THEN Crash("noMixer")
       ELSE /\ PutIn(w, "send")
            /\ Goto(w, "mix")
            /\ UNCHANGED <<clientVars, current, handlers, launch, mixers, toDeliver, historyVars>>

\* The names are taken: the new elements stay outside of the pipeline, cannot
\* be linked to one another and the sender is left as it is, or cannot be
\* linked to the mixer, which is asserted.
AddSendAgain(w) ==
    /\ At(w, "addSend")
    /\ Has(w, "send")
    /\ \/ Goto(w, "apply") /\ UNCHANGED <<clientVars, serverVars, historyVars>>
       \/ Crash("padLink")

\* The decoder is linked to audiomixer0.
Mix(w) ==
    /\ At(w, "mix")
    /\ IF Pipeline(w) \notin mixers THEN Crash("noMixer")
       ELSE IF ~Has(w, "send") THEN Crash("padLink")
       ELSE /\ PutIn(w, "mix")
            /\ Goto(w, "registerReceiver")
            /\ UNCHANGED <<clientVars, current, handlers, launch, mixers, toDeliver, historyVars>>

\* A bug: the receiver is not put into its map.
RegisterReceiverForgotten(w) ==
    /\ At(w, "registerReceiver")
    /\ Goto(w, "addReceiver")
    /\ UNCHANGED <<clientVars, serverVars, historyVars>>

\* peerAudioReceivers[peerId] = ...
RegisterReceiver(w) ==
    /\ At(w, "registerReceiver")
    /\ Set(w, [Handler(w) EXCEPT !.receivers = @ \cup {w[1]}])
    /\ Goto(w, "addReceiver")
    /\ UNCHANGED <<clientVars, current, launch, mixers, parts, toDeliver, historyVars>>

AddReceiver(w) ==
    /\ At(w, "addReceiver")
    /\ IF Has(w, "recv") THEN Crash("padLink")
       ELSE /\ PutIn(w, "recv")
            /\ Goto(w, "tee")
            /\ UNCHANGED <<clientVars, current, handlers, launch, mixers, toDeliver, historyVars>>

\* audiotee0 is linked to the queue; the receiving webrtcbin negotiates.
Tee(w) ==
    /\ At(w, "tee")
    /\ IF ~Has(w, "recv") THEN Crash("padLink")
       ELSE /\ PutIn(w, "tee")
            /\ Goto(w, "apply")
            /\ toDeliver' = toDeliver \cup {<<"offer", w[1]>>}
            /\ UNCHANGED <<clientVars, current, handlers, launch, mixers, historyVars>>

\* The browser's offer is applied to the sender that is in the map, and answered.
Apply(w) ==
    /\ At(w, "apply")
    /\ IF w[1] \notin Handler(w).senders THEN Crash("nullPeer")
       ELSE /\ Return(w)
            /\ toDeliver' = toDeliver \cup {<<"answer", w[1]>>}
            /\ UNCHANGED <<clientVars, current, handlers, launch, mixers, parts, historyVars>>

----------------------------------------------------------------------------
(* remove_webrtc_audio_sender_receiver.                                    *)

\* Without the sender's webrtcbin there is nothing to do.
Remove(w) ==
    /\ At(w, "remove")
    /\ IF ~Has(w, "send") THEN Return(w) /\ UNCHANGED <<clientVars, serverVars, historyVars>>
       ELSE IF ~Has(w, "mix") THEN Crash("unlinked")
       ELSE /\ TakeOut(w, {"send", "mix"})
            /\ Goto(w, "removeReceiver")
            /\ UNCHANGED <<clientVars, current, handlers, launch, mixers, toDeliver, historyVars>>

\* A bug: the peer stays a receiver of the mix.
RemoveReceiverForgotten(w) ==
    /\ At(w, "removeReceiver")
    /\ Return(w)
    /\ UNCHANGED <<clientVars, serverVars, historyVars>>

\* Without the receiver's, the rest of the removal is left out.
RemoveReceiver(w) ==
    /\ At(w, "removeReceiver")
    /\ IF ~Has(w, "recv") THEN Return(w) /\ UNCHANGED <<clientVars, serverVars, historyVars>>
       ELSE IF ~Has(w, "tee") THEN Crash("unlinked")
       ELSE /\ TakeOut(w, {"recv", "tee"})
            /\ Goto(w, "eraseSender")
            /\ UNCHANGED <<clientVars, current, handlers, launch, mixers, toDeliver, historyVars>>

\* A bug: the sender stays in its map.
EraseSenderForgotten(w) ==
    /\ At(w, "eraseSender")
    /\ Goto(w, "eraseReceiver")
    /\ UNCHANGED <<clientVars, serverVars, historyVars>>

EraseSender(w) ==
    /\ At(w, "eraseSender")
    /\ Set(w, [Handler(w) EXCEPT !.senders = @ \ {w[1]}])
    /\ Goto(w, "eraseReceiver")
    /\ UNCHANGED <<clientVars, current, launch, mixers, parts, toDeliver, historyVars>>

\* The receiver's iterator is erased from the senders' map: its node is freed,
\* and unlinked from the receivers' tree, or not, for the tree's header is the
\* other map's; or rebalancing with that header goes astray.
EraseReceiver(w) ==
    /\ At(w, "eraseReceiver")
    /\ \/ /\ \E dangling \in {Handler(w).dangling, w[1] \in Handler(w).receivers} :
                Set(w, [Handler(w) EXCEPT !.receivers = @ \ {w[1]},
                                          !.dangling = @ \/ dangling])
          /\ Goto(w, "notify")
          /\ UNCHANGED <<clientVars, current, launch, mixers, parts, toDeliver, historyVars>>
       \/ w[1] \in Handler(w).receivers /\ Crash("iterator")

\* The peer is sent AUDIO_RESET.
Notify(w) ==
    /\ At(w, "notify")
    /\ toDeliver' = toDeliver \cup {<<"reset", w[1]>>}
    /\ Return(w)
    /\ UNCHANGED <<clientVars, current, handlers, launch, mixers, parts, historyVars>>

----------------------------------------------------------------------------
(* The two maps.                                                           *)

UsesSenders == {"register", "apply", "senderIce", "eraseSender"}
UsesReceivers == {"registerReceiver", "answer", "receiverIce", "eraseReceiver"}

\* An insertion without the mutex runs against another access to its map.
MapRace ==
    /\ Up
    /\ \E w, v \in Workers :
          /\ w # v
          /\ call[w].handler = call[v].handler
          /\ \/ call[w].at = "register" /\ call[v].at \in UsesSenders
             \/ call[w].at = "registerReceiver" /\ call[v].at \in UsesReceivers
    /\ Crash("mapRace")

\* An access to the receivers' map comes upon the freed node.
Dangling(w) ==
    /\ Up
    /\ call[w].at \in UsesReceivers
    /\ Handler(w).dangling
    /\ Crash("freed")

----------------------------------------------------------------------------
(* launch_pipeline_audio.                                                  *)

LaunchFetch(n) ==
    /\ Up
    /\ launch[n].at = "fetch"
    /\ launch' = [launch EXCEPT ![n] = [at |-> IF current = 0 THEN "over" ELSE "pipeline",
                                        handler |-> current]]
    /\ UNCHANGED <<clientVars, call, current, handlers, mixers, parts, toDeliver, historyVars>>

LaunchPipeline(n) ==
    /\ Up
    /\ launch[n].at = "pipeline"
    /\ handlers' = [handlers EXCEPT ![launch[n].handler].pipeline = n]
    /\ launch' = [launch EXCEPT ![n].at = "elements"]
    /\ UNCHANGED <<clientVars, call, current, mixers, parts, toDeliver, historyVars>>

\* The mixer and the tee go into the handler's pipeline; it is set PLAYING, and
\* the main loop runs for ever.
LaunchElements(n) ==
    /\ Up
    /\ launch[n].at = "elements"
    /\ mixers' = mixers \cup {handlers[launch[n].handler].pipeline}
    /\ launch' = [launch EXCEPT ![n].at = "running"]
    /\ UNCHANGED <<clientVars, call, current, handlers, parts, toDeliver, historyVars>>

----------------------------------------------------------------------------
Client(p) ==
    \/ Connect(p) \/ Break(p) \/ Close(p)
    \/ Join(p) \/ SenderCandidate(p) \/ ReceiverAnswer(p) \/ ReceiverCandidate(p) \/ QuitAudio(p)

\* A call under way goes on by itself.
Proceed(w) ==
    \/ Lookup(w) \/ LookupFails(w) \/ SenderIce(w) \/ ForReceiver(w)
    \/ Register(w) \/ AddSend(w) \/ AddSendAgain(w) \/ Mix(w)
    \/ RegisterReceiver(w) \/ AddReceiver(w) \/ Tee(w) \/ Apply(w)
    \/ Remove(w) \/ RemoveReceiver(w) \/ EraseSender(w) \/ EraseReceiver(w) \/ Notify(w)
    \/ Dangling(w)

Launch(n) == LaunchFetch(n) \/ LaunchPipeline(n) \/ LaunchElements(n)

Next ==
    \/ CreateAudioChannel \/ SignallingRestart \/ ProcessRestart \/ MapRace
    \/ \E p \in Peers : Client(p)
    \/ \E p \in Peers : CandidateFails(p)
    \/ \E m \in {"answer", "offer", "reset"} \X Peers : Deliver(m)
    \/ \E w \in Workers : Proceed(w)
    \/ \E n \in Starts : Launch(n)

\* Calls, launches and deliveries wait for nothing but what their guards say.
Fairness ==
    /\ \A w \in Workers : WF_vars(Proceed(w))
    /\ \A n \in Starts : WF_vars(Launch(n))
    /\ \A m \in {"answer", "offer", "reset"} \X Peers : WF_vars(Deliver(m))

Spec == Init /\ [][Next]_vars /\ Fairness

\* The behaviours without irregularities: nothing in the code enforces it.
RegularNext == Next /\ irregular' = {} /\ \A p \in Peers : misused'[p] = {}
RegularSpec == Init /\ [][RegularNext]_vars /\ Fairness

----------------------------------------------------------------------------
(***************************************************************************)
(* Properties.                                                             *)
(***************************************************************************)

\* No two calls about the peer have met, and neither server has started again.
Undisturbed(p) == Up /\ irregular = {} /\ "overlap" \notin misused[p]

\* No call about the peer is under way.
AtRest(p) == \A w \in Workers : w[1] = p => call[w].at = "idle"

\* What the conference has of a peer.
PartsOf(p) ==
    IF current = 0 \/ handlers[current].pipeline = 0 THEN {}
    ELSE {x \in Parts : <<x, p>> \in parts[handlers[current].pipeline]}

\* No half peer: between the calls about it, a peer has all of its parts in the
\* pipeline and both of its map entries, or none of them, whatever the calls
\* about other peers do at the moment or have done to them.
WholePeers ==
    current # 0 => \A p \in Peers : Undisturbed(p) /\ AtRest(p) =>
        /\ PartsOf(p) \in {{}, Parts}
        /\ p \in handlers[current].senders <=> PartsOf(p) = Parts
        /\ p \in handlers[current].receivers <=> PartsOf(p) = Parts

\* Who has joined talks to and hears the conference; who has quit, or has left
\* in the middle of whatever it was doing, does neither.
JoinedIsHeard ==
    \A p \in Peers : Undisturbed(p) /\ AtRest(p) =>
        /\ session[p] = "open" => PartsOf(p) = IF browser[p] = "out" THEN {} ELSE Parts
        /\ session[p] = "closed" => PartsOf(p) = {}

\* Nobody is dropped: while the media server lives, a peer that is in the
\* conference goes out of it only if it has quit or its websocket is not open,
\* whatever messages were in flight or could not be delivered; but a second launch
\* may replace the pipeline.
OnlyLeaversGo ==
    [][\A p \in Peers :
          PartsOf(p) = Parts /\ PartsOf(p)' # Parts =>
              \/ browser[p] = "out" \/ session[p] # "open"
              \/ ~Up \/ "relaunch" \in irregular]_vars

Wanting == {p \in Peers : browser[p] # "out"}
Away == {p \in Peers : session[p] \in {"broken", "closed", "lost"}}
Members == {p \in Peers : PartsOf(p) = Parts}
Conf == INSTANCE Conference WITH wanting <- Wanting, away <- Away, members <- Members

\* The pipeline implements a conference while the media server lives, and until
\* a second start of the signalling server: no interleaving of calls about one
\* peer or about several puts in who has not asked, takes out who has not left,
\* or changes what the conference has of two peers at once.
ImplementsConference ==
    Conf!Init /\ [][Conf!Next \/ ~Up \/ "relaunch" \in irregular']_<<Wanting, Away, Members>>

\* The media server dies of an assertion or of a null pointer only where
\* something irregular came first, and of each for its own reason: a join that
\* comes too early or twice, calls about one peer that meet, a signalling
\* server that was started again, and no handler only after its own restart.
FaultHasCause ==
    LET Some(what) == \E p \in Peers : misused[p] \cap what # {} IN
    /\ fault = "noMixer" => Some({"early"}) \/ "relaunch" \in irregular
    /\ fault = "padLink" => Some({"joinedTwice", "overlap"}) \/ "relaunch" \in irregular
    /\ fault \in {"unlinked", "nullPeer"} => Some({"overlap"}) \/ "relaunch" \in irregular
    /\ fault = "nullHandler" => "restart" \in irregular
=============================================================================
