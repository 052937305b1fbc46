---------------------------- MODULE VideoChannel ----------------------------
(***************************************************************************)
(* The video of the channel, from the signalling server's lock to the      *)
(* media server's pipeline: VideoPipelineHandler, the video branches of    *)
(* the gRPC handler sendPeerMessage, and of the signalling server what     *)
(* decides which of its messages arrive in which order.                    *)
(*                                                                         *)
(* The lock is taken and freed in one step here, as ExclusiveLock says     *)
(* (VideoLock has its two fields and two monitors).  A peer's messages are *)
(* handled one after the other by its session, <<p, "session">>; a message *)
(* of the media server that cannot be delivered to p makes another thread  *)
(* report p as disconnected, <<p, "failure">>; the messages of the         *)
(* pipelines' buses are handled one at a time, BusWorker.  Every offer     *)
(* let through starts a thread that launches a pipeline.                   *)
(*                                                                         *)
(* Offer number n makes handler n, unless one is in videoPipelineHandlers, *)
(* and pipeline n.  No lock is held over any two of the steps.  SDP that   *)
(* does not parse and GStreamer elements that cannot be made are left out. *)
(***************************************************************************)
EXTENDS Naturals, FiniteSets

CONSTANTS
    Peers,      \* peer ids
    NoPeer,     \* the free lock
    MaxOffers,  \* bound: offers the lock lets through
    MaxRestarts \* bound: restarts of the signalling server

ASSUME ChannelAssumption ==
    /\ NoPeer \notin Peers
    /\ MaxOffers \in Nat
    /\ MaxRestarts \in Nat

BusWorker == <<NoPeer, "bus">>
Workers == (Peers \X {"session", "failure"}) \cup {BusWorker}
Offers == 1..MaxOffers

VARIABLES
    lock,         \* the peer that has the video lock
    session,      \* a peer's websocket: new, open, broken (messages to it
                  \* fail), closed, lost (with the server that restarted)
    inChannel,    \* peerChannelMap: peers in the channel
    trying,       \* browsers with a peerConnectionVideoSend
    count,        \* offers let through so far
    restarts,     \* restarts of the signalling server so far
    call,         \* the call each worker is making, and how far it is
    current,      \* the handler in videoPipelineHandlers, or 0
    handlers,     \* the fields of each handler
    launch,       \* the thread of each offer: how far it is, its handler
    bins,         \* the webrtcbins in each pipeline
    playing,      \* pipelines in state PLAYING
    watched,      \* pipelines whose bus watch is still there
    toDeliver,    \* webrtcbins whose SDP is on its way to their peers
    overlapped,   \* history: of offers, launches, removals and uses of peers
                  \* two met that nothing in the code keeps apart
    slow,         \* history: a teardown did not wait for its pipeline to stop
    fault         \* what the media server died of

serverVars == <<current, handlers, launch, bins, playing, watched, toDeliver>>
clientVars == <<lock, session, inChannel, trying, count, restarts>>
historyVars == <<overlapped, slow, fault>>
vars == <<clientVars, call, serverVars, historyVars>>

Kinds == {"offer", "ice", "answer", "reset", "close", "bus"}
TeardownPoints == {"free", "strip", "nullify", "forget", "nullifyLate", "quit", "unmap"}
RemovePoints == {"remove"} \cup TeardownPoints
Points == {"idle", "unlist", "lookup", "create", "ice", "answer", "apply"} \cup RemovePoints
BuildPoints == {"fetch", "build", "receivers", "play", "loop"}
LaunchPoints == {"none", "over", "running"} \cup BuildPoints
Bins == {"send", "recv"} \X Peers

Idle == [at |-> "idle", kind |-> "reset", peer |-> NoPeer, handler |-> 0,
         offer |-> 0, invited |-> {}]
NewHandler == [sender |-> NoPeer, receivers |-> {}, pipeline |-> 0, loop |-> 0,
               sends |-> FALSE]
NoLaunch == [at |-> "none", handler |-> 0]

CallRecords == [at : Points, kind : Kinds, peer : Peers \cup {NoPeer},
                handler : 0..MaxOffers, offer : 0..MaxOffers, invited : SUBSET Peers]
HandlerRecords == [sender : Peers \cup {NoPeer}, receivers : SUBSET Peers,
                   pipeline : 0..MaxOffers, loop : 0..MaxOffers, sends : BOOLEAN]
LaunchRecords == [at : LaunchPoints, handler : 0..MaxOffers]
Faults == {"none", "assert", "iterator", "freed", "nullHandler"}

TypeOK ==
    /\ lock \in Peers \cup {NoPeer}
    /\ session \in [Peers -> {"new", "open", "broken", "closed", "lost"}]
    /\ inChannel \subseteq Peers
    /\ trying \subseteq Peers
    /\ count \in 0..MaxOffers
    /\ restarts \in 0..MaxRestarts
    /\ call \in [Workers -> CallRecords]
    /\ current \in 0..MaxOffers
    /\ handlers \in [Offers -> HandlerRecords]
    /\ launch \in [Offers -> LaunchRecords]
    /\ bins \in [Offers -> SUBSET Bins]
    /\ playing \subseteq Offers
    /\ watched \subseteq Offers
    /\ toDeliver \subseteq Bins
    /\ overlapped \in BOOLEAN
    /\ slow \in BOOLEAN
    /\ fault \in Faults

Init ==
    /\ lock = NoPeer
    /\ session = [p \in Peers |-> "new"]
    /\ inChannel = {}
    /\ trying = {}
    /\ count = 0
    /\ restarts = 0
    /\ call = [w \in Workers |-> Idle]
    /\ current = 0
    /\ handlers = [n \in Offers |-> NewHandler]
    /\ launch = [n \in Offers |-> NoLaunch]
    /\ bins = [n \in Offers |-> {}]
    /\ playing = {}
    /\ watched = {}
    /\ toDeliver = {}
    /\ overlapped = FALSE
    /\ slow = FALSE
    /\ fault = "none"

Up == fault = "none"
At(w, point) == Up /\ call[w].at = point
Goto(w, point) == call' = [call EXCEPT ![w].at = point]
Return(w) == call' = [call EXCEPT ![w] = Idle]
Launching == \E n \in Offers : launch[n].at \in BuildPoints
SomeAt(points) == \E w \in Workers : call[w].at \in points

Crash(cause) ==
    /\ fault' = cause
    /\ UNCHANGED <<clientVars, call, serverVars, overlapped, slow>>

----------------------------------------------------------------------------
(* The signalling server, and the browsers.                                *)

Quiet(p) == Up /\ call[<<p, "session">>].at = "idle"

\* onOpen, once the peer has been told its id.
Connect(p) ==
    /\ Up
    /\ session[p] = "new"
    /\ session' = [session EXCEPT ![p] = "open"]
    /\ inChannel' = inChannel \cup {p}
    /\ UNCHANGED <<lock, trying, count, restarts, call, serverVars, historyVars>>

Break(p) ==
    /\ Up
    /\ session[p] = "open"
    /\ session' = [session EXCEPT ![p] = "broken"]
    /\ UNCHANGED <<lock, inChannel, trying, count, restarts, call, serverVars,
                   historyVars>>

\* The message goes to the media server.
Send(p, kind, n, invited) ==
    call' = [call EXCEPT ![<<p, "session">>] =
                 [at |-> "lookup", kind |-> kind, peer |-> p, handler |-> 0,
                  offer |-> n, invited |-> invited]]

\* A video offer that gets the lock goes on with the peers then in the channel.
Offer(p) ==
    /\ Quiet(p)
    /\ session[p] = "open"
    /\ p \notin trying
    /\ lock = NoPeer
    /\ count < MaxOffers
    /\ lock' = p
    /\ trying' = trying \cup {p}
    /\ count' = count + 1
    /\ Send(p, "offer", count + 1, inChannel \ {p})
    /\ UNCHANGED <<session, inChannel, restarts, serverVars, historyVars>>

\* ... and one that does not is dropped, without a word to the browser.
OfferDropped(p) ==
    /\ Quiet(p)
    /\ session[p] = "open"
    /\ p \notin trying
    /\ lock # NoPeer
    /\ trying' = trying \cup {p}
    /\ UNCHANGED <<lock, session, inChannel, count, restarts, call, serverVars,
                   historyVars>>

\* A candidate of a sender.
SenderIce(p) ==
    /\ Quiet(p)
    /\ session[p] = "open"
    /\ p \in trying
    /\ Send(p, "ice", 0, {})
    /\ UNCHANGED <<clientVars, serverVars, historyVars>>

\* The answer to the offer a receiver was sent.
ReceiverAnswer(p) ==
    /\ Quiet(p)
    /\ session[p] = "open"
    /\ <<"recv", p>> \in toDeliver
    /\ toDeliver' = toDeliver \ {<<"recv", p>>}
    /\ Send(p, "answer", 0, {})
    /\ UNCHANGED <<clientVars, current, handlers, launch, bins, playing, watched,
                   historyVars>>

\* A candidate of a receiver, which the media server treats like an answer.  It
\* may overtake the answer, and come late: one sent when the webrtcbin is gone
\* changes nothing, one sent before may find another handler.
ReceiverIce(p) ==
    /\ Quiet(p)
    /\ session[p] = "open"
    /\ <<"recv", p>> \in UNION {bins[n] : n \in Offers} \ toDeliver
    /\ Send(p, "answer", 0, {})
    /\ UNCHANGED <<clientVars, serverVars, historyVars>>

\* A bug: any peer's message frees the lock.
UnlockAnyway(p) == NoPeer

Unlock(p) == IF lock = p THEN NoPeer ELSE lock

\* VIDEO_RESET of a browser that stops: the lock is freed, then the media
\* server is told.
VideoReset(p) ==
    /\ Quiet(p)
    /\ session[p] = "open"
    /\ p \in trying
    /\ trying' = trying \ {p}
    /\ lock' = Unlock(p)
    /\ Send(p, "reset", 0, {})
    /\ UNCHANGED <<session, inChannel, count, restarts, serverVars, historyVars>>

\* onClose: the lock is freed, the peer leaves the channel, the media server
\* is told DISCONNECTED.
Close(p) ==
    /\ Quiet(p)
    /\ session[p] \in {"open", "broken"}
    /\ session' = [session EXCEPT ![p] = "closed"]
    /\ trying' = trying \ {p}
    /\ lock' = Unlock(p)
    /\ call' = [call EXCEPT ![<<p, "session">>] =
                    [Idle EXCEPT !.at = "unlist", !.kind = "close", !.peer = p]]
    /\ UNCHANGED <<inChannel, count, restarts, serverVars, historyVars>>

Unlisting(p) == call[<<p, "session">>].at = "unlist"

Unlist(w) ==
    /\ At(w, "unlist")
    /\ inChannel' = inChannel \ {call[w].peer}
    /\ Goto(w, "lookup")
    /\ UNCHANGED <<lock, session, trying, count, restarts, serverVars, historyVars>>

\* A bug: a message that cannot be delivered is only logged.
DropUndelivered(bin) ==
    /\ Up
    /\ bin \in toDeliver
    /\ toDeliver' = toDeliver \ {bin}
    /\ UNCHANGED <<clientVars, call, current, handlers, launch, bins, playing, watched,
                   historyVars>>

\* The media server is told that p is disconnected.
Report(p) ==
    call' = [call EXCEPT ![<<p, "failure">>] =
                 [Idle EXCEPT !.at = "lookup", !.kind = "close", !.peer = p]]

\* sendToPeer: the peer gets the message, or is reported as disconnected;
\* its lock is not touched then.
Deliver(bin) ==
    /\ Up
    /\ bin \in toDeliver
    /\ LET p == bin[2]
           w == <<p, "failure">>
       IN
       IF session[p] = "open" THEN UNCHANGED call
       ELSE call[w].at = "idle" /\ Report(p)
    /\ toDeliver' = toDeliver \ {bin}
    /\ UNCHANGED <<clientVars, current, handlers, launch, bins, playing, watched,
                   historyVars>>

\* A webrtcbin finds candidates, and its thread waits for their delivery: only
\* one that cannot be delivered changes anything.
CandidateFails(p) ==
    /\ Up
    /\ session[p] \in {"broken", "closed", "lost"}
    /\ current # 0
    /\ \E n \in playing : \E bin \in bins[n] \ toDeliver : bin[2] = p
    /\ call[<<p, "failure">>].at = "idle"
    /\ Report(p)
    /\ UNCHANGED <<clientVars, serverVars, historyVars>>

\* The signalling server ends at any point and is started again: lock, sessions
\* and what it had not yet told the media server are gone, and messages that
\* find it down.  The media server is told of nobody's leaving.
SignallingRestart ==
    /\ Up
    /\ restarts < MaxRestarts
    /\ restarts' = restarts + 1
    /\ lock' = NoPeer
    /\ session' = [p \in Peers |->
                      IF session[p] \in {"open", "broken"} \/ Unlisting(p) THEN "lost"
                      ELSE session[p]]
    /\ inChannel' = {}
    /\ trying' = {}
    /\ call' = [w \in Workers |-> IF call[w].at = "unlist" THEN Idle ELSE call[w]]
    /\ \E down \in SUBSET toDeliver : toDeliver' = toDeliver \ down
    /\ UNCHANGED <<count, current, handlers, launch, bins, playing, watched, historyVars>>

----------------------------------------------------------------------------
(* The media server: sendPeerMessage.                                      *)

Caller(w) == call[w].peer
Handler(w) == handlers[call[w].handler]
SetHandler(h, handler) == handlers' = [handlers EXCEPT ![h] = handler]

\* Where a call goes on that has found a handler.
Found(kind) ==
    CASE kind = "offer" -> "create"
      [] kind = "ice" -> "ice"
      [] kind = "answer" -> "answer"
      [] kind \in {"reset", "close"} -> "remove"

\* fetch_video_pipelinehandler_by_key; only an offer goes on without one.
Lookup(w) ==
    /\ At(w, "lookup")
    /\ IF current = 0 /\ call[w].kind # "offer" THEN Return(w)
       ELSE call' = [call EXCEPT ![w].at = Found(call[w].kind), ![w].handler = current]
    /\ overlapped' = (overlapped \/ (/\ current # 0
                                    /\ call[w].kind \in {"reset", "close"}
                                    /\ (Launching \/ SomeAt(RemovePoints))))
    /\ UNCHANGED <<clientVars, serverVars, slow, fault>>

\* A new handler, or the one that was found: it has the peer as its sender,
\* the peers in the channel as further receivers, and a pipeline is launched.
Create(w) ==
    /\ At(w, "create")
    /\ LET n == call[w].offer
           h == IF call[w].handler = 0 THEN n ELSE call[w].handler
       IN
       /\ current' = IF call[w].handler = 0 THEN n ELSE current
       /\ SetHandler(h, [handlers[h] EXCEPT !.sender = Caller(w),
                                            !.receivers = @ \cup call[w].invited,
                                            !.sends = FALSE])
       /\ launch' = [launch EXCEPT ![n].at = "fetch"]
    /\ Return(w)
    /\ overlapped' = (overlapped \/ call[w].handler # 0 \/ current # 0
                                \/ Launching \/ SomeAt(RemovePoints))
    /\ UNCHANGED <<clientVars, bins, playing, watched, toDeliver, slow, fault>>

\* apply_webrtc_video_sender_ice waits for the sender's webrtcbin.
Ice(w) ==
    /\ At(w, "ice")
    /\ Caller(w) = Handler(w).sender => Handler(w).sends
    /\ Return(w)
    /\ UNCHANGED <<clientVars, serverVars, historyVars>>

\* apply_webrtc_video_receiver_sdp and _ice look up the receiver ...
Answer(w) ==
    /\ At(w, "answer")
    /\ IF Caller(w) \in Handler(w).receivers THEN Goto(w, "apply") ELSE Return(w)
    /\ UNCHANGED <<clientVars, serverVars, historyVars>>

\* ... and use its webrtcbin, which may have been taken out and freed; that of
\* a receiver in the map that the launch has not come to is NULL, and GLib
\* refuses it.
Apply(w) ==
    /\ At(w, "apply")
    /\ IF \/ Caller(w) \in Handler(w).receivers
          \/ \E n \in Offers : <<"recv", Caller(w)>> \in bins[n]
       THEN Return(w) /\ UNCHANGED <<clientVars, serverVars, historyVars>>
       ELSE Crash("freed")

\* remove_webrtc_video_peer of the sender closes the pipeline, of another
\* peer takes its elements out of it and the peer out of the receivers.
Remove(w) ==
    /\ At(w, "remove")
    /\ LET h == call[w].handler
           n == handlers[h].pipeline
           p == Caller(w)
       IN
       IF p = handlers[h].sender
       THEN Goto(w, "strip") /\ UNCHANGED <<handlers, bins, overlapped>>
       ELSE /\ Return(w)
            /\ SetHandler(h, [handlers[h] EXCEPT !.receivers = @ \ {p}])
            /\ bins' = IF n = 0 THEN bins ELSE [bins EXCEPT ![n] = @ \ {<<"recv", p>>}]
            /\ overlapped' = (overlapped \/ \E v \in Workers : call[v].at = "apply" /\ Caller(v) = p)
    /\ UNCHANGED <<clientVars, current, launch, playing, watched, toDeliver, slow, fault>>

----------------------------------------------------------------------------
(* remove_sender_peer_close_pipeline.                                      *)

\* An error or the end of a stream on a pipeline's bus, the watchdog's
\* timeout among them: the pipeline's handler is released, and the watch goes.
BusMessage(n) ==
    /\ Up
    /\ n \in playing \cap watched
    /\ call[BusWorker].at = "idle"
    /\ watched' = watched \ {n}
    /\ call' = [call EXCEPT ![BusWorker] =
                    [Idle EXCEPT !.at = "free", !.kind = "bus", !.handler = launch[n].handler]]
    /\ overlapped' = (overlapped \/ Launching \/ SomeAt(RemovePoints))
    /\ UNCHANGED <<clientVars, current, handlers, launch, bins, playing, toDeliver, slow, fault>>

\* A bug: no VIDEO_RESET is sent.
FreeForgotten(w) ==
    /\ At(w, "free")
    /\ Goto(w, "strip")
    /\ UNCHANGED <<clientVars, serverVars, historyVars>>

\* release_video_pipeline sends VIDEO_RESET first: the signalling server
\* frees the lock.
Free(w) ==
    /\ At(w, "free")
    /\ lock' = Unlock(Handler(w).sender)
    /\ Goto(w, "strip")
    /\ UNCHANGED <<session, inChannel, trying, count, restarts, serverVars,
                   historyVars>>

\* A bug: the handler leaves the map first.
StripUnmapsFirst(w) ==
    /\ At(w, "strip")
    /\ current' = 0
    /\ Goto(w, IF Handler(w).pipeline = 0 THEN "quit" ELSE "nullify")
    /\ UNCHANGED <<clientVars, handlers, launch, bins, playing, watched, toDeliver, historyVars>>

\* The receivers' elements are taken out and the receivers forgotten.
Strip(w) ==
    /\ At(w, "strip")
    /\ LET h == call[w].handler
           n == handlers[h].pipeline
       IN
       IF n = 0
       THEN Goto(w, "quit") /\ UNCHANGED <<handlers, bins, overlapped>>
       ELSE /\ Goto(w, "nullify")
            /\ SetHandler(h, [handlers[h] EXCEPT !.receivers = {}])
            /\ bins' = [bins EXCEPT ![n] = @ \ ({"recv"} \X handlers[h].receivers)]
            /\ overlapped' = (overlapped \/ SomeAt({"apply"}))
    /\ UNCHANGED <<clientVars, current, launch, playing, watched, toDeliver, slow, fault>>

\* A receiver without elements is erased from the map the loop runs over.
StripErases(w) ==
    /\ At(w, "strip")
    /\ LET n == Handler(w).pipeline IN
       n # 0 /\ \E r \in Handler(w).receivers : <<"recv", r>> \notin bins[n]
    /\ Crash("iterator")

\* The pipeline of the handler that is in the map now is set to NULL.
StopCurrent == playing' = playing \ (IF current = 0 THEN {} ELSE {handlers[current].pipeline})

\* A bug: the pipeline is not stopped.
NullifyForgotten(w) ==
    /\ At(w, "nullify")
    /\ Goto(w, "forget")
    /\ UNCHANGED <<clientVars, serverVars, historyVars>>

Nullify(w) ==
    /\ At(w, "nullify")
    /\ StopCurrent
    /\ Goto(w, "forget")
    /\ UNCHANGED <<clientVars, current, handlers, launch, bins, watched, toDeliver, historyVars>>

\* The 150 ms are over before the other thread has read the pipeline.
NullifyTimeout(w) ==
    /\ At(w, "nullify")
    /\ SetHandler(call[w].handler, [Handler(w) EXCEPT !.pipeline = 0])
    /\ Goto(w, "nullifyLate")
    /\ slow' = TRUE
    /\ UNCHANGED <<clientVars, current, launch, bins, playing, watched, toDeliver,
                   overlapped, fault>>

NullifyLate(w) ==
    /\ At(w, "nullifyLate")
    /\ StopCurrent
    /\ Goto(w, "quit")
    /\ UNCHANGED <<clientVars, current, handlers, launch, bins, watched, toDeliver, historyVars>>

\* pipeline = NULL
Forget(w) ==
    /\ At(w, "forget")
    /\ SetHandler(call[w].handler, [Handler(w) EXCEPT !.pipeline = 0])
    /\ Goto(w, "quit")
    /\ UNCHANGED <<clientVars, current, launch, bins, playing, watched, toDeliver, historyVars>>

\* The main loop, if there is one, is quit, and its thread ends; a loop that
\* was quit before is freed.
Quit(w) ==
    /\ At(w, "quit")
    /\ LET n == Handler(w).loop IN
       IF n # 0 /\ launch[n].at = "over" THEN Crash("freed")
       ELSE /\ Goto(w, "unmap")
            /\ launch' = IF n = 0 THEN launch ELSE [launch EXCEPT ![n].at = "over"]
            /\ UNCHANGED <<clientVars, current, handlers, bins, playing, watched, toDeliver,
                           historyVars>>

\* A bug: the map keeps an empty entry.
UnmapToNobody(w) ==
    /\ At(w, "unmap")
    /\ current' = NoPeer
    /\ Return(w)
    /\ UNCHANGED <<clientVars, handlers, launch, bins, playing, watched, toDeliver, historyVars>>

\* A bug: the handler stays in the map.
UnmapForgotten(w) ==
    /\ At(w, "unmap")
    /\ Return(w)
    /\ UNCHANGED <<clientVars, serverVars, historyVars>>

\* remove_video_pipeline_handler: by the channel's key.
Unmap(w) ==
    /\ At(w, "unmap")
    /\ current' = 0
    /\ Return(w)
    /\ UNCHANGED <<clientVars, handlers, launch, bins, playing, watched, toDeliver, historyVars>>

----------------------------------------------------------------------------
(* launch_pipeline_video.                                                  *)

LaunchAt(n, point) == Up /\ launch[n].at = point
LaunchTo(n, point) == launch' = [launch EXCEPT ![n].at = point]

LaunchFetch(n) ==
    /\ LaunchAt(n, "fetch")
    /\ launch' = [launch EXCEPT ![n] = [at |-> IF current = 0 THEN "over" ELSE "build",
                                        handler |-> current]]
    /\ UNCHANGED <<clientVars, call, current, handlers, bins, playing, watched, toDeliver,
                   historyVars>>

\* A bug: the sender's peer is not given its webrtcbin.
LaunchBuildUnkept(n) ==
    /\ LaunchAt(n, "build")
    /\ LET h == launch[n].handler IN
       /\ SetHandler(h, [handlers[h] EXCEPT !.pipeline = n])
       /\ bins' = [bins EXCEPT ![n] = {<<"send", handlers[h].sender>>}]
    /\ watched' = watched \cup {n}
    /\ LaunchTo(n, "receivers")
    /\ UNCHANGED <<clientVars, call, current, playing, toDeliver, historyVars>>

\* A new pipeline with the sender's elements and a bus watch.
LaunchBuild(n) ==
    /\ LaunchAt(n, "build")
    /\ LET h == launch[n].handler IN
       /\ SetHandler(h, [handlers[h] EXCEPT !.pipeline = n, !.sends = TRUE])
       /\ bins' = [bins EXCEPT ![n] = {<<"send", handlers[h].sender>>}]
    /\ watched' = watched \cup {n}
    /\ LaunchTo(n, "receivers")
    /\ UNCHANGED <<clientVars, call, current, playing, toDeliver, historyVars>>

\* What create_receivers_for_video asserts of the handler's pipeline: the
\* sender's tees are in it, and the receivers' elements are new.
Linkable(h) ==
    LET n == handlers[h].pipeline IN
    handlers[h].receivers # {} =>
        /\ n # 0
        /\ <<"send", handlers[h].sender>> \in bins[n]
        /\ \A r \in handlers[h].receivers : <<"recv", r>> \notin bins[n]

\* The receivers' elements go into the handler's pipeline, or it aborts in
\* g_assert.
LaunchReceivers(n) ==
    /\ LaunchAt(n, "receivers")
    /\ LET h == launch[n].handler
           m == handlers[h].pipeline
       IN
       IF ~Linkable(h) THEN Crash("assert")
       ELSE /\ bins' = IF m = 0 THEN bins
                       ELSE [bins EXCEPT ![m] = @ \cup ({"recv"} \X handlers[h].receivers)]
            /\ LaunchTo(n, "play")
            /\ UNCHANGED <<clientVars, call, current, handlers, playing, watched, toDeliver,
                           historyVars>>

\* The pipeline is set PLAYING, and its webrtcbins negotiate.
LaunchPlay(n) ==
    /\ LaunchAt(n, "play")
    /\ LET m == handlers[launch[n].handler].pipeline IN
       IF m = 0
       THEN LaunchTo(n, "over") /\ UNCHANGED <<playing, toDeliver>>
       ELSE /\ LaunchTo(n, "loop")
            /\ playing' = playing \cup {m}
            /\ toDeliver' = toDeliver \cup bins[m]
    /\ UNCHANGED <<clientVars, call, current, handlers, bins, watched, historyVars>>

LaunchLoop(n) ==
    /\ LaunchAt(n, "loop")
    /\ LET h == launch[n].handler IN SetHandler(h, [handlers[h] EXCEPT !.loop = n])
    /\ LaunchTo(n, "running")
    /\ UNCHANGED <<clientVars, call, current, bins, playing, watched, toDeliver, historyVars>>

\* A webrtcbin's callback sends its message through the handler in the map,
\* which is dereferenced.
CallbackAborts ==
    /\ Up
    /\ playing # {}
    /\ current = 0
    /\ Crash("nullHandler")

\* A lookup reads the entry it found after it has left the mutex: the entry may
\* have been erased, or an offer inserts one without the mutex meanwhile.
LookupRace ==
    /\ Up
    /\ SomeAt({"lookup", "nullify", "nullifyLate"}) \/ \E n \in Offers : launch[n].at = "fetch"
    /\ \E w \in Workers :
          \/ call[w].at = "unmap"
          \/ call[w].at = "create" /\ call[w].handler = 0
    /\ fault' = "iterator"
    /\ overlapped' = TRUE
    /\ UNCHANGED <<clientVars, call, serverVars, slow>>

----------------------------------------------------------------------------
Client(p) ==
    \/ Connect(p) \/ Break(p) \/ Close(p)
    \/ Offer(p) \/ OfferDropped(p) \/ SenderIce(p)
    \/ ReceiverAnswer(p) \/ ReceiverIce(p) \/ VideoReset(p)

\* A call under way goes on by itself.
Proceed(w) ==
    \/ Unlist(w) \/ Lookup(w) \/ Create(w) \/ Ice(w) \/ Answer(w) \/ Apply(w) \/ Remove(w)
    \/ Free(w) \/ Strip(w) \/ StripErases(w) \/ Nullify(w) \/ NullifyTimeout(w)
    \/ Forget(w) \/ NullifyLate(w) \/ Quit(w) \/ Unmap(w)

Launch(n) ==
    \/ LaunchFetch(n) \/ LaunchBuild(n) \/ LaunchReceivers(n)
    \/ LaunchPlay(n) \/ LaunchLoop(n)

Step ==
    \/ \E p \in Peers : Client(p) \/ CandidateFails(p)
    \/ \E bin \in Bins : Deliver(bin)
    \/ \E w \in Workers : Proceed(w)
    \/ \E n \in Offers : Launch(n) \/ BusMessage(n)
    \/ CallbackAborts \/ LookupRace

Next == Step \/ SignallingRestart

\* Calls, launches and deliveries wait for nothing but what their guards say.
Fairness ==
    /\ \A w \in Workers : WF_vars(Proceed(w))
    /\ \A n \in Offers : WF_vars(Launch(n))
    /\ \A bin \in Bins : WF_vars(Deliver(bin))

Spec == Init /\ [][Next]_vars /\ Fairness

\* The behaviours in which nothing overlaps: nothing in the code enforces it.
OrderlyNext ==
    \/ Step /\ ~overlapped' /\ ~slow'
    \/ SignallingRestart
OrderlySpec == Init /\ [][OrderlyNext]_vars /\ Fairness

----------------------------------------------------------------------------
(***************************************************************************)
(* Properties.                                                             *)
(***************************************************************************)

Orderly == ~overlapped /\ ~slow /\ Up

\* The lock and the session of the peer are gone with the server that had them.
Lost(p) == session[p] = "lost"

\* The removal of the peer as a sender is under way.
BeingRemoved(p) ==
    \E w \in Workers :
        \/ call[w].kind \in {"reset", "close"} /\ Caller(w) = p
        \/ call[w].kind = "bus" /\ Handler(w).sender = p

\* One stream, the lock holder's: what plays is the pipeline of the handler in
\* the map, and its sender has the lock, is being removed, or lost its session
\* in a restart.
StreamIsHolders ==
    Orderly => \A n \in playing :
        /\ current # 0
        /\ handlers[current].pipeline = n
        /\ \A p \in Peers : <<"send", p>> \in bins[n] =>
              p = handlers[current].sender /\ (lock = p \/ BeingRemoved(p) \/ Lost(p))

\* No call and no launch is under way.
AtRest == (\A w \in Workers : call[w].at = "idle") /\ ~Launching

\* The lock protects a live stream: a peer that has it, and is connected, is
\* streaming to the receivers the handler knows.
HolderStreams ==
    (Orderly /\ AtRest /\ lock # NoPeer /\ session[lock] = "open") =>
        /\ current # 0
        /\ handlers[current].sender = lock
        /\ handlers[current].pipeline \in playing
        /\ bins[handlers[current].pipeline] =
              {<<"send", lock>>} \cup ({"recv"} \X handlers[current].receivers)
        /\ lock \notin handlers[current].receivers

\* A free channel is quiet: no pipeline plays for nobody, no handler is left
\* that the next sender would find, except one whose sender a restart lost.
FreeIsQuiet ==
    (Orderly /\ AtRest /\ lock = NoPeer) =>
        \/ playing = {} /\ current = 0
        \/ current # 0 /\ Lost(handlers[current].sender)

\* The peer whose pipeline plays; several are nobody the lock knows.
Streamer ==
    LET streaming == {p \in Peers : \E n \in playing : <<"send", p>> \in bins[n]} IN
    IF streaming = {} THEN NoPeer
    ELSE IF Cardinality(streaming) = 1 THEN CHOOSE p \in streaming : TRUE
    ELSE streaming

\* The stream, too, implements the exclusive lock until something overlaps: it
\* passes from one sender to another only through a channel on which nothing
\* plays.
Stream == INSTANCE ExclusiveLock WITH holder <- Streamer
ImplementsExclusiveStream ==
    Stream!Init /\ [][Stream!Next \/ overlapped' \/ slow']_Streamer

\* The media server dies only where something overlapped.
FaultNeedsOverlap == ~Up => overlapped \/ slow

\* A peer that has left does not stay a receiver, not even one that left
\* between the offer's list of receivers and the handler: the message it
\* cannot be sent removes it.
LeaverDropped ==
    \A p \in Peers :
        session[p] = "closed" ~>
            (~Orderly \/ current = 0 \/ p \notin handlers[current].receivers)

\* The removal of the peer as one that has left is on its way.
Reports(w, p) ==
    call[w].kind = "close" /\ Caller(w) = p /\ call[w].at \in {"unlist", "lookup", "remove"}

\* Something finds, or has found, that the receiver p has left.
Noticing(p) ==
    \/ launch[current].at \in {"fetch", "build", "receivers", "play"}
    \/ <<"recv", p>> \in toDeliver
    \/ \E w \in Workers : Reports(w, p)

\* No receiver that has left is forgotten: the launch has yet to invite it, or its
\* invitation is still to fail, or its removal is on its way.  Only a restart of
\* the signalling server loses invitations.
LeaverNoticed ==
    (Orderly /\ restarts = 0 /\ current # 0) =>
        \A p \in handlers[current].receivers : session[p] = "closed" => Noticing(p)

\* The wait for a sender's webrtcbin ends.
IceReturns ==
    \A p \in Peers :
        call[<<p, "session">>].at = "ice" ~>
            (~Orderly \/ call[<<p, "session">>].at # "ice")

\* No thread waits for a webrtcbin that nobody makes any more: one that waits for
\* its sender's has a launch before it that is still to make it, for its handler.
IceAwaitsLaunch ==
    Orderly => \A w \in Workers :
        (call[w].at = "ice" /\ Caller(w) = Handler(w).sender /\ ~Handler(w).sends) =>
            \E n \in Offers :
                \/ launch[n].at = "fetch" /\ current = call[w].handler
                \/ launch[n].at = "build" /\ launch[n].handler = call[w].handler

----------------------------------------------------------------------------
\* A claim of the source that this code does not keep.

\* g_assert_nonnull (videotee) in create_receivers_for_video.
NoAssertFailure == fault # "assert"
=============================================================================
