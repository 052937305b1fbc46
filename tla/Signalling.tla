----------------------------- MODULE Signalling -----------------------------
(***************************************************************************)
(* The signalling server between browsers and media server: the websocket  *)
(* sessions and the three maps of GrpcWebsocketBridge, the start in        *)
(* Application.main, and the calls in both directions.                     *)
(*                                                                         *)
(* The container runs the callbacks of one session one after the other:    *)
(* thread <<p, "session">>.  A message of the media server to p is handled *)
(* by a thread of the gRPC service: <<p, "peer">> for sendPeerMessage,     *)
(* which has no deadline, <<p, "group">> for the messages of a group,      *)
(* which have one and whose response is never completed.  A step makes one *)
(* access to a map or one call; an exception ends what the thread does.    *)
(*                                                                         *)
(* Of the media server there is what the calls need: whether it is up and  *)
(* has its channel, and who is in the conference, the group, the stream.   *)
(* The lock is one step (see VideoLock), a stream's teardown too (see      *)
(* VideoChannel).                                                          *)
(***************************************************************************)

CONSTANTS
    Peers,   \* ids the server allocates; a browser that comes back has another
    Called,  \* the service threads the media server's elements call
    NoPeer   \* no peer: an empty lock, a hole in the list

ASSUME PeersAssumption == NoPeer \notin Peers

Sessions == Peers \X {"session"}
Services == Peers \X {"peer", "group"}
Threads == Sessions \cup Services

VARIABLES
    main,         \* Application.main: started (the websocket server is up),
                  \* client (the bridge has its client), channel, running
    media,        \* the media server: fresh (it has no channel), up, down
    socket,       \* the websocket: new, open, broken (the container has yet
                  \* to call onClose), closed, lost (with its server)
    pc,           \* where each thread is
    peerSessionMap, sessionPeerMap,  \* the peers they have
    channel,      \* peerChannelMap's list, once main is past "client"
    videoLock,    \* the peer that holds the lock
    browser,      \* what the browser takes the video for: idle, free, sending
    conference, group, stream,       \* who is in them at the media server
    call,         \* the media server's call that waits for a service thread:
                  \* none, element (made by a thread of p's webrtcbin), removal
    threw,        \* history: peers with an exception in their session
    misled,       \* history: browsers whose offer was dropped, or whose stream
                  \* the media server ended
    orphaned,     \* history: peers whose stream died with the media server
    undelivered,  \* history: peers an element's call could not be delivered to
    raced         \* history: two accesses to the list met

maps == <<peerSessionMap, sessionPeerMap, channel>>
mediaVars == <<media, conference, group, stream>>
history == <<threw, misled, orphaned, undelivered, raced>>
vars == <<main, mediaVars, socket, pc, maps, videoLock, browser, call, history>>

OpenPoints == {"announce", "putPeer", "putSession", "join"}
ClosePoints == {"unlist", "report", "reported", "failed", "reportUe", "dropPeer", "dropSession"}
Points == {"idle", "copy", "offer", "stop", "deliver"} \cup OpenPoints \cup ClosePoints

TypeOK ==
    /\ main \in {"started", "client", "channel", "running"}
    /\ media \in {"fresh", "up", "down"}
    /\ socket \in [Peers -> {"new", "open", "broken", "closed", "lost"}]
    /\ pc \in [Threads -> Points]
    /\ peerSessionMap \subseteq Peers /\ sessionPeerMap \subseteq Peers
    /\ channel \subseteq Peers \cup {NoPeer}
    /\ videoLock \in Peers \cup {NoPeer}
    /\ browser \in [Peers -> {"idle", "free", "sending"}]
    /\ conference \subseteq Peers /\ group \subseteq Peers
    /\ stream \in Peers \cup {NoPeer}
    /\ call \in [Services -> {"none", "element", "removal"}]
    /\ threw \subseteq Peers /\ misled \subseteq Peers /\ orphaned \subseteq Peers
    /\ undelivered \subseteq Peers
    /\ raced \in BOOLEAN

Init ==
    /\ main = "started"
    /\ media = "fresh"
    /\ socket = [p \in Peers |-> "new"]
    /\ pc = [t \in Threads |-> "idle"]
    /\ peerSessionMap = {} /\ sessionPeerMap = {}
    /\ channel = {}
    /\ videoLock = NoPeer
    /\ browser = [p \in Peers |-> "idle"]
    /\ conference = {} /\ group = {}
    /\ stream = NoPeer
    /\ call = [t \in Services |-> "none"]
    /\ threw = {} /\ misled = {} /\ orphaned = {} /\ undelivered = {}
    /\ raced = FALSE

Of(t) == t[1]
Session(p) == <<p, "session">>
PeerService(p) == <<p, "peer">>
GroupService(p) == <<p, "group">>
At(t, point) == pc[t] = point
Goto(t, point) == pc' = [pc EXCEPT ![t] = point]

\* The bridge has its client, the channel has its list.
HasClient == main # "started"
HasChannel == main \in {"channel", "running"}
\* A bug: whoever stops or leaves frees the lock.
UnlockedByAnyone(p) == NoPeer

Unlocked(p) == IF videoLock = p THEN NoPeer ELSE videoLock

\* The thread is in onClose.
Closing(t) == pc[t] \in ClosePoints \/ (At(t, "idle") /\ socket[Of(t)] = "broken")

\* An exception ends the thread's callback; in onClose that is the end of the
\* session, whatever is left of it.  A service's call is closed with an error.
Throw(t) ==
    /\ Goto(t, "idle")
    /\ IF t \in Sessions
       THEN /\ threw' = threw \cup {Of(t)}
            /\ socket' = IF Closing(t) THEN [socket EXCEPT ![Of(t)] = "closed"] ELSE socket
            /\ UNCHANGED call
       ELSE /\ call' = [call EXCEPT ![t] = "none"]
            /\ UNCHANGED <<threw, socket>>

----------------------------------------------------------------------------
(* Application.main, and the media server as a process.                    *)

\* The sessions of a server that exits are gone; Kubernetes starts it again.
Exit ==
    /\ main' = "started"
    /\ socket' = [p \in Peers |-> IF socket[p] \in {"open", "broken"} THEN "lost" ELSE socket[p]]
    /\ pc' = [t \in Threads |-> "idle"]
    /\ peerSessionMap' = {} /\ sessionPeerMap' = {} /\ channel' = {}
    /\ videoLock' = NoPeer
    /\ browser' = [p \in Peers |-> "idle"]
    /\ call' = [t \in Services |-> "none"]
    /\ UNCHANGED <<mediaVars, history>>

MainInitialize ==
    /\ main = "started"
    /\ main' = "client"
    /\ UNCHANGED <<mediaVars, socket, pc, maps, videoLock, browser, call, history>>

\* checkPing, signallingStarted and createAudioChannel, which makes a new
\* conference; then the list is put into the map.  A call that fails ends main.
MainChannel ==
    /\ main = "client"
    /\ IF media = "down" THEN Exit
       ELSE /\ main' = "channel"
            /\ media' = "up"
            /\ conference' = {}
            /\ channel' = {}
            /\ UNCHANGED <<group, stream, socket, pc, peerSessionMap, sessionPeerMap,
                           videoLock, browser, call, history>>

MainGroup ==
    /\ main = "channel"
    /\ IF media = "down" THEN Exit
       ELSE /\ main' = "running"
            /\ UNCHANGED <<mediaVars, socket, pc, maps, videoLock, browser, call, history>>

\* The media server dies: the calls it made are gone, those it was handling
\* fail.
Dead ==
    /\ media' = "down"
    /\ conference' = {} /\ group' = {} /\ stream' = NoPeer
    /\ orphaned' = orphaned \cup (Peers \cap {stream})

MediaDies ==
    /\ media # "down"
    /\ Dead
    /\ call' = [t \in Services |-> "none"]
    /\ pc' = [t \in Threads |-> IF At(t, "reported") THEN "failed" ELSE pc[t]]
    /\ UNCHANGED <<main, socket, maps, videoLock, browser, threw, misled,
                   undelivered, raced>>

MediaRestarts ==
    /\ media = "down"
    /\ media' = "fresh"
    /\ UNCHANGED <<main, conference, group, stream, socket, pc, maps, videoLock,
                   browser, call, history>>

----------------------------------------------------------------------------
(* The list of the channel is an ArrayList, written without a lock.        *)

\* Another thread is adding to it or removing from it.
ListBusy(p) == \E q \in Peers \ {p} : pc[Session(q)] \in {"join", "unlist"}

\* list.add(p): a collision with another writer may lose the element or
\* leave a hole.
Added(p) ==
    {channel \cup {p}} \cup
        IF ListBusy(p) THEN {channel, channel \cup {NoPeer}} ELSE {}

\* list.remove(p): a collision may leave it, or take out another.
Removed(p) ==
    {channel \ {p}} \cup
        IF ListBusy(p) THEN {channel} \cup {channel \ {q} : q \in channel} ELSE {}

----------------------------------------------------------------------------
(* onOpen.                                                                 *)

Open(p) ==
    /\ socket[p] = "new"
    /\ socket' = [socket EXCEPT ![p] = "open"]
    /\ Goto(Session(p), "announce")
    /\ UNCHANGED <<main, mediaVars, maps, videoLock, browser, call, history>>

\* The network or the browser breaks the connection.
Break(p) ==
    /\ socket[p] = "open"
    /\ socket' = [socket EXCEPT ![p] = "broken"]
    /\ UNCHANGED <<main, mediaVars, pc, maps, videoLock, browser, call, history>>

\* A bug: the id that could not be sent, an empty one, is registered.
AnnounceAnyway(p) ==
    /\ At(Session(p), "announce")
    /\ IF socket[p] = "open"
       THEN Goto(Session(p), "putPeer") /\ UNCHANGED peerSessionMap
       ELSE peerSessionMap' = peerSessionMap \cup {NoPeer} /\ Goto(Session(p), "putSession")
    /\ UNCHANGED <<main, mediaVars, socket, sessionPeerMap, channel, videoLock,
                   browser, call, history>>

\* CONNECTED is sent with the id; when that fails nothing is registered.
Announce(p) ==
    /\ At(Session(p), "announce")
    /\ Goto(Session(p), IF socket[p] = "open" THEN "putPeer" ELSE "idle")
    /\ UNCHANGED <<main, mediaVars, socket, maps, videoLock, browser, call, history>>

PutPeer(p) ==
    /\ At(Session(p), "putPeer")
    /\ peerSessionMap' = peerSessionMap \cup {p}
    /\ Goto(Session(p), "putSession")
    /\ UNCHANGED <<main, mediaVars, socket, sessionPeerMap, channel, videoLock,
                   browser, call, history>>

PutSession(p) ==
    /\ At(Session(p), "putSession")
    /\ sessionPeerMap' = sessionPeerMap \cup {p}
    /\ Goto(Session(p), "join")
    /\ UNCHANGED <<main, mediaVars, socket, peerSessionMap, channel, videoLock,
                   browser, call, history>>

\* A bug: a list that is not there is passed over.
JoinSkips(p) ==
    /\ At(Session(p), "join")
    /\ IF HasChannel THEN channel' \in Added(p) ELSE UNCHANGED channel
    /\ raced' = (raced \/ ListBusy(p))
    /\ Goto(Session(p), "idle")
    /\ UNCHANGED <<main, mediaVars, socket, peerSessionMap, sessionPeerMap, videoLock,
                   browser, call, threw, misled, orphaned, undelivered>>

\* peerChannelMap.get(...) is null until the channel exists.
Join(p) ==
    /\ At(Session(p), "join")
    /\ IF HasChannel
       THEN /\ channel' \in Added(p)
            /\ raced' = (raced \/ ListBusy(p))
            /\ Goto(Session(p), "idle")
            /\ UNCHANGED <<socket, call, threw>>
       ELSE Throw(Session(p)) /\ UNCHANGED <<channel, raced>>
    /\ UNCHANGED <<main, mediaVars, peerSessionMap, sessionPeerMap, videoLock,
                   browser, misled, orphaned, undelivered>>

----------------------------------------------------------------------------
(* onMessage.                                                              *)

\* A browser sends once it knows its id.
MayReceive(p) == socket[p] = "open" /\ At(Session(p), "idle") /\ p \in sessionPeerMap

\* The browser asks for the lock before it offers a stream.
Query(p) ==
    /\ MayReceive(p)
    /\ browser[p] # "sending"
    /\ browser' = [browser EXCEPT ![p] = IF videoLock = NoPeer THEN "free" ELSE "idle"]
    /\ UNCHANGED <<main, mediaVars, socket, pc, maps, videoLock, call, history>>

\* A bug: the offer does not look at the lock again.
OfferAnyway(p) ==
    /\ MayReceive(p)
    /\ browser[p] = "free"
    /\ browser' = [browser EXCEPT ![p] = "sending"]
    /\ videoLock' = p /\ Goto(Session(p), "copy")
    /\ UNCHANGED <<main, mediaVars, socket, maps, call, history>>

\* A browser that was told VIDEO_UNLOCKED offers its stream.  The offer is
\* dropped without an answer if another one took the lock meanwhile.
Offer(p) ==
    /\ MayReceive(p)
    /\ browser[p] = "free"
    /\ browser' = [browser EXCEPT ![p] = "sending"]
    /\ IF videoLock = NoPeer
       THEN videoLock' = p /\ Goto(Session(p), "copy") /\ UNCHANGED misled
       ELSE misled' = misled \cup {p} /\ UNCHANGED <<videoLock, pc>>
    /\ UNCHANGED <<main, mediaVars, socket, maps, call, threw, orphaned, undelivered, raced>>

\* The list is copied into the offer: no list, a hole in it and a change
\* under way end in an exception, with the lock taken.
Copy(p) ==
    /\ At(Session(p), "copy")
    /\ \/ HasChannel /\ NoPeer \notin channel /\ Goto(Session(p), "offer")
          /\ UNCHANGED <<socket, call, threw>>
       \/ (~HasChannel \/ NoPeer \in channel \/ ListBusy(p)) /\ Throw(Session(p))
    /\ UNCHANGED <<main, mediaVars, maps, videoLock, browser, misled, orphaned, undelivered, raced>>

SendOffer(p) ==
    /\ At(Session(p), "offer")
    /\ IF media = "down"
       THEN Throw(Session(p)) /\ UNCHANGED stream
       ELSE stream' = p /\ Goto(Session(p), "idle") /\ UNCHANGED <<socket, call, threw>>
    /\ UNCHANGED <<main, media, conference, group, maps, videoLock, browser,
                   misled, orphaned, undelivered, raced>>

\* A bug: VIDEO_RESET is passed on with the lock kept.
StopVideoKeepsLock(p) ==
    /\ MayReceive(p)
    /\ browser[p] = "sending"
    /\ browser' = [browser EXCEPT ![p] = "idle"]
    /\ misled' = misled \ {p} /\ orphaned' = orphaned \ {p}
    /\ Goto(Session(p), "stop")
    /\ UNCHANGED <<main, mediaVars, socket, maps, videoLock, call, threw, undelivered, raced>>

\* stopVideo of the browser: VIDEO_RESET frees the lock ...
StopVideo(p) ==
    /\ MayReceive(p)
    /\ browser[p] = "sending"
    /\ browser' = [browser EXCEPT ![p] = "idle"]
    /\ misled' = misled \ {p} /\ orphaned' = orphaned \ {p}
    /\ videoLock' = Unlocked(p)
    /\ Goto(Session(p), "stop")
    /\ UNCHANGED <<main, mediaVars, socket, maps, call, threw, undelivered, raced>>

\* ... and is passed on.
SendStop(p) ==
    /\ At(Session(p), "stop")
    /\ IF media = "down"
       THEN Throw(Session(p)) /\ UNCHANGED stream
       ELSE /\ stream' = IF stream = p THEN NoPeer ELSE stream
            /\ Goto(Session(p), "idle")
            /\ UNCHANGED <<socket, call, threw>>
    /\ UNCHANGED <<main, media, conference, group, maps, videoLock, browser,
                   misled, orphaned, undelivered, raced>>

\* The browser joins the conference.  A media server without its channel has
\* no handler for it and dies.
JoinAudio(p) ==
    /\ MayReceive(p)
    /\ p \notin conference
    /\ \/ /\ HasClient /\ media = "up"
          /\ conference' = conference \cup {p}
          /\ UNCHANGED <<media, group, stream, pc, socket, call, threw, orphaned>>
       \/ /\ HasClient /\ media = "fresh"
          /\ Dead /\ Throw(Session(p))
       \/ /\ ~HasClient \/ media = "down"
          /\ Throw(Session(p)) /\ UNCHANGED <<mediaVars, orphaned>>
    /\ UNCHANGED <<main, maps, videoLock, browser, misled, undelivered, raced>>

\* groupUeMessageToServer catches what its call throws.
GroupOffer(p) ==
    /\ MayReceive(p)
    /\ main = "running" /\ media = "up"
    /\ p \notin group
    /\ group' = group \cup {p}
    /\ UNCHANGED <<main, media, conference, stream, socket, pc, maps, videoLock,
                   browser, call, history>>

----------------------------------------------------------------------------
(* onClose, and what is done for a peer that cannot be reached.            *)

\* A bug: onClose does not free the lock.
CloseKeepsLock(p) ==
    /\ socket[p] = "broken"
    /\ At(Session(p), "idle")
    /\ IF p \in sessionPeerMap
       THEN /\ browser' = [browser EXCEPT ![p] = "idle"]
            /\ Goto(Session(p), "unlist")
            /\ UNCHANGED <<socket, call, threw>>
       ELSE Throw(Session(p)) /\ UNCHANGED browser
    /\ UNCHANGED <<main, mediaVars, maps, videoLock, misled, orphaned, undelivered, raced>>

\* The lock first.  A session that got no id has a null peer id: setPeerId
\* throws.
Close(p) ==
    /\ socket[p] = "broken"
    /\ At(Session(p), "idle")
    /\ IF p \in sessionPeerMap
       THEN /\ videoLock' = Unlocked(p)
            /\ browser' = [browser EXCEPT ![p] = "idle"]
            /\ Goto(Session(p), "unlist")
            /\ UNCHANGED <<socket, call, threw>>
       ELSE Throw(Session(p)) /\ UNCHANGED <<videoLock, browser>>
    /\ UNCHANGED <<main, mediaVars, maps, misled, orphaned, undelivered, raced>>

Unlist(p) ==
    /\ At(Session(p), "unlist")
    /\ IF HasChannel
       THEN /\ channel' \in Removed(p)
            /\ raced' = (raced \/ ListBusy(p))
            /\ Goto(Session(p), "report")
            /\ UNCHANGED <<socket, call, threw>>
       ELSE Throw(Session(p)) /\ UNCHANGED <<channel, raced>>
    /\ UNCHANGED <<main, mediaVars, peerSessionMap, sessionPeerMap, videoLock,
                   browser, misled, orphaned, undelivered>>

\* A webrtcbin that is stopped waits for its own thread, which may be in a
\* call.
ElementBusy(t) == call[t] = "element"

\* The media server takes p out of the conference, and the stream if it is
\* p's, which frees the lock.  A removal from the conference ends with a call
\* of its own, AUDIO_RESET for p; when that was made for a call to p, whoever
\* handles it has nothing more to do.
Remove(t, p) ==
    /\ ~ElementBusy(PeerService(p))
    /\ conference' = conference \ {p}
    /\ stream' = IF stream = p THEN NoPeer ELSE stream
    /\ videoLock' = IF stream = p THEN Unlocked(p) ELSE videoLock
    /\ misled' = misled \cup ({p} \cap {stream})
    /\ IF p \in conference /\ t # PeerService(p)
       THEN /\ At(PeerService(p), "idle")
            /\ pc' = [pc EXCEPT ![t] = "reported", ![PeerService(p)] = "deliver"]
            /\ call' = [call EXCEPT ![PeerService(p)] = "removal"]
       ELSE Goto(t, "reportUe") /\ UNCHANGED call
    /\ UNCHANGED <<media, group, threw, socket, orphaned>>

\* sendPeerStatusMessage(p, DISCONNECTED).  A media server without its channel
\* dereferences no handler and dies.
Report(t) ==
    /\ At(t, "report")
    /\ \/ /\ HasClient /\ media = "up"
          /\ Remove(t, Of(t))
       \/ /\ HasClient /\ media = "fresh"
          /\ Dead /\ Throw(t) /\ UNCHANGED <<videoLock, misled>>
       \/ /\ ~HasClient \/ media = "down"
          /\ Throw(t) /\ UNCHANGED <<mediaVars, misled, orphaned, videoLock>>
    /\ UNCHANGED <<main, maps, browser, undelivered, raced>>

\* The removal's own call has returned.
ReportReturns(t) ==
    /\ At(t, "reported")
    /\ call[PeerService(Of(t))] # "removal"
    /\ Goto(t, "reportUe")
    /\ UNCHANGED <<main, mediaVars, socket, maps, videoLock, browser, call, history>>

ReportFails(t) ==
    /\ At(t, "failed")
    /\ Throw(t)
    /\ UNCHANGED <<main, mediaVars, maps, videoLock, browser, misled, orphaned, undelivered, raced>>

\* A bug: it gives up on an element that is busy.
ReportUeGivesUp(t) ==
    /\ At(t, "reportUe")
    /\ IF media = "down"
       THEN Throw(t) /\ UNCHANGED group
       ELSE /\ group' = IF ElementBusy(GroupService(Of(t))) THEN group ELSE group \ {Of(t)}
            /\ Goto(t, IF t \in Sessions THEN "dropPeer" ELSE "idle")
            /\ call' = IF t = PeerService(Of(t)) THEN [call EXCEPT ![t] = "none"] ELSE call
            /\ UNCHANGED <<socket, threw>>
    /\ UNCHANGED <<main, media, conference, stream, maps, videoLock, browser,
                   misled, orphaned, undelivered, raced>>

\* sendUeDisconnectedMessage(p), after which a service completes its call, if
\* it ever does.
ReportUe(t) ==
    /\ At(t, "reportUe")
    /\ IF media = "down"
       THEN Throw(t) /\ UNCHANGED group
       ELSE /\ ~ElementBusy(GroupService(Of(t)))
            /\ group' = group \ {Of(t)}
            /\ Goto(t, IF t \in Sessions THEN "dropPeer" ELSE "idle")
            /\ call' = IF t = PeerService(Of(t)) THEN [call EXCEPT ![t] = "none"] ELSE call
            /\ UNCHANGED <<socket, threw>>
    /\ UNCHANGED <<main, media, conference, stream, maps, videoLock, browser,
                   misled, orphaned, undelivered, raced>>

DropPeer(p) ==
    /\ At(Session(p), "dropPeer")
    /\ peerSessionMap' = peerSessionMap \ {p}
    /\ Goto(Session(p), "dropSession")
    /\ UNCHANGED <<main, mediaVars, socket, sessionPeerMap, channel, videoLock,
                   browser, call, history>>

DropSession(p) ==
    /\ At(Session(p), "dropSession")
    /\ sessionPeerMap' = sessionPeerMap \ {p}
    /\ socket' = [socket EXCEPT ![p] = "closed"]
    /\ Goto(Session(p), "idle")
    /\ UNCHANGED <<main, mediaVars, peerSessionMap, channel, videoLock, browser,
                   call, history>>

----------------------------------------------------------------------------
(* The media server calls: sendPeerMessage for who is in the conference,   *)
(* sdpOffer, sdpAnswer and iceMessage for who is in the group.             *)

Callback(t) ==
    /\ t \in Called
    /\ media = "up" /\ HasChannel
    /\ Of(t) \in IF t = PeerService(Of(t)) THEN conference ELSE group
    /\ At(t, "idle") /\ call[t] = "none"
    /\ Goto(t, "deliver")
    /\ call' = [call EXCEPT ![t] = "element"]
    /\ UNCHANGED <<main, mediaVars, socket, maps, videoLock, browser, history>>

\* A bug: sendPeerMessage, too, leaves its response open.
DeliverNeverCompletes(t) ==
    /\ At(t, "deliver")
    /\ IF Of(t) \in peerSessionMap /\ socket[Of(t)] = "open"
       THEN Goto(t, "idle") /\ UNCHANGED <<call, undelivered>>
       ELSE /\ Goto(t, "report")
            /\ undelivered' = IF call[t] = "element" /\ t = PeerService(Of(t))
                              THEN undelivered \cup {Of(t)} ELSE undelivered
            /\ UNCHANGED call
    /\ UNCHANGED <<main, mediaVars, socket, maps, videoLock, browser, threw, misled,
                   orphaned, raced>>

\* sendToPeer: the response is completed for sendPeerMessage only.
Deliver(t) ==
    /\ At(t, "deliver")
    /\ IF Of(t) \in peerSessionMap /\ socket[Of(t)] = "open"
       THEN /\ Goto(t, "idle")
            /\ call' = IF t = PeerService(Of(t)) THEN [call EXCEPT ![t] = "none"] ELSE call
            /\ UNCHANGED undelivered
       ELSE /\ Goto(t, "report")
            /\ undelivered' = IF call[t] = "element" /\ t = PeerService(Of(t))
                              THEN undelivered \cup {Of(t)} ELSE undelivered
            /\ UNCHANGED call
    /\ UNCHANGED <<main, mediaVars, socket, maps, videoLock, browser, threw, misled,
                   orphaned, raced>>

\* A bug: the deadline ends with the delivery.
ExpireUndelivered(p) ==
    /\ call[GroupService(p)] # "none" /\ At(GroupService(p), "deliver")
    /\ call' = [call EXCEPT ![GroupService(p)] = "none"]
    /\ UNCHANGED <<main, mediaVars, socket, pc, maps, videoLock, browser, history>>

\* The deadline of a group's call: 5 ms for a description, 30 ms for a
\* candidate.
Expire(p) ==
    /\ call[GroupService(p)] # "none"
    /\ call' = [call EXCEPT ![GroupService(p)] = "none"]
    /\ UNCHANGED <<main, mediaVars, socket, pc, maps, videoLock, browser, history>>

----------------------------------------------------------------------------
Main == MainInitialize \/ MainChannel \/ MainGroup

Message(p) ==
    Query(p) \/ Offer(p) \/ StopVideo(p) \/ JoinAudio(p) \/ GroupOffer(p)

\* A session's thread goes on by itself, onClose included.
Proceed(p) ==
    \/ Announce(p) \/ PutPeer(p) \/ PutSession(p) \/ Join(p)
    \/ Copy(p) \/ SendOffer(p) \/ SendStop(p)
    \/ Close(p) \/ Unlist(p) \/ DropPeer(p) \/ DropSession(p)

Calls(t) == Report(t) \/ ReportReturns(t) \/ ReportFails(t) \/ ReportUe(t)

Next ==
    \/ Main \/ MediaDies \/ MediaRestarts
    \/ \E p \in Peers : Open(p) \/ Break(p) \/ Message(p) \/ Proceed(p) \/ Expire(p)
    \/ \E t \in Threads : Calls(t)
    \/ \E t \in Services : Callback(t) \/ Deliver(t)

\* Threads wait for nothing but what a call's guard says; timers fire.
Fairness ==
    /\ \A p \in Peers : WF_vars(Proceed(p)) /\ WF_vars(Expire(p))
    /\ \A t \in Threads : WF_vars(Calls(t))
    /\ \A t \in Services : WF_vars(Deliver(t))

Spec == Init /\ [][Next]_vars /\ Fairness

----------------------------------------------------------------------------
Resting(p) == At(Session(p), "idle")
Registered(p) == p \in sessionPeerMap

\* Whatever throws on the way, the lock's holder is a session that is still
\* there: onClose frees the lock before the steps that may throw.
LockHolderAlive ==
    videoLock # NoPeer => Registered(videoLock) /\ socket[videoLock] \in {"open", "broken"}

\* A lock is not held for nothing: the media server has its holder's stream,
\* unless it died with it or an exception came between the lock, which is
\* taken before the offer is passed on, and the offer.
LockedMeansStreaming ==
    \A p \in Peers :
        videoLock = p /\ Resting(p) => stream = p \/ p \in threw \cup orphaned

\* A browser that sends has the lock, although it asks for it in one message
\* and offers in another; but for the one whose offer was dropped unanswered,
\* and the one whose stream the media server ended.
SenderHoldsLock ==
    \A p \in Peers :
        browser[p] = "sending" /\ Resting(p) => videoLock = p \/ p \in threw \cup misled

\* An offer goes to the peers of the list.  They are the registered sessions,
\* all of them, unless the channel was not there when they came or two of
\* them wrote the list at a time.
ListIsSessions ==
    ~raced =>
        /\ channel \subseteq peerSessionMap
        /\ \A p \in Peers : socket[p] = "open" /\ Resting(p) /\ Registered(p) /\ p \notin threw
                => p \in channel

\* A session that is gone is forgotten on both servers, calls that the media
\* server made for it in the meantime included, unless a step of it threw.
ClosedIsForgotten ==
    \A p \in Peers : socket[p] = "closed" /\ p \notin threw =>
        /\ p \notin peerSessionMap \cup sessionPeerMap
        /\ p \notin conference \cup group
        /\ stream # p

Present == {p \in Peers : socket[p] \in {"open", "broken"}}
Gone == {p \in Peers : socket[p] \in {"closed", "lost"}}
Lock == INSTANCE SessionLock WITH present <- Present, past <- Gone, holder <- videoLock

\* The lock passes from one session that is there to another only by being given
\* up, and nobody goes with it, whatever throws in onClose, whatever the media
\* server reports late, and whichever server dies; only the signalling server
\* itself takes all of its sessions and the lock with it.
ImplementsSessionLock == Lock!Spec

\* The thread is in a call that the media server holds up: a removal from the
\* conference waits for the element's call and for the service's thread, and
\* for the call it makes itself; one from the group for the element's call.
Waits(t) ==
    LET p == Of(t) s == PeerService(p) IN
    \/ /\ At(t, "report") /\ HasClient /\ media = "up"
       /\ ElementBusy(s) \/ (p \in conference /\ t # s /\ ~At(s, "idle"))
    \/ At(t, "reported") /\ call[s] = "removal"
    \/ At(t, "reportUe") /\ media # "down" /\ ElementBusy(GroupService(p))

\* Both servers wait for each other, but not in a circle: whoever waits in the
\* group waits for a deadline, and whoever waits in the conference for a service
\* thread that goes on by itself or waits for that deadline; unless an element's
\* call could not be delivered, whose report waits for the element.
NoCircle ==
    \A t \in Threads : Waits(t) /\ Of(t) \notin undelivered =>
        \/ At(t, "reportUe")
        \/ LET s == PeerService(Of(t)) IN
           s # t /\ ~At(s, "idle") /\ (Waits(s) => At(s, "reportUe"))

\* onClose ends, although what it reports makes the media server call back for
\* the same peer, and that call fails and reports in turn.  It does not if a
\* webrtcbin's own call could not be delivered: the report then waits for the
\* thread that waits for the report.
CloseEnds ==
    \A p \in Peers :
        socket[p] = "broken" ~> socket[p] \in {"closed", "lost"} \/ p \in undelivered

=============================================================================
