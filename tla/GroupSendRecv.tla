--------------------------- MODULE GroupSendRecv ---------------------------
(***************************************************************************)
(* One push-to-talk group of the media server: GroupSendRecvHandler and    *)
(* the gRPC handlers that call it, run by the threads of a synchronous     *)
(* gRPC server with no lock around the handler's state.                    *)
(*                                                                         *)
(* The signalling server passes a UE's messages on one after the other,    *)
(* waiting for each call: worker <<u, "session">>.  A message it fails to  *)
(* deliver to a UE makes another thread of it send ueReset for that UE:    *)
(* worker <<u, "failure">>.  A signalling server that restarts has new     *)
(* sessions with new UE ids, and calls createGroup again.                  *)
(*                                                                         *)
(* A step makes one access to the shared state: the peer maps, the         *)
(* elements of the pipeline, the active pads of its two input selectors    *)
(* (one step for what is done between two accesses), currentSenderUeId.    *)
(* Calls made while no handler exists change nothing and are left out.     *)
(***************************************************************************)

CONSTANTS
    Ues,         \* UE ids the signalling server allocates
    FailingUes,  \* those it may fail to deliver a message to
    NoUe         \* the empty currentSenderUeId, no active pad

ASSUME UesAssumption ==
    /\ FailingUes \subseteq Ues
    /\ NoUe \notin Ues

Dirs == {"SENDER", "RECEIVER"}
Media == {"audio", "video"}
Workers == (Ues \X {"session"}) \cup (FailingUes \X {"failure"})

VARIABLES
    handler,            \* the handler is in groupSendRecvHandlers
    pipeline,           \* the handler's pipeline: none, bare (selectors and
                        \* tees not all there yet), ready
    closing,            \* the step close_pipeline_group does next, or no
    launch,             \* the createGroup of the signalling server's start:
                        \* pending, thread, linking, done
    element,            \* the latest webrtcbin made for a UE and direction:
                        \* none, current (in the pipeline), old (in a pipeline
                        \* the handler no longer refers to), freed
    peers,              \* senderPeers and receiverPeers: <<direction, UE>>
    active,             \* whose pad each input selector forwards
    currentSenderUeId,  \* the floor
    session,            \* the UE's websocket: new, open, closed, lost (its
                        \* signalling server is gone)
    offered,            \* UEs an offer of the media server is on its way to
    pc,                 \* where each worker is
    dir,                \* the direction argument of its call
    talkers,            \* history: UEs told GRANTED that have not released
                        \* the floor or been reset since, in a pipeline that
                        \* has not failed since
    disturbed,          \* history: a floor call overlapped another, a reset
                        \* of its UE, or a relaunch or closing of the pipeline
    raced,              \* history: UEs two calls of which, or a call and the
                        \* closing of the pipeline, overlapped
    fault               \* what the process died of: none, assert, nullPeer,
                        \* freed (use of a freed element), mapRace, iterator
                        \* (of an entry that was erased)

mediaVars == <<element, peers, active>>
floorVars == <<currentSenderUeId, talkers>>
launchVars == <<handler, pipeline, closing, launch>>
vars == <<launchVars, mediaVars, floorVars, session, offered, pc, dir,
          disturbed, raced, fault>>

OfferPoints == {"add", "insert", "apply"}
ResetPoints == {"reset", "erase"}
GrantPoints == {"grantAudio", "grantVideo", "grantOwner"}
RevokePoints == {"revokeAudio", "revokeVideo", "revokeOwner"}
FloorPoints == GrantPoints \cup RevokePoints
Points == {"idle", "iceWait"} \cup OfferPoints \cup ResetPoints \cup FloorPoints

Strip(d) == IF d = "SENDER" THEN "stripSenders" ELSE "stripReceivers"
Clear(d) == IF d = "SENDER" THEN "clearSenders" ELSE "clearReceivers"
CloseSteps == {"stripSenders", "clearSenders", "stripReceivers", "clearReceivers", "nullify", "unmap"}
Faults == {"assert", "nullPeer", "freed", "mapRace", "iterator"}

TypeOK ==
    /\ handler \in BOOLEAN
    /\ pipeline \in {"none", "bare", "ready"}
    /\ closing \in {"no"} \cup CloseSteps
    /\ launch \in {"pending", "thread", "linking", "done"}
    /\ element \in [Dirs \X Ues -> {"none", "current", "old", "freed"}]
    /\ peers \subseteq Dirs \X Ues
    /\ active \in [Media -> Ues \cup {NoUe}]
    /\ currentSenderUeId \in Ues \cup {NoUe}
    /\ session \in [Ues -> {"new", "open", "closed", "lost"}]
    /\ offered \subseteq Ues
    /\ pc \in [Workers -> Points]
    /\ dir \in [Workers -> Dirs]
    /\ talkers \subseteq Ues
    /\ disturbed \in BOOLEAN
    /\ raced \subseteq Ues
    /\ fault \in {"none"} \cup Faults

\* A media server that has just started, and the signalling server about to
\* create the group.
Init ==
    /\ handler = FALSE
    /\ pipeline = "none"
    /\ closing = "no"
    /\ launch = "pending"
    /\ element = [x \in Dirs \X Ues |-> "none"]
    /\ peers = {}
    /\ active = [m \in Media |-> NoUe]
    /\ currentSenderUeId = NoUe
    /\ session = [u \in Ues |-> "new"]
    /\ offered = {}
    /\ pc = [w \in Workers |-> "idle"]
    /\ dir = [w \in Workers |-> "SENDER"]
    /\ talkers = {}
    /\ disturbed = FALSE
    /\ raced = {}
    /\ fault = "none"

Ue(w) == w[1]

\* The UEs with a call at one of the points.
Busy(points) == {Ue(w) : w \in {v \in Workers : pc[v] \in points}}

Up == fault = "none"

----------------------------------------------------------------------------
(* The signalling server: its sessions, and its start.                     *)

Connect(u) ==
    /\ Up
    /\ session[u] = "new"
    /\ session' = [session EXCEPT ![u] = "open"]
    /\ UNCHANGED <<launchVars, mediaVars, floorVars, offered, pc, dir,
                   disturbed, raced, fault>>

\* Its sessions are gone without a reset; the calls under way in the media
\* server go on.  Bound: not before the last start is over.
SignallingRestart ==
    /\ Up
    /\ launch = "done"
    /\ launch' = "pending"
    /\ session' = [u \in Ues |-> IF session[u] = "open" THEN "lost" ELSE session[u]]
    /\ offered' = {}
    /\ talkers' = {}
    /\ UNCHANGED <<handler, pipeline, closing, mediaVars, currentSenderUeId, pc, dir,
                   disturbed, raced, fault>>

\* createGroup: makes the handler unless there is one, and starts the thread
\* that launches a pipeline in both cases.  Bound: a new handler is made when
\* no call but one that waits for good is left in an old one, and none while
\* the old one is closing.
CreateGroup ==
    /\ Up
    /\ launch = "pending"
    /\ closing = "no"
    /\ launch' = "thread"
    /\ handler' = TRUE
    /\ IF handler
       THEN UNCHANGED <<pipeline, mediaVars, floorVars, disturbed, raced>>
       ELSE /\ \A w \in Workers : pc[w] \in {"idle", "iceWait"}
            /\ pipeline' = "none"
            /\ element' = [x \in Dirs \X Ues |-> "none"]
            /\ peers' = {}
            /\ active' = [m \in Media |-> NoUe]
            /\ currentSenderUeId' = NoUe
            /\ talkers' = {}
            /\ disturbed' = FALSE
            /\ raced' = Busy({"iceWait"})
    /\ UNCHANGED <<closing, session, offered, pc, dir, fault>>

\* launch_pipeline_sendrecv: the handler's pipeline is a new, empty one.
LaunchBare ==
    /\ Up
    /\ launch = "thread"
    /\ launch' = "linking"
    /\ pipeline' = "bare"
    /\ element' = [x \in Dirs \X Ues |-> IF element[x] = "current" THEN "old" ELSE element[x]]
    /\ active' = [m \in Media |-> NoUe]
    /\ disturbed' = (disturbed \/ \E w \in Workers : pc[w] \in FloorPoints)
    /\ UNCHANGED <<handler, closing, peers, floorVars, session, offered, pc, dir, raced, fault>>

\* ... its selectors and tees are added and linked.
LaunchReady ==
    /\ Up
    /\ launch = "linking"
    /\ launch' = "done"
    /\ pipeline' = "ready"
    /\ UNCHANGED <<handler, closing, mediaVars, floorVars, session, offered, pc, dir,
                   disturbed, raced, fault>>

----------------------------------------------------------------------------
(* Calls.                                                                  *)

Goto(w, point) == pc' = [pc EXCEPT ![w] = point]

Crash(cause) ==
    /\ fault' = cause
    /\ UNCHANGED <<launchVars, mediaVars, floorVars, session, offered, pc, dir,
                   disturbed, raced>>

\* A worker that can make a call the handler receives.
Ready(w) == Up /\ handler /\ pc[w] = "idle"
SessionReady(w) == Ready(w) /\ w[2] = "session" /\ session[Ue(w)] = "open"

\* The points of a UE's other worker.
OtherAt(w, points) == \E v \in Workers \ {w} : Ue(v) = Ue(w) /\ pc[v] \in points

\* A call that begins: it overlaps a closing, or the other worker's call.
RacedBy(w, points) ==
    IF closing # "no" \/ OtherAt(w, points) THEN raced \cup {Ue(w)} ELSE raced

\* sdpOffer: add the sender, apply the offer, add the receiver.
SdpOffer(w) ==
    /\ SessionReady(w)
    /\ Goto(w, "add")
    /\ dir' = [dir EXCEPT ![w] = "SENDER"]
    /\ raced' = RacedBy(w, ResetPoints)
    /\ UNCHANGED <<launchVars, mediaVars, floorVars, session, offered, disturbed, fault>>

\* Go on to what sdpOffer does after av_add_ue of a direction.
AfterAdd(w) == Goto(w, IF dir[w] = "SENDER" THEN "apply" ELSE "idle")

\* av_add_ue finds the UE in its map and returns.
AddExisting(w) ==
    /\ Up
    /\ pc[w] = "add"
    /\ <<dir[w], Ue(w)>> \in peers
    /\ AfterAdd(w)
    /\ UNCHANGED <<launchVars, mediaVars, floorVars, session, offered, dir,
                   disturbed, raced, fault>>

\* av_add_ue makes the UE's elements and links them into the pipeline, where
\* the names must be new; a receiver makes an offer of its own.
AddElements(w) ==
    /\ Up
    /\ pc[w] = "add"
    /\ LET x == <<dir[w], Ue(w)>> IN
       /\ x \notin peers
       /\ pipeline = "ready"
       /\ element[x] # "current"
       /\ element' = [element EXCEPT ![x] = "current"]
    /\ Goto(w, "insert")
    /\ offered' = IF dir[w] = "RECEIVER" /\ session[Ue(w)] = "open"
                  THEN offered \cup {Ue(w)} ELSE offered
    /\ UNCHANGED <<launchVars, peers, active, floorVars, session, dir,
                   disturbed, raced, fault>>

\* ... and aborts in g_assert when the selector is not there or cannot be
\* linked.
AddAborts(w) ==
    /\ Up
    /\ pc[w] = "add"
    /\ <<dir[w], Ue(w)>> \notin peers
    /\ pipeline # "ready" \/ element[<<dir[w], Ue(w)>>] = "current"
    /\ Crash("assert")

\* senderPeers[ueId] = ..., receiverPeers[ueId] = ...: not under peers_mutex.
InsertPeer(w) ==
    /\ Up
    /\ pc[w] = "insert"
    /\ peers' = peers \cup {<<dir[w], Ue(w)>>}
    /\ AfterAdd(w)
    /\ UNCHANGED <<launchVars, element, active, floorVars, session, offered, dir,
                   disturbed, raced, fault>>

\* apply_webrtc_peer_sdp; no sender in the map is logged and passed over.
ApplyOffer(w) ==
    /\ Up
    /\ pc[w] = "apply"
    /\ IF <<"SENDER", Ue(w)>> \in peers /\ element[<<"SENDER", Ue(w)>>] = "freed"
       THEN Crash("freed")
       ELSE /\ Goto(w, "add")
            /\ dir' = [dir EXCEPT ![w] = "RECEIVER"]
            /\ UNCHANGED <<launchVars, mediaVars, floorVars, session, offered,
                           disturbed, raced, fault>>

\* sdpAnswer: the UE answers an offer it was sent, perhaps after it has left.
\* apply_incoming_sdp dereferences the receiver it looks up.
SdpAnswer(w) ==
    /\ SessionReady(w)
    /\ Ue(w) \in offered
    /\ LET x == <<"RECEIVER", Ue(w)>> IN
       IF x \notin peers THEN Crash("nullPeer")
       ELSE IF element[x] = "freed" THEN Crash("freed")
       ELSE /\ offered' = offered \ {Ue(w)}
            /\ UNCHANGED <<launchVars, mediaVars, floorVars, session, pc, dir,
                           disturbed, raced, fault>>

\* iceMessage: a candidate for a UE that has no entry is logged and passed
\* over.  A webrtcbin that has been freed is found to be none, and waited for
\* in vain, or is used.
IceMessage(w) ==
    /\ SessionReady(w)
    /\ \E d \in Dirs : <<d, Ue(w)>> \in peers /\ element[<<d, Ue(w)>>] = "freed"
    /\ \/ Crash("freed")
       \/ /\ Goto(w, "iceWait")
          /\ raced' = RacedBy(w, ResetPoints)
          /\ UNCHANGED <<launchVars, mediaVars, floorVars, session, offered, dir,
                         disturbed, fault>>

\* ueReset: sent for the UE when it leaves, when its websocket closes, and
\* when a message to it could not be delivered.
UeReset(w) ==
    /\ Ready(w)
    /\ \/ w[2] = "session" /\ session[Ue(w)] = "open" /\ session' \in
              {session, [session EXCEPT ![Ue(w)] = "closed"]}
       \/ w[2] = "failure" /\ session[Ue(w)] \in {"open", "closed"} /\ UNCHANGED session
    /\ Goto(w, "reset")
    /\ dir' = [dir EXCEPT ![w] = "SENDER"]
    /\ talkers' = talkers \ {Ue(w)}
    /\ disturbed' = (disturbed \/ OtherAt(w, FloorPoints))
    /\ raced' = RacedBy(w, OfferPoints \cup ResetPoints)
    /\ UNCHANGED <<launchVars, mediaVars, currentSenderUeId, offered, fault>>

\* reset_ue takes the UE's webrtcbin, if the pipeline has it, out of the
\* pipeline and frees it; a sender's selector pads go with it.
ResetElements(w) ==
    /\ Up
    /\ pc[w] = "reset"
    /\ LET x == <<dir[w], Ue(w)>> IN
       IF element[x] = "current"
       THEN /\ element' = [element EXCEPT ![x] = "freed"]
            /\ active' = IF dir[w] = "SENDER"
                         THEN [m \in Media |-> IF active[m] = Ue(w) THEN NoUe ELSE active[m]]
                         ELSE active
       ELSE UNCHANGED <<element, active>>
    /\ Goto(w, "erase")
    /\ UNCHANGED <<launchVars, peers, floorVars, session, offered, dir,
                   disturbed, raced, fault>>

\* A bug: the element goes, the map keeps its peer.
EraseForgotten(w) ==
    /\ Up
    /\ pc[w] = "erase"
    /\ Goto(w, IF dir[w] = "SENDER" THEN "reset" ELSE "idle")
    /\ dir' = [dir EXCEPT ![w] = "RECEIVER"]
    /\ UNCHANGED <<launchVars, mediaVars, floorVars, session, offered,
                   disturbed, raced, fault>>

\* A bug: only the sender is reset.
EraseSenderOnly(w) ==
    /\ Up
    /\ pc[w] = "erase"
    /\ LET x == <<dir[w], Ue(w)>> IN
       /\ peers' = peers \ {x}
       /\ element' = IF element[x] = "freed" THEN [element EXCEPT ![x] = "none"] ELSE element
    /\ Goto(w, "idle")
    /\ UNCHANGED <<launchVars, active, floorVars, session, offered, dir,
                   disturbed, raced, fault>>

\* remove_peer_by_ueid, whether or not the element was found; after the
\* sender ueReset goes on to the receiver.
ErasePeer(w) ==
    /\ Up
    /\ pc[w] = "erase"
    /\ LET x == <<dir[w], Ue(w)>> IN
       /\ peers' = peers \ {x}
       /\ element' = IF element[x] = "freed" THEN [element EXCEPT ![x] = "none"] ELSE element
    /\ Goto(w, IF dir[w] = "SENDER" THEN "reset" ELSE "idle")
    /\ dir' = [dir EXCEPT ![w] = "RECEIVER"]
    /\ UNCHANGED <<launchVars, active, floorVars, session, offered,
                   disturbed, raced, fault>>

----------------------------------------------------------------------------
(* The floor.                                                              *)

\* Any floor call under way, a reset of the UE's and a closing of the
\* pipeline included.
FloorBusy(w) ==
    \/ closing # "no"
    \/ \E v \in Workers \ {w} : pc[v] \in FloorPoints
    \/ OtherAt(w, ResetPoints)

\* A bug: granted whoever has the floor.
AcquireTakenFloor(w) ==
    /\ SessionReady(w)
    /\ Goto(w, "grantAudio")
    /\ disturbed' = (disturbed \/ FloorBusy(w))
    /\ UNCHANGED <<launchVars, mediaVars, floorVars, session, offered, dir, raced, fault>>

\* ueFloorControl ACQUIRE of a free floor.  A floor that is taken is answered
\* REJECTED, and nothing changes.
AcquireFloor(w) ==
    /\ SessionReady(w)
    /\ currentSenderUeId = NoUe
    /\ Goto(w, "grantAudio")
    /\ disturbed' = (disturbed \/ FloorBusy(w))
    /\ UNCHANGED <<launchVars, mediaVars, floorVars, session, offered, dir, raced, fault>>

\* The pads a peer's recorded pad names stand for: its own, none once they
\* are released, and of a peer of an older pipeline whatever pad has that
\* name in this one.
PadOf(u) ==
    LET made(v) == element[<<"SENDER", v>>] IN
    {p \in Ues \cup {NoUe} :
        IF made(u) = "current" THEN p = u
        ELSE p = NoUe \/ (made(u) = "old" /\ made(p) = "current")}

\* allocate_floor_control_to_ue: look up the sender, which is dereferenced,
\* and make its audio pad the active one.
GrantAudio(w) ==
    /\ Up
    /\ pc[w] = "grantAudio"
    /\ IF <<"SENDER", Ue(w)>> \notin peers THEN Crash("nullPeer")
       ELSE /\ \E p \in PadOf(Ue(w)) : active' = [active EXCEPT !["audio"] = p]
            /\ Goto(w, "grantVideo")
            /\ UNCHANGED <<launchVars, element, peers, floorVars, session, offered, dir,
                           disturbed, raced, fault>>

\* A bug: the audio selector again.
GrantAudioTwice(w) ==
    /\ Up
    /\ pc[w] = "grantVideo"
    /\ \E p \in PadOf(Ue(w)) : active' = [active EXCEPT !["audio"] = p]
    /\ Goto(w, "grantOwner")
    /\ UNCHANGED <<launchVars, element, peers, floorVars, session, offered, dir,
                   disturbed, raced, fault>>

GrantVideo(w) ==
    /\ Up
    /\ pc[w] = "grantVideo"
    /\ \E p \in PadOf(Ue(w)) : active' = [active EXCEPT !["video"] = p]
    /\ Goto(w, "grantOwner")
    /\ UNCHANGED <<launchVars, element, peers, floorVars, session, offered, dir,
                   disturbed, raced, fault>>

\* currentSenderUeId = ueId; GRANTED goes to the UE, if its session is there.
GrantOwner(w) ==
    /\ Up
    /\ pc[w] = "grantOwner"
    /\ currentSenderUeId' = Ue(w)
    /\ talkers' = IF session[Ue(w)] = "open" THEN talkers \cup {Ue(w)} ELSE talkers
    /\ Goto(w, "idle")
    /\ UNCHANGED <<launchVars, mediaVars, session, offered, dir, disturbed, raced, fault>>

\* A bug: any UE releases the floor.
ReleaseForeignFloor(w) ==
    /\ SessionReady(w)
    /\ currentSenderUeId # NoUe
    /\ Goto(w, "revokeAudio")
    /\ disturbed' = (disturbed \/ FloorBusy(w))
    /\ talkers' = talkers \ {Ue(w)}
    /\ UNCHANGED <<launchVars, mediaVars, currentSenderUeId, session, offered, dir,
                   raced, fault>>

\* ueFloorControl RELEASE: of the UE that has the floor, or answered
\* INVALID_UE; the UE stops talking in both cases.
ReleaseFloor(w) ==
    /\ SessionReady(w)
    /\ IF currentSenderUeId = Ue(w)
       THEN Goto(w, "revokeAudio") /\ disturbed' = (disturbed \/ FloorBusy(w))
       ELSE UNCHANGED <<pc, disturbed>>
    /\ talkers' = talkers \ {Ue(w)}
    /\ UNCHANGED <<launchVars, mediaVars, currentSenderUeId, session, offered, dir,
                   raced, fault>>

\* revoke_floor_control_from_ue: both selectors have no active pad, nobody
\* has the floor.
RevokeAudio(w) ==
    /\ Up
    /\ pc[w] = "revokeAudio"
    /\ active' = [active EXCEPT !["audio"] = NoUe]
    /\ Goto(w, "revokeVideo")
    /\ UNCHANGED <<launchVars, element, peers, floorVars, session, offered, dir,
                   disturbed, raced, fault>>

RevokeVideo(w) ==
    /\ Up
    /\ pc[w] = "revokeVideo"
    /\ active' = [active EXCEPT !["video"] = NoUe]
    /\ Goto(w, "revokeOwner")
    /\ UNCHANGED <<launchVars, element, peers, floorVars, session, offered, dir,
                   disturbed, raced, fault>>

RevokeOwner(w) ==
    /\ Up
    /\ pc[w] = "revokeOwner"
    /\ currentSenderUeId' = NoUe
    /\ Goto(w, "idle")
    /\ UNCHANGED <<launchVars, mediaVars, talkers, session, offered, dir,
                   disturbed, raced, fault>>

----------------------------------------------------------------------------
(* pipeline_bus_callback_group: the pipeline failed, and the thread of the *)
(* main loop closes it; close_pipeline_group takes no mutex but the map's. *)

NobodyAt(points) == \A w \in Workers : pc[w] \notin points

\* Bound: not while a pipeline is being launched.
BusError ==
    /\ Up
    /\ handler
    /\ pipeline = "ready"
    /\ closing = "no"
    /\ launch \in {"pending", "done"}
    /\ closing' = "stripSenders"
    /\ talkers' = {}
    /\ disturbed' = (disturbed \/ ~NobodyAt(FloorPoints))
    /\ raced' = raced \cup Busy(OfferPoints \cup ResetPoints)
    /\ UNCHANGED <<handler, pipeline, launch, mediaVars, currentSenderUeId, session,
                   offered, pc, dir, fault>>

\* reset_ue of every entry of a direction, which is to keep the entries; where
\* it finds no webrtcbin it erases the one the loop stands on.
CloseStrip(d) ==
    /\ Up
    /\ closing = Strip(d)
    /\ LET stripped == {x \in peers : x[1] = d /\ element[x] = "current"}
           erased == {x \in peers : x[1] = d /\ element[x] # "current"}
       IN
       \/ /\ element' = [x \in Dirs \X Ues |-> IF x \in stripped THEN "freed" ELSE element[x]]
          /\ active' = [m \in Media |->
                           IF <<"SENDER", active[m]>> \in stripped THEN NoUe ELSE active[m]]
          /\ peers' = peers \ erased
          /\ closing' = Clear(d)
          /\ UNCHANGED <<handler, pipeline, launch, floorVars, session, offered, pc, dir,
                         disturbed, raced, fault>>
       \/ erased # {} /\ Crash("iterator")

\* A bug: the entries stay when their elements are gone.
CloseClearForgotten(d) ==
    /\ Up
    /\ closing = Clear(d)
    /\ closing' = IF d = "SENDER" THEN "stripReceivers" ELSE "nullify"
    /\ UNCHANGED <<handler, pipeline, launch, mediaVars, floorVars, session, offered, pc, dir,
                   disturbed, raced, fault>>

\* senderPeers.clear(), receiverPeers.clear().
CloseClear(d) ==
    /\ Up
    /\ closing = Clear(d)
    /\ peers' = {x \in peers : x[1] # d}
    /\ element' = [x \in Dirs \X Ues |->
                      IF x[1] = d /\ element[x] = "freed" THEN "none" ELSE element[x]]
    /\ closing' = IF d = "SENDER" THEN "stripReceivers" ELSE "nullify"
    /\ UNCHANGED <<handler, pipeline, launch, active, floorVars, session, offered, pc, dir,
                   disturbed, raced, fault>>

\* The pipeline is stopped and forgotten.
CloseNullify ==
    /\ Up
    /\ closing = "nullify"
    /\ closing' = "unmap"
    /\ pipeline' = "none"
    /\ element' = [x \in Dirs \X Ues |-> IF element[x] = "current" THEN "old" ELSE element[x]]
    /\ active' = [m \in Media |-> NoUe]
    /\ UNCHANGED <<handler, launch, peers, floorVars, session, offered, pc, dir,
                   disturbed, raced, fault>>

\* remove_groupsendrecv_handler: the group is gone, and its floor with it.
CloseUnmap ==
    /\ Up
    /\ closing = "unmap"
    /\ closing' = "no"
    /\ handler' = FALSE
    /\ currentSenderUeId' = NoUe
    /\ UNCHANGED <<pipeline, launch, mediaVars, talkers, session, offered, pc, dir,
                   disturbed, raced, fault>>

CloseStep ==
    \/ \E d \in Dirs : CloseStrip(d) \/ CloseClear(d)
    \/ CloseNullify \/ CloseUnmap

----------------------------------------------------------------------------
(* The environment of the handler.                                         *)

\* An input selector without an active pad takes the first one with data.
SelectorPicks(m, u) ==
    /\ Up
    /\ pipeline = "ready"
    /\ active[m] = NoUe
    /\ element[<<"SENDER", u>>] = "current"
    /\ active' = [active EXCEPT ![m] = u]
    /\ UNCHANGED <<launchVars, element, peers, floorVars, session, offered, pc, dir,
                   disturbed, raced, fault>>

\* Where a worker reads or writes a peer map next, and which one.
TouchesMap(w, d) ==
    \/ pc[w] \in {"add", "insert", "erase"} /\ dir[w] = d
    \/ pc[w] \in {"apply", "grantAudio"} /\ d = "SENDER"

\* An insertion without the mutex runs against another access to its map, and
\* so does the closing's iteration or clearing.
MapRace ==
    /\ Up
    /\ \E v \in Workers, d \in Dirs :
          /\ TouchesMap(v, d)
          /\ \/ \E w \in Workers \ {v} : pc[w] = "insert" /\ dir[w] = d
             \/ closing = Strip(d) /\ pc[v] \in {"insert", "erase"}
             \/ closing = Clear(d)
    /\ Crash("mapRace")

\* A call looks its handler up while the map of handlers is changed without
\* the mutex (createGroup), or reads the entry it found after leaving the
\* mutex (fetch_groupsendrecvhandler_by_groupid) when it has been erased.
LookupRace ==
    /\ Up
    /\ \E u \in Ues : session[u] = "open"
    /\ closing = "unmap" \/ (launch = "pending" /\ ~handler)
    /\ Crash("mapRace")

\* The timer of the key frames looks the holder's sender up and uses its
\* webrtcbin, in the thread that would close the pipeline.
KeyFrame ==
    /\ Up
    /\ pipeline # "none"
    /\ closing = "no"
    /\ currentSenderUeId # NoUe
    /\ \/ \E w \in Workers : pc[w] = "insert" /\ dir[w] = "SENDER" /\ Crash("mapRace")
       \/ /\ <<"SENDER", currentSenderUeId>> \in peers
          /\ element[<<"SENDER", currentSenderUeId>>] = "freed"
          /\ Crash("freed")

\* The process that died is started again; nobody creates the group until
\* the signalling server starts again, too.
ProcessRestart ==
    /\ ~Up
    /\ handler' = FALSE
    /\ pipeline' = "none"
    /\ closing' = "no"
    /\ launch' = IF launch = "pending" THEN "pending" ELSE "done"
    /\ element' = [x \in Dirs \X Ues |-> "none"]
    /\ peers' = {}
    /\ active' = [m \in Media |-> NoUe]
    /\ currentSenderUeId' = NoUe
    /\ pc' = [w \in Workers |-> "idle"]
    /\ dir' = [w \in Workers |-> "SENDER"]
    /\ talkers' = {}
    /\ disturbed' = FALSE
    /\ raced' = {}
    /\ fault' = "none"
    /\ UNCHANGED <<session, offered>>

----------------------------------------------------------------------------
Call(w) ==
    \/ SdpOffer(w) \/ SdpAnswer(w) \/ IceMessage(w) \/ UeReset(w)
    \/ AcquireFloor(w) \/ ReleaseFloor(w)

\* A call under way goes on by itself.
Proceed(w) ==
    \/ AddExisting(w) \/ AddElements(w) \/ AddAborts(w)
    \/ InsertPeer(w) \/ ApplyOffer(w)
    \/ ResetElements(w) \/ ErasePeer(w)
    \/ GrantAudio(w) \/ GrantVideo(w) \/ GrantOwner(w)
    \/ RevokeAudio(w) \/ RevokeVideo(w) \/ RevokeOwner(w)

Environment ==
    \/ \E u \in Ues : Connect(u)
    \/ SignallingRestart \/ CreateGroup \/ LaunchBare \/ LaunchReady
    \/ \E m \in Media, u \in Ues : SelectorPicks(m, u)
    \/ MapRace \/ ProcessRestart

Next ==
    \/ Environment
    \/ BusError \/ CloseStep
    \/ LookupRace \/ KeyFrame
    \/ \E w \in Workers : Call(w) \/ Proceed(w)

\* The handlers and the closing wait for nothing without end.
Fairness == WF_vars(CloseStep) /\ \A w \in Workers : WF_vars(Proceed(w))

Spec == Init /\ [][Next]_vars /\ Fairness

----------------------------------------------------------------------------
(***************************************************************************)
(* Properties.                                                             *)
(***************************************************************************)

\* The floor is one UE's: as long as no floor call overlapped another, a UE
\* that was told GRANTED is the one the handler has the floor with.
OneTalker == ~disturbed => talkers \subseteq {currentSenderUeId}

\* The UE with the floor is the one heard and seen: both selectors forward
\* its pads as long as its elements are in the pipeline.
HolderIsHeard ==
    ~disturbed => \A u \in talkers :
        element[<<"SENDER", u>>] = "current" => \A m \in Media : active[m] = u

\* The floor passes from one UE to another only through being free, which
\* the holder's own RELEASE makes it, or the end of the group, and not a reset
\* of the holder.
FloorHandover ==
    [][ (~disturbed /\ Up /\ currentSenderUeId # NoUe) =>
          \/ currentSenderUeId' = currentSenderUeId
          \/ /\ currentSenderUeId' = NoUe
             /\ ~handler' \/ pc[<<currentSenderUeId, "session">>] = "revokeOwner" ]_vars

\* The UE that holds itself for the talker.
Talker == IF talkers = {} THEN NoUe ELSE CHOOSE u \in talkers : TRUE

\* What the UEs are told makes the floor an exclusive lock, up to such an
\* overlap: GRANTED is sent while nobody talks, and the floor is nobody's
\* before it is another's, through releases, resets, failures and restarts.
Floor == INSTANCE ExclusiveLock WITH Peers <- Ues, NoPeer <- NoUe, holder <- Talker
ImplementsExclusiveFloor == Floor!Init /\ [][Floor!Next \/ disturbed']_Talker

MediaPoints == OfferPoints \cup ResetPoints

\* No offer or reset of the UE is under way.
Resting(u) == \A w \in Workers : Ue(w) = u => pc[w] \notin MediaPoints

\* The maps tell what the pipeline has: unless two calls of the UE
\* overlapped, between its calls a UE has an entry for a direction just when
\* it has elements, and a receiver only with a sender, whatever the calls of
\* other UEs meet.
PeersMatchElements ==
    closing = "no" => \A u \in Ues \ raced : Resting(u) =>
        /\ \A d \in Dirs :
              /\ element[<<d, u>>] = "current" => <<d, u>> \in peers
              /\ <<d, u>> \in peers => element[<<d, u>>] \in {"current", "old"}
        /\ <<"RECEIVER", u>> \in peers <=> <<"SENDER", u>> \in peers

\* No call finds an element that is gone: where one is used or waited for,
\* calls overlapped or a reset or closing was on its way from the element to
\* the entry; who waits in vain overlapped itself.
FreedNeedsOverlap ==
    /\ fault = "freed" => raced # {} \/ closing # "no" \/ ~NobodyAt({"erase"})
    /\ Busy({"iceWait"}) \subseteq raced

\* A UE whose websocket has closed is gone from the group when its reset is over:
\* no offer of it that came before, no failed delivery after, and no launch or
\* closing of the pipeline leaves an entry, unless calls of its own overlapped.
ClosedIsGone ==
    \A u \in Ues \ raced :
        session[u] = "closed" /\ Resting(u) => \A d \in Dirs : <<d, u>> \notin peers

\* A UE whose websocket has closed leaves the group: unless calls of its own
\* overlapped, its entries are gone in the end.
CloseCleans ==
    \A u \in Ues :
        session[u] = "closed" ~> (u \in raced \/ ~Up \/ \A d \in Dirs : <<d, u>> \notin peers)

----------------------------------------------------------------------------
(***************************************************************************)
(* An orderly use of the group: every call is made when what it takes for  *)
(* granted is there, no candidate comes within a reset of its UE, the      *)
(* pipeline does not fail, and the timer falls into no reset or insertion. *)
(* Nothing in the code enforces it.                                        *)
(***************************************************************************)

OrderlyCall(w) ==
    \/ SdpOffer(w) /\ launch = "done" /\ NobodyAt(OfferPoints \cup ResetPoints \cup {"grantAudio"})
    \/ UeReset(w) /\ NobodyAt(OfferPoints) /\ ~OtherAt(w, {"grantAudio"})
    \/ /\ AcquireFloor(w)
       /\ <<"SENDER", Ue(w)>> \in peers
       /\ NobodyAt(OfferPoints) /\ ~OtherAt(w, ResetPoints)
    \/ ReleaseFloor(w)
    \/ SdpAnswer(w) /\ <<"RECEIVER", Ue(w)>> \in peers /\ ~OtherAt(w, ResetPoints)

OrderlyNext ==
    \/ /\ Environment
       /\ launch' = "pending" => NobodyAt(OfferPoints)
    \/ \E w \in Workers : OrderlyCall(w) \/ Proceed(w)

OrderlySpec == Init /\ [][OrderlyNext]_vars /\ Fairness

\* The media server survives an orderly use: no assertion of it fails, it
\* dereferences no missing peer, uses no freed element, and its unguarded
\* insertions meet no other access to their map.
NoFault == Up

----------------------------------------------------------------------------
(***************************************************************************)
(* Two inductive invariants: FloorInv behind OneTalker, HolderIsHeard and  *)
(* FloorHandover, MediaInv behind PeersMatchElements.                      *)
(***************************************************************************)

\* Only resets come from the failure of a delivery.
CallsFit ==
    \A w \in Workers : w[2] = "failure" => pc[w] \in {"idle"} \cup ResetPoints

\* A closing is undisturbed when no floor call is under way, and leaves nobody
\* talking and no floor to have.
ClosingSilences ==
    /\ closing # "no" \/ ~handler => talkers = {} /\ NobodyAt(FloorPoints)
    /\ ~handler => currentSenderUeId = NoUe

\* An undisturbed floor call is alone, and nobody talks during it.
FloorCallAlone ==
    \A w \in Workers : pc[w] \in FloorPoints =>
        /\ talkers = {}
        /\ currentSenderUeId = IF pc[w] \in GrantPoints THEN NoUe ELSE Ue(w)
        /\ \A v \in Workers \ {w} : pc[v] \notin FloorPoints

\* A UE that is being reset neither talks nor has a floor call under way.
ResetSilences ==
    \A w \in Workers : pc[w] \in ResetPoints =>
        /\ Ue(w) \notin talkers
        /\ ~OtherAt(w, FloorPoints)

\* A grant in progress has switched the selectors it is past, and keeps its
\* sender, as a talker does.
GrantsAreHeard ==
    \A w \in Workers :
        LET x == <<"SENDER", Ue(w)>> IN
        /\ pc[w] \in {"grantVideo", "grantOwner"} =>
              x \in peers /\ (element[x] = "current" => active["audio"] = Ue(w))
        /\ pc[w] = "grantOwner" => (element[x] = "current" => active["video"] = Ue(w))

TalkersJoined == \A u \in talkers : <<"SENDER", u>> \in peers

FloorInv ==
    /\ TypeOK
    /\ CallsFit
    /\ ~disturbed => /\ FloorCallAlone
                     /\ ResetSilences
                     /\ GrantsAreHeard
                     /\ TalkersJoined
                     /\ ClosingSilences
    /\ OneTalker
    /\ HolderIsHeard

\* How far an offer or reset is tells which entries the UE has.
EntriesFit(w) ==
    LET send == <<"SENDER", Ue(w)>>
        recv == <<"RECEIVER", Ue(w)>>
    IN
    /\ (dir[w] = "SENDER" /\ pc[w] # "apply") =>
          /\ recv \in peers <=> send \in peers
          /\ pc[w] = "insert" => send \notin peers
    /\ (pc[w] = "apply" \/ (dir[w] = "RECEIVER" /\ pc[w] \in OfferPoints)) =>
          /\ send \in peers
          /\ pc[w] = "insert" => recv \notin peers
    /\ (dir[w] = "RECEIVER" /\ pc[w] \in ResetPoints) => send \notin peers

MediaCallAlone ==
    \A w \in Workers : Ue(w) \notin raced /\ pc[w] \in MediaPoints =>
        ~OtherAt(w, MediaPoints) /\ EntriesFit(w)

\* A call for the UE and direction is at the point.
At(d, u, point) == \E w \in Workers : Ue(w) = u /\ dir[w] = d /\ pc[w] = point

\* Outside of the one step of a call or a closing between them, the entry and
\* the elements of a UE and direction come and go together.
EntryHasElements ==
    \A d \in Dirs, u \in Ues \ raced :
        /\ element[<<d, u>>] = "current" => <<d, u>> \in peers \/ At(d, u, "insert")
        /\ <<d, u>> \in peers => \/ element[<<d, u>>] \in {"current", "old"}
                                \/ At(d, u, "erase")
                                \/ closing = Clear(d)
        /\ At(d, u, "insert") => element[<<d, u>>] \in {"current", "old"}
        /\ At(d, u, "erase") => element[<<d, u>>] # "current"

\* A closing is alone, and tells which entries are left, and which of them
\* have elements.
ClosingAlone ==
    closing # "no" =>
        /\ Busy(MediaPoints) \subseteq raced
        /\ \A d \in Dirs, u \in Ues \ raced :
              closing = Clear(d) /\ <<d, u>> \in peers => element[<<d, u>>] = "freed"
        /\ closing \notin {"stripSenders", "clearSenders"} =>
              \A u \in Ues \ raced : <<"SENDER", u>> \notin peers
        /\ closing \in {"nullify", "unmap"} =>
              \A u \in Ues \ raced : <<"RECEIVER", u>> \notin peers

MediaInv ==
    /\ TypeOK
    /\ MediaCallAlone
    /\ EntryHasElements
    /\ ClosingAlone
    /\ PeersMatchElements
    /\ FreedNeedsOverlap

=============================================================================
