----------------------------- MODULE VideoLock -----------------------------
(***************************************************************************)
(* The video channel lock of the signalling server,                        *)
(* GrpcWebsocketBridge.updateLockAndVerify and videoLock(), at the         *)
(* granularity of its reads and writes of the two shared fields.           *)
(*                                                                         *)
(* Both methods run inside synchronized(videoLock), but videoLock is a     *)
(* Boolean *field*: the monitor entered is that of the object the field    *)
(* refers to when the expression is evaluated, Boolean.TRUE or             *)
(* Boolean.FALSE, and the body reassigns the field.  So there are two      *)
(* monitors, a thread may enter the monitor of a value the field no longer *)
(* has, and two threads can be inside at once.  mon[t] is the object       *)
(* thread t evaluated.                                                     *)
(*                                                                         *)
(* A step of a thread makes one access to a shared field; entering the     *)
(* monitor is part of the first access inside it and leaving it part of    *)
(* the last, which loses no behaviour (an acquisition commutes to the      *)
(* right of the other threads' steps, a release to the left).  Accesses    *)
(* are sequentially consistent.                                            *)
(***************************************************************************)
EXTENDS FiniteSets

CONSTANTS
    Peers,        \* peer ids; the messages of a peer's websocket session are
                  \* handled one after the other, by "the thread of the peer"
    GrpcThreads,  \* threads of the gRPC service, where the media server's
                  \* VIDEO_RESET messages arrive
    NoPeer        \* the empty videoLockPeer

ASSUME ThreadsAssumption ==
    /\ Peers \cap GrpcThreads = {}
    /\ NoPeer \notin Peers

VARIABLES
    videoLock,      \* the field videoLock
    videoLockPeer,  \* the field videoLockPeer
    pc,             \* where each thread is in the method
    mon,            \* the monitor each thread enters (or is inside of)
    req,            \* the message each thread is handling
    senders,        \* history: peers whose video offer passed the lock and
                    \* that have not been given up since
    overlapped      \* history: a release that took effect has overlapped a
                    \* request that could interfere with it

vars == <<videoLock, videoLockPeer, pc, mon, req, senders, overlapped>>

Threads == Peers \cup GrpcThreads

\* What updateLockAndVerify distinguishes: a video SDP of direction SENDER,
\* a VIDEO_RESET or DISCONNECTED status, and everything else.  "Query" is
\* a call of videoLock().
Kinds == {"SenderSdp", "Release", "Other", "Query"}
Requests == [kind : Kinds, peer : Peers]
NoRequest == [kind |-> "None", peer |-> NoPeer]

\* Program points: "enter" has evaluated the field and not entered; the
\* others are inside the monitor, named for the access they make next.
Inside == {"compareOwner", "clearLock", "clearOwner", "setLock", "setOwner"}
Points == {"idle", "enter"} \cup Inside

TypeOK ==
    /\ videoLock \in BOOLEAN
    /\ videoLockPeer \in Peers \cup {NoPeer}
    /\ pc \in [Threads -> Points]
    /\ mon \in [Threads -> BOOLEAN]
    /\ req \in [Threads -> Requests \cup {NoRequest}]
    /\ senders \subseteq Peers
    /\ overlapped \in BOOLEAN

Init ==
    /\ videoLock = FALSE
    /\ videoLockPeer = NoPeer
    /\ pc = [t \in Threads |-> "idle"]
    /\ mon = [t \in Threads |-> FALSE]
    /\ req = [t \in Threads |-> NoRequest]
    /\ senders = {}
    /\ overlapped = FALSE

----------------------------------------------------------------------------
Goto(t, point) == pc' = [pc EXCEPT ![t] = point] /\ UNCHANGED <<mon, req>>

\* Leave the monitor and the method.
Return(t) ==
    /\ pc' = [pc EXCEPT ![t] = "idle"]
    /\ mon' = [mon EXCEPT ![t] = FALSE]
    /\ req' = [req EXCEPT ![t] = NoRequest]

\* A thread inside the monitor m.
Holds(t, m) == pc[t] \in Inside /\ mon[t] = m

\* The request of u can interfere with a release of p: another video offer,
\* or another release of the same peer (its session and the media server
\* may both send one).
Contends(u, p) ==
    /\ pc[u] # "idle"
    /\ \/ req[u].kind = "SenderSdp"
       \/ req[u].kind = "Release" /\ req[u].peer = p

\* The messages a thread can be handed: a session's thread handles its own
\* peer's messages; the media server resets a peer it was told to stream.
Receivable(t) ==
    IF t \in Peers THEN {r \in Requests : r.peer = t}
                   ELSE {r \in Requests : r.kind = "Release" /\ r.peer \in senders}

\* synchronized (videoLock): the field is read to find the monitor.
Evaluate(t, r) ==
    /\ pc[t] = "idle"
    /\ pc' = [pc EXCEPT ![t] = "enter"]
    /\ mon' = [mon EXCEPT ![t] = videoLock]
    /\ req' = [req EXCEPT ![t] = r]
    /\ senders' = IF r.kind = "Release" THEN senders \ {r.peer} ELSE senders
    /\ overlapped' = (overlapped \/ \E u \in Threads :
                        /\ pc[u] = "clearOwner"
                        /\ \/ r.kind = "SenderSdp"
                           \/ r.kind = "Release" /\ r.peer = req[u].peer)
    /\ UNCHANGED <<videoLock, videoLockPeer>>

\* The monitor is free: enter, and read the field again.
CanEnter(t) ==
    /\ pc[t] = "enter"
    /\ \A u \in Threads \ {t} : ~Holds(u, mon[t])

\* A bug: the flag is not looked at.
AcquireAnyway(t) ==
    /\ CanEnter(t)
    /\ req[t].kind = "SenderSdp"
    /\ Goto(t, "setLock")
    /\ UNCHANGED <<videoLock, videoLockPeer, senders, overlapped>>

\* Unlocked, and the message is a video offer: the sender will be added.
EnterToAcquire(t) ==
    /\ CanEnter(t)
    /\ ~videoLock
    /\ req[t].kind = "SenderSdp"
    /\ Goto(t, "setLock")
    /\ UNCHANGED <<videoLock, videoLockPeer, senders, overlapped>>

\* Locked, and the message is VIDEO_RESET or DISCONNECTED.
EnterToRelease(t) ==
    /\ CanEnter(t)
    /\ videoLock
    /\ req[t].kind = "Release"
    /\ Goto(t, "compareOwner")
    /\ UNCHANGED <<videoLock, videoLockPeer, senders, overlapped>>

\* Locked, and the message is a video offer: return false, the offer is
\* dropped.
EnterToReject(t) ==
    /\ CanEnter(t)
    /\ videoLock
    /\ req[t].kind = "SenderSdp"
    /\ Return(t)
    /\ UNCHANGED <<videoLock, videoLockPeer, senders, overlapped>>

\* Nothing to do for this message in this state of the lock.
EnterToPass(t) ==
    /\ CanEnter(t)
    /\ \/ req[t].kind \in {"Other", "Query"}
       \/ req[t].kind = "Release" /\ ~videoLock
    /\ Return(t)
    /\ UNCHANGED <<videoLock, videoLockPeer, senders, overlapped>>

\* videoLockPeer.equalsIgnoreCase(peerId)
CompareOwner(t) ==
    /\ pc[t] = "compareOwner"
    /\ IF videoLockPeer = req[t].peer THEN Goto(t, "clearLock") ELSE Return(t)
    /\ UNCHANGED <<videoLock, videoLockPeer, senders, overlapped>>

\* A bug: only the owner is cleared.
ClearLockForgotten(t) ==
    /\ pc[t] = "clearLock"
    /\ Goto(t, "clearOwner")
    /\ overlapped' = (overlapped \/ \E u \in Threads \ {t} : Contends(u, req[t].peer))
    /\ UNCHANGED <<videoLock, videoLockPeer, senders>>

\* videoLock = false
ClearLock(t) ==
    /\ pc[t] = "clearLock"
    /\ videoLock' = FALSE
    /\ Goto(t, "clearOwner")
    /\ overlapped' = (overlapped \/ \E u \in Threads \ {t} : Contends(u, req[t].peer))
    /\ UNCHANGED <<videoLockPeer, senders>>

\* A bug: the owner is not cleared.
ClearOwnerForgotten(t) ==
    /\ pc[t] = "clearOwner"
    /\ Return(t)
    /\ UNCHANGED <<videoLock, videoLockPeer, senders, overlapped>>

\* videoLockPeer = "", and return
ClearOwner(t) ==
    /\ pc[t] = "clearOwner"
    /\ videoLockPeer' = NoPeer
    /\ Return(t)
    /\ UNCHANGED <<videoLock, senders, overlapped>>

\* videoLock = true
SetLock(t) ==
    /\ pc[t] = "setLock"
    /\ videoLock' = TRUE
    /\ Goto(t, "setOwner")
    /\ UNCHANGED <<videoLockPeer, senders, overlapped>>

\* A bug: the owner is not recorded.
SetOwnerForgotten(t) ==
    /\ pc[t] = "setOwner"
    /\ senders' = senders \cup {req[t].peer}
    /\ Return(t)
    /\ UNCHANGED <<videoLock, videoLockPeer, overlapped>>

\* videoLockPeer = peerId, and return true: the offer goes to the media server
SetOwner(t) ==
    /\ pc[t] = "setOwner"
    /\ videoLockPeer' = req[t].peer
    /\ senders' = senders \cup {req[t].peer}
    /\ Return(t)
    /\ UNCHANGED <<videoLock, overlapped>>

----------------------------------------------------------------------------
\* A thread that has entered the method goes on by itself.
Proceed(t) ==
    \/ EnterToAcquire(t) \/ EnterToRelease(t)
    \/ EnterToReject(t)  \/ EnterToPass(t)
    \/ CompareOwner(t)   \/ ClearLock(t) \/ ClearOwner(t)
    \/ SetLock(t)        \/ SetOwner(t)

Next == \E t \in Threads : (\E r \in Receivable(t) : Evaluate(t, r)) \/ Proceed(t)

\* Inside the method there is no waiting but for the monitor.
Fairness == \A t \in Threads : WF_vars(Proceed(t))

Spec == Init /\ [][Next]_vars /\ Fairness

----------------------------------------------------------------------------
(***************************************************************************)
(* Properties.                                                             *)
(***************************************************************************)

\* The point of the lock: as long as no release that took effect overlapped
\* another request, at most one peer's video offer has been let through.
OneSender == ~overlapped => \A p, q \in senders : p = q

\* A locked channel has an owner that can unlock it: outside the two
\* assignments of an acquisition, the recorded owner is the peer let through,
\* or a peer whose release is under way.
OwnerCanRelease ==
    (~overlapped /\ videoLock /\ \A t \in Threads : pc[t] # "setOwner") =>
        /\ videoLockPeer \in Peers
        /\ \/ videoLockPeer \in senders
           \/ \E t \in Threads : /\ pc[t] \in {"enter", "compareOwner", "clearLock"}
                                 /\ req[t] = [kind |-> "Release", peer |-> videoLockPeer]

\* A free channel keeps nobody: nobody streams once the flag is down, and
\* the next offer is not dropped because of a leftover owner.
FreeMeansNobody ==
    (~overlapped /\ ~videoLock) =>
        /\ senders = {}
        /\ (videoLockPeer # NoPeer => \E t \in Threads : pc[t] = "clearOwner")

\* The holder as the two fields tell it while an assignment is missing.
Holder ==
    IF ~videoLock THEN NoPeer
    ELSE IF \E t \in Threads : pc[t] = "setOwner"
         THEN req[CHOOSE t \in Threads : pc[t] = "setOwner"].peer
         ELSE videoLockPeer

\* The lock implements the abstract one, up to such an overlap: it is taken at
\* "videoLock = true" and freed at "videoLock = false".
Abstract == INSTANCE ExclusiveLock WITH holder <- Holder
ImplementsExclusiveLock == Abstract!Init /\ [][Abstract!Next \/ overlapped']_Holder

\* The log line of the releasing branch, "Video lock peer stopped/disconnected.
\* Releasing lock": a release that was matched with the owner is not lost.
\* After it the channel is free, or another peer's; it is not left to the one
\* that released it, nor locked without an owner; but for an overlap.  (One
\* that still waits for its monitor may starve: Java's monitors are not fair.)
ReleaseFreesChannel ==
    \A p \in Peers :
        (\E t \in Threads : pc[t] = "clearLock" /\ req[t].peer = p) ~>
            (~videoLock \/ videoLockPeer \notin {p, NoPeer} \/ overlapped)

----------------------------------------------------------------------------
(***************************************************************************)
(* The inductive invariant behind OneSender, OwnerCanRelease and           *)
(* FreeMeansNobody.                                                        *)
(***************************************************************************)

InFlight(t, kind) == pc[t] # "idle" /\ req[t].kind = kind

\* A thread's point in the method fits the message it handles.
PointsFit ==
    \A t \in Threads :
        /\ pc[t] = "idle" <=> req[t] = NoRequest
        /\ pc[t] \in {"setLock", "setOwner"} => req[t].kind = "SenderSdp"
        /\ pc[t] \in {"compareOwner", "clearLock", "clearOwner"} => req[t].kind = "Release"
        /\ (pc[t] # "idle" /\ t \in Peers) => req[t].peer = t
        /\ (pc[t] # "idle" /\ t \in GrpcThreads) => req[t].kind = "Release"

\* Each of the two monitors has at most one thread inside.
MonitorsExclude ==
    \A t, u \in Threads :
        (t # u /\ pc[t] \in Inside /\ pc[u] \in Inside) => mon[t] # mon[u]

\* An acquisition in progress found the channel free and nobody streaming,
\* and entered the monitor of FALSE.
AcquireAlone ==
    \A t \in Threads :
        /\ (pc[t] = "enter" /\ req[t].kind = "SenderSdp" /\ mon[t]) => videoLock
        /\ pc[t] \in {"setLock", "setOwner"} =>
              /\ ~mon[t]
              /\ videoLock = (pc[t] = "setOwner")
              /\ videoLockPeer = NoPeer
              /\ senders = {}

\* A release that matched the owner still has the owner's lock to clear.
ReleaseAlone ==
    \A t \in Threads :
        /\ pc[t] = "clearLock" => videoLock /\ videoLockPeer = req[t].peer
        /\ pc[t] = "clearOwner" =>
              /\ ~videoLock
              /\ videoLockPeer = req[t].peer
              /\ \A u \in Threads \ {t} : ~Contends(u, req[t].peer)
        /\ InFlight(t, "Release") =>
              /\ req[t].peer \notin senders
              /\ (t \in GrpcThreads /\ pc[t] # "clearOwner") =>
                    videoLock /\ videoLockPeer = req[t].peer

\* Only the recorded owner can be streaming.
OnlyOwnerSends ==
    (videoLock /\ \A t \in Threads : pc[t] # "setOwner") => senders \subseteq {videoLockPeer}

IInv ==
    /\ TypeOK
    /\ PointsFit
    /\ MonitorsExclude
    /\ ~overlapped => AcquireAlone /\ ReleaseAlone /\ OnlyOwnerSends
    /\ FreeMeansNobody
    /\ OwnerCanRelease

----------------------------------------------------------------------------
\* A claim of the source that the two monitors do not keep.

\* "//Video Channel Lock" and "Already video locked! Another sender dropped":
\* one sender at a time, whatever the interleaving.
OneSenderAlways == \A p, q \in senders : p = q
=============================================================================
