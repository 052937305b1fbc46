-------------------------- MODULE Signalling_proofs --------------------------
(***************************************************************************)
(* What Signalling keeps for every set of peers and every choice of the    *)
(* threads the media server calls.  The inductive invariant IInv ties the  *)
(* point a session's thread has reached to what the session has left       *)
(* behind: in the maps, at the media server, in the lock and in the list.  *)
(***************************************************************************)
EXTENDS Signalling, TLAPS

Alive(p) == socket[p] \in {"open", "broken"}
Past(p) == pc[Session(p)]

\* The container: no callback before the first or after the last, onClose at
\* the end.
Phases ==
    \A p \in Peers :
        /\ ~Alive(p) => Past(p) = "idle"
        /\ Past(p) \in ClosePoints => socket[p] = "broken"
        /\ Past(p) # "deliver"

\* The maps are filled one after the other and emptied in the same order.
MapsInv ==
    \A p \in Peers :
        /\ p \in peerSessionMap \cup sessionPeerMap => Alive(p) \/ p \in threw
        /\ Past(p) \in {"putSession", "join"} => p \in peerSessionMap
        /\ Past(p) = "dropSession" => p \notin peerSessionMap
        /\ p \in sessionPeerMap /\ Past(p) # "dropSession" => p \in peerSessionMap

\* What has been reported is gone from the media server.
MediaInv ==
    /\ media = "down" => stream = NoPeer
    /\ \A p \in Peers :
        /\ socket[p] = "new" => p \notin conference \cup group /\ stream # p
        /\ socket[p] = "closed" /\ p \notin threw =>
              p \notin conference \cup group /\ stream # p
        /\ Past(p) \in {"reported", "reportUe", "dropPeer", "dropSession"} =>
              p \notin conference /\ stream # p
        /\ Past(p) \in {"dropPeer", "dropSession"} => p \notin group

\* The lock is its holder's from the offer to the stop or the close, and an
\* offer on its way is the holder's.
LockInv ==
    \A p \in Peers :
        /\ videoLock = p =>
              /\ Registered(p) /\ Alive(p)
              /\ Past(p) \notin ClosePoints \cup {"stop"}
              /\ Past(p) \in {"copy", "offer"} \/ stream = p \/ p \in threw \cup orphaned
        /\ Past(p) \in {"copy", "offer"} =>
              videoLock = p /\ stream # p /\ browser[p] = "sending"
        /\ stream = p =>
              \/ browser[p] = "sending"
              \/ Past(p) \in ClosePoints \cup {"stop"}
              \/ socket[p] \in {"closed", "lost"}
        /\ browser[p] = "sending" => videoLock = p \/ p \in threw \cup misled

\* As long as no two writers have met, the list is what it is meant to be.
ListInv ==
    /\ ~HasChannel => channel = {}
    /\ ~raced => channel \subseteq peerSessionMap
    /\ ~raced => \A p \in Peers :
          /\ socket[p] = "open" /\ Registered(p) /\ p \notin threw /\ Past(p) # "join" =>
                p \in channel
          /\ Past(p) \in ClosePoints \ {"unlist"} => p \notin channel

\* A peer's service goes through the points of a report that was not asked for,
\* and its call is under way as long as it does.
ServiceInv ==
    \A p \in Peers :
        LET s == PeerService(p) IN
        /\ pc[s] \in {"idle", "deliver", "report", "reportUe"}
        /\ call[s] # "none" => pc[s] # "idle"
        /\ call[s] = "element" => pc[s] = "deliver" \/ p \in undelivered

IInv == TypeOK /\ Phases /\ MapsInv /\ MediaInv /\ LockInv /\ ListInv /\ ServiceInv

\* A thread is a session's or a service's, and no two peers have the same.
LEMMA ThreadKinds ==
    /\ \A p \in Peers :
        /\ Session(p) \in Sessions
        /\ PeerService(p) \in Services /\ GroupService(p) \in Services
        /\ Of(Session(p)) = p /\ Of(PeerService(p)) = p /\ Of(GroupService(p)) = p
    /\ \A t \in Sessions : Of(t) \in Peers /\ t = Session(Of(t)) /\ t \notin Services
    /\ \A t \in Services : Of(t) \in Peers /\ t \notin Sessions
    /\ Threads = Sessions \cup Services
  BY DEF Threads, Sessions, Services, Session, PeerService, GroupService, Of

\* A write of the list adds or removes one peer, or collides with another.
LEMMA Writes ==
  ASSUME NEW p \in Peers, channel \subseteq Peers \cup {NoPeer}
  PROVE /\ \A S \in Added(p) : /\ S \subseteq Peers \cup {NoPeer}
                               /\ ~ListBusy(p) => S = channel \cup {p}
        /\ \A S \in Removed(p) : /\ S \subseteq Peers \cup {NoPeer}
                                 /\ ~ListBusy(p) => S = channel \ {p}
<1>1. CASE ListBusy(p)
  BY <1>1 DEF Added, Removed
<1>2. CASE ~ListBusy(p)
  BY <1>2 DEF Added, Removed
<1> QED
  BY <1>1, <1>2

\* The points, one by one.
LEMMA PointNames ==
    /\ ClosePoints = {"unlist", "report", "reported", "failed", "reportUe", "dropPeer",
                      "dropSession"}
    /\ Points = {"idle", "copy", "offer", "stop", "deliver"}
                 \cup {"announce", "putPeer", "putSession", "join"} \cup ClosePoints
  BY DEF Points, OpenPoints, ClosePoints

\* Every step keeps the types.
LEMMA NextTypes ==
  ASSUME TypeOK, [Next]_vars PROVE TypeOK'
<1> USE PeersAssumption, ThreadKinds, PointNames
    DEF TypeOK, Past, Alive, Registered, HasChannel,
        At, Goto, maps, mediaVars, history
<1>0. CASE UNCHANGED vars
  BY <1>0 DEF vars, maps, mediaVars, history
<1>1. CASE MainInitialize
  BY <1>1 DEF MainInitialize
<1>2. CASE MainChannel
  BY <1>2 DEF MainChannel, Exit
<1>3. CASE MainGroup
  BY <1>3 DEF MainGroup, Exit
<1>4. CASE MediaDies
  BY <1>4 DEF MediaDies, Dead
<1>5. CASE MediaRestarts
  BY <1>5 DEF MediaRestarts
<1>6. ASSUME NEW p \in Peers, Open(p) PROVE TypeOK'
  BY <1>6 DEF Open
<1>7. ASSUME NEW p \in Peers, Break(p) PROVE TypeOK'
  BY <1>7 DEF Break
<1>8. ASSUME NEW p \in Peers, Query(p) PROVE TypeOK'
  BY <1>8 DEF Query, MayReceive
<1>9. ASSUME NEW p \in Peers, Offer(p) PROVE TypeOK'
  BY <1>9 DEF Offer, MayReceive
<1>10. ASSUME NEW p \in Peers, StopVideo(p) PROVE TypeOK'
  BY <1>10 DEF StopVideo, MayReceive, Unlocked
<1>11. ASSUME NEW p \in Peers, JoinAudio(p) PROVE TypeOK'
  BY <1>11 DEF JoinAudio, Dead, Throw, Closing, MayReceive
<1>12. ASSUME NEW p \in Peers, GroupOffer(p) PROVE TypeOK'
  BY <1>12 DEF GroupOffer, MayReceive
<1>13. ASSUME NEW p \in Peers, Announce(p) PROVE TypeOK'
  BY <1>13 DEF Announce
<1>14. ASSUME NEW p \in Peers, PutPeer(p) PROVE TypeOK'
  BY <1>14 DEF PutPeer
<1>15. ASSUME NEW p \in Peers, PutSession(p) PROVE TypeOK'
  BY <1>15 DEF PutSession
<1>16. ASSUME NEW p \in Peers, Join(p) PROVE TypeOK'
  <2>1. CASE HasChannel
    <3>1. channel' \in Added(p) \/ channel' \in Removed(p)
      BY <1>16, <2>1 DEF Join
    <3>2. channel' \subseteq Peers \cup {NoPeer}
      BY <3>1, Writes
    <3> QED
      BY <1>16, <2>1, <3>2 DEF Join
  <2>2. CASE ~HasChannel
    BY <1>16, <2>2 DEF Join, Throw, Closing
  <2> QED
    BY <2>1, <2>2
<1>17. ASSUME NEW p \in Peers, Copy(p) PROVE TypeOK'
  <2>1. CASE Goto(Session(p), "offer") /\ UNCHANGED <<socket, call, threw>>
    BY <1>17, <2>1 DEF Copy
  <2>2. CASE Throw(Session(p))
    BY <1>17, <2>2 DEF Copy, Throw, Closing
  <2> QED
    BY <1>17, <2>1, <2>2 DEF Copy
<1>18. ASSUME NEW p \in Peers, SendOffer(p) PROVE TypeOK'
  BY <1>18 DEF SendOffer, Throw, Closing
<1>19. ASSUME NEW p \in Peers, SendStop(p) PROVE TypeOK'
  BY <1>19 DEF SendStop, Throw, Closing
<1>20. ASSUME NEW p \in Peers, Close(p) PROVE TypeOK'
  BY <1>20 DEF Close, Throw, Closing, Unlocked
<1>21. ASSUME NEW p \in Peers, Unlist(p) PROVE TypeOK'
  <2>1. CASE HasChannel
    <3>1. channel' \in Added(p) \/ channel' \in Removed(p)
      BY <1>21, <2>1 DEF Unlist
    <3>2. channel' \subseteq Peers \cup {NoPeer}
      BY <3>1, Writes
    <3> QED
      BY <1>21, <2>1, <3>2 DEF Unlist
  <2>2. CASE ~HasChannel
    BY <1>21, <2>2 DEF Unlist, Throw, Closing
  <2> QED
    BY <2>1, <2>2
<1>22. ASSUME NEW p \in Peers, DropPeer(p) PROVE TypeOK'
  BY <1>22 DEF DropPeer
<1>23. ASSUME NEW p \in Peers, DropSession(p) PROVE TypeOK'
  BY <1>23 DEF DropSession
<1>24. ASSUME NEW p \in Peers, Expire(p) PROVE TypeOK'
  BY <1>24 DEF Expire
<1>25. ASSUME NEW t \in Threads, Report(t) PROVE TypeOK'
  BY <1>25 DEF Report, Throw, Closing, Dead, Remove, Unlocked
<1>26. ASSUME NEW t \in Threads, ReportReturns(t) PROVE TypeOK'
  BY <1>26 DEF ReportReturns
<1>27. ASSUME NEW t \in Threads, ReportFails(t) PROVE TypeOK'
  BY <1>27 DEF ReportFails, Throw, Closing
<1>28. ASSUME NEW t \in Threads, ReportUe(t) PROVE TypeOK'
  BY <1>28 DEF ReportUe, Throw, Closing
<1>29. ASSUME NEW t \in Services, Callback(t) PROVE TypeOK'
  BY <1>29 DEF Callback
<1>30. ASSUME NEW t \in Services, Deliver(t) PROVE TypeOK'
  BY <1>30 DEF Deliver
<1> QED
  BY <1>0, <1>1, <1>2, <1>3, <1>4, <1>5, <1>6, <1>7, <1>8, <1>9, <1>10, <1>11, <1>12,
     <1>13, <1>14, <1>15, <1>16, <1>17, <1>18, <1>19, <1>20, <1>21, <1>22, <1>23, <1>24,
     <1>25, <1>26, <1>27, <1>28, <1>29, <1>30 DEF Next, Main, Message, Proceed, Calls

\* Every step of a session leads from a point to one that its socket allows.
LEMMA NextPhases ==
  ASSUME TypeOK, Phases, [Next]_vars PROVE Phases'
<1> USE PeersAssumption, ThreadKinds, PointNames
    DEF Phases, TypeOK, Past, Alive, Registered, HasChannel,
        At, Goto, maps, mediaVars, history
<1>0. CASE UNCHANGED vars
  BY <1>0 DEF vars, maps, mediaVars, history
<1>1. CASE MainInitialize
  BY <1>1 DEF MainInitialize
<1>2. CASE MainChannel
  BY <1>2 DEF MainChannel, Exit
<1>3. CASE MainGroup
  BY <1>3 DEF MainGroup, Exit
<1>4. CASE MediaDies
  BY <1>4 DEF MediaDies, Dead
<1>5. CASE MediaRestarts
  BY <1>5 DEF MediaRestarts
<1>6. ASSUME NEW p \in Peers, Open(p) PROVE Phases'
  BY <1>6 DEF Open
<1>7. ASSUME NEW p \in Peers, Break(p) PROVE Phases'
  BY <1>7 DEF Break
<1>8. ASSUME NEW p \in Peers, Query(p) PROVE Phases'
  BY <1>8 DEF Query, MayReceive
<1>9. ASSUME NEW p \in Peers, Offer(p) PROVE Phases'
  BY <1>9 DEF Offer, MayReceive
<1>10. ASSUME NEW p \in Peers, StopVideo(p) PROVE Phases'
  BY <1>10 DEF StopVideo, MayReceive, Unlocked
<1>11. ASSUME NEW p \in Peers, JoinAudio(p) PROVE Phases'
  BY <1>11 DEF JoinAudio, Dead, Throw, Closing, MayReceive
<1>12. ASSUME NEW p \in Peers, GroupOffer(p) PROVE Phases'
  BY <1>12 DEF GroupOffer, MayReceive
<1>13. ASSUME NEW p \in Peers, Announce(p) PROVE Phases'
  BY <1>13 DEF Announce
<1>14. ASSUME NEW p \in Peers, PutPeer(p) PROVE Phases'
  BY <1>14 DEF PutPeer
<1>15. ASSUME NEW p \in Peers, PutSession(p) PROVE Phases'
  BY <1>15 DEF PutSession
<1>16. ASSUME NEW p \in Peers, Join(p) PROVE Phases'
  BY <1>16 DEF Join, Throw, Closing
<1>17. ASSUME NEW p \in Peers, Copy(p) PROVE Phases'
  BY <1>17 DEF Copy, Throw, Closing
<1>18. ASSUME NEW p \in Peers, SendOffer(p) PROVE Phases'
  BY <1>18 DEF SendOffer, Throw, Closing
<1>19. ASSUME NEW p \in Peers, SendStop(p) PROVE Phases'
  BY <1>19 DEF SendStop, Throw, Closing
<1>20. ASSUME NEW p \in Peers, Close(p) PROVE Phases'
  BY <1>20 DEF Close, Throw, Closing, Unlocked
<1>21. ASSUME NEW p \in Peers, Unlist(p) PROVE Phases'
  BY <1>21 DEF Unlist, Throw, Closing
<1>22. ASSUME NEW p \in Peers, DropPeer(p) PROVE Phases'
  BY <1>22 DEF DropPeer
<1>23. ASSUME NEW p \in Peers, DropSession(p) PROVE Phases'
  <2>1. \A q \in Peers : q # p => pc'[Session(q)] = pc[Session(q)] /\ socket'[q] = socket[q]
    BY <1>23 DEF DropSession
  <2>2. pc'[Session(p)] = "idle" /\ socket'[p] = "closed"
    BY <1>23 DEF DropSession
  <2> QED
    BY <2>1, <2>2
<1>24. ASSUME NEW p \in Peers, Expire(p) PROVE Phases'
  BY <1>24 DEF Expire
<1>25. ASSUME NEW t \in Threads, Report(t) PROVE Phases'
  BY <1>25 DEF Report, Throw, Closing, Dead, Remove, Unlocked
<1>26. ASSUME NEW t \in Threads, ReportReturns(t) PROVE Phases'
  BY <1>26 DEF ReportReturns
<1>27. ASSUME NEW t \in Threads, ReportFails(t) PROVE Phases'
  BY <1>27 DEF ReportFails, Throw, Closing
<1>28. ASSUME NEW t \in Threads, ReportUe(t) PROVE Phases'
  BY <1>28 DEF ReportUe, Throw, Closing
<1>29. ASSUME NEW t \in Services, Callback(t) PROVE Phases'
  BY <1>29 DEF Callback
<1>30. ASSUME NEW t \in Services, Deliver(t) PROVE Phases'
  BY <1>30 DEF Deliver
<1> QED
  BY <1>0, <1>1, <1>2, <1>3, <1>4, <1>5, <1>6, <1>7, <1>8, <1>9, <1>10, <1>11, <1>12,
     <1>13, <1>14, <1>15, <1>16, <1>17, <1>18, <1>19, <1>20, <1>21, <1>22, <1>23, <1>24,
     <1>25, <1>26, <1>27, <1>28, <1>29, <1>30 DEF Next, Main, Message, Proceed, Calls

\* Only the session writes its entries, and an exception is recorded.
LEMMA NextMapsInv ==
  ASSUME TypeOK, Phases, MapsInv, [Next]_vars PROVE MapsInv'
<1> USE PeersAssumption, ThreadKinds, PointNames
    DEF MapsInv, Phases, TypeOK, Past, Alive, Registered, HasChannel,
        At, Goto, maps, mediaVars, history
<1>0. CASE UNCHANGED vars
  BY <1>0 DEF vars, maps, mediaVars, history
<1>1. CASE MainInitialize
  BY <1>1 DEF MainInitialize
<1>2. CASE MainChannel
  BY <1>2 DEF MainChannel, Exit
<1>3. CASE MainGroup
  BY <1>3 DEF MainGroup, Exit
<1>4. CASE MediaDies
  BY <1>4 DEF MediaDies, Dead
<1>5. CASE MediaRestarts
  BY <1>5 DEF MediaRestarts
<1>6. ASSUME NEW p \in Peers, Open(p) PROVE MapsInv'
  BY <1>6 DEF Open
<1>7. ASSUME NEW p \in Peers, Break(p) PROVE MapsInv'
  BY <1>7 DEF Break
<1>8. ASSUME NEW p \in Peers, Query(p) PROVE MapsInv'
  BY <1>8 DEF Query, MayReceive
<1>9. ASSUME NEW p \in Peers, Offer(p) PROVE MapsInv'
  BY <1>9 DEF Offer, MayReceive
<1>10. ASSUME NEW p \in Peers, StopVideo(p) PROVE MapsInv'
  BY <1>10 DEF StopVideo, MayReceive, Unlocked
<1>11. ASSUME NEW p \in Peers, JoinAudio(p) PROVE MapsInv'
  BY <1>11 DEF JoinAudio, Dead, Throw, Closing, MayReceive
<1>12. ASSUME NEW p \in Peers, GroupOffer(p) PROVE MapsInv'
  BY <1>12 DEF GroupOffer, MayReceive
<1>13. ASSUME NEW p \in Peers, Announce(p) PROVE MapsInv'
  BY <1>13 DEF Announce
<1>14. ASSUME NEW p \in Peers, PutPeer(p) PROVE MapsInv'
  BY <1>14 DEF PutPeer
<1>15. ASSUME NEW p \in Peers, PutSession(p) PROVE MapsInv'
  BY <1>15 DEF PutSession
<1>16. ASSUME NEW p \in Peers, Join(p) PROVE MapsInv'
  BY <1>16 DEF Join, Throw, Closing
<1>17. ASSUME NEW p \in Peers, Copy(p) PROVE MapsInv'
  BY <1>17 DEF Copy, Throw, Closing
<1>18. ASSUME NEW p \in Peers, SendOffer(p) PROVE MapsInv'
  BY <1>18 DEF SendOffer, Throw, Closing
<1>19. ASSUME NEW p \in Peers, SendStop(p) PROVE MapsInv'
  BY <1>19 DEF SendStop, Throw, Closing
<1>20. ASSUME NEW p \in Peers, Close(p) PROVE MapsInv'
  BY <1>20 DEF Close, Throw, Closing, Unlocked
<1>21. ASSUME NEW p \in Peers, Unlist(p) PROVE MapsInv'
  BY <1>21 DEF Unlist, Throw, Closing
<1>22. ASSUME NEW p \in Peers, DropPeer(p) PROVE MapsInv'
  BY <1>22 DEF DropPeer
<1>23. ASSUME NEW p \in Peers, DropSession(p) PROVE MapsInv'
  BY <1>23 DEF DropSession
<1>24. ASSUME NEW p \in Peers, Expire(p) PROVE MapsInv'
  BY <1>24 DEF Expire
<1>25. ASSUME NEW t \in Threads, Report(t) PROVE MapsInv'
  BY <1>25 DEF Report, Throw, Closing, Dead, Remove, Unlocked
<1>26. ASSUME NEW t \in Threads, ReportReturns(t) PROVE MapsInv'
  BY <1>26 DEF ReportReturns
<1>27. ASSUME NEW t \in Threads, ReportFails(t) PROVE MapsInv'
  BY <1>27 DEF ReportFails, Throw, Closing
<1>28. ASSUME NEW t \in Threads, ReportUe(t) PROVE MapsInv'
  BY <1>28 DEF ReportUe, Throw, Closing
<1>29. ASSUME NEW t \in Services, Callback(t) PROVE MapsInv'
  BY <1>29 DEF Callback
<1>30. ASSUME NEW t \in Services, Deliver(t) PROVE MapsInv'
  BY <1>30 DEF Deliver
<1> QED
  BY <1>0, <1>1, <1>2, <1>3, <1>4, <1>5, <1>6, <1>7, <1>8, <1>9, <1>10, <1>11, <1>12,
     <1>13, <1>14, <1>15, <1>16, <1>17, <1>18, <1>19, <1>20, <1>21, <1>22, <1>23, <1>24,
     <1>25, <1>26, <1>27, <1>28, <1>29, <1>30 DEF Next, Main, Message, Proceed, Calls

\* What a session has reported does not come back: it alone could join again.
LEMMA NextMediaInv ==
  ASSUME TypeOK, Phases, MediaInv, [Next]_vars PROVE MediaInv'
<1> USE PeersAssumption, ThreadKinds, PointNames
    DEF MediaInv, Phases, TypeOK, Past, Alive, Registered, HasChannel,
        At, Goto, maps, mediaVars, history
<1>0. CASE UNCHANGED vars
  BY <1>0 DEF vars, maps, mediaVars, history
<1>1. CASE MainInitialize
  BY <1>1 DEF MainInitialize
<1>2. CASE MainChannel
  BY <1>2 DEF MainChannel, Exit
<1>3. CASE MainGroup
  BY <1>3 DEF MainGroup, Exit
<1>4. CASE MediaDies
  BY <1>4 DEF MediaDies, Dead
<1>5. CASE MediaRestarts
  BY <1>5 DEF MediaRestarts
<1>6. ASSUME NEW p \in Peers, Open(p) PROVE MediaInv'
  BY <1>6 DEF Open
<1>7. ASSUME NEW p \in Peers, Break(p) PROVE MediaInv'
  BY <1>7 DEF Break
<1>8. ASSUME NEW p \in Peers, Query(p) PROVE MediaInv'
  BY <1>8 DEF Query, MayReceive
<1>9. ASSUME NEW p \in Peers, Offer(p) PROVE MediaInv'
  BY <1>9 DEF Offer, MayReceive
<1>10. ASSUME NEW p \in Peers, StopVideo(p) PROVE MediaInv'
  BY <1>10 DEF StopVideo, MayReceive, Unlocked
<1>11. ASSUME NEW p \in Peers, JoinAudio(p) PROVE MediaInv'
  BY <1>11 DEF JoinAudio, Dead, Throw, Closing, MayReceive
<1>12. ASSUME NEW p \in Peers, GroupOffer(p) PROVE MediaInv'
  BY <1>12 DEF GroupOffer, MayReceive
<1>13. ASSUME NEW p \in Peers, Announce(p) PROVE MediaInv'
  BY <1>13 DEF Announce
<1>14. ASSUME NEW p \in Peers, PutPeer(p) PROVE MediaInv'
  BY <1>14 DEF PutPeer
<1>15. ASSUME NEW p \in Peers, PutSession(p) PROVE MediaInv'
  BY <1>15 DEF PutSession
<1>16. ASSUME NEW p \in Peers, Join(p) PROVE MediaInv'
  BY <1>16 DEF Join, Throw, Closing
<1>17. ASSUME NEW p \in Peers, Copy(p) PROVE MediaInv'
  BY <1>17 DEF Copy, Throw, Closing
<1>18. ASSUME NEW p \in Peers, SendOffer(p) PROVE MediaInv'
  BY <1>18 DEF SendOffer, Throw, Closing
<1>19. ASSUME NEW p \in Peers, SendStop(p) PROVE MediaInv'
  BY <1>19 DEF SendStop, Throw, Closing
<1>20. ASSUME NEW p \in Peers, Close(p) PROVE MediaInv'
  BY <1>20 DEF Close, Throw, Closing, Unlocked
<1>21. ASSUME NEW p \in Peers, Unlist(p) PROVE MediaInv'
  BY <1>21 DEF Unlist, Throw, Closing
<1>22. ASSUME NEW p \in Peers, DropPeer(p) PROVE MediaInv'
  BY <1>22 DEF DropPeer
<1>23. ASSUME NEW p \in Peers, DropSession(p) PROVE MediaInv'
  BY <1>23 DEF DropSession
<1>24. ASSUME NEW p \in Peers, Expire(p) PROVE MediaInv'
  BY <1>24 DEF Expire
<1>25. ASSUME NEW t \in Threads, Report(t) PROVE MediaInv'
  BY <1>25 DEF Report, Throw, Closing, Dead, Remove, Unlocked
<1>26. ASSUME NEW t \in Threads, ReportReturns(t) PROVE MediaInv'
  BY <1>26 DEF ReportReturns
<1>27. ASSUME NEW t \in Threads, ReportFails(t) PROVE MediaInv'
  BY <1>27 DEF ReportFails, Throw, Closing
<1>28. ASSUME NEW t \in Threads, ReportUe(t) PROVE MediaInv'
  BY <1>28 DEF ReportUe, Throw, Closing
<1>29. ASSUME NEW t \in Services, Callback(t) PROVE MediaInv'
  BY <1>29 DEF Callback
<1>30. ASSUME NEW t \in Services, Deliver(t) PROVE MediaInv'
  BY <1>30 DEF Deliver
<1> QED
  BY <1>0, <1>1, <1>2, <1>3, <1>4, <1>5, <1>6, <1>7, <1>8, <1>9, <1>10, <1>11, <1>12,
     <1>13, <1>14, <1>15, <1>16, <1>17, <1>18, <1>19, <1>20, <1>21, <1>22, <1>23, <1>24,
     <1>25, <1>26, <1>27, <1>28, <1>29, <1>30 DEF Next, Main, Message, Proceed, Calls

\* Whoever frees the lock leaves a stream that ends, a stop or a close behind.
LEMMA NextLockInv ==
  ASSUME TypeOK, Phases, MapsInv, MediaInv, LockInv, [Next]_vars PROVE LockInv'
<1> USE PeersAssumption, ThreadKinds, PointNames
    DEF LockInv, MapsInv, MediaInv, Phases, TypeOK, Past, Alive, Registered, HasChannel,
        At, Goto, maps, mediaVars, history
<1>0. CASE UNCHANGED vars
  BY <1>0 DEF vars, maps, mediaVars, history
<1>1. CASE MainInitialize
  BY <1>1 DEF MainInitialize
<1>2. CASE MainChannel
  BY <1>2 DEF MainChannel, Exit
<1>3. CASE MainGroup
  BY <1>3 DEF MainGroup, Exit
<1>4. CASE MediaDies
  BY <1>4 DEF MediaDies, Dead
<1>5. CASE MediaRestarts
  BY <1>5 DEF MediaRestarts
<1>6. ASSUME NEW p \in Peers, Open(p) PROVE LockInv'
  BY <1>6 DEF Open
<1>7. ASSUME NEW p \in Peers, Break(p) PROVE LockInv'
  BY <1>7 DEF Break
<1>8. ASSUME NEW p \in Peers, Query(p) PROVE LockInv'
  BY <1>8 DEF Query, MayReceive
<1>9. ASSUME NEW p \in Peers, Offer(p) PROVE LockInv'
  BY <1>9 DEF Offer, MayReceive
<1>10. ASSUME NEW p \in Peers, StopVideo(p) PROVE LockInv'
  BY <1>10 DEF StopVideo, MayReceive, Unlocked
<1>11. ASSUME NEW p \in Peers, JoinAudio(p) PROVE LockInv'
  BY <1>11 DEF JoinAudio, Dead, Throw, Closing, MayReceive
<1>12. ASSUME NEW p \in Peers, GroupOffer(p) PROVE LockInv'
  BY <1>12 DEF GroupOffer, MayReceive
<1>13. ASSUME NEW p \in Peers, Announce(p) PROVE LockInv'
  BY <1>13 DEF Announce
<1>14. ASSUME NEW p \in Peers, PutPeer(p) PROVE LockInv'
  <2>1. Past(p) = "putPeer" /\ Past(p)' = "putSession" /\ \A q \in Peers \ {p} : Past(q)' = Past(q)
    BY <1>14 DEF PutPeer
  <2>2. UNCHANGED <<socket, stream, sessionPeerMap, videoLock, browser, threw, misled, orphaned>>
    BY <1>14 DEF PutPeer
  <2> QED
    BY <2>1, <2>2
<1>15. ASSUME NEW p \in Peers, PutSession(p) PROVE LockInv'
  BY <1>15 DEF PutSession
<1>16. ASSUME NEW p \in Peers, Join(p) PROVE LockInv'
  BY <1>16 DEF Join, Throw, Closing
<1>17. ASSUME NEW p \in Peers, Copy(p) PROVE LockInv'
  BY <1>17 DEF Copy, Throw, Closing
<1>18. ASSUME NEW p \in Peers, SendOffer(p) PROVE LockInv'
  <2>1. CASE media = "down"
    BY <1>18, <2>1 DEF SendOffer, Throw, Closing
  <2>2. CASE media # "down"
    <3>1. stream' = p /\ Past(p) = "offer" /\ Past(p)' = "idle" /\ videoLock = p
      BY <1>18, <2>2 DEF SendOffer
    <3>2. UNCHANGED <<socket, sessionPeerMap, videoLock, browser, threw, misled, orphaned>>
      BY <1>18, <2>2 DEF SendOffer
    <3>3. \A q \in Peers \ {p} : Past(q)' = Past(q)
      BY <1>18, <2>2 DEF SendOffer
    <3>4. browser[p] = "sending"
      BY <3>1
    <3>5. \A q \in Peers \ {p} : videoLock # q /\ Past(q) \notin {"copy", "offer"}
      BY <3>1
    <3> QED
      BY <3>1, <3>2, <3>3, <3>4, <3>5
  <2> QED
    BY <2>1, <2>2
<1>19. ASSUME NEW p \in Peers, SendStop(p) PROVE LockInv'
  BY <1>19 DEF SendStop, Throw, Closing
<1>20. ASSUME NEW p \in Peers, Close(p) PROVE LockInv'
  BY <1>20 DEF Close, Throw, Closing, Unlocked
<1>21. ASSUME NEW p \in Peers, Unlist(p) PROVE LockInv'
  BY <1>21 DEF Unlist, Throw, Closing
<1>22. ASSUME NEW p \in Peers, DropPeer(p) PROVE LockInv'
  BY <1>22 DEF DropPeer
<1>23. ASSUME NEW p \in Peers, DropSession(p) PROVE LockInv'
  BY <1>23 DEF DropSession
<1>24. ASSUME NEW p \in Peers, Expire(p) PROVE LockInv'
  BY <1>24 DEF Expire
<1>25. ASSUME NEW t \in Threads, Report(t) PROVE LockInv'
  <2>1. CASE Remove(t, Of(t)) /\ UNCHANGED <<main, maps, browser, undelivered, raced>>
    <3> DEFINE p == Of(t)
    <3>1. p \in Peers /\ UNCHANGED <<socket, sessionPeerMap, browser, threw, orphaned>>
      BY <1>25, <2>1 DEF Remove
    <3>2. /\ stream' = IF stream = p THEN NoPeer ELSE stream
          /\ videoLock' = IF stream = p /\ videoLock = p THEN NoPeer ELSE videoLock
          /\ misled' = misled \cup ({p} \cap {stream})
      BY <2>1 DEF Remove, Unlocked
    <3>3. \A q \in Peers :
              Past(q)' = Past(q) \/ (Past(q) \in ClosePoints /\ Past(q)' \in ClosePoints)
      BY <1>25, <2>1 DEF Report, Remove
    <3>4. CASE stream = p
      BY <3>1, <3>2, <3>3, <3>4
    <3>5. CASE stream # p
      BY <3>1, <3>2, <3>3, <3>5
    <3> QED
      BY <3>4, <3>5
  <2>2. CASE Dead /\ Throw(t) /\ UNCHANGED <<videoLock, misled>>
    BY <1>25, <2>2 DEF Report, Dead, Throw, Closing
  <2>3. CASE Throw(t) /\ UNCHANGED <<mediaVars, misled, orphaned, videoLock>>
    BY <1>25, <2>3 DEF Report, Throw, Closing
  <2> QED
    BY <1>25, <2>1, <2>2, <2>3 DEF Report
<1>26. ASSUME NEW t \in Threads, ReportReturns(t) PROVE LockInv'
  BY <1>26 DEF ReportReturns
<1>27. ASSUME NEW t \in Threads, ReportFails(t) PROVE LockInv'
  BY <1>27 DEF ReportFails, Throw, Closing
<1>28. ASSUME NEW t \in Threads, ReportUe(t) PROVE LockInv'
  BY <1>28 DEF ReportUe, Throw, Closing
<1>29. ASSUME NEW t \in Services, Callback(t) PROVE LockInv'
  BY <1>29 DEF Callback
<1>30. ASSUME NEW t \in Services, Deliver(t) PROVE LockInv'
  BY <1>30 DEF Deliver
<1> QED
  BY <1>0, <1>1, <1>2, <1>3, <1>4, <1>5, <1>6, <1>7, <1>8, <1>9, <1>10, <1>11, <1>12,
     <1>13, <1>14, <1>15, <1>16, <1>17, <1>18, <1>19, <1>20, <1>21, <1>22, <1>23, <1>24,
     <1>25, <1>26, <1>27, <1>28, <1>29, <1>30 DEF Next, Main, Message, Proceed, Calls

\* A write of the list that nobody disturbs adds or removes the one peer.
LEMMA NextListInv ==
  ASSUME TypeOK, Phases, MapsInv, ListInv, [Next]_vars PROVE ListInv'
<1> USE PeersAssumption, ThreadKinds, PointNames
    DEF ListInv, MapsInv, Phases, TypeOK, Past, Alive, Registered, HasChannel,
        At, Goto, maps, mediaVars, history
<1>0. CASE UNCHANGED vars
  BY <1>0 DEF vars, maps, mediaVars, history
<1>1. CASE MainInitialize
  BY <1>1 DEF MainInitialize
<1>2. CASE MainChannel
  BY <1>2 DEF MainChannel, Exit
<1>3. CASE MainGroup
  BY <1>3 DEF MainGroup, Exit
<1>4. CASE MediaDies
  BY <1>4 DEF MediaDies, Dead
<1>5. CASE MediaRestarts
  BY <1>5 DEF MediaRestarts
<1>6. ASSUME NEW p \in Peers, Open(p) PROVE ListInv'
  BY <1>6 DEF Open
<1>7. ASSUME NEW p \in Peers, Break(p) PROVE ListInv'
  BY <1>7 DEF Break
<1>8. ASSUME NEW p \in Peers, Query(p) PROVE ListInv'
  BY <1>8 DEF Query, MayReceive
<1>9. ASSUME NEW p \in Peers, Offer(p) PROVE ListInv'
  BY <1>9 DEF Offer, MayReceive
<1>10. ASSUME NEW p \in Peers, StopVideo(p) PROVE ListInv'
  BY <1>10 DEF StopVideo, MayReceive, Unlocked
<1>11. ASSUME NEW p \in Peers, JoinAudio(p) PROVE ListInv'
  BY <1>11 DEF JoinAudio, Dead, Throw, Closing, MayReceive
<1>12. ASSUME NEW p \in Peers, GroupOffer(p) PROVE ListInv'
  BY <1>12 DEF GroupOffer, MayReceive
<1>13. ASSUME NEW p \in Peers, Announce(p) PROVE ListInv'
  BY <1>13 DEF Announce
<1>14. ASSUME NEW p \in Peers, PutPeer(p) PROVE ListInv'
  BY <1>14 DEF PutPeer
<1>15. ASSUME NEW p \in Peers, PutSession(p) PROVE ListInv'
  BY <1>15 DEF PutSession
<1>16. ASSUME NEW p \in Peers, Join(p) PROVE ListInv'
  <2>1. CASE HasChannel
    <3>1. channel' \in Added(p) /\ raced' = (raced \/ ListBusy(p))
      BY <1>16, <2>1 DEF Join
    <3>2. CASE ListBusy(p)
      <4>1. raced' /\ HasChannel'
        BY <1>16, <2>1, <3>1, <3>2 DEF Join
      <4> QED
        BY <4>1
    <3>3. CASE ~ListBusy(p)
      <4>1. channel' = channel \cup {p} /\ raced' = raced
        BY <3>1, <3>3, Writes
      <4> QED
        BY <1>16, <2>1, <4>1 DEF Join
    <3> QED
      BY <3>2, <3>3
  <2>2. CASE ~HasChannel
    BY <1>16, <2>2 DEF Join, Throw, Closing
  <2> QED
    BY <2>1, <2>2
<1>17. ASSUME NEW p \in Peers, Copy(p) PROVE ListInv'
  BY <1>17 DEF Copy, Throw, Closing
<1>18. ASSUME NEW p \in Peers, SendOffer(p) PROVE ListInv'
  <2>1. CASE media = "down"
    BY <1>18, <2>1 DEF SendOffer, Throw, Closing
  <2>2. CASE media # "down"
    BY <1>18, <2>2 DEF SendOffer
  <2> QED
    BY <2>1, <2>2
<1>19. ASSUME NEW p \in Peers, SendStop(p) PROVE ListInv'
  BY <1>19 DEF SendStop, Throw, Closing
<1>20. ASSUME NEW p \in Peers, Close(p) PROVE ListInv'
  BY <1>20 DEF Close, Throw, Closing, Unlocked
<1>21. ASSUME NEW p \in Peers, Unlist(p) PROVE ListInv'
  <2>1. CASE HasChannel
    <3>1. channel' \in Removed(p) /\ raced' = (raced \/ ListBusy(p))
      BY <1>21, <2>1 DEF Unlist
    <3>2. CASE ListBusy(p)
      <4>1. raced' /\ HasChannel'
        BY <1>21, <2>1, <3>1, <3>2 DEF Unlist
      <4> QED
        BY <4>1
    <3>3. CASE ~ListBusy(p)
      <4>1. channel' = channel \ {p} /\ raced' = raced
        BY <3>1, <3>3, Writes
      <4> QED
        BY <1>21, <2>1, <4>1 DEF Unlist
    <3> QED
      BY <3>2, <3>3
  <2>2. CASE ~HasChannel
    BY <1>21, <2>2 DEF Unlist, Throw, Closing
  <2> QED
    BY <2>1, <2>2
<1>22. ASSUME NEW p \in Peers, DropPeer(p) PROVE ListInv'
  BY <1>22 DEF DropPeer
<1>23. ASSUME NEW p \in Peers, DropSession(p) PROVE ListInv'
  BY <1>23 DEF DropSession
<1>24. ASSUME NEW p \in Peers, Expire(p) PROVE ListInv'
  BY <1>24 DEF Expire
<1>25. ASSUME NEW t \in Threads, Report(t) PROVE ListInv'
  BY <1>25 DEF Report, Throw, Closing, Dead, Remove, Unlocked
<1>26. ASSUME NEW t \in Threads, ReportReturns(t) PROVE ListInv'
  BY <1>26 DEF ReportReturns
<1>27. ASSUME NEW t \in Threads, ReportFails(t) PROVE ListInv'
  BY <1>27 DEF ReportFails, Throw, Closing
<1>28. ASSUME NEW t \in Threads, ReportUe(t) PROVE ListInv'
  BY <1>28 DEF ReportUe, Throw, Closing
<1>29. ASSUME NEW t \in Services, Callback(t) PROVE ListInv'
  BY <1>29 DEF Callback
<1>30. ASSUME NEW t \in Services, Deliver(t) PROVE ListInv'
  BY <1>30 DEF Deliver
<1> QED
  BY <1>0, <1>1, <1>2, <1>3, <1>4, <1>5, <1>6, <1>7, <1>8, <1>9, <1>10, <1>11, <1>12,
     <1>13, <1>14, <1>15, <1>16, <1>17, <1>18, <1>19, <1>20, <1>21, <1>22, <1>23, <1>24,
     <1>25, <1>26, <1>27, <1>28, <1>29, <1>30 DEF Next, Main, Message, Proceed, Calls

\* The removal that is made for an undelivered call makes no call of its own.
LEMMA NextServiceInv ==
  ASSUME TypeOK, ServiceInv, [Next]_vars PROVE ServiceInv'
<1> USE PeersAssumption, ThreadKinds, PointNames
    DEF ServiceInv, TypeOK, Past, Alive, Registered, HasChannel,
        At, Goto, maps, mediaVars, history
<1>0. CASE UNCHANGED vars
  BY <1>0 DEF vars, maps, mediaVars, history
<1>1. CASE MainInitialize
  BY <1>1 DEF MainInitialize
<1>2. CASE MainChannel
  BY <1>2 DEF MainChannel, Exit
<1>3. CASE MainGroup
  BY <1>3 DEF MainGroup, Exit
<1>4. CASE MediaDies
  BY <1>4 DEF MediaDies, Dead
<1>5. CASE MediaRestarts
  BY <1>5 DEF MediaRestarts
<1>6. ASSUME NEW p \in Peers, Open(p) PROVE ServiceInv'
  BY <1>6 DEF Open
<1>7. ASSUME NEW p \in Peers, Break(p) PROVE ServiceInv'
  BY <1>7 DEF Break
<1>8. ASSUME NEW p \in Peers, Query(p) PROVE ServiceInv'
  BY <1>8 DEF Query, MayReceive
<1>9. ASSUME NEW p \in Peers, Offer(p) PROVE ServiceInv'
  BY <1>9 DEF Offer, MayReceive
<1>10. ASSUME NEW p \in Peers, StopVideo(p) PROVE ServiceInv'
  BY <1>10 DEF StopVideo, MayReceive, Unlocked
<1>11. ASSUME NEW p \in Peers, JoinAudio(p) PROVE ServiceInv'
  BY <1>11 DEF JoinAudio, Dead, Throw, Closing, MayReceive
<1>12. ASSUME NEW p \in Peers, GroupOffer(p) PROVE ServiceInv'
  BY <1>12 DEF GroupOffer, MayReceive
<1>13. ASSUME NEW p \in Peers, Announce(p) PROVE ServiceInv'
  BY <1>13 DEF Announce
<1>14. ASSUME NEW p \in Peers, PutPeer(p) PROVE ServiceInv'
  BY <1>14 DEF PutPeer
<1>15. ASSUME NEW p \in Peers, PutSession(p) PROVE ServiceInv'
  BY <1>15 DEF PutSession
<1>16. ASSUME NEW p \in Peers, Join(p) PROVE ServiceInv'
  BY <1>16 DEF Join, Throw, Closing
<1>17. ASSUME NEW p \in Peers, Copy(p) PROVE ServiceInv'
  BY <1>17 DEF Copy, Throw, Closing
<1>18. ASSUME NEW p \in Peers, SendOffer(p) PROVE ServiceInv'
  BY <1>18 DEF SendOffer, Throw, Closing
<1>19. ASSUME NEW p \in Peers, SendStop(p) PROVE ServiceInv'
  BY <1>19 DEF SendStop, Throw, Closing
<1>20. ASSUME NEW p \in Peers, Close(p) PROVE ServiceInv'
  BY <1>20 DEF Close, Throw, Closing, Unlocked
<1>21. ASSUME NEW p \in Peers, Unlist(p) PROVE ServiceInv'
  BY <1>21 DEF Unlist, Throw, Closing
<1>22. ASSUME NEW p \in Peers, DropPeer(p) PROVE ServiceInv'
  BY <1>22 DEF DropPeer
<1>23. ASSUME NEW p \in Peers, DropSession(p) PROVE ServiceInv'
  BY <1>23 DEF DropSession
<1>24. ASSUME NEW p \in Peers, Expire(p) PROVE ServiceInv'
  BY <1>24 DEF Expire
<1>25. ASSUME NEW t \in Threads, Report(t) PROVE ServiceInv'
  BY <1>25 DEF Report, Throw, Closing, Dead, Remove, Unlocked
<1>26. ASSUME NEW t \in Threads, ReportReturns(t) PROVE ServiceInv'
  BY <1>26 DEF ReportReturns
<1>27. ASSUME NEW t \in Threads, ReportFails(t) PROVE ServiceInv'
  BY <1>27 DEF ReportFails, Throw, Closing
<1>28. ASSUME NEW t \in Threads, ReportUe(t) PROVE ServiceInv'
  BY <1>28 DEF ReportUe, Throw, Closing
<1>29. ASSUME NEW t \in Services, Callback(t) PROVE ServiceInv'
  BY <1>29 DEF Callback
<1>30. ASSUME NEW t \in Services, Deliver(t) PROVE ServiceInv'
  BY <1>30 DEF Deliver
<1> QED
  BY <1>0, <1>1, <1>2, <1>3, <1>4, <1>5, <1>6, <1>7, <1>8, <1>9, <1>10, <1>11, <1>12,
     <1>13, <1>14, <1>15, <1>16, <1>17, <1>18, <1>19, <1>20, <1>21, <1>22, <1>23, <1>24,
     <1>25, <1>26, <1>27, <1>28, <1>29, <1>30 DEF Next, Main, Message, Proceed, Calls

\* At first nobody has come, and nothing is held.
LEMMA InitIInv == Init => IInv
<1> SUFFICES ASSUME Init PROVE IInv
  OBVIOUS
<1> USE PeersAssumption, ThreadKinds, PointNames DEF Init
<1>1. TypeOK
  BY DEF TypeOK
<1>2. \A p \in Peers : Past(p) = "idle" /\ socket[p] = "new" /\ browser[p] = "idle"
  BY DEF Past
<1>3. Phases /\ MapsInv /\ ListInv
  BY <1>2 DEF Phases, MapsInv, ListInv, Alive, Registered, HasChannel
<1>4. MediaInv /\ LockInv
  BY <1>2 DEF MediaInv, LockInv
<1>5. ServiceInv
  BY DEF ServiceInv
<1> QED
  BY <1>1, <1>3, <1>4, <1>5 DEF IInv

\* Every step of Next keeps each of its parts.
LEMMA NextIInv == IInv /\ [Next]_vars => IInv'
  BY NextTypes, NextPhases, NextMapsInv, NextMediaInv, NextLockInv, NextListInv, NextServiceInv DEF IInv

\* The inductive invariant holds in every behaviour of the two servers.
THEOREM Invariance == Spec => []IInv
  BY InitIInv, NextIInv, PTL DEF Spec

\* A step that leaves the websockets and the lock alone is not seen.
LEMMA Unseen ==
  UNCHANGED <<socket, videoLock>> => UNCHANGED <<Present, Gone, videoLock>>
  BY DEF Present, Gone

\* An exception in onClose comes after the lock has been freed.
LEMMA ThrowGoes ==
  ASSUME IInv, NEW t \in Threads, Throw(t), UNCHANGED videoLock,
         t \in Sessions /\ At(t, "idle") => socket[Of(t)] # "broken" \/ videoLock # Of(t)
  PROVE  Lock!Next \/ UNCHANGED <<Present, Gone, videoLock>>
<1>1. CASE t \in Sessions /\ Closing(t)
  <2> DEFINE p == Of(t)
  <2>1. p \in Peers /\ t = Session(p)
    BY <1>1, ThreadKinds
  <2>2. socket[p] = "broken" /\ videoLock # p
    <3>1. CASE pc[t] \in ClosePoints
      BY <2>1, <3>1 DEF IInv, Phases, LockInv, Past
    <3>2. CASE At(t, "idle") /\ socket[p] = "broken"
      BY <1>1, <3>2
    <3> QED
      BY <1>1, <3>1, <3>2 DEF Closing
  <2>3. socket' = [socket EXCEPT ![p] = "closed"]
    BY <1>1 DEF Throw
  <2>4. Present' = Present \ {p} /\ Gone' = Gone \cup {p} /\ p \in Present
    BY <2>1, <2>2, <2>3 DEF Present, Gone, IInv, TypeOK
  <2>5. Lock!Go(p)
    BY <2>2, <2>4 DEF Lock!Go
  <2> QED
    BY <2>1, <2>5 DEF Lock!Next
<1>2. CASE ~(t \in Sessions /\ Closing(t))
  BY <1>2, Unseen DEF Throw
<1> QED
  BY <1>1, <1>2

\* Who frees the lock is there.
LEMMA Frees ==
  ASSUME IInv, NEW p \in Peers, videoLock' = Unlocked(p), UNCHANGED socket
  PROVE  Lock!Next \/ UNCHANGED <<Present, Gone, videoLock>>
<1>1. CASE videoLock = p
  <2>1. p \in Present
    BY <1>1 DEF IInv, LockInv, Alive, Present
  <2>2. Lock!Use(p)
    BY <1>1, <2>1 DEF Unlocked, Lock!Use, Lock!Lock!Release, Present, Gone
  <2> QED
    BY <2>2 DEF Lock!Next
<1>2. CASE videoLock # p
  BY <1>2, Unseen DEF Unlocked
<1> QED
  BY <1>1, <1>2

\* Every step is one of the sessions' lock, or is not seen.
LEMMA NextLock ==
  ASSUME IInv, [Next]_vars
  PROVE  Lock!Next \/ UNCHANGED <<Present, Gone, videoLock>>
<1> DEFINE Goal == Lock!Next \/ UNCHANGED <<Present, Gone, videoLock>>
<1>a. socket \in [Peers -> {"new", "open", "broken", "closed", "lost"}]
  BY DEF IInv, TypeOK
<1> USE ThreadKinds DEF Goal
<1>0. CASE UNCHANGED vars
  BY <1>0, Unseen DEF vars
<1>1. CASE Exit
  <2>1. Present' = {} /\ Gone' = Gone \cup Present /\ videoLock' = NoPeer
    BY <1>1, <1>a DEF Exit, Present, Gone
  <2> QED
    BY <2>1 DEF Lock!Next, Lock!Exit
<1>2. CASE Main
  BY <1>1, <1>2, Unseen DEF Main, MainInitialize, MainChannel, MainGroup
<1>3. CASE MediaDies \/ MediaRestarts
  BY <1>3, Unseen DEF MediaDies, MediaRestarts
<1>4. ASSUME NEW p \in Peers, Open(p) PROVE Goal
  <2>1. Present' = Present \cup {p} /\ Gone' = Gone /\ p \notin Present \cup Gone
    BY <1>4, <1>a DEF Open, Present, Gone
  <2>2. Lock!Come(p)
    BY <1>4, <2>1 DEF Open, Lock!Come
  <2> QED
    BY <2>2 DEF Lock!Next
<1>5. ASSUME NEW p \in Peers, Break(p) PROVE Goal
  BY <1>5, <1>a DEF Break, Present, Gone
<1>6. ASSUME NEW p \in Peers, Query(p) \/ GroupOffer(p) PROVE Goal
  BY <1>6, Unseen DEF Query, GroupOffer
<1>7. ASSUME NEW p \in Peers, Offer(p) PROVE Goal
  <2>1. CASE videoLock = NoPeer
    <3>1. p \in Present
      BY <1>7 DEF Offer, MayReceive, Present
    <3>2. Lock!Use(p)
      BY <1>7, <2>1, <3>1 DEF Offer, Lock!Use, Lock!Lock!Acquire, Present, Gone
    <3> QED
      BY <3>2 DEF Lock!Next
  <2>2. CASE videoLock # NoPeer
    BY <1>7, <2>2, Unseen DEF Offer
  <2> QED
    BY <2>1, <2>2
<1>8. ASSUME NEW p \in Peers, StopVideo(p) PROVE Goal
  BY <1>8, Frees DEF StopVideo
<1>9. ASSUME NEW p \in Peers, JoinAudio(p) PROVE Goal
  <2>1. CASE Throw(Session(p))
    BY <1>9, <2>1, ThrowGoes, ThreadKinds DEF JoinAudio, MayReceive
  <2>2. CASE UNCHANGED socket
    BY <1>9, <2>2, Unseen DEF JoinAudio
  <2> QED
    BY <1>9, <2>1, <2>2 DEF JoinAudio
<1>10. ASSUME NEW p \in Peers,
              Announce(p) \/ PutPeer(p) \/ PutSession(p) \/ DropPeer(p) \/ Expire(p)
       PROVE  Goal
  BY <1>10, Unseen DEF Announce, PutPeer, PutSession, DropPeer, Expire
<1>11. ASSUME NEW p \in Peers, Join(p) \/ Copy(p) \/ SendOffer(p) \/ SendStop(p) \/ Unlist(p)
       PROVE  Goal
  <2>1. UNCHANGED videoLock /\ ~At(Session(p), "idle")
    BY <1>11 DEF Join, Copy, SendOffer, SendStop, Unlist, At
  <2>2. Throw(Session(p)) \/ UNCHANGED socket
    BY <1>11 DEF Join, Copy, SendOffer, SendStop, Unlist
  <2> QED
    BY <2>1, <2>2, Unseen, ThrowGoes
<1>12. ASSUME NEW p \in Peers, Close(p) PROVE Goal
  <2>1. CASE p \in sessionPeerMap
    BY <1>12, <2>1, Frees DEF Close
  <2>2. CASE p \notin sessionPeerMap
    <3>1. videoLock # p
      BY <2>2 DEF IInv, LockInv, Registered
    <3> QED
      BY <1>12, <2>2, <3>1, ThrowGoes DEF Close
  <2> QED
    BY <2>1, <2>2
<1>13. ASSUME NEW p \in Peers, DropSession(p) PROVE Goal
  <2>1. socket[p] = "broken" /\ videoLock # p
    BY <1>13 DEF DropSession, At, IInv, Phases, LockInv, Past, ClosePoints
  <2>2. socket' = [socket EXCEPT ![p] = "closed"] /\ UNCHANGED videoLock
    BY <1>13 DEF DropSession
  <2>3. Present' = Present \ {p} /\ Gone' = Gone \cup {p} /\ p \in Present
    BY <2>1, <2>2, <1>a DEF Present, Gone
  <2>4. Lock!Go(p)
    BY <2>1, <2>2, <2>3 DEF Lock!Go
  <2> QED
    BY <2>4 DEF Lock!Next
<1>14. ASSUME NEW t \in Threads, Report(t) PROVE Goal
  <2>1. CASE Remove(t, Of(t))
    <3>1. UNCHANGED videoLock \/ videoLock' = Unlocked(Of(t))
      BY <2>1 DEF Remove
    <3>2. UNCHANGED socket
      BY <2>1 DEF Remove
    <3> QED
      BY <3>1, <3>2, Unseen, Frees
  <2>2. CASE Throw(t) /\ UNCHANGED videoLock
    BY <1>14, <2>2, ThrowGoes DEF Report, At
  <2> QED
    BY <1>14, <2>1, <2>2 DEF Report
<1>15. ASSUME NEW t \in Threads, ReportReturns(t) \/ ReportFails(t) \/ ReportUe(t) PROVE Goal
  <2>1. UNCHANGED videoLock /\ ~At(t, "idle")
    BY <1>15 DEF ReportReturns, ReportFails, ReportUe, At
  <2>2. Throw(t) \/ UNCHANGED socket
    BY <1>15 DEF ReportReturns, ReportFails, ReportUe
  <2> QED
    BY <2>1, <2>2, Unseen, ThrowGoes
<1>16. ASSUME NEW t \in Services, Callback(t) \/ Deliver(t) PROVE Goal
  BY <1>16, Unseen DEF Callback, Deliver
<1> QED
  BY <1>0, <1>2, <1>3, <1>4, <1>5, <1>6, <1>7, <1>8, <1>9, <1>10, <1>11, <1>12, <1>13, <1>14,
     <1>15, <1>16 DEF Next, Message, Proceed, Calls

\* The video lock is an exclusive lock of sessions that come and go, for every
\* number of peers, whatever throws, dies or is reported late: no session goes
\* with the lock, and none takes it from another.
THEOREM SessionLockRefinement == Spec => ImplementsSessionLock
<1>1. Init => Lock!Init
  BY DEF Init, Lock!Init, Lock!Lock!Init, Present, Gone
<1>2. IInv /\ [Next]_vars => [Lock!Next]_<<Present, Gone, videoLock>>
  BY NextLock
<1> QED
  BY <1>1, <1>2, Invariance, PTL DEF Spec, ImplementsSessionLock, Lock!Spec

\* Every variable keeps its type, whatever throws, dies or expires.
THEOREM TypesKept == Spec => []TypeOK
  BY Invariance, PTL DEF IInv

\* The video lock's holder has a session that is still there, for every number
\* of peers: no exception in onClose comes before the lock is freed.
THEOREM HolderIsAlive == Spec => []LockHolderAlive
<1>1. IInv => LockHolderAlive
  BY DEF IInv, TypeOK, LockInv, LockHolderAlive, Alive
<1> QED
  BY <1>1, Invariance, PTL

\* A lock whose holder has nothing under way has a stream at the media server,
\* but for an exception or a death of that server.
THEOREM LockStreams == Spec => []LockedMeansStreaming
<1>1. IInv => LockedMeansStreaming
  BY DEF IInv, LockInv, LockedMeansStreaming, Past, Resting, At
<1> QED
  BY <1>1, Invariance, PTL

\* A browser that sends holds the lock, but for a dropped offer, an exception
\* or a stream that the media server ended.
THEOREM SenderLocks == Spec => []SenderHoldsLock
<1>1. IInv => SenderHoldsLock
  BY DEF IInv, LockInv, SenderHoldsLock
<1> QED
  BY <1>1, Invariance, PTL

\* The list that goes with an offer is that of the registered sessions, as long
\* as no two of them have written it at a time.
THEOREM ListKept == Spec => []ListIsSessions
<1>1. IInv => ListIsSessions
  BY DEF IInv, ListInv, ListIsSessions, Past, Resting, At
<1> QED
  BY <1>1, Invariance, PTL

\* A session that ended without an exception is in no map of the signalling
\* server and nowhere in the media server.
THEOREM Forgotten == Spec => []ClosedIsForgotten
<1>1. IInv => ClosedIsForgotten
  BY DEF IInv, TypeOK, MapsInv, MediaInv, ClosedIsForgotten, Alive
<1> QED
  BY <1>1, Invariance, PTL

\* No circle of threads that wait for each other across the two servers: every
\* wait is for a thread that goes on by itself, or for a deadline, unless an
\* element's call could not be delivered.
THEOREM NoThreadsInCircle == Spec => []NoCircle
<1>1. ASSUME IInv, NEW t \in Threads, Waits(t), Of(t) \notin undelivered, ~At(t, "reportUe")
      PROVE  LET s == PeerService(Of(t)) IN
             s # t /\ ~At(s, "idle") /\ (Waits(s) => At(s, "reportUe"))
  <2> DEFINE s == PeerService(Of(t))
  <2>1. Of(t) \in Peers /\ s \in Services /\ Of(s) = Of(t)
    BY ThreadKinds
  <2>2. /\ pc[s] \in {"idle", "deliver", "report", "reportUe"}
        /\ call[s] # "none" => pc[s] # "idle"
        /\ call[s] = "element" => pc[s] = "deliver"
    BY <1>1, <2>1 DEF IInv, ServiceInv
  <2>3. s # t
    BY <1>1, <2>1, <2>2 DEF Waits, At, ElementBusy
  <2>4. ~At(s, "idle")
    BY <1>1, <2>2 DEF Waits, At, ElementBusy
  <2>5. Waits(s) => At(s, "reportUe")
    BY <2>1, <2>2 DEF Waits, At, ElementBusy
  <2> QED
    BY <2>3, <2>4, <2>5
<1>2. IInv => NoCircle
  BY <1>1 DEF NoCircle
<1> QED
  BY <1>2, Invariance, PTL
=============================================================================
