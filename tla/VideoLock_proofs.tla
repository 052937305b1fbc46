-------------------------- MODULE VideoLock_proofs --------------------------
(***************************************************************************)
(* What VideoLock keeps for every set of peers and of gRPC threads.  The   *)
(* inductive invariant IInv is proved in two lemmas: the shape of the      *)
(* threads' states holds whatever overlaps; what the two fields mean needs *)
(* that no effective release has been overlapped.                          *)
(***************************************************************************)
EXTENDS VideoLock, TLAPS

\* The unconditional part of IInv.
Shape == TypeOK /\ PointsFit /\ MonitorsExclude

\* The part that speaks of the lock.
Meaning ==
    ~overlapped =>
        AcquireAlone /\ ReleaseAlone /\ OnlyOwnerSends /\ FreeMeansNobody /\ OwnerCanRelease

\* The inductive invariant is the part that holds in every behaviour and the
\* part that holds as long as no effective release was overlapped.
LEMMA SplitIInv == IInv <=> Shape /\ Meaning
  BY DEF IInv, Shape, Meaning, FreeMeansNobody, OwnerCanRelease

\* The initial fields have their types, and no thread is in the method.
LEMMA InitShape == Init => Shape
  BY ThreadsAssumption
  DEF Init, Shape, TypeOK, PointsFit, MonitorsExclude, Threads, Points, Inside, Requests,
      NoRequest, Kinds

\* At first the channel is free and nobody streams.
LEMMA InitMeaning == Init => Meaning
  BY DEF Init, Meaning, AcquireAlone, ReleaseAlone, OnlyOwnerSends, FreeMeansNobody,
         OwnerCanRelease, InFlight, Contends

\* Moving to a point, or leaving the method, keeps the threads' types.
LEMMA GotoTypes ==
  ASSUME TypeOK, NEW t \in Threads, NEW point \in Points, Goto(t, point)
  PROVE  /\ pc' \in [Threads -> Points]
         /\ mon' \in [Threads -> BOOLEAN]
         /\ req' \in [Threads -> Requests \cup {NoRequest}]
  BY DEF TypeOK, Goto

LEMMA ReturnTypes ==
  ASSUME TypeOK, NEW t \in Threads, Return(t)
  PROVE  /\ pc' \in [Threads -> Points]
         /\ mon' \in [Threads -> BOOLEAN]
         /\ req' \in [Threads -> Requests \cup {NoRequest}]
  BY DEF TypeOK, Return, Points

\* A request has a peer for the owner and the senders.
LEMMA RequestPeer ==
  ASSUME TypeOK, NEW t \in Threads, req[t].kind = "SenderSdp" PROVE req[t].peer \in Peers
  BY DEF TypeOK, Requests, NoRequest

\* Every step keeps the types; SetOwner needs that its message is an offer.
LEMMA NextTypes == TypeOK /\ PointsFit /\ [Next]_vars => TypeOK'
<1> SUFFICES ASSUME TypeOK, PointsFit, [Next]_vars PROVE TypeOK'
  OBVIOUS
<1>0. CASE UNCHANGED vars
  BY <1>0 DEF vars, TypeOK
<1>1. ASSUME NEW t \in Threads, NEW r \in Receivable(t), Evaluate(t, r)
      PROVE TypeOK'
  <2>1. r \in Requests
    BY DEF Receivable
  <2> QED
    BY <1>1, <2>1 DEF Evaluate, TypeOK, Points
<1>2. ASSUME NEW t \in Threads, EnterToAcquire(t) PROVE TypeOK'
  BY <1>2, GotoTypes DEF EnterToAcquire, TypeOK, Points, Inside
<1>3. ASSUME NEW t \in Threads, EnterToRelease(t) PROVE TypeOK'
  BY <1>3, GotoTypes DEF EnterToRelease, TypeOK, Points, Inside
<1>4. ASSUME NEW t \in Threads, EnterToReject(t) PROVE TypeOK'
  BY <1>4, ReturnTypes DEF EnterToReject, TypeOK
<1>5. ASSUME NEW t \in Threads, EnterToPass(t) PROVE TypeOK'
  BY <1>5, ReturnTypes DEF EnterToPass, TypeOK
<1>6. ASSUME NEW t \in Threads, CompareOwner(t) PROVE TypeOK'
  <2>1. CASE videoLockPeer = req[t].peer
    BY <1>6, <2>1, GotoTypes DEF CompareOwner, TypeOK, Points, Inside
  <2>2. CASE videoLockPeer # req[t].peer
    BY <1>6, <2>2, ReturnTypes DEF CompareOwner, TypeOK
  <2> QED
    BY <2>1, <2>2
<1>7. ASSUME NEW t \in Threads, ClearLock(t) PROVE TypeOK'
  BY <1>7, GotoTypes DEF ClearLock, TypeOK, Points, Inside
<1>8. ASSUME NEW t \in Threads, ClearOwner(t) PROVE TypeOK'
  BY <1>8, ReturnTypes DEF ClearOwner, TypeOK
<1>9. ASSUME NEW t \in Threads, SetLock(t) PROVE TypeOK'
  BY <1>9, GotoTypes DEF SetLock, TypeOK, Points, Inside
<1>10. ASSUME NEW t \in Threads, SetOwner(t) PROVE TypeOK'
  <2>1. req[t].peer \in Peers
    BY <1>10, RequestPeer DEF SetOwner, PointsFit
  <2> QED
    BY <1>10, <2>1, ReturnTypes DEF SetOwner, TypeOK
<1> QED
  BY <1>0, <1>1, <1>2, <1>3, <1>4, <1>5, <1>6, <1>7, <1>8, <1>9, <1>10 DEF Next, Proceed

(***************************************************************************)
(* Types, the fit of program points and messages, and the exclusion of     *)
(* each single monitor are kept by every step.                             *)
(***************************************************************************)
LEMMA NextShape == Shape /\ [Next]_vars => Shape'
<1> SUFFICES ASSUME Shape, [Next]_vars PROVE Shape'
  OBVIOUS
<1>t. TypeOK'
  BY NextTypes DEF Shape
<1> USE ThreadsAssumption
    DEF Shape, TypeOK, PointsFit, MonitorsExclude, Points, Inside, Requests, NoRequest, Threads
<1>0. CASE UNCHANGED vars
  BY <1>0 DEF vars
<1>1. ASSUME NEW t \in Threads, NEW r \in Receivable(t), Evaluate(t, r)
      PROVE Shape'
  <2>1. PointsFit'
    BY <1>1 DEF Evaluate, Receivable, Kinds
  <2>2. MonitorsExclude'
    BY <1>1 DEF Evaluate, Receivable, Kinds
  <2> QED
    BY <1>t, <2>1, <2>2
<1>2. ASSUME NEW t \in Threads, EnterToAcquire(t) PROVE Shape'
  <2>1. PointsFit'
    BY <1>2 DEF EnterToAcquire, CanEnter, Holds, Goto
  <2>2. MonitorsExclude'
    BY <1>2 DEF EnterToAcquire, CanEnter, Holds, Goto
  <2> QED
    BY <1>t, <2>1, <2>2
<1>3. ASSUME NEW t \in Threads, EnterToRelease(t) PROVE Shape'
  <2>1. PointsFit'
    BY <1>3 DEF EnterToRelease, CanEnter, Holds, Goto
  <2>2. MonitorsExclude'
    BY <1>3 DEF EnterToRelease, CanEnter, Holds, Goto
  <2> QED
    BY <1>t, <2>1, <2>2
<1>4. ASSUME NEW t \in Threads, EnterToReject(t) PROVE Shape'
  <2>1. PointsFit'
    BY <1>4 DEF EnterToReject, CanEnter, Holds, Return
  <2>2. MonitorsExclude'
    BY <1>4 DEF EnterToReject, CanEnter, Holds, Return
  <2> QED
    BY <1>t, <2>1, <2>2
<1>5. ASSUME NEW t \in Threads, EnterToPass(t) PROVE Shape'
  <2>1. PointsFit'
    BY <1>5 DEF EnterToPass, CanEnter, Holds, Return
  <2>2. MonitorsExclude'
    BY <1>5 DEF EnterToPass, CanEnter, Holds, Return
  <2> QED
    BY <1>t, <2>1, <2>2
<1>6. ASSUME NEW t \in Threads, CompareOwner(t) PROVE Shape'
  <2>1. PointsFit'
    BY <1>6 DEF CompareOwner, Goto, Return
  <2>2. MonitorsExclude'
    BY <1>6 DEF CompareOwner, Goto, Return
  <2> QED
    BY <1>t, <2>1, <2>2
<1>7. ASSUME NEW t \in Threads, ClearLock(t) PROVE Shape'
  <2>1. PointsFit'
    BY <1>7 DEF ClearLock, Goto
  <2>2. MonitorsExclude'
    BY <1>7 DEF ClearLock, Goto
  <2> QED
    BY <1>t, <2>1, <2>2
<1>8. ASSUME NEW t \in Threads, ClearOwner(t) PROVE Shape'
  <2>1. PointsFit'
    BY <1>8 DEF ClearOwner, Return
  <2>2. MonitorsExclude'
    BY <1>8 DEF ClearOwner, Return
  <2> QED
    BY <1>t, <2>1, <2>2
<1>9. ASSUME NEW t \in Threads, SetLock(t) PROVE Shape'
  <2>1. PointsFit'
    BY <1>9 DEF SetLock, Goto
  <2>2. MonitorsExclude'
    BY <1>9 DEF SetLock, Goto
  <2> QED
    BY <1>t, <2>1, <2>2
<1>10. ASSUME NEW t \in Threads, SetOwner(t) PROVE Shape'
  <2>1. PointsFit'
    BY <1>10 DEF SetOwner, Return
  <2>2. MonitorsExclude'
    BY <1>10 DEF SetOwner, Return
  <2> QED
    BY <1>t, <2>1, <2>2
<1> QED
  BY <1>0, <1>1, <1>2, <1>3, <1>4, <1>5, <1>6, <1>7, <1>8, <1>9, <1>10 DEF Next, Proceed

(***************************************************************************)
(* Without an overlapped release the two fields mean what they say.        *)
(***************************************************************************)
LEMMA NextMeaning == Shape /\ Meaning /\ [Next]_vars => Meaning'
<1> SUFFICES ASSUME Shape, Meaning, [Next]_vars, ~overlapped' PROVE Meaning'
  BY DEF Meaning
<1> USE ThreadsAssumption
    DEF Shape, TypeOK, PointsFit, MonitorsExclude, Points, Inside, Requests, NoRequest, Threads,
        Meaning, InFlight, Contends
<1>0. CASE UNCHANGED vars
  BY <1>0 DEF vars, AcquireAlone, ReleaseAlone, OnlyOwnerSends, FreeMeansNobody, OwnerCanRelease
<1>1. ASSUME NEW t \in Threads, NEW r \in Receivable(t), Evaluate(t, r)
      PROVE Meaning'
  <2>1. ~overlapped
    BY <1>1 DEF Evaluate
  <2>2. AcquireAlone'
    BY <1>1, <2>1 DEF AcquireAlone, ReleaseAlone, OnlyOwnerSends, FreeMeansNobody, OwnerCanRelease, Evaluate, Receivable, Kinds
  <2>3. ReleaseAlone'
    <3> SUFFICES ASSUME NEW u \in Threads PROVE ReleaseAlone!(u)'
      BY DEF ReleaseAlone
    <3>1. CASE u = t
      <4>1. pc'[u] = "enter" /\ req'[u] = r
        BY <1>1, <3>1 DEF Evaluate
      <4>2. r.kind = "Release" => r.peer \notin senders'
        BY <1>1 DEF Evaluate
      <4>3. (t \in GrpcThreads) => r.kind = "Release" /\ r.peer \in senders
        BY DEF Receivable
      <4>4. r.peer \in senders => videoLock /\ videoLockPeer = r.peer
        BY <2>1 DEF AcquireAlone, OnlyOwnerSends, FreeMeansNobody
      <4> QED
        BY <1>1, <3>1, <4>1, <4>2, <4>3, <4>4 DEF Evaluate
    <3>2. CASE u # t
      <4>1. pc'[u] = pc[u] /\ req'[u] = req[u] /\ senders' \subseteq senders
        BY <1>1, <3>2 DEF Evaluate
      <4>2. ASSUME pc[u] = "clearOwner", NEW v \in Threads \ {u}
            PROVE ~ /\ pc'[v] # "idle"
                    /\ \/ req'[v].kind = "SenderSdp"
                       \/ req'[v].kind = "Release" /\ req'[v].peer = req'[u].peer
        <5>1. CASE v = t
          <6>1. r.kind # "SenderSdp" /\ ~(r.kind = "Release" /\ r.peer = req[u].peer)
            BY <1>1, <4>2 DEF Evaluate
          <6>2. req'[v] = r /\ req'[u] = req[u]
            BY <1>1, <3>2, <5>1 DEF Evaluate
          <6> QED
            BY <6>1, <6>2
        <5>2. CASE v # t
          BY <1>1, <2>1, <3>2, <4>2, <5>2 DEF Evaluate, ReleaseAlone
        <5> QED
          BY <5>1, <5>2
      <4> QED
        BY <1>1, <2>1, <4>1, <4>2 DEF Evaluate, ReleaseAlone
    <3> QED
      BY <3>1, <3>2
  <2>4. OnlyOwnerSends'
    BY <1>1, <2>1 DEF AcquireAlone, ReleaseAlone, OnlyOwnerSends, FreeMeansNobody, OwnerCanRelease, Evaluate, Receivable, Kinds
  <2>5. FreeMeansNobody'
    BY <1>1, <2>1 DEF AcquireAlone, ReleaseAlone, OnlyOwnerSends, FreeMeansNobody, OwnerCanRelease, Evaluate, Receivable, Kinds
  <2>6. OwnerCanRelease'
    BY <1>1, <2>1 DEF AcquireAlone, ReleaseAlone, OnlyOwnerSends, FreeMeansNobody, OwnerCanRelease, Evaluate, Receivable, Kinds
  <2> QED
    BY <2>2, <2>3, <2>4, <2>5, <2>6
<1>2. ASSUME NEW t \in Threads, EnterToAcquire(t) PROVE Meaning'
  <2>1. ~overlapped
    BY <1>2 DEF EnterToAcquire, CanEnter, Holds
  <2>2. AcquireAlone'
    BY <1>2, <2>1 DEF AcquireAlone, ReleaseAlone, OnlyOwnerSends, FreeMeansNobody, OwnerCanRelease, EnterToAcquire, CanEnter, Holds, Goto
  <2>3. ReleaseAlone'
    BY <1>2, <2>1 DEF AcquireAlone, ReleaseAlone, OnlyOwnerSends, FreeMeansNobody, OwnerCanRelease, EnterToAcquire, CanEnter, Holds, Goto
  <2>4. OnlyOwnerSends'
    BY <1>2, <2>1 DEF AcquireAlone, ReleaseAlone, OnlyOwnerSends, FreeMeansNobody, OwnerCanRelease, EnterToAcquire, CanEnter, Holds, Goto
  <2>5. FreeMeansNobody'
    BY <1>2, <2>1 DEF AcquireAlone, ReleaseAlone, OnlyOwnerSends, FreeMeansNobody, OwnerCanRelease, EnterToAcquire, CanEnter, Holds, Goto
  <2>6. OwnerCanRelease'
    BY <1>2, <2>1 DEF AcquireAlone, ReleaseAlone, OnlyOwnerSends, FreeMeansNobody, OwnerCanRelease, EnterToAcquire, CanEnter, Holds, Goto
  <2> QED
    BY <2>2, <2>3, <2>4, <2>5, <2>6
<1>3. ASSUME NEW t \in Threads, EnterToRelease(t) PROVE Meaning'
  <2>1. ~overlapped
    BY <1>3 DEF EnterToRelease, CanEnter, Holds
  <2>2. AcquireAlone'
    BY <1>3, <2>1 DEF AcquireAlone, ReleaseAlone, OnlyOwnerSends, FreeMeansNobody, OwnerCanRelease, EnterToRelease, CanEnter, Holds, Goto
  <2>3. ReleaseAlone'
    BY <1>3, <2>1 DEF AcquireAlone, ReleaseAlone, OnlyOwnerSends, FreeMeansNobody, OwnerCanRelease, EnterToRelease, CanEnter, Holds, Goto
  <2>4. OnlyOwnerSends'
    BY <1>3, <2>1 DEF AcquireAlone, ReleaseAlone, OnlyOwnerSends, FreeMeansNobody, OwnerCanRelease, EnterToRelease, CanEnter, Holds, Goto
  <2>5. FreeMeansNobody'
    BY <1>3, <2>1 DEF AcquireAlone, ReleaseAlone, OnlyOwnerSends, FreeMeansNobody, OwnerCanRelease, EnterToRelease, CanEnter, Holds, Goto
  <2>6. OwnerCanRelease'
    BY <1>3, <2>1 DEF AcquireAlone, ReleaseAlone, OnlyOwnerSends, FreeMeansNobody, OwnerCanRelease, EnterToRelease, CanEnter, Holds, Goto
  <2> QED
    BY <2>2, <2>3, <2>4, <2>5, <2>6
<1>4. ASSUME NEW t \in Threads, EnterToReject(t) PROVE Meaning'
  <2>1. ~overlapped
    BY <1>4 DEF EnterToReject, CanEnter, Holds
  <2>2. AcquireAlone'
    BY <1>4, <2>1 DEF AcquireAlone, ReleaseAlone, OnlyOwnerSends, FreeMeansNobody, OwnerCanRelease, EnterToReject, CanEnter, Holds, Return
  <2>3. ReleaseAlone'
    BY <1>4, <2>1 DEF AcquireAlone, ReleaseAlone, OnlyOwnerSends, FreeMeansNobody, OwnerCanRelease, EnterToReject, CanEnter, Holds, Return
  <2>4. OnlyOwnerSends'
    BY <1>4, <2>1 DEF AcquireAlone, ReleaseAlone, OnlyOwnerSends, FreeMeansNobody, OwnerCanRelease, EnterToReject, CanEnter, Holds, Return
  <2>5. FreeMeansNobody'
    BY <1>4, <2>1 DEF AcquireAlone, ReleaseAlone, OnlyOwnerSends, FreeMeansNobody, OwnerCanRelease, EnterToReject, CanEnter, Holds, Return
  <2>6. OwnerCanRelease'
    BY <1>4, <2>1 DEF AcquireAlone, ReleaseAlone, OnlyOwnerSends, FreeMeansNobody, OwnerCanRelease, EnterToReject, CanEnter, Holds, Return
  <2> QED
    BY <2>2, <2>3, <2>4, <2>5, <2>6
<1>5. ASSUME NEW t \in Threads, EnterToPass(t) PROVE Meaning'
  <2>1. ~overlapped
    BY <1>5 DEF EnterToPass, CanEnter, Holds
  <2>2. AcquireAlone'
    BY <1>5, <2>1 DEF AcquireAlone, ReleaseAlone, OnlyOwnerSends, FreeMeansNobody, OwnerCanRelease, EnterToPass, CanEnter, Holds, Return
  <2>3. ReleaseAlone'
    BY <1>5, <2>1 DEF AcquireAlone, ReleaseAlone, OnlyOwnerSends, FreeMeansNobody, OwnerCanRelease, EnterToPass, CanEnter, Holds, Return
  <2>4. OnlyOwnerSends'
    BY <1>5, <2>1 DEF AcquireAlone, ReleaseAlone, OnlyOwnerSends, FreeMeansNobody, OwnerCanRelease, EnterToPass, CanEnter, Holds, Return
  <2>5. FreeMeansNobody'
    BY <1>5, <2>1 DEF AcquireAlone, ReleaseAlone, OnlyOwnerSends, FreeMeansNobody, OwnerCanRelease, EnterToPass, CanEnter, Holds, Return
  <2>6. OwnerCanRelease'
    BY <1>5, <2>1 DEF AcquireAlone, ReleaseAlone, OnlyOwnerSends, FreeMeansNobody, OwnerCanRelease, EnterToPass, CanEnter, Holds, Return
  <2> QED
    BY <2>2, <2>3, <2>4, <2>5, <2>6
<1>6. ASSUME NEW t \in Threads, CompareOwner(t) PROVE Meaning'
  <2>1. ~overlapped
    BY <1>6 DEF CompareOwner
  <2>2. AcquireAlone'
    BY <1>6, <2>1 DEF AcquireAlone, ReleaseAlone, OnlyOwnerSends, FreeMeansNobody, OwnerCanRelease, CompareOwner, Goto, Return
  <2>3. ReleaseAlone'
    BY <1>6, <2>1 DEF AcquireAlone, ReleaseAlone, OnlyOwnerSends, FreeMeansNobody, OwnerCanRelease, CompareOwner, Goto, Return
  <2>4. OnlyOwnerSends'
    BY <1>6, <2>1 DEF AcquireAlone, ReleaseAlone, OnlyOwnerSends, FreeMeansNobody, OwnerCanRelease, CompareOwner, Goto, Return
  <2>5. FreeMeansNobody'
    BY <1>6, <2>1 DEF AcquireAlone, ReleaseAlone, OnlyOwnerSends, FreeMeansNobody, OwnerCanRelease, CompareOwner, Goto, Return
  <2>6. OwnerCanRelease'
    BY <1>6, <2>1 DEF AcquireAlone, ReleaseAlone, OnlyOwnerSends, FreeMeansNobody, OwnerCanRelease, CompareOwner, Goto, Return
  <2> QED
    BY <2>2, <2>3, <2>4, <2>5, <2>6
<1>7. ASSUME NEW t \in Threads, ClearLock(t) PROVE Meaning'
  <2>1. ~overlapped
    BY <1>7 DEF ClearLock
  <2>2. AcquireAlone'
    BY <1>7, <2>1 DEF AcquireAlone, ReleaseAlone, OnlyOwnerSends, FreeMeansNobody, OwnerCanRelease, ClearLock, Goto
  <2>3. ReleaseAlone'
    BY <1>7, <2>1 DEF AcquireAlone, ReleaseAlone, OnlyOwnerSends, FreeMeansNobody, OwnerCanRelease, ClearLock, Goto
  <2>4. OnlyOwnerSends'
    BY <1>7, <2>1 DEF AcquireAlone, ReleaseAlone, OnlyOwnerSends, FreeMeansNobody, OwnerCanRelease, ClearLock, Goto
  <2>5. FreeMeansNobody'
    BY <1>7, <2>1 DEF AcquireAlone, ReleaseAlone, OnlyOwnerSends, FreeMeansNobody, OwnerCanRelease, ClearLock, Goto
  <2>6. OwnerCanRelease'
    BY <1>7, <2>1 DEF AcquireAlone, ReleaseAlone, OnlyOwnerSends, FreeMeansNobody, OwnerCanRelease, ClearLock, Goto
  <2> QED
    BY <2>2, <2>3, <2>4, <2>5, <2>6
<1>8. ASSUME NEW t \in Threads, ClearOwner(t) PROVE Meaning'
  <2>1. ~overlapped
    BY <1>8 DEF ClearOwner
  <2>2. AcquireAlone'
    BY <1>8, <2>1 DEF AcquireAlone, ReleaseAlone, OnlyOwnerSends, FreeMeansNobody, OwnerCanRelease, ClearOwner, Return
  <2>3. ReleaseAlone'
    BY <1>8, <2>1 DEF AcquireAlone, ReleaseAlone, OnlyOwnerSends, FreeMeansNobody, OwnerCanRelease, ClearOwner, Return
  <2>4. OnlyOwnerSends'
    BY <1>8, <2>1 DEF AcquireAlone, ReleaseAlone, OnlyOwnerSends, FreeMeansNobody, OwnerCanRelease, ClearOwner, Return
  <2>5. FreeMeansNobody'
    BY <1>8, <2>1 DEF AcquireAlone, ReleaseAlone, OnlyOwnerSends, FreeMeansNobody, OwnerCanRelease, ClearOwner, Return
  <2>6. OwnerCanRelease'
    BY <1>8, <2>1 DEF AcquireAlone, ReleaseAlone, OnlyOwnerSends, FreeMeansNobody, OwnerCanRelease, ClearOwner, Return
  <2> QED
    BY <2>2, <2>3, <2>4, <2>5, <2>6
<1>9. ASSUME NEW t \in Threads, SetLock(t) PROVE Meaning'
  <2>1. ~overlapped
    BY <1>9 DEF SetLock
  <2>2. AcquireAlone'
    <3>1. \A u \in Threads \ {t} : pc[u] \notin {"setLock", "setOwner"}
      BY <1>9, <2>1 DEF AcquireAlone, SetLock
    <3>2. ~mon[t] /\ videoLockPeer = NoPeer /\ senders = {}
      BY <1>9, <2>1 DEF AcquireAlone, SetLock
    <3>3. /\ pc' = [pc EXCEPT ![t] = "setOwner"]
          /\ UNCHANGED <<mon, req, videoLockPeer, senders>>
          /\ videoLock' = TRUE
      BY <1>9 DEF SetLock, Goto
    <3> QED
      BY <3>1, <3>2, <3>3 DEF AcquireAlone
  <2>3. ReleaseAlone'
    BY <1>9, <2>1 DEF AcquireAlone, ReleaseAlone, OnlyOwnerSends, FreeMeansNobody, OwnerCanRelease, SetLock, Goto
  <2>4. OnlyOwnerSends'
    BY <1>9, <2>1 DEF AcquireAlone, ReleaseAlone, OnlyOwnerSends, FreeMeansNobody, OwnerCanRelease, SetLock, Goto
  <2>5. FreeMeansNobody'
    BY <1>9, <2>1 DEF AcquireAlone, ReleaseAlone, OnlyOwnerSends, FreeMeansNobody, OwnerCanRelease, SetLock, Goto
  <2>6. OwnerCanRelease'
    BY <1>9, <2>1 DEF AcquireAlone, ReleaseAlone, OnlyOwnerSends, FreeMeansNobody, OwnerCanRelease, SetLock, Goto
  <2> QED
    BY <2>2, <2>3, <2>4, <2>5, <2>6
<1>10. ASSUME NEW t \in Threads, SetOwner(t) PROVE Meaning'
  <2>1. ~overlapped
    BY <1>10 DEF SetOwner
  <2>2. AcquireAlone'
    BY <1>10, <2>1 DEF AcquireAlone, ReleaseAlone, OnlyOwnerSends, FreeMeansNobody, OwnerCanRelease, SetOwner, Return
  <2>3. ReleaseAlone'
    BY <1>10, <2>1 DEF AcquireAlone, ReleaseAlone, OnlyOwnerSends, FreeMeansNobody, OwnerCanRelease, SetOwner, Return
  <2>4. OnlyOwnerSends'
    BY <1>10, <2>1 DEF AcquireAlone, ReleaseAlone, OnlyOwnerSends, FreeMeansNobody, OwnerCanRelease, SetOwner, Return
  <2>5. FreeMeansNobody'
    BY <1>10, <2>1 DEF AcquireAlone, ReleaseAlone, OnlyOwnerSends, FreeMeansNobody, OwnerCanRelease, SetOwner, Return
  <2>6. OwnerCanRelease'
    BY <1>10, <2>1 DEF AcquireAlone, ReleaseAlone, OnlyOwnerSends, FreeMeansNobody, OwnerCanRelease, SetOwner, Return
  <2> QED
    BY <2>2, <2>3, <2>4, <2>5, <2>6
<1> QED
  BY <1>0, <1>1, <1>2, <1>3, <1>4, <1>5, <1>6, <1>7, <1>8, <1>9, <1>10 DEF Next, Proceed

(***************************************************************************)
(* The inductive invariant holds in every reachable state.                 *)
(***************************************************************************)
THEOREM Invariance == Spec => []IInv
<1>1. Init => IInv
  BY InitShape, InitMeaning, SplitIInv
<1>2. IInv /\ [Next]_vars => IInv'
  BY NextShape, NextMeaning, SplitIInv DEF Shape, Meaning, IInv, OwnerCanRelease, FreeMeansNobody
<1> QED
  BY <1>1, <1>2, PTL DEF Spec

(***************************************************************************)
(* As long as no release that takes effect is overlapped by a request that *)
(* can interfere with it, updateLockAndVerify lets at most one peer's      *)
(* video offer through, however many offers and other messages overlap.    *)
(***************************************************************************)
THEOREM MutualExclusion == Spec => []OneSender
<1>1. IInv => OneSender
  <2> SUFFICES ASSUME IInv, ~overlapped, NEW p \in senders, NEW q \in senders PROVE p = q
    BY DEF OneSender
  <2>1. \A t \in Threads : pc[t] # "setOwner"
    BY DEF IInv, AcquireAlone
  <2>2. videoLock
    BY DEF IInv, FreeMeansNobody
  <2> QED
    BY <2>1, <2>2 DEF IInv, OnlyOwnerSends
<1> QED
  BY <1>1, Invariance, PTL

(***************************************************************************)
(* Under the same condition a locked channel always has an owner that can  *)
(* unlock it.                                                              *)
(***************************************************************************)
THEOREM OwnerKept == Spec => []OwnerCanRelease
<1>1. IInv => OwnerCanRelease
  BY DEF IInv
<1> QED
  BY <1>1, Invariance, PTL

(***************************************************************************)
(* And a free channel has neither a sender nor a leftover owner, so that   *)
(* the next offer is let through.                                          *)
(***************************************************************************)
THEOREM FreeKept == Spec => []FreeMeansNobody
<1>1. IInv => FreeMeansNobody
  BY DEF IInv
<1> QED
  BY <1>1, Invariance, PTL

(***************************************************************************)
(* The two fields and the threads keep their types in every behaviour.     *)
(***************************************************************************)
THEOREM TypesKept == Spec => []TypeOK
<1>1. IInv => TypeOK
  BY DEF IInv
<1> QED
  BY <1>1, Invariance, PTL

(***************************************************************************)
(* Refinement.  As long as no effective release was overlapped, IInv tells *)
(* the abstract holder from the fields at each stage of an assignment, and *)
(* every step is an Acquire, a Release or a stutter of the abstract lock.  *)
(***************************************************************************)
QuietInv == IInv /\ ~overlapped

\* An overlap stays in the history.
LEMMA OverlapStays == overlapped /\ [Next]_vars => overlapped'
  BY DEF Next, Proceed, vars, Evaluate, EnterToAcquire, EnterToRelease, EnterToReject,
         EnterToPass, CompareOwner, ClearLock, ClearOwner, SetLock, SetOwner

\* The holder the two fields stand for, without the CHOOSE.
HolderSpec ==
    /\ ~videoLock => Holder = NoPeer
    /\ \A t \in Threads : pc[t] = "setOwner" => Holder = req[t].peer
    /\ (videoLock /\ \A t \in Threads : pc[t] # "setOwner") => Holder = videoLockPeer

\* The abstract holder read off the fields, at each stage of an assignment.
LEMMA HolderIs == QuietInv => HolderSpec
<1> SUFFICES ASSUME QuietInv PROVE HolderSpec
  OBVIOUS
<1> USE DEF QuietInv, IInv, AcquireAlone
<1>1. ASSUME NEW t \in Threads, pc[t] = "setOwner" PROVE Holder = req[t].peer
  <2>1. \A u \in Threads : pc[u] = "setOwner" => u = t
    BY <1>1 DEF MonitorsExclude, Inside, TypeOK
  <2>2. videoLock
    BY <1>1
  <2>3. t = CHOOSE u \in Threads : pc[u] = "setOwner"
    BY <1>1, <2>1
  <2> QED
    BY <1>1, <2>2, <2>3 DEF Holder
<1>2. ~videoLock => Holder = NoPeer
  BY DEF Holder
<1>3. (videoLock /\ \A t \in Threads : pc[t] # "setOwner") => Holder = videoLockPeer
  BY DEF Holder
<1> QED
  BY <1>1, <1>2, <1>3 DEF HolderSpec

\* The same of the state after a step.
LEMMA HolderIsNext == QuietInv' => HolderSpec'
<1> SUFFICES ASSUME QuietInv' PROVE HolderSpec'
  OBVIOUS
<1> USE DEF QuietInv, IInv, AcquireAlone
<1>1. ASSUME NEW t \in Threads, pc'[t] = "setOwner" PROVE Holder' = req'[t].peer
  <2>1. \A u \in Threads : pc'[u] = "setOwner" => u = t
    BY <1>1 DEF MonitorsExclude, Inside, TypeOK
  <2>2. videoLock'
    BY <1>1
  <2>3. t = CHOOSE u \in Threads : pc'[u] = "setOwner"
    BY <1>1, <2>1
  <2> QED
    BY <1>1, <2>2, <2>3 DEF Holder
<1>2. ~videoLock' => Holder' = NoPeer
  BY DEF Holder
<1>3. (videoLock' /\ \A t \in Threads : pc'[t] # "setOwner") => Holder' = videoLockPeer'
  BY DEF Holder
<1> QED
  BY <1>1, <1>2, <1>3 DEF HolderSpec

\* A step of updateLockAndVerify takes the abstract lock, frees it or leaves
\* it alone.
LEMMA StepRefines == QuietInv /\ QuietInv' /\ [Next]_vars => [Abstract!Next]_Holder
<1> SUFFICES ASSUME QuietInv, QuietInv', [Next]_vars
             PROVE [Abstract!Next]_Holder
  OBVIOUS
<1>a. HolderSpec /\ HolderSpec'
  BY HolderIs, HolderIsNext
<1> USE ThreadsAssumption
    DEF QuietInv, IInv, TypeOK, PointsFit, Points, Inside, Requests, NoRequest
<1>0. ASSUME UNCHANGED vars PROVE Holder' = Holder
  BY <1>0 DEF vars, Holder, Threads
<1>1. ASSUME NEW t \in Threads, NEW r \in Receivable(t), Evaluate(t, r) PROVE Holder' = Holder
  BY <1>1, <1>a DEF Evaluate, HolderSpec, AcquireAlone
<1>2. ASSUME NEW t \in Threads, EnterToAcquire(t) PROVE Holder' = Holder
  BY <1>2, <1>a DEF EnterToAcquire, Goto, HolderSpec, AcquireAlone
<1>3. ASSUME NEW t \in Threads, EnterToRelease(t) PROVE Holder' = Holder
  BY <1>3, <1>a DEF EnterToRelease, Goto, HolderSpec, AcquireAlone
<1>4. ASSUME NEW t \in Threads, EnterToReject(t) PROVE Holder' = Holder
  <2>1. videoLock' = videoLock /\ videoLockPeer' = videoLockPeer /\ videoLock
    BY <1>4 DEF EnterToReject
  <2>2. \A u \in Threads : pc[u] = "setOwner" => pc'[u] = "setOwner" /\ req'[u] = req[u]
    BY <1>4 DEF EnterToReject, CanEnter, Return
  <2>3. \A u \in Threads : pc'[u] = "setOwner" => pc[u] = "setOwner"
    BY <1>4 DEF EnterToReject, Return
  <2> QED
    BY <1>a, <2>1, <2>2, <2>3 DEF HolderSpec
<1>5. ASSUME NEW t \in Threads, EnterToPass(t) PROVE Holder' = Holder
  BY <1>5, <1>a DEF EnterToPass, Return, HolderSpec, AcquireAlone
<1>6. ASSUME NEW t \in Threads, CompareOwner(t) PROVE Holder' = Holder
  BY <1>6, <1>a DEF CompareOwner, Goto, Return, HolderSpec, AcquireAlone
<1>7. ASSUME NEW t \in Threads, ClearOwner(t) PROVE Holder' = Holder
  BY <1>7, <1>a DEF ClearOwner, HolderSpec, ReleaseAlone
<1>8. ASSUME NEW t \in Threads, SetLock(t) PROVE Abstract!Acquire(req[t].peer) /\ req[t].peer \in Peers
  <2>1. Holder = NoPeer
    BY <1>8, <1>a DEF SetLock, HolderSpec, AcquireAlone
  <2>2. pc'[t] = "setOwner" /\ req' = req
    BY <1>8 DEF SetLock, Goto
  <2>3. Holder' = req[t].peer
    BY <1>a, <2>2 DEF HolderSpec
  <2> QED
    BY <1>8, <2>1, <2>3 DEF Abstract!Acquire, SetLock
<1>9. ASSUME NEW t \in Threads, SetOwner(t) PROVE Holder' = Holder
  <2>1. \A u \in Threads : pc'[u] # "setOwner"
    BY <1>9 DEF SetOwner, Return, AcquireAlone, MonitorsExclude
  <2>2. videoLock' /\ videoLockPeer' = req[t].peer
    BY <1>9 DEF SetOwner, AcquireAlone
  <2> QED
    BY <1>9, <1>a, <2>1, <2>2 DEF SetOwner, HolderSpec
<1>10. ASSUME NEW t \in Threads, ClearLock(t) PROVE Abstract!Release(videoLockPeer) /\ videoLockPeer \in Peers
  <2>1. videoLock /\ videoLockPeer = req[t].peer /\ videoLockPeer # NoPeer
    BY <1>10 DEF ClearLock, ReleaseAlone
  <2>2. Holder = videoLockPeer
    BY <1>a, <2>1 DEF HolderSpec, AcquireAlone
  <2>3. Holder' = NoPeer
    BY <1>10, <1>a DEF ClearLock, HolderSpec
  <2> QED
    BY <2>1, <2>2, <2>3 DEF Abstract!Release
<1> QED
  BY <1>0, <1>1, <1>2, <1>3, <1>4, <1>5, <1>6, <1>7, <1>8, <1>9, <1>10
  DEF Next, Proceed, Abstract!Next

(***************************************************************************)
(* Up to the first overlapped effective release the two fields and two     *)
(* monitors implement one exclusive lock, for all peers and threads.       *)
(***************************************************************************)
THEOREM Refinement == Spec => ImplementsExclusiveLock
<1>1. Init => Abstract!Init
  BY DEF Init, Abstract!Init, Holder
<1>2. IInv /\ IInv' /\ [Next]_vars => [Abstract!Next \/ overlapped']_Holder
  BY StepRefines, OverlapStays DEF QuietInv
<1> QED
  BY <1>1, <1>2, Invariance, PTL DEF Spec, ImplementsExclusiveLock
=============================================================================
