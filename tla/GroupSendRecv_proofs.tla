------------------------ MODULE GroupSendRecv_proofs ------------------------
(***************************************************************************)
(* What GroupSendRecv keeps of the floor for every set of UEs.  FloorInv   *)
(* is proved in two lemmas: types and the fit of calls hold whatever       *)
(* overlaps; the floor needs that no floor call has been disturbed.        *)
(***************************************************************************)
EXTENDS GroupSendRecv, TLAPS

\* The unconditional part of FloorInv.
Shape == TypeOK /\ CallsFit

\* The part that speaks of the floor.
FloorKept ==
    ~disturbed =>
        /\ FloorCallAlone /\ ResetSilences /\ GrantsAreHeard /\ TalkersJoined /\ ClosingSilences
        /\ OneTalker /\ HolderIsHeard

\* FloorInv is its two parts.
LEMMA SplitFloorInv == FloorInv <=> Shape /\ FloorKept
  BY DEF FloorInv, Shape, FloorKept, OneTalker, HolderIsHeard

\* A worker is a UE and one of the two kinds, and these identify it.
LEMMA WorkerHasUe ==
    \A w \in Workers : Ue(w) \in Ues /\ w[2] \in {"session", "failure"}
  BY UesAssumption DEF Workers, Ue

\* Two workers of one UE and one kind are the same.
LEMMA WorkerOf ==
    \A w, v \in Workers : (Ue(w) = Ue(v) /\ w[2] = v[2]) => w = v
  BY UesAssumption DEF Workers, Ue

\* Pads are those of UEs, and of a UE with current elements its own.
LEMMA PadsOfUe ==
    \A u \in Ues : /\ PadOf(u) \subseteq Ues \cup {NoUe}
                   /\ element[<<"SENDER", u>>] = "current" => PadOf(u) \subseteq {u}
  BY DEF PadOf

\* The UEs at a point, and those a call that begins races, are UEs.
LEMMA RacedUes ==
    /\ \A points : Busy(points) \subseteq Ues
    /\ raced \subseteq Ues => \A points : \A w \in Workers : RacedBy(w, points) \subseteq Ues
  BY WorkerHasUe DEF Busy, RacedBy

\* The initial states have the right types.
LEMMA InitShape == Init => Shape
<1> SUFFICES ASSUME Init PROVE Shape
  OBVIOUS
<1>1. TypeOK
  BY UesAssumption DEF Init, TypeOK, Points, Dirs, Media
<1>2. CallsFit
  BY DEF Init, CallsFit
<1> QED
  BY <1>1, <1>2 DEF Shape

\* Nobody has the floor or asks for it at first.
LEMMA InitFloor == Init => FloorKept
  BY DEF Init, FloorKept, FloorCallAlone, ResetSilences, GrantsAreHeard, TalkersJoined, ClosingSilences,
         NobodyAt, OneTalker, HolderIsHeard, FloorPoints, GrantPoints, RevokePoints, ResetPoints

\* Types and the fit of calls are kept by every step.
LEMMA NextShape == Shape /\ [Next]_vars => Shape'
<1> SUFFICES ASSUME Shape, [Next]_vars PROVE Shape'
  OBVIOUS
<1> USE UesAssumption, WorkerHasUe, PadsOfUe, RacedUes
    DEF Shape, TypeOK, CallsFit, Points, OfferPoints, ResetPoints, GrantPoints, RevokePoints, FloorPoints, Dirs, Media,
        CloseSteps, Faults, launchVars, mediaVars, floorVars, Up
<1>0. CASE UNCHANGED vars
  BY <1>0 DEF vars
<1>1. ASSUME NEW cause \in Faults, Crash(cause) PROVE Shape'
  BY <1>1 DEF Crash
<1>2. CASE Environment
  <2>1. ASSUME NEW u \in Ues, Connect(u) PROVE Shape'
    BY <2>1 DEF Connect
  <2>2. ASSUME SignallingRestart PROVE Shape'
    BY <2>2 DEF SignallingRestart
  <2>3. ASSUME CreateGroup PROVE Shape'
    <3>1. CASE handler
      BY <2>3, <3>1 DEF CreateGroup
    <3>2. CASE ~handler
      <4>1. raced' \subseteq Ues
        BY <2>3, <3>2, RacedUes DEF CreateGroup
      <4>2. element' \in [Dirs \X Ues -> {"none", "current", "old", "freed"}]
        BY <2>3, <3>2 DEF CreateGroup
      <4>3. active' \in [Media -> Ues \cup {NoUe}]
        BY <2>3, <3>2 DEF CreateGroup
      <4>4. TypeOK'
        BY <2>3, <3>2, <4>1, <4>2, <4>3 DEF CreateGroup
      <4>5. CallsFit'
        BY <2>3, <3>2 DEF CreateGroup
      <4> QED
        BY <4>4, <4>5
    <3> QED
      BY <3>1, <3>2
  <2>4. ASSUME LaunchBare PROVE Shape'
    BY <2>4 DEF LaunchBare
  <2>5. ASSUME LaunchReady PROVE Shape'
    BY <2>5 DEF LaunchReady
  <2>6. ASSUME NEW m \in Media, NEW u \in Ues, SelectorPicks(m, u) PROVE Shape'
    BY <2>6 DEF SelectorPicks
  <2>7. ASSUME MapRace PROVE Shape'
    BY <1>1, <2>7 DEF MapRace
  <2>8. ASSUME ProcessRestart PROVE Shape'
    BY <2>8 DEF ProcessRestart
  <2> QED
    BY <1>2, <2>1, <2>2, <2>3, <2>4, <2>5, <2>6, <2>7, <2>8 DEF Environment
<1>3. ASSUME BusError \/ CloseStep \/ LookupRace \/ KeyFrame PROVE Shape'
  <2>1. CASE BusError
    BY <2>1 DEF BusError
  <2>2. ASSUME NEW d \in Dirs, CloseStrip(d) PROVE Shape'
    <3>1. CASE Crash("iterator")
      BY <1>1, <3>1
    <3>2. CASE ~Crash("iterator")
      BY <2>2, <3>2 DEF CloseStrip, Strip, Clear
    <3> QED
      BY <3>1, <3>2
  <2>3. ASSUME NEW d \in Dirs, CloseClear(d) PROVE Shape'
    BY <2>3 DEF CloseClear, Strip, Clear
  <2>4. CASE CloseNullify
    BY <2>4 DEF CloseNullify
  <2>5. CASE CloseUnmap
    BY <2>5 DEF CloseUnmap
  <2>6. CASE LookupRace
    BY <1>1, <2>6 DEF LookupRace
  <2>7. CASE KeyFrame
    BY <1>1, <2>7 DEF KeyFrame
  <2> QED
    BY <1>3, <2>1, <2>2, <2>3, <2>4, <2>5, <2>6, <2>7 DEF CloseStep
<1>4. ASSUME NEW w \in Workers, Call(w) PROVE Shape'
  <2>1. CASE SdpOffer(w)
    BY <2>1 DEF SdpOffer, SessionReady, Ready, Goto
  <2>2. CASE SdpAnswer(w)
    <3>1. CASE Crash("nullPeer") \/ Crash("freed")
      BY <1>1, <3>1
    <3>2. CASE offered' = offered \ {Ue(w)} /\ UNCHANGED <<launchVars, mediaVars, floorVars, session, pc, dir, disturbed, raced, fault>>
      BY <3>2
    <3> QED
      BY <2>2, <3>1, <3>2 DEF SdpAnswer
  <2>6. CASE IceMessage(w)
    <3>1. CASE Crash("freed")
      BY <1>1, <3>1
    <3>2. CASE /\ Goto(w, "iceWait")
               /\ raced' = RacedBy(w, ResetPoints)
               /\ UNCHANGED <<launchVars, mediaVars, floorVars, session, offered, dir,
                              disturbed, fault>>
      BY <2>6, <3>2 DEF IceMessage, SessionReady, Ready, Goto
    <3> QED
      BY <2>6, <3>1, <3>2 DEF IceMessage
  <2>3. CASE UeReset(w)
    <3>0. session' \in [Ues -> {"new", "open", "closed", "lost"}]
      BY <2>3 DEF UeReset
    <3>1. TypeOK'
      BY <2>3, <3>0 DEF UeReset, Ready, Goto
    <3>2. CallsFit'
      BY <2>3 DEF UeReset, Ready, Goto
    <3> QED
      BY <3>1, <3>2
  <2>4. CASE AcquireFloor(w)
    BY <2>4 DEF AcquireFloor, SessionReady, Ready, Goto, FloorBusy
  <2>5. CASE ReleaseFloor(w)
    <3>1. CASE currentSenderUeId = Ue(w)
      BY <2>5, <3>1 DEF ReleaseFloor, SessionReady, Ready, Goto, FloorBusy
    <3>2. CASE currentSenderUeId # Ue(w)
      BY <2>5, <3>2 DEF ReleaseFloor, SessionReady, Ready
    <3> QED
      BY <3>1, <3>2
  <2> QED
    BY <1>4, <2>1, <2>2, <2>3, <2>4, <2>5, <2>6 DEF Call
<1>5. ASSUME NEW w \in Workers, Proceed(w) PROVE Shape'
  <2>1. CASE AddExisting(w)
    BY <2>1 DEF AddExisting, AfterAdd, Goto
  <2>2. CASE AddElements(w)
    BY <2>2 DEF AddElements, Goto
  <2>3. CASE AddAborts(w)
    BY <1>1, <2>3 DEF AddAborts
  <2>4. CASE InsertPeer(w)
    BY <2>4 DEF InsertPeer, AfterAdd, Goto
  <2>5. CASE ApplyOffer(w)
    <3>1. CASE Crash("freed")
      BY <1>1, <3>1
    <3>2. CASE /\ Goto(w, "add")
               /\ dir' = [dir EXCEPT ![w] = "RECEIVER"]
               /\ UNCHANGED <<launchVars, mediaVars, floorVars, session, offered,
                              disturbed, raced, fault>>
      BY <2>5, <3>2 DEF ApplyOffer, Goto
    <3> QED
      BY <2>5, <3>1, <3>2 DEF ApplyOffer
  <2>6. CASE ResetElements(w)
    <3>1. element' \in [Dirs \X Ues -> {"none", "current", "old", "freed"}]
      BY <2>6 DEF ResetElements
    <3>2. active' \in [Media -> Ues \cup {NoUe}]
      BY <2>6 DEF ResetElements
    <3>3. TypeOK'
      BY <2>6, <3>1, <3>2 DEF ResetElements, Goto
    <3>4. CallsFit'
      BY <2>6 DEF ResetElements, Goto
    <3> QED
      BY <3>3, <3>4
  <2>7. CASE ErasePeer(w)
    BY <2>7 DEF ErasePeer, Goto
  <2>8. CASE GrantAudio(w)
    BY <1>1, <2>8 DEF GrantAudio, Goto
  <2>9. CASE GrantVideo(w)
    <3>1. PICK p \in Ues \cup {NoUe} : active' = [active EXCEPT !["video"] = p]
      BY <2>9 DEF GrantVideo
    <3>2. TypeOK'
      BY <2>9, <3>1 DEF GrantVideo, Goto
    <3>3. CallsFit'
      BY <2>9 DEF GrantVideo, Goto
    <3> QED
      BY <3>2, <3>3
  <2>10. CASE GrantOwner(w)
    BY <2>10 DEF GrantOwner, Goto
  <2>11. CASE RevokeAudio(w)
    BY <2>11 DEF RevokeAudio, Goto
  <2>12. CASE RevokeVideo(w)
    BY <2>12 DEF RevokeVideo, Goto
  <2>13. CASE RevokeOwner(w)
    BY <2>13 DEF RevokeOwner, Goto
  <2> QED
    BY <1>5, <2>1, <2>2, <2>3, <2>4, <2>5, <2>6, <2>7, <2>8, <2>9, <2>10, <2>11, <2>12, <2>13 DEF Proceed
<1> QED
  BY <1>0, <1>2, <1>3, <1>4, <1>5 DEF Next

\* The floor is kept by every step.
LEMMA NextFloor == Shape /\ Shape' /\ FloorKept /\ [Next]_vars => FloorKept'
<1> SUFFICES ASSUME Shape /\ Shape' /\ FloorKept, [Next]_vars PROVE FloorKept'
  OBVIOUS
<1> USE UesAssumption, WorkerHasUe, WorkerOf, PadsOfUe
    DEF Shape, TypeOK, CallsFit, FloorKept, FloorCallAlone, ResetSilences, GrantsAreHeard,
        TalkersJoined, ClosingSilences, NobodyAt, OneTalker, HolderIsHeard, OtherAt, Points, OfferPoints, ResetPoints, GrantPoints, RevokePoints, FloorPoints, Dirs, Media,
        CloseSteps, Faults, launchVars, mediaVars, floorVars, Up
<1>0. CASE UNCHANGED vars
  BY <1>0 DEF vars
<1>1. ASSUME NEW cause \in Faults, Crash(cause) PROVE FloorKept'
  BY <1>1 DEF Crash
<1>2. CASE Environment
  <2>1. ASSUME NEW u \in Ues, Connect(u) PROVE FloorKept'
    BY <2>1 DEF Connect
  <2>2. ASSUME SignallingRestart PROVE FloorKept'
    BY <2>2 DEF SignallingRestart
  <2>3. ASSUME CreateGroup PROVE FloorKept'
    <3>1. CASE handler
      BY <2>3, <3>1 DEF CreateGroup
    <3>2. CASE ~handler
      <4>1. talkers' = {} /\ handler' = TRUE /\ closing' = "no" /\ pc' = pc
        BY <2>3, <3>2 DEF CreateGroup
      <4>2. \A w \in Workers : pc'[w] \notin FloorPoints /\ pc'[w] \notin ResetPoints
        BY <2>3, <3>2, <4>1 DEF CreateGroup
      <4> QED
        BY <4>1, <4>2
    <3> QED
      BY <3>1, <3>2
  <2>4. ASSUME LaunchBare PROVE FloorKept'
    BY <2>4 DEF LaunchBare
  <2>5. ASSUME LaunchReady PROVE FloorKept'
    BY <2>5 DEF LaunchReady
  <2>6. ASSUME NEW m \in Media, NEW u \in Ues, SelectorPicks(m, u) PROVE FloorKept'
    BY <2>6 DEF SelectorPicks
  <2>7. ASSUME MapRace PROVE FloorKept'
    BY <1>1, <2>7 DEF MapRace
  <2>8. ASSUME ProcessRestart PROVE FloorKept'
    BY <2>8 DEF ProcessRestart
  <2> QED
    BY <1>2, <2>1, <2>2, <2>3, <2>4, <2>5, <2>6, <2>7, <2>8 DEF Environment
<1>3. ASSUME BusError \/ CloseStep \/ LookupRace \/ KeyFrame PROVE FloorKept'
  <2>1. CASE BusError
    BY <2>1 DEF BusError
  <2>2. ASSUME NEW d \in Dirs, CloseStrip(d) PROVE FloorKept'
    <3>1. CASE Crash("iterator")
      BY <1>1, <3>1
    <3>2. CASE ~Crash("iterator")
      BY <2>2, <3>2 DEF CloseStrip, Strip, Clear
    <3> QED
      BY <3>1, <3>2
  <2>3. ASSUME NEW d \in Dirs, CloseClear(d) PROVE FloorKept'
    BY <2>3 DEF CloseClear, Strip, Clear
  <2>4. CASE CloseNullify
    BY <2>4 DEF CloseNullify
  <2>5. CASE CloseUnmap
    BY <2>5 DEF CloseUnmap
  <2>6. CASE LookupRace
    BY <1>1, <2>6 DEF LookupRace
  <2>7. CASE KeyFrame
    BY <1>1, <2>7 DEF KeyFrame
  <2> QED
    BY <1>3, <2>1, <2>2, <2>3, <2>4, <2>5, <2>6, <2>7 DEF CloseStep
<1>4. ASSUME NEW w \in Workers, Call(w) PROVE FloorKept'
  <2>1. CASE SdpOffer(w)
    BY <2>1 DEF SdpOffer, SessionReady, Ready, Goto
  <2>2. CASE SdpAnswer(w)
    <3>1. CASE Crash("nullPeer") \/ Crash("freed")
      BY <1>1, <3>1
    <3>2. CASE offered' = offered \ {Ue(w)} /\ UNCHANGED <<launchVars, mediaVars, floorVars, session, pc, dir, disturbed, raced, fault>>
      BY <3>2
    <3> QED
      BY <2>2, <3>1, <3>2 DEF SdpAnswer
  <2>6. CASE IceMessage(w)
    <3>1. CASE Crash("freed")
      BY <1>1, <3>1
    <3>2. CASE /\ Goto(w, "iceWait")
               /\ raced' = RacedBy(w, ResetPoints)
               /\ UNCHANGED <<launchVars, mediaVars, floorVars, session, offered, dir,
                              disturbed, fault>>
      BY <2>6, <3>2 DEF IceMessage, SessionReady, Ready, Goto
    <3> QED
      BY <2>6, <3>1, <3>2 DEF IceMessage
  <2>3. CASE UeReset(w)
    <3>1. (~disturbed => FloorCallAlone)'
      BY <2>3 DEF UeReset, Ready, Goto
    <3>2. (~disturbed => ResetSilences)'
      <4> SUFFICES ASSUME ~disturbed', NEW v \in Workers, pc'[v] \in ResetPoints
                   PROVE  Ue(v) \notin talkers' /\ ~OtherAt(v, FloorPoints)'
        OBVIOUS
      <4>1. \A x \in Workers : Ue(x) = Ue(w) => pc'[x] \notin FloorPoints
        <5>1. ~OtherAt(w, FloorPoints)
          BY <2>3 DEF UeReset
        <5>2. \A x \in Workers : pc'[x] = IF x = w THEN "reset" ELSE pc[x]
          BY <2>3 DEF UeReset, Goto
        <5> QED
          BY <5>1, <5>2
      <4>2. \A x \in Workers : pc'[x] \in FloorPoints => pc'[x] = pc[x]
        BY <2>3 DEF UeReset, Ready, Goto
      <4>3. CASE Ue(v) = Ue(w)
        BY <2>3, <4>1, <4>3 DEF UeReset
      <4>4. CASE Ue(v) # Ue(w)
        <5>1. pc[v] \in ResetPoints /\ ~disturbed
          BY <2>3, <4>4 DEF UeReset, Ready, Goto
        <5> QED
          BY <2>3, <4>2, <5>1 DEF UeReset
      <4> QED
        BY <4>3, <4>4
    <3>3. (~disturbed => GrantsAreHeard)'
      BY <2>3 DEF UeReset, Ready, Goto
    <3>4. (~disturbed => TalkersJoined)'
      BY <2>3 DEF UeReset, Ready, Goto
    <3>5. (~disturbed => OneTalker)'
      BY <2>3 DEF UeReset, Ready, Goto
    <3>6. (~disturbed => HolderIsHeard)'
      BY <2>3 DEF UeReset, Ready, Goto
    <3>7. (~disturbed => ClosingSilences)'
      BY <2>3 DEF UeReset, Ready, Goto
    <3> QED
      BY <3>1, <3>2, <3>3, <3>4, <3>5, <3>6, <3>7
  <2>4. CASE AcquireFloor(w)
    <3>0. ~disturbed' => talkers = {} /\ talkers' = {} /\ currentSenderUeId' = NoUe
      BY <2>4 DEF AcquireFloor
    <3>1. (~disturbed => FloorCallAlone)'
      <4>1. ~disturbed' => \A v \in Workers \ {w} : pc'[v] \notin FloorPoints
        BY <2>4 DEF AcquireFloor, Goto, FloorBusy
      <4> QED
        BY <2>4, <3>0, <4>1 DEF AcquireFloor, Goto
    <3>2. (~disturbed => ResetSilences)'
      <4>1. ~disturbed' => \A v \in Workers : Ue(v) = Ue(w) => pc'[v] \notin ResetPoints
        <5>1. ~disturbed' => ~OtherAt(w, ResetPoints)
          BY <2>4 DEF AcquireFloor, FloorBusy
        <5>2. \A v \in Workers : pc'[v] = IF v = w THEN "grantAudio" ELSE pc[v]
          BY <2>4 DEF AcquireFloor, Goto
        <5> QED
          BY <5>1, <5>2
      <4>2. \A v \in Workers : v # w => pc'[v] = pc[v]
        BY <2>4 DEF AcquireFloor, Goto
      <4>3. ~disturbed' => ~disturbed
        BY <2>4 DEF AcquireFloor
      <4> QED
        BY <3>0, <4>1, <4>2, <4>3
    <3>3. (~disturbed => GrantsAreHeard)'
      BY <2>4 DEF AcquireFloor, SessionReady, Ready, Goto, FloorBusy
    <3>4. (~disturbed => TalkersJoined)'
      BY <2>4 DEF AcquireFloor, SessionReady, Ready, Goto, FloorBusy
    <3>5. (~disturbed => OneTalker)'
      BY <2>4 DEF AcquireFloor, SessionReady, Ready, Goto, FloorBusy
    <3>6. (~disturbed => HolderIsHeard)'
      BY <2>4 DEF AcquireFloor, SessionReady, Ready, Goto, FloorBusy
    <3>7. (~disturbed => ClosingSilences)'
      BY <2>4 DEF AcquireFloor, SessionReady, Ready, Goto, FloorBusy
    <3> QED
      BY <3>1, <3>2, <3>3, <3>4, <3>5, <3>6, <3>7
  <2>5. CASE ReleaseFloor(w)
    BY <2>5 DEF ReleaseFloor, SessionReady, Ready, Goto, FloorBusy
  <2> QED
    BY <1>4, <2>1, <2>2, <2>3, <2>4, <2>5, <2>6 DEF Call
<1>5. ASSUME NEW w \in Workers, Proceed(w) PROVE FloorKept'
  <2>1. CASE AddExisting(w)
    BY <2>1 DEF AddExisting, AfterAdd, Goto
  <2>2. CASE AddElements(w)
    BY <2>2 DEF AddElements, Goto
  <2>3. CASE AddAborts(w)
    BY <1>1, <2>3 DEF AddAborts
  <2>4. CASE InsertPeer(w)
    BY <2>4 DEF InsertPeer, AfterAdd, Goto
  <2>5. CASE ApplyOffer(w)
    BY <1>1, <2>5 DEF ApplyOffer, Goto
  <2>6. CASE ResetElements(w)
    BY <2>6 DEF ResetElements, Goto
  <2>7. CASE ErasePeer(w)
    BY <2>7 DEF ErasePeer, Goto
  <2>8. CASE GrantAudio(w)
    <3>1. CASE Crash("nullPeer")
      BY <1>1, <3>1
    <3>2. CASE /\ <<"SENDER", Ue(w)>> \in peers
               /\ \E p \in PadOf(Ue(w)) : active' = [active EXCEPT !["audio"] = p]
               /\ Goto(w, "grantVideo")
               /\ UNCHANGED <<launchVars, element, peers, floorVars, session, offered, dir,
                              disturbed, raced, fault>>
      <4>1. (~disturbed => FloorCallAlone /\ ResetSilences)'
        BY <2>8, <3>2 DEF GrantAudio, Goto
      <4>2. (~disturbed => GrantsAreHeard)'
        <5> SUFFICES ASSUME ~disturbed PROVE GrantsAreHeard'
          BY <3>2
        <5>1. pc' = [pc EXCEPT ![w] = "grantVideo"] /\ peers' = peers /\ element' = element
          BY <3>2 DEF Goto
        <5>2. \A v \in Workers \ {w} : pc'[v] \notin GrantPoints
          BY <2>8, <5>1 DEF GrantAudio
        <5>3. <<"SENDER", Ue(w)>> \in peers' /\ active'["audio"] \in PadOf(Ue(w))
          BY <3>2, <5>1
        <5>4. element[<<"SENDER", Ue(w)>>] = "current" => active'["audio"] = Ue(w)
          BY <5>3, PadsOfUe
        <5>5. pc'[w] = "grantVideo"
          BY <5>1
        <5> HIDE DEF FloorCallAlone, ResetSilences, TalkersJoined, ClosingSilences, OneTalker, HolderIsHeard,
                     CallsFit, TypeOK, Shape, FloorKept
        <5> QED
          BY <5>1, <5>2, <5>3, <5>4, <5>5
      <4>3. (~disturbed => TalkersJoined /\ ClosingSilences /\ OneTalker /\ HolderIsHeard)'
        BY <2>8, <3>2 DEF GrantAudio, Goto
      <4> QED
        BY <4>1, <4>2, <4>3
    <3> QED
      BY <2>8, <3>1, <3>2 DEF GrantAudio
  <2>9. CASE GrantVideo(w)
    BY <2>9 DEF GrantVideo, Goto
  <2>10. CASE GrantOwner(w)
    BY <2>10 DEF GrantOwner, Goto
  <2>11. CASE RevokeAudio(w)
    BY <2>11 DEF RevokeAudio, Goto
  <2>12. CASE RevokeVideo(w)
    BY <2>12 DEF RevokeVideo, Goto
  <2>13. CASE RevokeOwner(w)
    BY <2>13 DEF RevokeOwner, Goto
  <2> QED
    BY <1>5, <2>1, <2>2, <2>3, <2>4, <2>5, <2>6, <2>7, <2>8, <2>9, <2>10, <2>11, <2>12, <2>13 DEF Proceed
<1> QED
  BY <1>0, <1>2, <1>3, <1>4, <1>5 DEF Next

\* FloorInv is inductive, for every set of UEs.
THEOREM FloorInvariance == Spec => []FloorInv
<1>1. Init => FloorInv
  BY InitShape, InitFloor, SplitFloorInv
<1>2. FloorInv /\ [Next]_vars => FloorInv'
  BY NextShape, NextFloor, SplitFloorInv DEF Shape, FloorInv, FloorKept, OneTalker, HolderIsHeard
<1> QED
  BY <1>1, <1>2, PTL DEF Spec

\* The variables have their types.
THEOREM TypesKept == Spec => []TypeOK
  BY FloorInvariance, PTL DEF FloorInv

\* A UE that was told GRANTED is the one the handler has the floor with.
THEOREM OneTalkerKept == Spec => []OneTalker
  BY FloorInvariance, PTL DEF FloorInv

\* The selectors forward the UE with the floor.
THEOREM HolderHeard == Spec => []HolderIsHeard
  BY FloorInvariance, PTL DEF FloorInv

(***************************************************************************)
(* currentSenderUeId changes in GrantOwner, which FloorCallAlone says      *)
(* starts from a free floor, in RevokeOwner, which it says is the          *)
(* holder's, in CloseUnmap, with the handler, and in a restart, after a    *)
(* fault.  CreateGroup resets it where ClosingSilences says it is empty.   *)
(***************************************************************************)
LEMMA HandoverStep ==
    FloorInv /\ [Next]_vars =>
        [ (~disturbed /\ Up /\ currentSenderUeId # NoUe) =>
            \/ currentSenderUeId' = currentSenderUeId
            \/ /\ currentSenderUeId' = NoUe
               /\ ~handler' \/ pc[<<currentSenderUeId, "session">>] = "revokeOwner" ]_vars
<1> SUFFICES ASSUME FloorInv, [Next]_vars, ~disturbed, Up, currentSenderUeId # NoUe,
                    currentSenderUeId' # currentSenderUeId
             PROVE  /\ currentSenderUeId' = NoUe
                    /\ ~handler' \/ pc[<<currentSenderUeId, "session">>] = "revokeOwner"
  OBVIOUS
<1>1. CASE UNCHANGED vars
  BY <1>1 DEF vars, floorVars
<1>2. CASE Environment
  BY <1>2 DEF Environment, Connect, SignallingRestart, CreateGroup, LaunchBare, LaunchReady,
              SelectorPicks, MapRace, Crash, ProcessRestart, floorVars, FloorInv, ClosingSilences
<1>4. CASE BusError \/ CloseStep \/ LookupRace \/ KeyFrame
  BY <1>4 DEF BusError, CloseStep, CloseStrip, CloseClear, CloseNullify, CloseUnmap,
              LookupRace, KeyFrame, Crash, floorVars
<1>3. ASSUME NEW w \in Workers, Call(w) \/ Proceed(w)
      PROVE  /\ currentSenderUeId' = NoUe
             /\ pc[<<currentSenderUeId, "session">>] = "revokeOwner"
  <2>1. GrantOwner(w) \/ RevokeOwner(w)
    BY <1>3 DEF Call, Proceed, SdpOffer, SdpAnswer, IceMessage, UeReset, AcquireFloor, ReleaseFloor,
                AddExisting, AddElements, AddAborts, InsertPeer, ApplyOffer, ResetElements,
                ErasePeer, GrantAudio, GrantVideo, RevokeAudio, RevokeVideo, Crash, floorVars
  <2>2. pc[w] \in {"grantOwner", "revokeOwner"}
    BY <2>1 DEF GrantOwner, RevokeOwner
  <2>3. currentSenderUeId = IF pc[w] \in GrantPoints THEN NoUe ELSE Ue(w)
    BY <2>2 DEF FloorInv, FloorCallAlone, FloorPoints, GrantPoints, RevokePoints
  <2>4. pc[w] = "revokeOwner" /\ RevokeOwner(w) /\ currentSenderUeId = Ue(w)
    BY <2>1, <2>2, <2>3 DEF GrantPoints, GrantOwner
  <2>5. w = <<Ue(w), "session">>
    BY <2>4, WorkerHasUe, UesAssumption
       DEF FloorInv, CallsFit, ResetPoints, Workers, Ue
  <2> QED
    BY <2>4, <2>5 DEF RevokeOwner
<1> QED
  BY <1>1, <1>2, <1>3, <1>4 DEF Next

\* The floor is handed over only by its holder.
THEOREM HandoverByHolder == Spec => FloorHandover
<1>1. FloorInv /\ [Next]_vars =>
        [ (~disturbed /\ Up /\ currentSenderUeId # NoUe) =>
            \/ currentSenderUeId' = currentSenderUeId
            \/ /\ currentSenderUeId' = NoUe
               /\ ~handler' \/ pc[<<currentSenderUeId, "session">>] = "revokeOwner" ]_vars
  BY HandoverStep
<1> QED
  BY <1>1, FloorInvariance, PTL DEF Spec, FloorHandover

(***************************************************************************)
(* Refinement.  The talkers grow in GrantOwner only, which FloorCallAlone  *)
(* says finds nobody talking, and shrink in every other step that changes  *)
(* them; a step that forgets a disturbance starts with nobody.             *)
(***************************************************************************)

\* Who the abstract holder is, without the CHOOSE.
LEMMA TalkerIs ==
    /\ talkers = {} => Talker = NoUe
    /\ talkers # {} => Talker \in talkers
    /\ \A u : talkers = {u} => Talker = u
  BY DEF Talker

\* The same of the state after a step.
LEMMA TalkerIsNext ==
    /\ talkers' = {} => Talker' = NoUe
    /\ talkers' # {} => Talker' \in talkers'
    /\ \A u : talkers' = {u} => Talker' = u
  BY DEF Talker

\* Where no disturbance is known after a step, fewer talk, or one where nobody did.
LEMMA TalkersMove ==
    ASSUME FloorInv, [Next]_vars, ~disturbed'
    PROVE  /\ disturbed => talkers' = {}
           /\ talkers' \subseteq talkers \/ (talkers = {} /\ \E u \in Ues : talkers' = {u})
<1> USE DEF floorVars, launchVars
<1>1. CASE UNCHANGED vars
  BY <1>1 DEF vars
<1>2. CASE Environment
  <2>1. CASE \E u \in Ues : Connect(u)
    BY <2>1 DEF Connect
  <2>2. CASE SignallingRestart \/ LaunchReady
    BY <2>2 DEF SignallingRestart, LaunchReady
  <2>6. CASE LaunchBare
    <3>1. talkers' = talkers /\ (disturbed => disturbed')
      BY <2>6 DEF LaunchBare
    <3> QED
      BY <3>1
  <2>3. CASE CreateGroup
    BY <2>3 DEF CreateGroup
  <2>4. CASE \E m \in Media, u \in Ues : SelectorPicks(m, u)
    BY <2>4 DEF SelectorPicks
  <2>5. CASE MapRace \/ ProcessRestart
    BY <2>5 DEF MapRace, Crash, ProcessRestart
  <2> QED
    BY <1>2, <2>1, <2>2, <2>3, <2>4, <2>5, <2>6 DEF Environment
<1>3. CASE BusError \/ CloseStep \/ LookupRace \/ KeyFrame
  BY <1>3 DEF BusError, CloseStep, CloseStrip, CloseClear, CloseNullify, CloseUnmap,
              LookupRace, KeyFrame, Crash
<1>4. ASSUME NEW w \in Workers, GrantOwner(w)
      PROVE  /\ ~disturbed
             /\ talkers = {}
             /\ talkers' \subseteq {Ue(w)}
  <2>1. pc[w] \in FloorPoints /\ disturbed' = disturbed
    BY <1>4 DEF GrantOwner, FloorPoints, GrantPoints
  <2>2. talkers = {}
    BY <2>1 DEF FloorInv, FloorCallAlone
  <2> QED
    BY <1>4, <2>1, <2>2 DEF GrantOwner
<1>5. ASSUME NEW w \in Workers, Call(w) \/ Proceed(w), ~GrantOwner(w)
      PROVE  /\ ~disturbed
             /\ talkers' \subseteq talkers
  <2>1. CASE SdpOffer(w) \/ SdpAnswer(w) \/ IceMessage(w)
    BY <2>1 DEF SdpOffer, SdpAnswer, IceMessage, Crash
  <2>2. CASE UeReset(w) \/ AcquireFloor(w)
    BY <2>2 DEF UeReset, AcquireFloor
  <2>3. CASE ReleaseFloor(w)
    BY <2>3 DEF ReleaseFloor
  <2>4. CASE Proceed(w)
    BY <1>5, <2>4
       DEF Proceed, AddExisting, AddElements, AddAborts, InsertPeer, ApplyOffer, ResetElements,
           ErasePeer, GrantAudio, GrantVideo, RevokeAudio, RevokeVideo, RevokeOwner, Crash
  <2> QED
    BY <1>5, <2>1, <2>2, <2>3, <2>4 DEF Call
<1> QED
  BY <1>1, <1>2, <1>3, <1>4, <1>5, WorkerHasUe DEF Next

\* A step is one of the abstract lock, or one after which the floor is disturbed.
LEMMA FloorStep ==
    ASSUME FloorInv, FloorInv', [Next]_vars
    PROVE  [Floor!Next \/ disturbed']_Talker
<1> SUFFICES ASSUME ~disturbed', Talker' # Talker PROVE Floor!Next
  OBVIOUS
<1> USE TalkerIs, TalkerIsNext DEF Floor!Next, Floor!Acquire, Floor!Release
<1>1. talkers \subseteq Ues
  BY DEF FloorInv, TypeOK
<1>2. CASE talkers' = {}
  <2>1. Talker \in Ues
    BY <1>1, <1>2
  <2> QED
    BY <1>2, <2>1
<1>3. CASE talkers' # {}
  <2>1. ~disturbed
    BY <1>3, TalkersMove
  <2>2. ~(talkers' \subseteq talkers)
    <3>1. talkers \subseteq {currentSenderUeId}
      BY <2>1 DEF FloorInv, OneTalker
    <3> QED
      BY <1>3, <3>1
  <2> QED
    BY <2>2, TalkersMove
<1> QED
  BY <1>2, <1>3

\* The floor as the UEs are told of it implements an exclusive lock.
THEOREM FloorRefinement == Spec => ImplementsExclusiveFloor
<1>1. Init => Floor!Init
  BY TalkerIs DEF Init, Floor!Init
<1>2. FloorInv /\ FloorInv' /\ [Next]_vars => [Floor!Next \/ disturbed']_Talker
  BY FloorStep
<1> QED
  BY <1>1, <1>2, FloorInvariance, PTL DEF Spec, ImplementsExclusiveFloor
=============================================================================
