------------------------ MODULE GroupOrderly_proofs ------------------------
(***************************************************************************)
(* That the media server survives an orderly use of the group, for every   *)
(* set of UEs: OrderlySpec => []NoFault.  The invariant says of each of    *)
(* the places where the process could die why the call that is there finds *)
(* what it takes for granted.                                              *)
(***************************************************************************)
EXTENDS GroupSendRecv_proofs

\* The pipeline is not closed, and once a launch is over it is ready.
Launched ==
    /\ closing = "no"
    /\ launch = "done" => pipeline = "ready"

\* Where no other call may be during an offer: all that touch a peer map.
MapPoints == OfferPoints \cup ResetPoints \cup {"grantAudio"}

\* An offer runs after the launch, without another call that touches the maps.
OfferAlone ==
    \A w \in Workers : pc[w] \in OfferPoints =>
        /\ launch = "done"
        /\ \A v \in Workers \ {w} : pc[v] \notin MapPoints

\* Elements in the pipeline have their entry, or get it in the next step of the
\* offer; only those that a reset is about to erase are freed.
ElementsFit ==
    \A d \in Dirs, u \in Ues :
        /\ element[<<d, u>>] = "current" => <<d, u>> \in peers \/ At(d, u, "insert")
        /\ element[<<d, u>>] = "freed" => At(d, u, "erase")
        /\ At(d, u, "erase") => element[<<d, u>>] # "current"

\* The UE that is granted the floor has a sender, and is not reset meanwhile.
GrantFindsSender ==
    \A w \in Workers : pc[w] = "grantAudio" =>
        /\ <<"SENDER", Ue(w)>> \in peers
        /\ \A v \in Workers : Ue(v) = Ue(w) => pc[v] \notin ResetPoints

OrderlyInv ==
    /\ NoFault
    /\ Launched
    /\ OfferAlone
    /\ ElementsFit
    /\ GrantFindsSender

LEMMA InitOrderly == Init => OrderlyInv
  BY DEF Init, OrderlyInv, NoFault, Up, Launched, OfferAlone, ElementsFit, At,
         GrantFindsSender, OfferPoints

\* A step that leaves entries, elements and the pipeline alone, and lets calls go
\* only to where no peer map is touched.
LEMMA Outside ==
    ASSUME OrderlyInv, UNCHANGED <<element, peers, pipeline, closing, launch, dir, fault>>,
           \A w \in Workers :
              pc'[w] = pc[w] \/ (pc[w] \notin {"insert", "erase"} /\ pc'[w] \notin MapPoints)
    PROVE  OrderlyInv'
<1>1. NoFault' /\ Launched'
  BY DEF OrderlyInv, NoFault, Up, Launched
<1>2. OfferAlone'
  BY DEF OrderlyInv, OfferAlone, MapPoints
<1>3. \A d \in Dirs, u \in Ues : \A p \in {"insert", "erase"} : At(d, u, p)' <=> At(d, u, p)
  BY DEF At, MapPoints, OfferPoints, ResetPoints
<1>4. ElementsFit'
  BY <1>3 DEF OrderlyInv, ElementsFit
<1>5. GrantFindsSender'
  BY DEF OrderlyInv, GrantFindsSender, MapPoints
<1> QED
  BY <1>1, <1>2, <1>4, <1>5 DEF OrderlyInv

\* The start of a call: from idle to a point of its own, where it is allowed.
LEMMA Begins ==
    ASSUME TypeOK, OrderlyInv, UNCHANGED <<element, peers, pipeline, closing, launch, fault>>,
           NEW w \in Workers, pc[w] = "idle", NEW p \in {"add", "reset", "grantAudio"},
           Goto(w, p), \A v \in Workers \ {w} : dir'[v] = dir[v],
           NobodyAt(OfferPoints),
           p = "add" => launch = "done" /\ NobodyAt(MapPoints),
           p = "reset" => ~OtherAt(w, {"grantAudio"}),
           p = "grantAudio" => <<"SENDER", Ue(w)>> \in peers /\ ~OtherAt(w, ResetPoints)
    PROVE  OrderlyInv'
<1>1. \A v \in Workers : pc'[v] = IF v = w THEN p ELSE pc[v]
  BY DEF Goto, TypeOK
<1>2. NoFault' /\ Launched'
  BY DEF OrderlyInv, NoFault, Up, Launched
<1>3. OfferAlone'
  BY <1>1 DEF OfferAlone, NobodyAt, OfferPoints, ResetPoints, MapPoints
<1>4. \A d \in Dirs, u \in Ues : \A q \in {"insert", "erase"} : At(d, u, q)' <=> At(d, u, q)
  BY <1>1 DEF At
<1>5. ElementsFit'
  BY <1>4 DEF OrderlyInv, ElementsFit
<1>6. GrantFindsSender'
  BY <1>1 DEF OrderlyInv, GrantFindsSender, OtherAt, ResetPoints
<1> QED
  BY <1>2, <1>3, <1>5, <1>6 DEF OrderlyInv

\* An orderly call begins where it is allowed, or finds the receiver it uses.
LEMMA CallOrderly ==
    ASSUME Shape, OrderlyInv, NEW w \in Workers, OrderlyCall(w)
    PROVE  OrderlyInv'
<1> USE WorkerHasUe
<1>a. TypeOK
  BY DEF Shape
<1>1. CASE SdpOffer(w) /\ launch = "done" /\ NobodyAt(OfferPoints \cup ResetPoints \cup {"grantAudio"})
  <2>1. NobodyAt(OfferPoints) /\ NobodyAt(MapPoints)
    BY <1>1 DEF NobodyAt, MapPoints
  <2>2. /\ pc[w] = "idle" /\ Goto(w, "add") /\ \A v \in Workers \ {w} : dir'[v] = dir[v]
        /\ UNCHANGED <<element, peers, pipeline, closing, launch, fault>>
    BY <1>1, <1>a DEF SdpOffer, SessionReady, Ready, launchVars, mediaVars, TypeOK
  <2> QED
    BY <1>1, <1>a, <2>1, <2>2, Begins
<1>2. CASE UeReset(w) /\ NobodyAt(OfferPoints) /\ ~OtherAt(w, {"grantAudio"})
  <2>1. /\ pc[w] = "idle" /\ Goto(w, "reset") /\ \A v \in Workers \ {w} : dir'[v] = dir[v]
        /\ UNCHANGED <<element, peers, pipeline, closing, launch, fault>>
    BY <1>2, <1>a DEF UeReset, Ready, launchVars, mediaVars, TypeOK
  <2> QED
    BY <1>2, <1>a, <2>1, Begins
<1>3. CASE /\ AcquireFloor(w) /\ <<"SENDER", Ue(w)>> \in peers
           /\ NobodyAt(OfferPoints) /\ ~OtherAt(w, ResetPoints)
  <2>1. /\ pc[w] = "idle" /\ Goto(w, "grantAudio") /\ \A v \in Workers \ {w} : dir'[v] = dir[v]
        /\ UNCHANGED <<element, peers, pipeline, closing, launch, fault>>
    BY <1>3 DEF AcquireFloor, SessionReady, Ready, launchVars, mediaVars
  <2> QED
    BY <1>3, <1>a, <2>1, Begins
<1>4. CASE ReleaseFloor(w)
  <2>1. /\ UNCHANGED <<element, peers, pipeline, closing, launch, dir, fault>>
        /\ pc[w] = "idle" /\ (pc' = pc \/ Goto(w, "revokeAudio"))
    BY <1>4 DEF ReleaseFloor, SessionReady, Ready, launchVars, mediaVars
  <2>2. \A v \in Workers :
           pc'[v] = pc[v] \/ (pc[v] \notin {"insert", "erase"} /\ pc'[v] \notin MapPoints)
    BY <1>a, <2>1 DEF Goto, TypeOK, MapPoints, OfferPoints, ResetPoints
  <2> QED
    BY <2>1, <2>2, Outside
<1>5. CASE SdpAnswer(w) /\ <<"RECEIVER", Ue(w)>> \in peers /\ ~OtherAt(w, ResetPoints)
  <2>1. pc[w] = "idle"
    BY <1>5 DEF SdpAnswer, SessionReady, Ready
  <2>2. ~At("RECEIVER", Ue(w), "erase")
    BY <1>5, <2>1 DEF At, OtherAt, ResetPoints
  <2>3. element[<<"RECEIVER", Ue(w)>>] # "freed"
    BY <2>2 DEF OrderlyInv, ElementsFit, Dirs
  <2>4. UNCHANGED <<element, peers, pipeline, closing, launch, pc, dir, fault>>
    BY <1>5, <2>3 DEF SdpAnswer, launchVars, mediaVars
  <2> QED
    BY <2>4, Outside
<1> QED
  BY <1>1, <1>2, <1>3, <1>4, <1>5 DEF OrderlyCall

\* A call under way finds what it needs, and leaves it to the others.
LEMMA ProceedOrderly ==
    ASSUME Shape, OrderlyInv, NEW w \in Workers, Proceed(w)
    PROVE  OrderlyInv'
<1> USE WorkerHasUe
<1> DEFINE x == <<dir[w], Ue(w)>>
<1>a. TypeOK /\ dir[w] \in Dirs /\ x \in Dirs \X Ues
  BY DEF Shape, TypeOK
<1>b. ASSUME NEW p, Goto(w, p), pc[w] \notin {"insert", "erase"}, p \notin MapPoints,
             UNCHANGED <<element, peers, pipeline, closing, launch, dir, fault>>
      PROVE  OrderlyInv'
  <2>1. \A v \in Workers :
           pc'[v] = pc[v] \/ (pc[v] \notin {"insert", "erase"} /\ pc'[v] \notin MapPoints)
    BY <1>a, <1>b DEF Goto, TypeOK
  <2> QED
    BY <1>b, <2>1, Outside
<1>c. ASSUME NEW p \in {"add", "apply", "insert", "idle"}, Goto(w, p), pc[w] \in OfferPoints,
             UNCHANGED <<pipeline, closing, launch, fault>>,
             \A v \in Workers \ {w} : dir'[v] = dir[v],
             ElementsFit', \A y \in peers : y \in peers'
      PROVE  OrderlyInv'
  <2>1. \A v \in Workers : pc'[v] = IF v = w THEN p ELSE pc[v]
    BY <1>a, <1>c DEF Goto, TypeOK
  <2>2. OfferAlone'
    BY <1>c, <2>1 DEF OrderlyInv, OfferAlone, OfferPoints, ResetPoints, MapPoints
  <2>3. GrantFindsSender'
    BY <1>c, <2>1 DEF OrderlyInv, GrantFindsSender, ResetPoints
  <2> QED
    BY <1>c, <2>2, <2>3 DEF OrderlyInv, NoFault, Up, Launched
<1>d. ASSUME NEW p \in {"add", "apply", "idle"}, Goto(w, p), pc[w] \in {"add", "apply"},
             UNCHANGED <<element, peers>>, \A v \in Workers \ {w} : dir'[v] = dir[v]
      PROVE  ElementsFit'
  <2>1. \A v \in Workers : pc'[v] = IF v = w THEN p ELSE pc[v]
    BY <1>a, <1>d DEF Goto, TypeOK
  <2>2. \A d \in Dirs, u \in Ues : \A q \in {"insert", "erase"} : At(d, u, q)' <=> At(d, u, q)
    BY <1>d, <2>1 DEF At
  <2> QED
    BY <1>d, <2>2 DEF OrderlyInv, ElementsFit
<1>1. CASE AddExisting(w)
  <2>1. /\ pc[w] = "add" /\ UNCHANGED <<element, peers, pipeline, closing, launch, dir, fault>>
        /\ \E p \in {"apply", "idle"} : Goto(w, p)
    BY <1>1 DEF AddExisting, AfterAdd, launchVars, mediaVars
  <2> QED
    BY <1>c, <1>d, <2>1 DEF OfferPoints
<1>2. CASE AddElements(w)
  <2>1. /\ pc[w] = "add" /\ Goto(w, "insert") /\ element' = [element EXCEPT ![x] = "current"]
        /\ UNCHANGED <<peers, pipeline, closing, launch, dir, fault>>
    BY <1>2 DEF AddElements, launchVars
  <2>2. \A v \in Workers : pc'[v] = IF v = w THEN "insert" ELSE pc[v]
    BY <1>a, <2>1 DEF Goto, TypeOK
  <2>3. \A d \in Dirs, u \in Ues : ~At(d, u, "erase") /\ ~At(d, u, "erase")'
    BY <2>1, <2>2 DEF OrderlyInv, OfferAlone, OfferPoints, ResetPoints, MapPoints, At
  <2>4. \A d \in Dirs, u \in Ues :
           At(d, u, "insert")' <=> At(d, u, "insert") \/ <<d, u>> = x
    BY <2>1, <2>2 DEF At
  <2>5. \A d \in Dirs, u \in Ues :
           element'[<<d, u>>] = IF <<d, u>> = x THEN "current" ELSE element[<<d, u>>]
    BY <1>a, <2>1 DEF TypeOK
  <2>6. ElementsFit'
    <3> SUFFICES ASSUME NEW d \in Dirs, NEW u \in Ues
                 PROVE  /\ element'[<<d, u>>] = "current" =>
                              <<d, u>> \in peers \/ At(d, u, "insert")'
                        /\ element'[<<d, u>>] # "freed"
      BY <2>1, <2>3 DEF ElementsFit
    <3>1. element[<<d, u>>] # "freed"
      BY <2>3 DEF OrderlyInv, ElementsFit
    <3>2. element[<<d, u>>] = "current" => <<d, u>> \in peers \/ At(d, u, "insert")
      BY DEF OrderlyInv, ElementsFit
    <3> QED
      BY <2>4, <2>5, <3>1, <3>2
  <2> QED
    BY <1>c, <2>1, <2>6 DEF OfferPoints
<1>3. CASE AddAborts(w)
  <2>1. pc[w] = "add" /\ x \notin peers
    BY <1>3 DEF AddAborts
  <2>2. pipeline = "ready"
    BY <2>1 DEF OrderlyInv, OfferAlone, Launched, OfferPoints
  <2>3. ~At(dir[w], Ue(w), "insert")
    BY <2>1 DEF OrderlyInv, OfferAlone, OfferPoints, MapPoints, At
  <2>4. element[x] # "current"
    BY <1>a, <2>1, <2>3 DEF OrderlyInv, ElementsFit
  <2> QED
    BY <1>3, <2>2, <2>4 DEF AddAborts
<1>4. CASE InsertPeer(w)
  <2>1. /\ pc[w] = "insert" /\ peers' = peers \cup {x}
        /\ UNCHANGED <<element, pipeline, closing, launch, dir, fault>>
        /\ \E p \in {"apply", "idle"} : Goto(w, p)
    BY <1>4 DEF InsertPeer, AfterAdd, launchVars
  <2>2. PICK p \in {"apply", "idle"} : Goto(w, p)
    BY <2>1
  <2>3. \A v \in Workers : pc'[v] = IF v = w THEN p ELSE pc[v]
    BY <1>a, <2>2 DEF Goto, TypeOK
  <2>4. \A d \in Dirs, u \in Ues : /\ At(d, u, "erase")' <=> At(d, u, "erase")
                                   /\ At(d, u, "insert") => At(d, u, "insert")' \/ <<d, u>> = x
    BY <2>1, <2>3 DEF At
  <2>5. ElementsFit'
    BY <2>1, <2>4 DEF OrderlyInv, ElementsFit
  <2> QED
    BY <1>c, <2>1, <2>2, <2>5 DEF OfferPoints
<1>5. CASE ApplyOffer(w)
  <2>1. pc[w] = "apply"
    BY <1>5 DEF ApplyOffer
  <2>2. ~At("SENDER", Ue(w), "erase")
    BY <2>1 DEF OrderlyInv, OfferAlone, OfferPoints, ResetPoints, MapPoints, At
  <2>3. element[<<"SENDER", Ue(w)>>] # "freed"
    BY <2>2 DEF OrderlyInv, ElementsFit, Dirs
  <2>4. /\ Goto(w, "add") /\ UNCHANGED <<element, peers, pipeline, closing, launch, fault>>
        /\ \A v \in Workers \ {w} : dir'[v] = dir[v]
    BY <1>5, <1>a, <2>3 DEF ApplyOffer, launchVars, mediaVars, TypeOK
  <2> QED
    BY <1>c, <1>d, <2>1, <2>4 DEF OfferPoints
<1>e. ASSUME pc[w] \in ResetPoints, NEW p \in {"reset", "erase", "idle"}, Goto(w, p),
             UNCHANGED <<pipeline, closing, launch, fault>>, ElementsFit',
             \A y \in peers : y # x => y \in peers'
      PROVE  OrderlyInv'
  <2>1. \A v \in Workers : pc'[v] = IF v = w THEN p ELSE pc[v]
    BY <1>a, <1>e DEF Goto, TypeOK
  <2>2. OfferAlone'
    BY <1>e, <2>1 DEF OrderlyInv, OfferAlone, OfferPoints, ResetPoints, MapPoints
  <2>3. GrantFindsSender'
    BY <1>e, <2>1 DEF OrderlyInv, GrantFindsSender, ResetPoints
  <2> QED
    BY <1>e, <2>2, <2>3 DEF OrderlyInv, NoFault, Up, Launched
<1>6. CASE ResetElements(w)
  <2>1. /\ pc[w] = "reset" /\ Goto(w, "erase")
        /\ UNCHANGED <<peers, pipeline, closing, launch, dir, fault>>
        /\ element' = IF element[x] = "current" THEN [element EXCEPT ![x] = "freed"] ELSE element
    BY <1>6 DEF ResetElements, launchVars
  <2>2. \A v \in Workers : pc'[v] = IF v = w THEN "erase" ELSE pc[v]
    BY <1>a, <2>1 DEF Goto, TypeOK
  <2>3. \A d \in Dirs, u \in Ues : /\ At(d, u, "erase")' <=> At(d, u, "erase") \/ <<d, u>> = x
                                   /\ At(d, u, "insert")' <=> At(d, u, "insert")
    BY <2>1, <2>2 DEF At
  <2>4. \A d \in Dirs, u \in Ues :
           /\ <<d, u>> # x => element'[<<d, u>>] = element[<<d, u>>]
           /\ <<d, u>> = x => element'[<<d, u>>] # "current"
    BY <1>a, <2>1 DEF TypeOK
  <2>5. ElementsFit'
    BY <2>1, <2>3, <2>4 DEF OrderlyInv, ElementsFit
  <2> QED
    BY <1>e, <2>1, <2>5 DEF ResetPoints
<1>7. CASE ErasePeer(w)
  <2>1. /\ pc[w] = "erase" /\ peers' = peers \ {x} /\ UNCHANGED <<pipeline, closing, launch, fault>>
        /\ element' = IF element[x] = "freed" THEN [element EXCEPT ![x] = "none"] ELSE element
        /\ \A v \in Workers \ {w} : dir'[v] = dir[v]
        /\ \E p \in {"reset", "idle"} : Goto(w, p)
    BY <1>7, <1>a DEF ErasePeer, launchVars, TypeOK
  <2>2. PICK p \in {"reset", "idle"} : Goto(w, p)
    BY <2>1
  <2>3. \A v \in Workers : pc'[v] = IF v = w THEN p ELSE pc[v]
    BY <1>a, <2>2 DEF Goto, TypeOK
  <2>4. At(dir[w], Ue(w), "erase")
    BY <2>1 DEF At
  <2>5. \A d \in Dirs, u \in Ues :
           /\ At(d, u, "erase")' => At(d, u, "erase")
           /\ At(d, u, "erase") => At(d, u, "erase")' \/ <<d, u>> = x
           /\ At(d, u, "insert")' <=> At(d, u, "insert")
    BY <2>1, <2>3 DEF At
  <2>6. \A d \in Dirs, u \in Ues :
           /\ <<d, u>> # x => element'[<<d, u>>] = element[<<d, u>>]
           /\ <<d, u>> = x => element'[<<d, u>>] \notin {"current", "freed"}
    BY <1>a, <2>1, <2>4 DEF TypeOK, OrderlyInv, ElementsFit
  <2>7. ElementsFit'
    BY <2>1, <2>5, <2>6 DEF OrderlyInv, ElementsFit
  <2> QED
    BY <1>e, <2>1, <2>2, <2>7 DEF ResetPoints
<1>8. CASE GrantAudio(w)
  <2>1. pc[w] = "grantAudio" /\ <<"SENDER", Ue(w)>> \in peers
    BY <1>8 DEF GrantAudio, OrderlyInv, GrantFindsSender
  <2>2. /\ Goto(w, "grantVideo")
        /\ UNCHANGED <<element, peers, pipeline, closing, launch, dir, fault>>
    BY <1>8, <2>1 DEF GrantAudio, launchVars
  <2> QED
    BY <1>b, <2>1, <2>2 DEF MapPoints, OfferPoints, ResetPoints
<1>9. CASE GrantVideo(w) \/ GrantOwner(w) \/ RevokeAudio(w) \/ RevokeVideo(w) \/ RevokeOwner(w)
  <2>1. /\ pc[w] \notin {"insert", "erase"}
        /\ \E p \in {"grantOwner", "idle", "revokeVideo", "revokeOwner"} : Goto(w, p)
        /\ UNCHANGED <<element, peers, pipeline, closing, launch, dir, fault>>
    BY <1>9 DEF GrantVideo, GrantOwner, RevokeAudio, RevokeVideo, RevokeOwner, launchVars, mediaVars
  <2> QED
    BY <1>b, <2>1 DEF MapPoints, OfferPoints, ResetPoints
<1> QED
  BY <1>1, <1>2, <1>3, <1>4, <1>5, <1>6, <1>7, <1>8, <1>9 DEF Proceed

\* Sessions, starts of the signalling server and launches find no offer they could
\* take the pipeline from.
LEMMA EnvironmentOrderly ==
    ASSUME Shape, OrderlyInv, Environment, launch' = "pending" => NobodyAt(OfferPoints)
    PROVE  OrderlyInv'
<1>a. TypeOK
  BY DEF Shape
<1>b. ASSUME launch # "done" \/ launch' = "pending", UNCHANGED <<pc, dir, peers, closing, fault>>,
             launch' = "done" => pipeline' = "ready", ElementsFit'
      PROVE  OrderlyInv'
  <2>1. \A w \in Workers : pc[w] \notin OfferPoints
    BY <1>b DEF OrderlyInv, OfferAlone, NobodyAt
  <2> QED
    BY <1>b, <2>1 DEF OrderlyInv, NoFault, Up, Launched, OfferAlone, GrantFindsSender
<1>c. ASSUME UNCHANGED <<pc, dir, peers, element>> PROVE ElementsFit'
  <2>1. \A d \in Dirs, u \in Ues : \A p \in {"insert", "erase"} : At(d, u, p)' <=> At(d, u, p)
    BY <1>c DEF At
  <2> QED
    BY <1>c, <2>1 DEF OrderlyInv, ElementsFit
<1>1. ASSUME NEW u \in Ues, Connect(u) PROVE OrderlyInv'
  BY <1>1, Outside DEF Connect, launchVars, mediaVars
<1>2. CASE SignallingRestart
  BY <1>2, <1>b, <1>c DEF SignallingRestart, mediaVars
<1>3. CASE CreateGroup
  <2>1. CASE handler
    BY <1>3, <1>b, <1>c, <2>1 DEF CreateGroup, mediaVars
  <2>2. CASE ~handler
    <3>1. /\ \A w \in Workers : pc'[w] \in {"idle", "iceWait"}
          /\ \A y \in Dirs \X Ues : element'[y] = "none"
          /\ launch' = "thread" /\ UNCHANGED <<closing, fault>>
      BY <1>3, <2>2 DEF CreateGroup
    <3>2. ElementsFit'
      BY <3>1 DEF ElementsFit, At
    <3>3. OfferAlone' /\ GrantFindsSender'
      BY <3>1 DEF OfferAlone, GrantFindsSender, OfferPoints
    <3> QED
      BY <3>1, <3>2, <3>3 DEF OrderlyInv, NoFault, Up, Launched
  <2> QED
    BY <2>1, <2>2
<1>4. CASE LaunchBare
  <2>1. \A y \in Dirs \X Ues :
           element'[y] = IF element[y] = "current" THEN "old" ELSE element[y]
    BY <1>4 DEF LaunchBare
  <2>2. UNCHANGED <<pc, dir, peers>>
    BY <1>4 DEF LaunchBare
  <2>3. \A d \in Dirs, u \in Ues : \A p \in {"insert", "erase"} : At(d, u, p)' <=> At(d, u, p)
    BY <2>2 DEF At
  <2>4. \A d \in Dirs, u \in Ues :
           element'[<<d, u>>] # "current" /\ (element'[<<d, u>>] = "freed" => element[<<d, u>>] = "freed")
    BY <2>1
  <2>5. ElementsFit'
    BY <2>3, <2>4 DEF OrderlyInv, ElementsFit
  <2> QED
    BY <1>4, <1>b, <2>5 DEF LaunchBare
<1>5. CASE LaunchReady
  BY <1>5, <1>b, <1>c DEF LaunchReady, mediaVars
<1>6. ASSUME NEW m \in Media, NEW u \in Ues, SelectorPicks(m, u) PROVE OrderlyInv'
  BY <1>6, Outside DEF SelectorPicks, launchVars
<1>7. CASE MapRace
  <2>1. PICK v \in Workers, d \in Dirs :
           /\ TouchesMap(v, d)
           /\ \/ \E w \in Workers \ {v} : pc[w] = "insert" /\ dir[w] = d
              \/ closing = Strip(d) /\ pc[v] \in {"insert", "erase"}
              \/ closing = Clear(d)
    BY <1>7 DEF MapRace
  <2>2. closing = "no" /\ Strip(d) # "no" /\ Clear(d) # "no"
    BY DEF OrderlyInv, Launched, Strip, Clear
  <2>3. PICK w \in Workers \ {v} : pc[w] = "insert"
    BY <2>1, <2>2
  <2>4. pc[v] \in MapPoints
    BY <2>1 DEF TouchesMap, MapPoints, OfferPoints, ResetPoints
  <2> QED
    BY <2>3, <2>4 DEF OrderlyInv, OfferAlone, OfferPoints
<1>8. CASE ProcessRestart
  BY <1>8 DEF ProcessRestart, OrderlyInv, NoFault
<1> QED
  BY <1>1, <1>2, <1>3, <1>4, <1>5, <1>6, <1>7, <1>8 DEF Environment

\* However many UEs there are, and however their orderly calls, the resets after
\* failed deliveries, restarts of the signalling server and launches interleave:
\* no assertion of the media server fails, it dereferences no missing peer, uses
\* no freed element, and its unguarded insertions meet no other access.
THEOREM OrderlySurvives == OrderlySpec => []NoFault
<1>1. Init => Shape /\ OrderlyInv
  BY InitShape, InitOrderly
<1>2. Shape /\ OrderlyInv /\ [OrderlyNext]_vars => (Shape /\ OrderlyInv)'
  <2> SUFFICES ASSUME Shape, OrderlyInv, [OrderlyNext]_vars PROVE (Shape /\ OrderlyInv)'
    OBVIOUS
  <2>1. [Next]_vars
    BY DEF OrderlyNext, OrderlyCall, Next, Call
  <2>2. Shape'
    BY <2>1, NextShape
  <2>3. CASE UNCHANGED vars
    <3>1. UNCHANGED <<element, peers, pipeline, closing, launch, dir, fault, pc>>
      BY <2>3 DEF vars, launchVars, mediaVars
    <3> QED
      BY <2>2, <3>1, Outside
  <2>4. CASE Environment /\ (launch' = "pending" => NobodyAt(OfferPoints))
    BY <2>2, <2>4, EnvironmentOrderly
  <2>5. ASSUME NEW w \in Workers, OrderlyCall(w) \/ Proceed(w) PROVE OrderlyInv'
    BY <2>5, CallOrderly, ProceedOrderly
  <2> QED
    BY <2>2, <2>3, <2>4, <2>5 DEF OrderlyNext
<1>3. OrderlyInv => NoFault
  BY DEF OrderlyInv
<1> QED
  BY <1>1, <1>2, <1>3, PTL DEF OrderlySpec
=============================================================================
