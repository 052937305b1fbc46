------------------------ MODULE GroupMedia_proofs -------------------------
(***************************************************************************)
(* What GroupSendRecv keeps of the peer maps and the elements for every    *)
(* set of UEs: MediaInv, whose parts speak of the UEs no two calls of      *)
(* which have overlapped (the others are in the history variable raced).   *)
(* A step of a worker concerns the entries and elements of its UE only;    *)
(* a closing concerns all, and no call of such a UE is at work during it.  *)
(* ClosedResets adds that one whose websocket has closed offers nothing    *)
(* any more, and so that its reset is the last call that concerns it.      *)
(***************************************************************************)
EXTENDS GroupSendRecv_proofs

\* Between its calls a UE has a receiver just when it has a sender.
Paired ==
    closing = "no" => \A u \in Ues \ raced : Resting(u) =>
        (<<"RECEIVER", u>> \in peers <=> <<"SENDER", u>> \in peers)

\* The part of MediaInv that steps are to keep.
MediaKept == MediaCallAlone /\ EntryHasElements /\ ClosingAlone /\ Paired

\* Points of calls at work on entries or elements are none of the others.
LEMMA MediaPointNames ==
    MediaPoints = {"add", "insert", "apply", "reset", "erase"}
  BY DEF MediaPoints, OfferPoints, ResetPoints

\* Who is not at work on entries or elements rests.
LEMMA BusyIs ==
    /\ \A points, u : u \in Busy(points) <=> \E w \in Workers : Ue(w) = u /\ pc[w] \in points
    /\ \A u \in Ues : Resting(u) <=> u \notin Busy(MediaPoints)
  BY DEF Busy, Resting

\* The same of the state after a step.
LEMMA BusyIsNext ==
    /\ \A points, u : u \in Busy(points)' <=> \E w \in Workers : Ue(w) = u /\ pc'[w] \in points
    /\ \A u \in Ues : Resting(u)' <=> u \notin Busy(MediaPoints)'
  BY DEF Busy, Resting

\* PeersMatchElements is what the other parts say of a UE that rests.
LEMMA SplitMediaInv == MediaInv <=> TypeOK /\ MediaKept /\ FreedNeedsOverlap
<1>1. MediaInv => Paired
  BY DEF MediaInv, PeersMatchElements, Paired
<1>2. ASSUME closing = "no", EntryHasElements, Paired, NEW u \in Ues \ raced, Resting(u)
      PROVE  /\ \A d \in Dirs :
                  /\ element[<<d, u>>] = "current" => <<d, u>> \in peers
                  /\ <<d, u>> \in peers => element[<<d, u>>] \in {"current", "old"}
             /\ <<"RECEIVER", u>> \in peers <=> <<"SENDER", u>> \in peers
  <2>1. \A d \in Dirs : ~At(d, u, "insert") /\ ~At(d, u, "erase")
    BY <1>2, MediaPointNames DEF Resting, At
  <2>2. \A d \in Dirs : closing # Clear(d)
    BY <1>2 DEF Clear
  <2> QED
    BY <1>2, <2>1, <2>2 DEF EntryHasElements, Paired
<1> QED
  BY <1>1, <1>2 DEF MediaInv, MediaKept, PeersMatchElements

\* A server that has just started has nothing to keep.
LEMMA InitMedia == Init => MediaKept /\ FreedNeedsOverlap
  BY MediaPointNames
     DEF Init, MediaKept, MediaCallAlone, EntryHasElements, ClosingAlone, Paired, At,
         FreedNeedsOverlap, Busy

\* A step that leaves entries, elements and the calls at work on them alone.
LEMMA Unaffected ==
    ASSUME TypeOK, MediaKept, FreedNeedsOverlap,
           UNCHANGED <<element, peers, closing, raced, fault, dir>>,
           \A w \in Workers :
              \/ pc'[w] = pc[w]
              \/ /\ pc[w] \notin MediaPoints
                 /\ pc'[w] \notin MediaPoints
                 /\ pc'[w] # "iceWait"
    PROVE  (MediaKept /\ FreedNeedsOverlap)'
<1>1. \A w \in Workers : /\ pc'[w] \in MediaPoints <=> pc[w] \in MediaPoints
                         /\ pc[w] \in MediaPoints => pc'[w] = pc[w]
                         /\ pc'[w] = "iceWait" => pc[w] = "iceWait"
  BY MediaPointNames
<1>2. \A d \in Dirs, u \in Ues : \A p \in {"insert", "erase"} : At(d, u, p)' <=> At(d, u, p)
  BY <1>1, MediaPointNames DEF At
<1>3. MediaCallAlone'
  BY <1>1, MediaPointNames DEF MediaKept, MediaCallAlone, OtherAt, EntriesFit, OfferPoints, ResetPoints
<1>4. EntryHasElements'
  BY <1>2 DEF MediaKept, EntryHasElements, Clear
<1>5. ClosingAlone'
  BY <1>1, BusyIs, BusyIsNext DEF MediaKept, ClosingAlone
<1>6. Paired'
  BY <1>1 DEF MediaKept, Paired, Resting
<1>7. FreedNeedsOverlap'
  BY <1>1, BusyIs, BusyIsNext, MediaPointNames DEF FreedNeedsOverlap, NobodyAt
<1> QED
  BY <1>3, <1>4, <1>5, <1>6, <1>7 DEF MediaKept

\* A process that dies keeps its state; of a freed element it dies only where
\* FreedNeedsOverlap says so.
LEMMA CrashKeeps ==
    ASSUME TypeOK, MediaKept, FreedNeedsOverlap, NEW cause \in Faults, Crash(cause),
           cause = "freed" => raced # {} \/ closing # "no" \/ ~NobodyAt({"erase"})
    PROVE  (MediaKept /\ FreedNeedsOverlap)'
<1>1. MediaKept'
  BY DEF Crash, launchVars, mediaVars, MediaKept, MediaCallAlone, EntryHasElements, ClosingAlone, Paired,
         OtherAt, EntriesFit, At, Resting, Busy
<1>2. FreedNeedsOverlap'
  BY DEF Crash, launchVars, FreedNeedsOverlap, NobodyAt, Busy
<1> QED
  BY <1>1, <1>2

\* An entry without its element is one of a call or closing under way, or of
\* a UE whose calls have overlapped.
LEMMA FreedEntry ==
    ASSUME TypeOK, MediaKept, NEW d \in Dirs, NEW u \in Ues,
           <<d, u>> \in peers, element[<<d, u>>] = "freed"
    PROVE  /\ raced # {} \/ closing # "no" \/ ~NobodyAt({"erase"})
           /\ u \in raced \/ closing # "no" \/ \E v \in Workers : Ue(v) = u /\ pc[v] = "erase"
  BY DEF MediaKept, EntryHasElements, At, Clear, NobodyAt

\* What an entry and the elements of a UE and direction are to be to each
\* other, when the UE's call at work is at point p of direction c.
Together(d, u, c, p) ==
    /\ element[<<d, u>>] = "current" => <<d, u>> \in peers \/ (c = d /\ p = "insert")
    /\ <<d, u>> \in peers => element[<<d, u>>] \in {"current", "old"} \/ (c = d /\ p = "erase")
    /\ (c = d /\ p = "insert") => element[<<d, u>>] \in {"current", "old"}
    /\ (c = d /\ p = "erase") => element[<<d, u>>] # "current"

\* With the call alone, and no closing, that is what EntryHasElements says.
LEMMA CallTogether ==
    ASSUME EntryHasElements, NEW w \in Workers, Ue(w) \notin raced, ~OtherAt(w, MediaPoints),
           closing = "no"
    PROVE  \A d \in Dirs : Together(d, Ue(w), dir[w], pc[w])
  <1>1. \A d \in Dirs, p \in {"insert", "erase"} : At(d, Ue(w), p) <=> dir[w] = d /\ pc[w] = p
    BY MediaPointNames DEF At, OtherAt
  <1> QED
    BY <1>1, WorkerHasUe DEF EntryHasElements, Together, Clear

\* What a call that goes to point p has to keep when it is alone with its UE:
\* its own fit, and what the UE has.
AloneAt(w, p) ==
    /\ closing = "no"
    /\ ~OtherAt(w, MediaPoints)
    /\ p \in MediaPoints => EntriesFit(w)'
    /\ p \notin MediaPoints =>
          (<<"RECEIVER", Ue(w)>> \in peers' <=> <<"SENDER", Ue(w)>> \in peers')
    /\ \A d \in Dirs : Together(d, Ue(w), dir[w], p)'

\* A step of a call leaves what other UEs have, and keeps what its own has
\* unless that UE's calls have overlapped.
LEMMA WorkerStep ==
    ASSUME TypeOK, MediaKept, NEW w \in Workers, NEW p \in Points,
           closing' = closing, pc' = [pc EXCEPT ![w] = p],
           raced \subseteq raced', raced' \subseteq raced \cup {Ue(w)},
           \A v \in Workers \ {w} : dir'[v] = dir[v],
           \A d \in Dirs, u \in Ues \ {Ue(w)} :
              /\ element'[<<d, u>>] = element[<<d, u>>]
              /\ <<d, u>> \in peers' <=> <<d, u>> \in peers,
           Ue(w) \notin raced' => AloneAt(w, p)
    PROVE  MediaKept'
<1> USE WorkerHasUe
<1>1. \A v \in Workers : pc'[v] = IF v = w THEN p ELSE pc[v]
  BY DEF TypeOK
<1>2. ASSUME Ue(w) \notin raced'
      PROVE  \A v \in Workers \ {w} : Ue(v) = Ue(w) => pc'[v] \notin MediaPoints
  BY <1>1, <1>2 DEF OtherAt, AloneAt
<1>3. MediaCallAlone'
  <2> SUFFICES ASSUME NEW v \in Workers, Ue(v) \notin raced', pc'[v] \in MediaPoints
               PROVE  ~OtherAt(v, MediaPoints)' /\ EntriesFit(v)'
    BY DEF MediaCallAlone
  <2>1. CASE v = w
    BY <1>1, <1>2, <2>1 DEF OtherAt, AloneAt
  <2>2. CASE v # w
    <3>1. Ue(v) # Ue(w) /\ pc'[v] = pc[v] /\ pc[v] \in MediaPoints /\ Ue(v) \notin raced
      BY <1>1, <1>2, <2>2
    <3>2. EntriesFit(v) /\ ~OtherAt(v, MediaPoints)
      BY <3>1 DEF MediaKept, MediaCallAlone
    <3>3. EntriesFit(v)'
      BY <2>2, <3>1, <3>2 DEF EntriesFit, Dirs
    <3>4. ~OtherAt(v, MediaPoints)'
      BY <1>1, <3>1, <3>2 DEF OtherAt
    <3> QED
      BY <3>3, <3>4
  <2> QED
    BY <2>1, <2>2
<1>4. EntryHasElements'
  <2> SUFFICES ASSUME NEW d \in Dirs, NEW u \in Ues, u \notin raced'
               PROVE  (/\ element[<<d, u>>] = "current" => <<d, u>> \in peers \/ At(d, u, "insert")
                       /\ <<d, u>> \in peers => \/ element[<<d, u>>] \in {"current", "old"}
                                                \/ At(d, u, "erase")
                                                \/ closing = Clear(d)
                       /\ At(d, u, "insert") => element[<<d, u>>] \in {"current", "old"}
                       /\ At(d, u, "erase") => element[<<d, u>>] # "current")'
    BY DEF EntryHasElements
  <2>1. CASE u = Ue(w)
    <3>1. \A q \in {"insert", "erase"} : At(d, u, q)' <=> dir'[w] = d /\ p = q
      BY <1>1, <1>2, <2>1, MediaPointNames DEF At
    <3> QED
      BY <2>1, <3>1 DEF Together, AloneAt
  <2>2. CASE u # Ue(w)
    <3>1. \A q : At(d, u, q)' <=> At(d, u, q)
      BY <1>1, <2>2 DEF At
    <3> QED
      BY <2>2, <3>1 DEF MediaKept, EntryHasElements, Clear
  <2> QED
    BY <2>1, <2>2
<1>5. ClosingAlone'
  <2> SUFFICES ASSUME closing # "no" PROVE ClosingAlone'
    BY DEF ClosingAlone
  <2>1. Ue(w) \in raced'
    BY DEF AloneAt
  <2>2. Busy(MediaPoints)' \subseteq raced'
    BY <1>1, <2>1, BusyIs, BusyIsNext DEF MediaKept, ClosingAlone
  <2>3. \A u \in Ues \ raced' : u # Ue(w) /\ u \notin raced
    BY <2>1
  <2>4. \A d \in Dirs, u \in Ues \ raced' : closing = Clear(d) /\ <<d, u>> \in peers' => element'[<<d, u>>] = "freed"
    BY <2>3 DEF MediaKept, ClosingAlone
  <2>5. closing \notin {"stripSenders", "clearSenders"} => \A u \in Ues \ raced' : <<"SENDER", u>> \notin peers'
    BY <2>3 DEF MediaKept, ClosingAlone, Dirs
  <2>6. closing \in {"nullify", "unmap"} => \A u \in Ues \ raced' : <<"RECEIVER", u>> \notin peers'
    BY <2>3 DEF MediaKept, ClosingAlone, Dirs
  <2> QED
    BY <2>2, <2>4, <2>5, <2>6 DEF ClosingAlone, Clear
<1>6. Paired'
  <2> SUFFICES ASSUME closing' = "no", NEW u \in Ues, u \notin raced', Resting(u)'
               PROVE  <<"RECEIVER", u>> \in peers' <=> <<"SENDER", u>> \in peers'
    BY DEF Paired
  <2>1. CASE u = Ue(w)
    BY <1>1, <2>1 DEF Resting, AloneAt
  <2>2. CASE u # Ue(w)
    <3>1. Resting(u)
      BY <1>1, <2>2 DEF Resting
    <3> QED
      BY <2>2, <3>1 DEF MediaKept, Paired, Dirs
  <2> QED
    BY <2>1, <2>2
<1> QED
  BY <1>3, <1>4, <1>5, <1>6 DEF MediaKept

\* Offers and resets: a call begins alone, or calls of its UE overlap and the
\* UE's entries are spoken of no more.
LEMMA CallMedia ==
    ASSUME Shape, TypeOK', MediaKept, FreedNeedsOverlap, NEW w \in Workers,
           SdpOffer(w) \/ UeReset(w) \/ IceMessage(w)
    PROVE  (MediaKept /\ FreedNeedsOverlap)'
<1> USE WorkerHasUe, MediaPointNames
    DEF Shape, Ready, SessionReady, Goto, Up, launchVars, mediaVars, floorVars
<1>1. CASE SdpOffer(w)
  <2>1. /\ closing' = closing /\ UNCHANGED <<element, peers>> /\ fault = "none" /\ fault' = "none"
        /\ pc[w] = "idle" /\ w[2] = "session" /\ "add" \in Points
        /\ pc' = [pc EXCEPT ![w] = "add"] /\ dir' = [dir EXCEPT ![w] = "SENDER"]
        /\ raced' = RacedBy(w, ResetPoints)
    BY <1>1 DEF SdpOffer, Points, OfferPoints
  <2>2. raced \subseteq raced' /\ raced' \subseteq raced \cup {Ue(w)}
    BY <2>1 DEF RacedBy
  <2>3. ASSUME Ue(w) \notin raced' PROVE AloneAt(w, "add")
    <3>1. Ue(w) \notin raced /\ closing = "no" /\ ~OtherAt(w, ResetPoints)
      BY <2>1, <2>3 DEF RacedBy
    <3>2. ~OtherAt(w, MediaPoints)
      \* No other worker of the UE makes offers: it is a session's work.
      <4> SUFFICES ASSUME NEW v \in Workers \ {w}, Ue(v) = Ue(w), pc[v] \in MediaPoints
                   PROVE  FALSE
        BY DEF OtherAt
      <4>1. v[2] = "failure"
        BY <2>1, WorkerOf
      <4>2. pc[v] \in ResetPoints
        BY <4>1 DEF CallsFit, ResetPoints
      <4> QED
        BY <3>1, <4>2 DEF OtherAt
    <3>3. <<"RECEIVER", Ue(w)>> \in peers <=> <<"SENDER", Ue(w)>> \in peers
      BY <2>1, <3>1, <3>2 DEF MediaKept, Paired, Resting, OtherAt
    <3>4. EntriesFit(w)'
      BY <2>1, <3>3 DEF EntriesFit, OfferPoints, ResetPoints, TypeOK
    <3>5. \A d \in Dirs : Together(d, Ue(w), dir[w], pc[w])
      BY <3>1, <3>2, CallTogether DEF MediaKept
    <3>6. \A d \in Dirs : Together(d, Ue(w), dir[w], "add")'
      BY <2>1, <3>5 DEF Together
    <3> QED
      BY <3>1, <3>2, <3>4, <3>6 DEF AloneAt
  <2>4. MediaKept'
    BY <2>1, <2>2, <2>3, WorkerStep DEF TypeOK
  <2>5. FreedNeedsOverlap'
    BY <2>1, <2>2, BusyIs, BusyIsNext DEF FreedNeedsOverlap, TypeOK
  <2> QED
    BY <2>4, <2>5
<1>2. CASE UeReset(w)
  <2>1. /\ closing' = closing /\ UNCHANGED <<element, peers>> /\ fault = "none" /\ fault' = "none"
        /\ pc[w] = "idle" /\ "reset" \in Points
        /\ pc' = [pc EXCEPT ![w] = "reset"] /\ dir' = [dir EXCEPT ![w] = "SENDER"]
        /\ raced' = RacedBy(w, MediaPoints)
    BY <1>2 DEF UeReset, Points, ResetPoints, MediaPoints
  <2>2. raced \subseteq raced' /\ raced' \subseteq raced \cup {Ue(w)}
    BY <2>1 DEF RacedBy
  <2>3. ASSUME Ue(w) \notin raced' PROVE AloneAt(w, "reset")
    <3>1. Ue(w) \notin raced /\ closing = "no" /\ ~OtherAt(w, MediaPoints)
      BY <2>1, <2>3 DEF RacedBy
    <3>2. <<"RECEIVER", Ue(w)>> \in peers <=> <<"SENDER", Ue(w)>> \in peers
      BY <2>1, <3>1 DEF MediaKept, Paired, Resting, OtherAt
    <3>3. EntriesFit(w)'
      BY <2>1, <3>2 DEF EntriesFit, OfferPoints, ResetPoints, TypeOK
    <3>4. \A d \in Dirs : Together(d, Ue(w), dir[w], pc[w])
      BY <3>1, CallTogether DEF MediaKept
    <3>5. \A d \in Dirs : Together(d, Ue(w), dir[w], "reset")'
      BY <2>1, <3>4 DEF Together
    <3> QED
      BY <3>1, <3>3, <3>5 DEF AloneAt
  <2>4. MediaKept'
    BY <2>1, <2>2, <2>3, WorkerStep DEF TypeOK
  <2>5. FreedNeedsOverlap'
    BY <2>1, <2>2, BusyIs, BusyIsNext DEF FreedNeedsOverlap, TypeOK
  <2> QED
    BY <2>4, <2>5
<1>3. CASE IceMessage(w)
  <2>1. PICK d \in Dirs : <<d, Ue(w)>> \in peers /\ element[<<d, Ue(w)>>] = "freed"
    BY <1>3 DEF IceMessage
  <2>2. CASE Crash("freed")
    BY <2>1, <2>2, FreedEntry, CrashKeeps DEF Faults
  <2>3. CASE /\ Goto(w, "iceWait")
             /\ raced' = RacedBy(w, ResetPoints)
             /\ UNCHANGED <<launchVars, mediaVars, floorVars, session, offered, dir,
                            disturbed, fault>>
    <3>1. pc[w] = "idle" /\ fault = "none" /\ "iceWait" \in Points /\ "iceWait" \notin MediaPoints
      BY <1>3 DEF IceMessage, Points
    \* Who finds a freed element in an entry of its own meets a reset or closing.
    <3>2. Ue(w) \in raced'
      <4>1. Ue(w) \in raced \/ closing # "no" \/ \E v \in Workers : Ue(v) = Ue(w) /\ pc[v] = "erase"
        BY <2>1, FreedEntry
      <4> QED
        BY <2>3, <3>1, <4>1 DEF OtherAt, ResetPoints, RacedBy
    <3>3. raced \subseteq raced' /\ raced' \subseteq raced \cup {Ue(w)}
      BY <2>3 DEF RacedBy
    <3>4. MediaKept'
      BY <2>3, <3>1, <3>2, <3>3, WorkerStep DEF TypeOK
    <3>5. FreedNeedsOverlap'
      BY <2>3, <3>1, <3>2, <3>3, BusyIs, BusyIsNext DEF FreedNeedsOverlap, TypeOK
    <3> QED
      BY <3>4, <3>5
  <2> QED
    BY <1>3, <2>2, <2>3 DEF IceMessage
<1> QED
  BY <1>1, <1>2, <1>3

\* A step of an offer or reset.
LEMMA ProceedMedia ==
    ASSUME TypeOK, TypeOK', MediaKept, FreedNeedsOverlap, NEW w \in Workers,
           \/ AddExisting(w) \/ AddElements(w) \/ AddAborts(w) \/ InsertPeer(w)
           \/ ApplyOffer(w) \/ ResetElements(w) \/ ErasePeer(w)
    PROVE  (MediaKept /\ FreedNeedsOverlap)'
<1> USE WorkerHasUe, MediaPointNames DEF Goto, AfterAdd, Up, launchVars, mediaVars, floorVars
<1>1. CASE AddAborts(w) \/ Crash("assert")
  BY <1>1, CrashKeeps DEF AddAborts, Faults
<1>2. CASE Crash("freed") /\ ApplyOffer(w)
  <2>1. <<"SENDER", Ue(w)>> \in peers /\ element[<<"SENDER", Ue(w)>>] = "freed"
    BY <1>2 DEF ApplyOffer, Crash
  <2> QED
    BY <1>2, <2>1, FreedEntry, CrashKeeps DEF Faults, Dirs
<1>3. CASE ~(Crash("freed") /\ ApplyOffer(w)) /\ ~AddAborts(w)
  <2>1. pc[w] \in MediaPoints /\ raced' = raced /\ closing' = closing /\ fault = "none" /\ fault' = "none"
    BY <1>3 DEF AddExisting, AddElements, InsertPeer, ApplyOffer, ResetElements, ErasePeer
  <2>2. PICK p \in {"add", "insert", "apply", "reset", "erase", "idle"} : pc' = [pc EXCEPT ![w] = p]
    BY <1>3 DEF AddExisting, AddElements, InsertPeer, ApplyOffer, ResetElements, ErasePeer
  <2>3. p \in Points
    BY DEF Points, OfferPoints, ResetPoints
  <2>4. FreedNeedsOverlap'
    BY <2>1, <2>2, BusyIs, BusyIsNext DEF FreedNeedsOverlap, TypeOK
  <2>5. /\ \A v \in Workers \ {w} : dir'[v] = dir[v]
        /\ dir'[w] \in Dirs
        /\ pc'[w] = p
    BY <1>3, <2>2 DEF TypeOK, AddExisting, AddElements, InsertPeer, ApplyOffer, ResetElements, ErasePeer
  <2>6. \A d \in Dirs, u \in Ues \ {Ue(w)} :
            /\ element'[<<d, u>>] = element[<<d, u>>]
            /\ <<d, u>> \in peers' <=> <<d, u>> \in peers
    BY <1>3 DEF TypeOK, AddExisting, AddElements, InsertPeer, ApplyOffer, ResetElements, ErasePeer
  <2>7. ASSUME Ue(w) \notin raced PROVE AloneAt(w, p)
    <3>1. ~OtherAt(w, MediaPoints) /\ EntriesFit(w) /\ closing = "no"
      BY <2>1, <2>7, BusyIs DEF MediaKept, MediaCallAlone, ClosingAlone
    <3>2. \A d \in Dirs : Together(d, Ue(w), dir[w], pc[w])
      BY <2>7, <3>1, CallTogether DEF MediaKept
    <3>5. /\ p \in MediaPoints => EntriesFit(w)'
          /\ p \notin MediaPoints =>
                (<<"RECEIVER", Ue(w)>> \in peers' <=> <<"SENDER", Ue(w)>> \in peers')
          /\ \A d \in Dirs : Together(d, Ue(w), dir[w], p)'
      <4> USE <2>5, <3>1, <3>2 DEF EntriesFit, Together, TypeOK, Dirs, OfferPoints, ResetPoints
      <4>1. CASE AddExisting(w)
        BY <4>1 DEF AddExisting
      <4>2. CASE AddElements(w)
        <5>1. p = "insert" /\ pc[w] = "add" /\ peers' = peers /\ dir'[w] = dir[w]
          BY <4>2 DEF AddElements
        <5>2. <<dir[w], Ue(w)>> \notin peers
          BY <4>2 DEF AddElements
        <5>3. \A d \in Dirs : element'[<<d, Ue(w)>>] =
                 IF d = dir[w] THEN "current" ELSE element[<<d, Ue(w)>>]
          BY <4>2 DEF AddElements
        <5>4. EntriesFit(w)'
          <6> HIDE <3>2 DEF Together, TypeOK
          <6>1. pc'[w] = "insert" /\ dir[w] \in Dirs
            BY <2>5, <5>1
          <6>2. CASE dir[w] = "SENDER"
            BY <5>1, <5>2, <6>1, <6>2
          <6>3. CASE dir[w] = "RECEIVER"
            BY <5>1, <5>2, <6>1, <6>3
          <6> QED
            BY <6>1, <6>2, <6>3
        <5>5. \A d \in Dirs : Together(d, Ue(w), dir[w], p)'
          <6> HIDE <3>1 DEF EntriesFit, TypeOK
          <6> QED
            BY <3>2, <5>1, <5>2, <5>3
        <5> QED
          BY <5>1, <5>4, <5>5
      <4>3. CASE InsertPeer(w)
        BY <4>3 DEF InsertPeer
      <4>4. CASE ApplyOffer(w)
        BY <1>3, <4>4 DEF ApplyOffer
      <4>5. CASE ResetElements(w)
        BY <4>5 DEF ResetElements
      <4>6. CASE ErasePeer(w)
        BY <4>6 DEF ErasePeer
      <4> QED
        BY <1>3, <4>1, <4>2, <4>3, <4>4, <4>5, <4>6
    <3> QED
      BY <3>1, <3>5 DEF AloneAt
  <2>8. MediaKept'
    BY <2>1, <2>2, <2>3, <2>5, <2>6, <2>7, WorkerStep
  <2> QED
    BY <2>4, <2>8
<1> QED
  BY <1>1, <1>2, <1>3

\* The pipeline is closed or replaced: no call is at work on what it takes.
LEMMA PipelineMedia ==
    ASSUME TypeOK, TypeOK', MediaKept, FreedNeedsOverlap,
           BusError \/ CloseStep \/ LaunchBare
    PROVE  (MediaKept /\ FreedNeedsOverlap)'
<1> USE DEF Up, mediaVars, floorVars
<1>1. CASE BusError
  <2>1. /\ closing = "no" /\ closing' = "stripSenders" /\ UNCHANGED <<pc, dir, element, peers>>
        /\ raced' = raced \cup Busy(MediaPoints) /\ fault = "none" /\ fault' = "none"
    BY <1>1 DEF BusError, MediaPoints, launchVars
  <2>2. \A u \in Ues : u \notin raced' => u \notin raced /\ u \notin Busy(MediaPoints)'
    BY <2>1 DEF Busy
  <2>3. (MediaCallAlone /\ ClosingAlone /\ Paired)'
    BY <2>1, <2>2, BusyIs, BusyIsNext, WorkerHasUe DEF MediaCallAlone, ClosingAlone, Paired, Clear
  <2>4. EntryHasElements'
    <3>1. \A d \in Dirs, u \in Ues, p \in {"insert", "erase"} : At(d, u, p)' <=> At(d, u, p)
      BY <2>1 DEF At
    <3>2. \A d \in Dirs : closing # Clear(d)
      BY <2>1 DEF Clear
    <3> QED
      BY <2>1, <2>2, <3>1, <3>2 DEF MediaKept, EntryHasElements
  <2>5. FreedNeedsOverlap'
    BY <2>1 DEF FreedNeedsOverlap, Busy
  <2> QED
    BY <2>3, <2>4, <2>5 DEF MediaKept
<1>2. CASE LaunchBare
  <2>1. UNCHANGED <<pc, dir, peers, closing, raced, fault>>
    BY <1>2 DEF LaunchBare
  <2>2. \A d \in Dirs, u \in Ues : element'[<<d, u>>] =
            IF element[<<d, u>>] = "current" THEN "old" ELSE element[<<d, u>>]
    BY <1>2 DEF LaunchBare
  <2>3. (MediaCallAlone /\ ClosingAlone /\ Paired)'
    BY <2>1, <2>2
       DEF MediaKept, MediaCallAlone, EntriesFit, OtherAt, ClosingAlone, Paired, Busy, Resting, Clear
  <2>4. EntryHasElements'
    <3>1. \A d \in Dirs, u \in Ues, p \in {"insert", "erase"} : At(d, u, p)' <=> At(d, u, p)
      BY <2>1 DEF At
    <3> QED
      BY <2>1, <2>2, <3>1 DEF MediaKept, EntryHasElements, Clear
  <2>5. FreedNeedsOverlap'
    BY <2>1 DEF FreedNeedsOverlap, NobodyAt, Busy
  <2> QED
    BY <2>3, <2>4, <2>5 DEF MediaKept
<1>3. ASSUME NEW d \in Dirs, CloseStrip(d), Crash("iterator")
      PROVE  (MediaKept /\ FreedNeedsOverlap)'
  BY <1>3, CrashKeeps DEF Faults
<1>4. CASE CloseStep /\ ~Crash("iterator")
  <2>1. closing # "no" /\ UNCHANGED <<pc, dir, raced, fault>> /\ fault = "none"
    BY <1>4 DEF CloseStep, CloseStrip, CloseClear, CloseNullify, CloseUnmap, Strip, Clear
  <2>2. FreedNeedsOverlap'
    BY <2>1 DEF FreedNeedsOverlap, NobodyAt, Busy
  <2>3. MediaKept'
    <3>1. /\ \A w \in Workers : Ue(w) \notin raced => pc[w] \notin MediaPoints
          /\ Busy(MediaPoints)' \subseteq raced'
          /\ ClosingAlone /\ EntryHasElements
      BY <2>1, BusyIs DEF MediaKept, ClosingAlone, Busy
    <3>2. MediaCallAlone'
      BY <2>1, <3>1 DEF MediaCallAlone
    <3>3. \A e \in Dirs, u \in Ues \ raced, q \in {"insert", "erase"} : ~At(e, u, q) /\ ~At(e, u, q)'
      BY <2>1, <3>1, MediaPointNames DEF At
    <3>4. \A e \in Dirs, u \in Ues \ raced :
             /\ element[<<e, u>>] = "current" => <<e, u>> \in peers
             /\ <<e, u>> \in peers => element[<<e, u>>] \in {"current", "old"} \/ closing = Clear(e)
      BY <3>1, <3>3 DEF EntryHasElements
    <3>5. (EntryHasElements /\ ClosingAlone /\ Paired)'
      <4> SUFFICES /\ \A e \in Dirs, u \in Ues \ raced :
                        (/\ element[<<e, u>>] = "current" => <<e, u>> \in peers
                         /\ <<e, u>> \in peers =>
                               element[<<e, u>>] \in {"current", "old"} \/ closing = Clear(e))'
                   /\ ClosingAlone'
                   /\ Paired'
        BY <2>1, <3>3 DEF EntryHasElements
      <4> USE <2>1, <3>1 DEF ClosingAlone, Paired, Strip, Clear, Dirs
      <4>1. ASSUME NEW d \in Dirs, CloseStrip(d)
            PROVE  /\ \A e \in Dirs, u \in Ues \ raced :
                        (/\ element[<<e, u>>] = "current" => <<e, u>> \in peers
                         /\ <<e, u>> \in peers =>
                               element[<<e, u>>] \in {"current", "old"} \/ closing = Clear(e))'
                   /\ ClosingAlone'
                   /\ Paired'
        <5>1. /\ closing = Strip(d) /\ closing' = Clear(d)
              /\ \A e \in Dirs, u \in Ues \ raced :
                   /\ <<e, u>> \in peers' <=>
                        <<e, u>> \in peers /\ ~(e = d /\ element[<<e, u>>] # "current")
                   /\ element'[<<e, u>>] =
                        IF e = d /\ <<e, u>> \in peers /\ element[<<e, u>>] = "current"
                        THEN "freed" ELSE element[<<e, u>>]
          BY <1>4, <4>1 DEF CloseStrip
        <5> QED
          BY <3>4, <5>1
      <4>2. ASSUME NEW d \in Dirs, CloseClear(d)
            PROVE  /\ \A e \in Dirs, u \in Ues \ raced :
                        (/\ element[<<e, u>>] = "current" => <<e, u>> \in peers
                         /\ <<e, u>> \in peers =>
                               element[<<e, u>>] \in {"current", "old"} \/ closing = Clear(e))'
                   /\ ClosingAlone'
                   /\ Paired'
        <5>1. /\ closing = Clear(d)
              /\ closing' = IF d = "SENDER" THEN "stripReceivers" ELSE "nullify"
              /\ \A e \in Dirs, u \in Ues \ raced :
                   /\ <<e, u>> \in peers' <=> <<e, u>> \in peers /\ e # d
                   /\ element'[<<e, u>>] =
                        IF e = d /\ element[<<e, u>>] = "freed" THEN "none" ELSE element[<<e, u>>]
          BY <4>2 DEF CloseClear
        <5>2. \A u \in Ues \ raced : element[<<d, u>>] # "current"
          BY <5>1, <3>4
        <5> QED
          BY <3>4, <5>1, <5>2
      <4>3. CASE CloseNullify
        BY <3>4, <4>3 DEF CloseNullify
      <4>4. CASE CloseUnmap
        BY <3>4, <4>4 DEF CloseUnmap
      <4> QED
        BY <1>4, <4>1, <4>2, <4>3, <4>4 DEF CloseStep
    <3> QED
      BY <3>2, <3>5 DEF MediaKept
  <2> QED
    BY <2>1, <2>2, <2>3
<1> QED
  BY <1>1, <1>2, <1>3, <1>4 DEF CloseStep, CloseClear, CloseNullify, CloseUnmap, Crash, launchVars

\* A new process or a new handler has nothing to keep.
LEMMA FreshMedia ==
    ASSUME TypeOK, TypeOK', MediaKept, FreedNeedsOverlap,
           ProcessRestart \/ (CreateGroup /\ ~handler)
    PROVE  (MediaKept /\ FreedNeedsOverlap)'
<1>1. /\ peers' = {} /\ closing' = "no" /\ fault' = "none"
      /\ \A d \in Dirs, u \in Ues : element'[<<d, u>>] = "none"
      /\ \A w \in Workers : pc'[w] \in {"idle", "iceWait"} /\ (pc'[w] = "iceWait" => Ue(w) \in raced')
  BY DEF ProcessRestart, CreateGroup, Up, Busy
<1> QED
  BY <1>1, MediaPointNames
     DEF MediaKept, FreedNeedsOverlap, MediaCallAlone, EntryHasElements, ClosingAlone, Paired,
         Busy, At

\* Every step keeps entries and elements together.
LEMMA NextMedia ==
    Shape /\ TypeOK' /\ MediaKept /\ FreedNeedsOverlap /\ [Next]_vars =>
        (MediaKept /\ FreedNeedsOverlap)'
<1> SUFFICES ASSUME Shape, TypeOK', MediaKept, FreedNeedsOverlap, [Next]_vars
             PROVE  (MediaKept /\ FreedNeedsOverlap)'
  OBVIOUS
<1> TypeOK
  BY DEF Shape
<1> USE DEF launchVars, mediaVars, floorVars
<1>1. CASE UNCHANGED vars
  BY <1>1, Unaffected DEF vars
<1>2. CASE Environment
  <2>1. CASE \E u \in Ues : Connect(u)
    BY <2>1, Unaffected DEF Connect
  <2>2. CASE SignallingRestart \/ LaunchReady \/ (CreateGroup /\ handler)
    BY <2>2, Unaffected DEF SignallingRestart, LaunchReady, CreateGroup
  <2>3. CASE \E m \in Media, u \in Ues : SelectorPicks(m, u)
    BY <2>3, Unaffected DEF SelectorPicks
  <2>4. CASE MapRace
    BY <2>4, CrashKeeps DEF MapRace, Faults
  <2> QED
    BY <1>2, <2>1, <2>2, <2>3, <2>4, PipelineMedia, FreshMedia DEF Environment
<1>3. CASE BusError \/ CloseStep
  BY <1>3, PipelineMedia
<1>4. CASE LookupRace
  BY <1>4, CrashKeeps DEF LookupRace, Faults
<1>5. CASE KeyFrame
  <2>1. CASE Crash("mapRace")
    BY <2>1, CrashKeeps DEF Faults
  <2>2. CASE ~Crash("mapRace")
    <3>1. /\ currentSenderUeId \in Ues /\ Crash("freed")
          /\ <<"SENDER", currentSenderUeId>> \in peers
          /\ element[<<"SENDER", currentSenderUeId>>] = "freed"
      BY <1>5, <2>2 DEF KeyFrame, TypeOK
    <3> QED
      BY <3>1, FreedEntry, CrashKeeps DEF Faults, Dirs
  <2> QED
    BY <2>1, <2>2
<1>6. ASSUME NEW w \in Workers, Call(w) PROVE (MediaKept /\ FreedNeedsOverlap)'
  <2>1. CASE SdpAnswer(w)
    <3>1. CASE Crash("nullPeer")
      BY <3>1, CrashKeeps DEF Faults
    <3>2. CASE Crash("freed") /\ ~Crash("nullPeer")
      <4>1. <<"RECEIVER", Ue(w)>> \in peers /\ element[<<"RECEIVER", Ue(w)>>] = "freed"
        BY <2>1, <3>2, WorkerHasUe DEF SdpAnswer, Crash
      <4> QED
        BY <3>2, <4>1, WorkerHasUe, FreedEntry, CrashKeeps DEF Faults, Dirs
    <3>3. CASE ~Crash("freed") /\ ~Crash("nullPeer")
      BY <2>1, <3>3, Unaffected DEF SdpAnswer
    <3> QED
      BY <3>1, <3>2, <3>3
  <2>2. CASE AcquireFloor(w)
    BY <2>2, Unaffected, MediaPointNames DEF AcquireFloor, SessionReady, Ready, Goto, TypeOK
  <2>3. CASE ReleaseFloor(w)
    BY <2>3, Unaffected, MediaPointNames DEF ReleaseFloor, SessionReady, Ready, Goto, TypeOK
  <2> QED
    BY <1>6, <2>1, <2>2, <2>3, CallMedia DEF Call
<1>7. ASSUME NEW w \in Workers, Proceed(w) PROVE (MediaKept /\ FreedNeedsOverlap)'
  <2>1. CASE GrantAudio(w)
    <3>1. CASE Crash("nullPeer")
      BY <3>1, CrashKeeps DEF Faults
    <3>2. CASE ~Crash("nullPeer")
      BY <2>1, <3>2, Unaffected, MediaPointNames DEF GrantAudio, Goto, TypeOK
    <3> QED
      BY <3>1, <3>2
  <2>2. CASE GrantVideo(w) \/ GrantOwner(w) \/ RevokeAudio(w) \/ RevokeVideo(w) \/ RevokeOwner(w)
    BY <2>2, Unaffected, MediaPointNames
       DEF GrantVideo, GrantOwner, RevokeAudio, RevokeVideo, RevokeOwner, Goto, TypeOK
  <2> QED
    BY <1>7, <2>1, <2>2, ProceedMedia DEF Proceed, Shape
<1> QED
  BY <1>1, <1>2, <1>3, <1>4, <1>5, <1>6, <1>7 DEF Next

\* MediaInv holds for every set of UEs: entries and elements come and go
\* together, unless calls of one UE or a call and the closing overlap.
THEOREM MediaInvariance == Spec => []MediaInv
<1>1. Init => Shape /\ MediaKept /\ FreedNeedsOverlap
  BY InitShape, InitMedia
<1>2. Shape /\ MediaKept /\ FreedNeedsOverlap /\ [Next]_vars
        => (Shape /\ MediaKept /\ FreedNeedsOverlap)'
  BY NextShape, NextMedia DEF Shape
<1>3. Shape /\ MediaKept /\ FreedNeedsOverlap => MediaInv
  BY SplitMediaInv DEF Shape
<1> QED
  BY <1>1, <1>2, <1>3, PTL DEF Spec

\* Between its calls a UE has an entry just when it has elements.
THEOREM PeersKept == Spec => []PeersMatchElements
  BY MediaInvariance, PTL DEF MediaInv

\* A freed element is met only where calls overlap, or on the way from the
\* element to the entry.
THEOREM FreedMet == Spec => []FreedNeedsOverlap
  BY MediaInvariance, PTL DEF MediaInv

----------------------------------------------------------------------------
(* The UEs that have closed.                                                *)

\* A UE that has closed makes no offers, and has entries only while it is reset.
ClosedResets ==
    \A u \in Ues : session[u] = "closed" =>
        /\ \A w \in Workers : Ue(w) = u => pc[w] \notin OfferPoints
        /\ u \notin raced /\ (\A w \in Workers : Ue(w) = u => pc[w] \notin ResetPoints) =>
              \A d \in Dirs : <<d, u>> \notin peers

\* Steps that close nobody, end no reset, and insert entries and begin offers only
\* for UEs that have not closed.
LEMMA StaysReset ==
    ASSUME ClosedResets, raced \subseteq raced',
           \A u \in Ues : session'[u] = "closed" => session[u] = "closed",
           \A x \in peers' : x \in peers \/ session[x[2]] # "closed",
           \A w \in Workers :
              /\ pc[w] \in ResetPoints => pc'[w] \in ResetPoints
              /\ pc'[w] \in OfferPoints => pc[w] \in OfferPoints \/ session[Ue(w)] # "closed"
    PROVE  ClosedResets'
<1> SUFFICES ASSUME NEW u \in Ues, session'[u] = "closed"
             PROVE  /\ \A w \in Workers : Ue(w) = u => pc'[w] \notin OfferPoints
                    /\ u \notin raced' /\ (\A w \in Workers : Ue(w) = u => pc'[w] \notin ResetPoints) =>
                          \A d \in Dirs : <<d, u>> \notin peers'
  BY DEF ClosedResets
<1>1. session[u] = "closed" /\ \A w \in Workers : Ue(w) = u => pc[w] \notin OfferPoints
  BY DEF ClosedResets
<1>2. \A w \in Workers : Ue(w) = u => pc'[w] \notin OfferPoints
  BY <1>1
<1>3. ASSUME u \notin raced', \A w \in Workers : Ue(w) = u => pc'[w] \notin ResetPoints, NEW d \in Dirs
      PROVE  <<d, u>> \notin peers'
  <2>1. <<d, u>> \notin peers
    BY <1>1, <1>3 DEF ClosedResets
  <2> QED
    BY <1>1, <2>1
<1> QED
  BY <1>2, <1>3

\* ... and steps that leave all of that alone.
LEMMA LeavesReset ==
    ASSUME ClosedResets, raced' = raced, session' = session, peers' \subseteq peers,
           \A w \in Workers : pc'[w] = pc[w] \/ (pc[w] \notin ResetPoints /\ pc'[w] \notin OfferPoints)
    PROVE  ClosedResets'
  BY StaysReset

\* Every step keeps it.
LEMMA NextReset ==
    ASSUME Shape, MediaKept, ClosedResets, [Next]_vars PROVE ClosedResets'
<1> USE DEF launchVars, mediaVars, floorVars
<1>a. /\ pc \in [Workers -> Points] /\ dir \in [Workers -> Dirs]
      /\ session \in [Ues -> {"new", "open", "closed", "lost"}] /\ raced \subseteq Ues
      /\ CallsFit
  BY DEF Shape, TypeOK
<1>b. OfferPoints \cap ResetPoints = {} /\ "idle" \notin OfferPoints \cup ResetPoints
      /\ "iceWait" \notin OfferPoints \cup ResetPoints
      /\ \A point \in FloorPoints : point \notin OfferPoints \cup ResetPoints
  BY DEF OfferPoints, ResetPoints, FloorPoints, GrantPoints, RevokePoints
<1>c. ASSUME NEW cause, Crash(cause) PROVE ClosedResets'
  BY <1>c, LeavesReset DEF Crash
<1>d. ASSUME NEW w \in Workers, NEW point, Goto(w, point),
             raced \subseteq raced', session' = session,
             \A x \in peers' : x \in peers \/ session[x[2]] # "closed",
             pc[w] \in ResetPoints => point \in ResetPoints,
             point \in OfferPoints => pc[w] \in OfferPoints \/ session[Ue(w)] # "closed"
      PROVE  ClosedResets'
  <2>1. \A v \in Workers : pc'[v] = IF v = w THEN point ELSE pc[v]
    BY <1>a, <1>d DEF Goto
  <2> QED
    BY <1>d, <2>1, StaysReset
<1>e. \A points : \A w \in Workers : raced \subseteq RacedBy(w, points)
  BY DEF RacedBy
<1>f. ASSUME peers' = {}, \A w \in Workers : pc'[w] \in {"idle", "iceWait"} PROVE ClosedResets'
  BY <1>f, <1>b DEF ClosedResets
<1>1. CASE UNCHANGED vars
  BY <1>1, LeavesReset DEF vars
<1>2. CASE Environment
  <2>1. ASSUME NEW u \in Ues, Connect(u) PROVE ClosedResets'
    <3>1. UNCHANGED <<raced, pc, peers>> /\ \A v \in Ues : session'[v] = "closed" => session[v] = "closed"
      BY <1>a, <2>1 DEF Connect
    <3> QED
      BY <1>b, <3>1, StaysReset
  <2>2. CASE SignallingRestart
    <3>1. UNCHANGED <<raced, pc, peers>> /\ \A v \in Ues : session'[v] = "closed" => session[v] = "closed"
      BY <1>a, <2>2 DEF SignallingRestart
    <3> QED
      BY <1>b, <3>1, StaysReset
  <2>3. CASE CreateGroup
    <3>1. CASE handler
      BY <2>3, <3>1, LeavesReset DEF CreateGroup
    <3>2. CASE ~handler
      BY <1>f, <2>3, <3>2 DEF CreateGroup
    <3> QED
      BY <3>1, <3>2
  <2>4. CASE LaunchBare \/ LaunchReady \/ \E m \in Media, u \in Ues : SelectorPicks(m, u)
    BY <2>4, LeavesReset DEF LaunchBare, LaunchReady, SelectorPicks
  <2>5. CASE MapRace
    BY <1>c, <2>5 DEF MapRace
  <2>6. CASE ProcessRestart
    BY <1>f, <2>6 DEF ProcessRestart
  <2> QED
    BY <1>2, <2>1, <2>2, <2>3, <2>4, <2>5, <2>6 DEF Environment
<1>3. CASE BusError
  BY <1>3, StaysReset DEF BusError
<1>4. CASE CloseStep
  <2>1. ASSUME NEW d \in Dirs, CloseStrip(d) PROVE ClosedResets'
    BY <1>c, <2>1, LeavesReset DEF CloseStrip
  <2>2. ASSUME NEW d \in Dirs, CloseClear(d) PROVE ClosedResets'
    BY <2>2, LeavesReset DEF CloseClear
  <2>3. CASE CloseNullify \/ CloseUnmap
    BY <2>3, LeavesReset DEF CloseNullify, CloseUnmap
  <2> QED
    BY <1>4, <2>1, <2>2, <2>3 DEF CloseStep
<1>5. CASE LookupRace \/ KeyFrame
  BY <1>c, <1>5 DEF LookupRace, KeyFrame
<1>6. ASSUME NEW w \in Workers, Call(w) PROVE ClosedResets'
  <2>1. CASE SdpOffer(w)
    BY <1>b, <1>d, <1>e, <2>1 DEF SdpOffer, SessionReady, Ready
  <2>2. CASE SdpAnswer(w)
    BY <1>c, <2>2, LeavesReset DEF SdpAnswer
  <2>3. CASE IceMessage(w)
    BY <1>b, <1>c, <1>d, <1>e, <2>3 DEF IceMessage, SessionReady, Ready
  <2>4. CASE UeReset(w)
    <3>1. /\ pc[w] = "idle" /\ Goto(w, "reset") /\ raced \subseteq raced' /\ peers' = peers
          /\ \/ w[2] = "session" /\ session' \in {session, [session EXCEPT ![Ue(w)] = "closed"]}
             \/ w[2] = "failure" /\ session' = session
      BY <1>e, <2>4 DEF UeReset, Ready
    <3>2. CASE session' = session
      BY <1>b, <1>d, <3>1, <3>2 DEF ResetPoints
    <3>3. CASE w[2] = "session" /\ session' = [session EXCEPT ![Ue(w)] = "closed"]
      <4>1. /\ \A v \in Workers : pc'[v] = IF v = w THEN "reset" ELSE pc[v]
            /\ \A u \in Ues \ {Ue(w)} : session'[u] = session[u]
        BY <1>a, <3>1, <3>3 DEF Goto
      <4>2. \A v \in Workers : Ue(v) = Ue(w) => pc'[v] \notin OfferPoints
        <5>1. \A v \in Workers \ {w} : Ue(v) = Ue(w) => v[2] = "failure"
          BY <3>3, WorkerHasUe, WorkerOf
        <5> QED
          BY <1>a, <1>b, <4>1, <5>1 DEF CallsFit, ResetPoints
      <4>3. \A u \in Ues \ {Ue(w)}, v \in Workers : Ue(v) = u => pc'[v] = pc[v]
        BY <4>1
      <4>4. Ue(w) \in Ues /\ pc'[w] \in ResetPoints
        BY <4>1, WorkerHasUe DEF ResetPoints
      <4> QED
        BY <3>1, <4>1, <4>2, <4>3, <4>4 DEF ClosedResets
    <3> QED
      BY <3>1, <3>2, <3>3
  <2>5. CASE AcquireFloor(w)
    BY <1>b, <1>d, <2>5 DEF AcquireFloor, SessionReady, Ready, FloorPoints, GrantPoints
  <2>6. CASE ReleaseFloor(w)
    <3>1. CASE UNCHANGED pc
      BY <2>6, <3>1, LeavesReset DEF ReleaseFloor
    <3>2. CASE Goto(w, "revokeAudio")
      BY <1>b, <1>d, <2>6, <3>2 DEF ReleaseFloor, SessionReady, Ready, FloorPoints, RevokePoints
    <3> QED
      BY <2>6, <3>1, <3>2 DEF ReleaseFloor
  <2> QED
    BY <1>6, <2>1, <2>2, <2>3, <2>4, <2>5, <2>6 DEF Call
<1>7. ASSUME NEW w \in Workers, Proceed(w) PROVE ClosedResets'
  <2>a. pc[w] \in OfferPoints => session[Ue(w)] # "closed"
    BY WorkerHasUe DEF ClosedResets
  <2>1. CASE AddExisting(w)
    BY <1>b, <1>d, <2>1, <2>a DEF AddExisting, AfterAdd, OfferPoints
  <2>2. CASE AddElements(w)
    BY <1>b, <1>d, <2>2, <2>a DEF AddElements, OfferPoints
  <2>3. CASE AddAborts(w)
    BY <1>c, <2>3 DEF AddAborts
  <2>4. CASE InsertPeer(w)
    <3>1. \A x \in peers' : x \in peers \/ session[x[2]] # "closed"
      BY <2>4, <2>a DEF InsertPeer, OfferPoints
    <3> QED
      BY <1>b, <1>d, <2>4, <2>a, <3>1 DEF InsertPeer, AfterAdd, OfferPoints
  <2>5. CASE ApplyOffer(w)
    BY <1>b, <1>c, <1>d, <2>5, <2>a DEF ApplyOffer, OfferPoints
  <2>6. CASE ResetElements(w)
    BY <1>b, <1>d, <2>6 DEF ResetElements, ResetPoints
  <2>7. CASE ErasePeer(w)
    <3>1. /\ pc[w] = "erase" /\ peers' = peers \ {<<dir[w], Ue(w)>>}
          /\ UNCHANGED <<session, raced>>
          /\ Goto(w, IF dir[w] = "SENDER" THEN "reset" ELSE "idle")
      BY <2>7 DEF ErasePeer
    <3>2. CASE dir[w] = "SENDER"
      BY <1>b, <1>d, <3>1, <3>2 DEF ResetPoints
    <3>3. CASE dir[w] # "SENDER"
      <4>1. dir[w] = "RECEIVER" /\ Goto(w, "idle")
        BY <1>a, <3>1, <3>3 DEF Dirs
      <4>2. Ue(w) \in Ues /\ \A v \in Workers : pc'[v] = IF v = w THEN "idle" ELSE pc[v]
        BY <1>a, <4>1, WorkerHasUe DEF Goto
      <4>3. Ue(w) \notin raced => \A d \in Dirs : <<d, Ue(w)>> \notin peers'
        <5>1. Ue(w) \notin raced => <<"SENDER", Ue(w)>> \notin peers
          BY <3>1, <4>1, MediaPointNames DEF MediaKept, MediaCallAlone, EntriesFit, ResetPoints
        <5> QED
          BY <3>1, <4>1, <5>1 DEF Dirs
      <4>4. \A u \in Ues \ {Ue(w)}, v \in Workers : Ue(v) = u => pc'[v] = pc[v]
        BY <4>2
      <4>5. ASSUME NEW v \in Workers, pc'[v] \in OfferPoints PROVE pc'[v] = pc[v]
        BY <1>b, <4>2, <4>5
      <4> QED
        BY <3>1, <4>2, <4>3, <4>4, <4>5 DEF ClosedResets
    <3> QED
      BY <3>2, <3>3
  <2>8. CASE GrantAudio(w) \/ GrantVideo(w) \/ GrantOwner(w)
    <3>1. CASE Crash("nullPeer")
      BY <1>c, <3>1
    <3>2. CASE ~Crash("nullPeer")
      BY <1>b, <1>d, <2>8, <3>2 DEF GrantAudio, GrantVideo, GrantOwner, FloorPoints, GrantPoints
    <3> QED
      BY <3>1, <3>2
  <2>9. CASE RevokeAudio(w) \/ RevokeVideo(w) \/ RevokeOwner(w)
    BY <1>b, <1>d, <2>9 DEF RevokeAudio, RevokeVideo, RevokeOwner, FloorPoints, RevokePoints
  <2> QED
    BY <1>7, <2>1, <2>2, <2>3, <2>4, <2>5, <2>6, <2>7, <2>8, <2>9 DEF Proceed
<1> QED
  BY <1>1, <1>2, <1>3, <1>4, <1>5, <1>6, <1>7 DEF Next

\* A UE that has closed leaves no entry behind in the group, in whatever order its
\* offers, its own reset and the resets of failed deliveries come, unless calls of
\* its own overlapped.
THEOREM ClosedLeave == Spec => []ClosedIsGone
<1>1. Init => Shape /\ MediaKept /\ FreedNeedsOverlap /\ ClosedResets
  <2>1. Init => ClosedResets
    BY DEF Init, ClosedResets
  <2> QED
    BY <2>1, InitShape, InitMedia
<1>2. Shape /\ MediaKept /\ FreedNeedsOverlap /\ ClosedResets /\ [Next]_vars
        => (Shape /\ MediaKept /\ FreedNeedsOverlap /\ ClosedResets)'
  BY NextShape, NextMedia, NextReset DEF Shape
<1>3. ClosedResets => ClosedIsGone
  BY DEF ClosedResets, ClosedIsGone, Resting, MediaPoints
<1> QED
  BY <1>1, <1>2, <1>3, PTL DEF Spec
=============================================================================
