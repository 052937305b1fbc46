--------------------------- MODULE AudioChannel_proofs ---------------------------
(***************************************************************************)
(* What AudioChannel keeps of the conference for every set of peers and    *)
(* every number of starts.  The inductive invariant IInv ties the point a  *)
(* call has reached to the parts and the map entries its peer has then.    *)
(* Each of its parts says what it needs to hold: nothing (Sessions,        *)
(* CallsFit, Launches), that no second start of the signalling server has  *)
(* replaced a handler (Plain), or also, for each peer, that no two calls   *)
(* about it have met (Alone, Stages, Intent).                              *)
(***************************************************************************)
EXTENDS AudioChannel, TLAPS

Session(p) == <<p, "session">>
Failure(p) == <<p, "failure">>
Past(w) == call[w].at \notin {"idle", "lookup"}
Single == "relaunch" \notin irregular
Calm == {p \in Peers : Single /\ "overlap" \notin misused[p]}
IceKinds == {"senderIce", "answer", "receiverIce"}

\* Sessions start with nothing under way, and only undeliverable messages
\* report a peer besides its session.
Ready(p) ==
    /\ session[p] = "new" =>
          /\ browser[p] = "out" /\ call[Session(p)] = Idle
          /\ \A kind \in {"answer", "offer", "reset"} : <<kind, p>> \notin toDeliver
    /\ session[p] # "new" => starts # 0
    /\ session[p] \in {"new", "open"} => call[Failure(p)] = Idle
    /\ session[p] = "open" => call[Session(p)].kind # "close"
    /\ session[p] = "open" /\ call[Session(p)].at # "idle" =>
          (browser[p] = "out" <=> call[Session(p)].kind = "reset")
    /\ call[Session(p)].at # "idle" /\ call[Session(p)].kind = "join" => browser[p] # "out"
    /\ session[p] = "closed" => call[Session(p)].at = "idle" \/ call[Session(p)].kind = "close"
    /\ call[Failure(p)].at # "idle" => call[Failure(p)].kind = "close"

\* Without a channel there is no session, and there is a handler for every start
\* until the media server dies.
Sessions ==
    /\ starts = 0 => ~channel
    /\ ~channel => \A p \in Peers : session[p] \in {"new", "lost"}
    /\ "restart" \notin irregular => current = starts
    /\ \A p \in Peers : Ready(p)

\* A call's point is one of its kind.
Fits(c) ==
    /\ c.at \in AddPoints => c.kind = "join"
    /\ c.at \in RemovePoints => c.kind \in {"reset", "close"}
    /\ c.at \in IceKinds => c.kind = c.at

CallsFit == \A w \in Workers : Fits(call[w])

\* A launch that goes on has a handler, and gives it a pipeline.
Launched(n) ==
    /\ launch[n].at \in {"pipeline", "elements", "running"} => launch[n].handler # 0
    /\ launch[n].at \in {"elements", "running"} => handlers[launch[n].handler].pipeline # 0

Launches == \A n \in Starts : Launched(n)

\* There is one handler, at most, with one pipeline, which its launch has
\* brought as far as it has come.
Unused(n) ==
    launch[n] = NoLaunch /\ handlers[n] = NewHandler /\ parts[n] = {} /\ n \notin mixers

OnePipeline ==
    /\ current \in {0, starts}
    /\ \A n \in Starts : n # current => Unused(n)
    /\ current # 0 =>
          /\ launch[current].at \in {"fetch", "pipeline", "elements", "running"}
          /\ launch[current].at # "fetch" => launch[current].handler = current
          /\ launch[current].at \in {"fetch", "pipeline"} =>
                handlers[current].pipeline = 0 /\ parts[current] = {}
          /\ launch[current].at \in {"elements", "running"} =>
                handlers[current].pipeline = current
          /\ current \in mixers <=> launch[current].at = "running"

\* Without a handler nothing goes on, and without a channel nothing waits.
NoChannel ==
    /\ ~channel => /\ current = 0
                   /\ \A w \in Workers : call[w] = Idle
    /\ current = 0 => toDeliver = {}

\* Calls have that handler, and joins its mixer.
OneHandler ==
    /\ \A w \in Workers : Past(w) => current # 0 /\ call[w].handler = current
    /\ \A w \in Workers : call[w].at \in AddPoints /\ "early" \notin misused[w[1]] =>
          launch[current].at = "running"

Plain == Single => OnePipeline /\ NoChannel /\ OneHandler

\* Of a peer's two workers one, at most, is past its lookup.
Apart(p) ==
    /\ ~(Past(Session(p)) /\ Past(Failure(p)))
    /\ call[Session(p)].at # "idle" /\ call[Session(p)].kind # "close" => ~Past(Failure(p))

Alone == \A p \in Calm : Apart(p)

\* The map entries and the parts of a peer.
Holds(p, sends, hears, has) ==
    /\ p \in handlers[current].senders <=> sends
    /\ p \in handlers[current].receivers <=> hears
    /\ \A x \in Parts : <<x, p>> \in parts[current] <=> x \in has

In(p) == Holds(p, TRUE, TRUE, Parts)
Out(p) == Holds(p, FALSE, FALSE, {})

\* What a peer has when a call about it has come to a point.
Stage(p, at) ==
    /\ at \in {"register", "remove"} => In(p) \/ Out(p)
    /\ at \in IceKinds \cup {"apply"} => In(p)
    /\ at = "addSend" => In(p) \/ Holds(p, TRUE, FALSE, {})
    /\ at = "mix" => Holds(p, TRUE, FALSE, {"send"})
    /\ at = "registerReceiver" => Holds(p, TRUE, FALSE, {"send", "mix"})
    /\ at = "addReceiver" => Holds(p, TRUE, TRUE, {"send", "mix"})
    /\ at = "tee" => Holds(p, TRUE, TRUE, {"send", "mix", "recv"})
    /\ at = "removeReceiver" => Holds(p, TRUE, TRUE, {"recv", "tee"})
    /\ at = "eraseSender" => Holds(p, TRUE, TRUE, {})
    /\ at = "eraseReceiver" => Holds(p, FALSE, TRUE, {})
    /\ at = "notify" => Out(p)

Staged(p) ==
    /\ ~Past(Session(p)) /\ ~Past(Failure(p)) => In(p) \/ Out(p)
    /\ \A at \in Points :
          at \in {call[Session(p)].at, call[Failure(p)].at} => Stage(p, at)

Stages == current # 0 => \A p \in Calm : Staged(p)

\* What the browser wants, and what the call on its way will find.
Wanted(p) ==
    LET c == call[Session(p)] IN
    /\ session[p] \in {"new", "open"} /\ c.at = "idle" =>
          IF browser[p] = "out" THEN Out(p) ELSE In(p)
    /\ "joinedTwice" \notin misused[p] /\ c.kind = "join" =>
          /\ c.at \in {"lookup", "register"} => Out(p)
          /\ c.at = "addSend" => Holds(p, TRUE, FALSE, {})
    /\ c.at = "lookup" /\ c.kind \in IceKinds => In(p)
    /\ session[p] = "closed" /\ c.at = "idle" =>
          Out(p) /\ call[Failure(p)].at \in {"idle", "lookup", "remove"}

Intent == current # 0 => \A p \in Calm : Wanted(p)

IInv ==
    /\ TypeOK /\ Sessions /\ CallsFit /\ Launches
    /\ Plain /\ Alone /\ Stages /\ Intent /\ FaultHasCause

\* The workers are the peers' two, all different.
LEMMA WorkerKinds ==
    /\ \A p \in Peers :
        /\ Session(p) \in Workers /\ Failure(p) \in Workers
        /\ Session(p)[1] = p /\ Failure(p)[1] = p /\ Session(p) # Failure(p)
    /\ \A w \in Workers : w[1] \in Peers /\ w \in {Session(w[1]), Failure(w[1])}
    /\ \A p, q \in Peers : p # q =>
          Session(p) # Session(q) /\ Session(p) # Failure(q) /\ Failure(p) # Failure(q)
  BY DEF Workers, Session, Failure

\* A worker that calls, goes on or returns has a call again.
LEMMA CallTypes ==
  ASSUME call \in [Workers -> CallRecords], NEW w \in Workers,
         \/ \E kind \in Kinds : Send(w, kind)
         \/ \E point \in Points : Goto(w, point)
         \/ Return(w)
  PROVE call' \in [Workers -> CallRecords]
<1>1. Idle \in CallRecords
  BY AudioAssumption DEF Idle, CallRecords, Points, Kinds
<1>2. ASSUME NEW kind \in Kinds, Send(w, kind) PROVE call' \in [Workers -> CallRecords]
  <2>1. [Idle EXCEPT !.at = "lookup", !.kind = kind] \in CallRecords
    BY <1>1 DEF CallRecords, Points
  <2> QED
    BY <1>2, <2>1 DEF Send
<1>3. ASSUME NEW point \in Points, Goto(w, point) PROVE call' \in [Workers -> CallRecords]
  <2>1. [call[w] EXCEPT !.at = point] \in CallRecords
    BY DEF CallRecords
  <2> QED
    BY <1>3, <2>1 DEF Goto
<1>4. CASE Return(w)
  BY <1>1, <1>4 DEF Return
<1> QED
  BY <1>2, <1>3, <1>4

\* Peers come into the maps of a handler and leave them.
LEMMA FieldTypes ==
  ASSUME NEW h \in HandlerRecords, NEW p \in Peers, NEW d \in BOOLEAN
  PROVE  /\ [h EXCEPT !.senders = @ \cup {p}] \in HandlerRecords
         /\ [h EXCEPT !.receivers = @ \cup {p}] \in HandlerRecords
         /\ [h EXCEPT !.senders = @ \ {p}] \in HandlerRecords
         /\ [h EXCEPT !.receivers = @ \ {p}, !.dangling = @ \/ d] \in HandlerRecords
  BY DEF HandlerRecords

\* A handler whose fields are written stays a handler.
LEMMA HandlerTypes ==
  ASSUME handlers \in [Starts -> HandlerRecords], NEW w \in Workers,
         NEW handler, call[w].handler \in Starts => handler \in HandlerRecords, Set(w, handler)
  PROVE handlers' \in [Starts -> HandlerRecords]
  BY DEF Set

\* Parts that are put in or taken out are parts of the worker's peer.
LEMMA PartTypes ==
  ASSUME parts \in [Starts -> SUBSET (Parts \X Peers)], NEW w \in Workers,
         \/ \E x \in Parts : PutIn(w, x)
         \/ \E S \in SUBSET Parts : TakeOut(w, S)
  PROVE parts' \in [Starts -> SUBSET (Parts \X Peers)]
<1>1. w[1] \in Peers
  BY WorkerKinds
<1> QED
  BY <1>1 DEF PutIn, TakeOut

\* What is noted of a peer adds to what was, and to nothing of another peer's.
LEMMA Noted ==
  ASSUME misused \in [Peers -> SUBSET Misuses], NEW p \in Peers,
         NEW what \in SUBSET Misuses, Note(p, what)
  PROVE  /\ misused' \in [Peers -> SUBSET Misuses]
         /\ misused'[p] = misused[p] \cup what
         /\ \A q \in Peers : misused[q] \subseteq misused'[q]
  BY DEF Note

\* A process that dies keeps its types.
LEMMA CrashTypes ==
  ASSUME TypeOK, NEW cause \in Faults, Crash(cause) PROVE TypeOK'
  BY DEF TypeOK, Crash, clientVars, serverVars

\* Every step keeps the types.
LEMMA NextTypes ==
  ASSUME TypeOK, Launches, [Next]_vars PROVE TypeOK'
<1> USE DEF TypeOK, clientVars, serverVars, historyVars
<1>0. CASE UNCHANGED vars
  BY <1>0 DEF vars, clientVars, serverVars, historyVars
<1>1. CASE CreateAudioChannel
  <2>1. starts + 1 \in 0..MaxStarts
    BY <1>1, AudioAssumption DEF CreateAudioChannel
  <2>2. launch' \in [Starts -> LaunchRecords]
    BY <1>1 DEF CreateAudioChannel, LaunchRecords
  <2> QED
    BY <1>1, <2>1, <2>2 DEF CreateAudioChannel
<1>2. CASE SignallingRestart
  BY <1>2 DEF SignallingRestart, Irregularities
<1>3. CASE ProcessRestart
  <2>1. 0 \in 0..MaxStarts
    BY AudioAssumption
  <2>2. {} \in SUBSET (Parts \X Peers)
    OBVIOUS
  <2>3. Idle \in CallRecords
    BY AudioAssumption DEF Idle, CallRecords, Points, Kinds
  <2>4. NewHandler \in HandlerRecords
    BY AudioAssumption DEF NewHandler, HandlerRecords
  <2>5. NoLaunch \in LaunchRecords
    BY AudioAssumption DEF NoLaunch, LaunchRecords
  <2> QED
    BY <1>3, <2>1, <2>2, <2>3, <2>4, <2>5 DEF ProcessRestart, Irregularities, Faults, Starts
<1>4. CASE MapRace
  BY <1>4, CrashTypes DEF MapRace, Faults
<1>5. ASSUME NEW p \in Peers, Connect(p) PROVE TypeOK'
  BY <1>5 DEF Connect
<1>6. ASSUME NEW p \in Peers, Break(p) PROVE TypeOK'
  BY <1>6 DEF Break
<1>7. ASSUME NEW p \in Peers, Close(p) PROVE TypeOK'
  <2>1. \E kind \in Kinds : Send(Session(p), kind)
    BY <1>7 DEF Close, Session, Kinds
  <2>2. call' \in [Workers -> CallRecords]
    BY <2>1, CallTypes, WorkerKinds
  <2> QED
    BY <1>7, <2>1, <2>2 DEF Close
<1>8. ASSUME NEW p \in Peers, Join(p) PROVE TypeOK'
  <2>1. \E kind \in Kinds : Send(Session(p), kind)
    BY <1>8 DEF Join, Session, Kinds
  <2>2. call' \in [Workers -> CallRecords]
    BY <2>1, CallTypes, WorkerKinds
  <2>3. misused' \in [Peers -> SUBSET Misuses]
    BY <1>8, Noted DEF Join, Misuses
  <2> QED
    BY <1>8, <2>1, <2>2, <2>3 DEF Join
<1>9. ASSUME NEW p \in Peers, SenderCandidate(p) PROVE TypeOK'
  <2>1. \E kind \in Kinds : Send(Session(p), kind)
    BY <1>9 DEF SenderCandidate, Session, Kinds
  <2>2. call' \in [Workers -> CallRecords]
    BY <2>1, CallTypes, WorkerKinds
  <2> QED
    BY <1>9, <2>1, <2>2 DEF SenderCandidate
<1>10. ASSUME NEW p \in Peers, ReceiverAnswer(p) PROVE TypeOK'
  <2>1. \E kind \in Kinds : Send(Session(p), kind)
    BY <1>10 DEF ReceiverAnswer, Session, Kinds
  <2>2. call' \in [Workers -> CallRecords]
    BY <2>1, CallTypes, WorkerKinds
  <2> QED
    BY <1>10, <2>1, <2>2 DEF ReceiverAnswer
<1>11. ASSUME NEW p \in Peers, ReceiverCandidate(p) PROVE TypeOK'
  <2>1. \E kind \in Kinds : Send(Session(p), kind)
    BY <1>11 DEF ReceiverCandidate, Session, Kinds
  <2>2. call' \in [Workers -> CallRecords]
    BY <2>1, CallTypes, WorkerKinds
  <2> QED
    BY <1>11, <2>1, <2>2 DEF ReceiverCandidate
<1>12. ASSUME NEW p \in Peers, QuitAudio(p) PROVE TypeOK'
  <2>1. \E kind \in Kinds : Send(Session(p), kind)
    BY <1>12 DEF QuitAudio, Session, Kinds
  <2>2. call' \in [Workers -> CallRecords]
    BY <2>1, CallTypes, WorkerKinds
  <2> QED
    BY <1>12, <2>1, <2>2 DEF QuitAudio
<1>13. ASSUME NEW p \in Peers, CandidateFails(p) PROVE TypeOK'
  <2>1. Send(Failure(p), "close")
    BY <1>13 DEF CandidateFails, Failure
  <2>2. call' \in [Workers -> CallRecords]
    BY <2>1, CallTypes, WorkerKinds DEF Kinds
  <2> QED
    BY <1>13, <2>1, <2>2 DEF CandidateFails
<1>14. ASSUME NEW m \in {"answer", "offer", "reset"} \X Peers, Deliver(m) PROVE TypeOK'
  <2>1. UNCHANGED call \/ Send(Failure(m[2]), "close")
    BY <1>14 DEF Deliver, Failure
  <2>2. call' \in [Workers -> CallRecords]
    BY <2>1, CallTypes, WorkerKinds DEF Kinds
  <2> QED
    BY <1>14, <2>1, <2>2 DEF Deliver
<1>15. ASSUME NEW w \in Workers, Lookup(w) PROVE TypeOK'
  <2>1. First(call[w].kind) \in Points
    BY DEF First, CallRecords, Kinds, Points, AddPoints, RemovePoints
  <2>2. [call[w] EXCEPT !.at = First(call[w].kind), !.handler = current] \in CallRecords
    BY <2>1 DEF CallRecords
  <2>3. call' \in [Workers -> CallRecords]
    BY <1>15, <2>2 DEF Lookup
  <2>4. misused' \in [Peers -> SUBSET Misuses]
    BY <1>15, Noted, WorkerKinds DEF Lookup, Misuses
  <2> QED
    BY <1>15, <2>1, <2>2, <2>3, <2>4 DEF Lookup
<1>16. ASSUME NEW w \in Workers, LookupFails(w) PROVE TypeOK'
  <2>1. CASE Crash("nullHandler")
    BY <2>1, CrashTypes DEF Faults
  <2>2. CASE ~Crash("nullHandler")
    <3>1. Return(w)
      BY <1>16, <2>2 DEF LookupFails
    <3>2. call' \in [Workers -> CallRecords]
      BY <3>1, CallTypes
    <3> QED
      BY <1>16, <2>2, <3>1, <3>2 DEF LookupFails
  <2> QED
    BY <2>1, <2>2
<1>17. ASSUME NEW w \in Workers, SenderIce(w) PROVE TypeOK'
  <2>1. CASE Crash("nullPeer")
    BY <2>1, CrashTypes DEF Faults
  <2>2. CASE ~Crash("nullPeer")
    <3>1. Return(w) \/ \E point \in Points : Goto(w, point)
      BY <1>17, <2>2 DEF SenderIce, Points, AddPoints, RemovePoints
    <3>2. call' \in [Workers -> CallRecords]
      BY <3>1, CallTypes
    <3> QED
      BY <1>17, <2>2, <3>1, <3>2 DEF SenderIce
  <2> QED
    BY <2>1, <2>2
<1>18. ASSUME NEW w \in Workers, ForReceiver(w) PROVE TypeOK'
  <2>1. CASE Crash("nullPeer")
    BY <2>1, CrashTypes DEF Faults
  <2>2. CASE ~Crash("nullPeer")
    <3>1. Return(w) \/ \E point \in Points : Goto(w, point)
      BY <1>18, <2>2 DEF ForReceiver, Points, AddPoints, RemovePoints
    <3>2. call' \in [Workers -> CallRecords]
      BY <3>1, CallTypes
    <3> QED
      BY <1>18, <2>2, <3>1, <3>2 DEF ForReceiver
  <2> QED
    BY <2>1, <2>2
<1>19. ASSUME NEW w \in Workers, Register(w) PROVE TypeOK'
  <2>1. Return(w) \/ \E point \in Points : Goto(w, point)
    BY <1>19 DEF Register, Points, AddPoints, RemovePoints
  <2>2. call' \in [Workers -> CallRecords]
    BY <2>1, CallTypes
  <2>3. call[w].handler \in Starts => [Handler(w) EXCEPT !.senders = @ \cup {w[1]}] \in HandlerRecords
    BY FieldTypes, WorkerKinds DEF Handler
  <2>4. handlers' \in [Starts -> HandlerRecords]
    BY <1>19, <2>3, HandlerTypes DEF Register
  <2> QED
    BY <1>19, <2>1, <2>2, <2>3, <2>4 DEF Register
<1>20. ASSUME NEW w \in Workers, AddSend(w) PROVE TypeOK'
  <2>1. CASE Crash("noMixer")
    BY <2>1, CrashTypes DEF Faults
  <2>2. CASE ~Crash("noMixer")
    <3>1. Return(w) \/ \E point \in Points : Goto(w, point)
      BY <1>20, <2>2 DEF AddSend, Points, AddPoints, RemovePoints
    <3>2. call' \in [Workers -> CallRecords]
      BY <3>1, CallTypes
    <3>3. \E x \in Parts : PutIn(w, x)
      BY <1>20, <2>2 DEF AddSend, Parts
    <3>4. parts' \in [Starts -> SUBSET (Parts \X Peers)]
      BY <3>3, PartTypes
    <3>5. w[1] \in Peers
      BY WorkerKinds
    <3> QED
      BY <1>20, <2>2, <3>1, <3>2, <3>3, <3>4, <3>5 DEF AddSend
  <2> QED
    BY <2>1, <2>2
<1>21. ASSUME NEW w \in Workers, AddSendAgain(w) PROVE TypeOK'
  <2>1. CASE Crash("padLink")
    BY <2>1, CrashTypes DEF Faults
  <2>2. CASE ~Crash("padLink")
    <3>1. Return(w) \/ \E point \in Points : Goto(w, point)
      BY <1>21, <2>2 DEF AddSendAgain, Points, AddPoints, RemovePoints
    <3>2. call' \in [Workers -> CallRecords]
      BY <3>1, CallTypes
    <3> QED
      BY <1>21, <2>2, <3>1, <3>2 DEF AddSendAgain
  <2> QED
    BY <2>1, <2>2
<1>22. ASSUME NEW w \in Workers, Mix(w) PROVE TypeOK'
  <2>1. CASE Crash("noMixer") \/ Crash("padLink")
    BY <2>1, CrashTypes DEF Faults
  <2>2. CASE ~(Crash("noMixer") \/ Crash("padLink"))
    <3>1. Return(w) \/ \E point \in Points : Goto(w, point)
      BY <1>22, <2>2 DEF Mix, Points, AddPoints, RemovePoints
    <3>2. call' \in [Workers -> CallRecords]
      BY <3>1, CallTypes
    <3>3. \E x \in Parts : PutIn(w, x)
      BY <1>22, <2>2 DEF Mix, Parts
    <3>4. parts' \in [Starts -> SUBSET (Parts \X Peers)]
      BY <3>3, PartTypes
    <3>5. w[1] \in Peers
      BY WorkerKinds
    <3> QED
      BY <1>22, <2>2, <3>1, <3>2, <3>3, <3>4, <3>5 DEF Mix
  <2> QED
    BY <2>1, <2>2
<1>23. ASSUME NEW w \in Workers, RegisterReceiver(w) PROVE TypeOK'
  <2>1. Return(w) \/ \E point \in Points : Goto(w, point)
    BY <1>23 DEF RegisterReceiver, Points, AddPoints, RemovePoints
  <2>2. call' \in [Workers -> CallRecords]
    BY <2>1, CallTypes
  <2>3. call[w].handler \in Starts => [Handler(w) EXCEPT !.receivers = @ \cup {w[1]}] \in HandlerRecords
    BY FieldTypes, WorkerKinds DEF Handler
  <2>4. handlers' \in [Starts -> HandlerRecords]
    BY <1>23, <2>3, HandlerTypes DEF RegisterReceiver
  <2> QED
    BY <1>23, <2>1, <2>2, <2>3, <2>4 DEF RegisterReceiver
<1>24. ASSUME NEW w \in Workers, AddReceiver(w) PROVE TypeOK'
  <2>1. CASE Crash("padLink")
    BY <2>1, CrashTypes DEF Faults
  <2>2. CASE ~Crash("padLink")
    <3>1. Return(w) \/ \E point \in Points : Goto(w, point)
      BY <1>24, <2>2 DEF AddReceiver, Points, AddPoints, RemovePoints
    <3>2. call' \in [Workers -> CallRecords]
      BY <3>1, CallTypes
    <3>3. \E x \in Parts : PutIn(w, x)
      BY <1>24, <2>2 DEF AddReceiver, Parts
    <3>4. parts' \in [Starts -> SUBSET (Parts \X Peers)]
      BY <3>3, PartTypes
    <3>5. w[1] \in Peers
      BY WorkerKinds
    <3> QED
      BY <1>24, <2>2, <3>1, <3>2, <3>3, <3>4, <3>5 DEF AddReceiver
  <2> QED
    BY <2>1, <2>2
<1>25. ASSUME NEW w \in Workers, Tee(w) PROVE TypeOK'
  <2>1. CASE Crash("padLink")
    BY <2>1, CrashTypes DEF Faults
  <2>2. CASE ~Crash("padLink")
    <3>1. Return(w) \/ \E point \in Points : Goto(w, point)
      BY <1>25, <2>2 DEF Tee, Points, AddPoints, RemovePoints
    <3>2. call' \in [Workers -> CallRecords]
      BY <3>1, CallTypes
    <3>3. \E x \in Parts : PutIn(w, x)
      BY <1>25, <2>2 DEF Tee, Parts
    <3>4. parts' \in [Starts -> SUBSET (Parts \X Peers)]
      BY <3>3, PartTypes
    <3>5. w[1] \in Peers
      BY WorkerKinds
    <3> QED
      BY <1>25, <2>2, <3>1, <3>2, <3>3, <3>4, <3>5 DEF Tee
  <2> QED
    BY <2>1, <2>2
<1>26. ASSUME NEW w \in Workers, Apply(w) PROVE TypeOK'
  <2>1. CASE Crash("nullPeer")
    BY <2>1, CrashTypes DEF Faults
  <2>2. CASE ~Crash("nullPeer")
    <3>1. Return(w)
      BY <1>26, <2>2 DEF Apply
    <3>2. call' \in [Workers -> CallRecords]
      BY <3>1, CallTypes
    <3>3. w[1] \in Peers
      BY WorkerKinds
    <3> QED
      BY <1>26, <2>2, <3>1, <3>2, <3>3 DEF Apply
  <2> QED
    BY <2>1, <2>2
<1>27. ASSUME NEW w \in Workers, Remove(w) PROVE TypeOK'
  <2>1. CASE Crash("unlinked")
    BY <2>1, CrashTypes DEF Faults
  <2>2. CASE ~Crash("unlinked")
    <3>1. Return(w) \/ \E point \in Points : Goto(w, point)
      BY <1>27, <2>2 DEF Remove, Points, AddPoints, RemovePoints
    <3>2. call' \in [Workers -> CallRecords]
      BY <3>1, CallTypes
    <3>3. UNCHANGED parts \/ \E S \in SUBSET Parts : TakeOut(w, S)
      BY <1>27, <2>2 DEF Remove, Parts
    <3>4. parts' \in [Starts -> SUBSET (Parts \X Peers)]
      BY <3>3, PartTypes
    <3> QED
      BY <1>27, <2>2, <3>1, <3>2, <3>3, <3>4 DEF Remove
  <2> QED
    BY <2>1, <2>2
<1>28. ASSUME NEW w \in Workers, RemoveReceiver(w) PROVE TypeOK'
  <2>1. CASE Crash("unlinked")
    BY <2>1, CrashTypes DEF Faults
  <2>2. CASE ~Crash("unlinked")
    <3>1. Return(w) \/ \E point \in Points : Goto(w, point)
      BY <1>28, <2>2 DEF RemoveReceiver, Points, AddPoints, RemovePoints
    <3>2. call' \in [Workers -> CallRecords]
      BY <3>1, CallTypes
    <3>3. UNCHANGED parts \/ \E S \in SUBSET Parts : TakeOut(w, S)
      BY <1>28, <2>2 DEF RemoveReceiver, Parts
    <3>4. parts' \in [Starts -> SUBSET (Parts \X Peers)]
      BY <3>3, PartTypes
    <3> QED
      BY <1>28, <2>2, <3>1, <3>2, <3>3, <3>4 DEF RemoveReceiver
  <2> QED
    BY <2>1, <2>2
<1>29. ASSUME NEW w \in Workers, EraseSender(w) PROVE TypeOK'
  <2>1. Return(w) \/ \E point \in Points : Goto(w, point)
    BY <1>29 DEF EraseSender, Points, AddPoints, RemovePoints
  <2>2. call' \in [Workers -> CallRecords]
    BY <2>1, CallTypes
  <2>3. call[w].handler \in Starts => [Handler(w) EXCEPT !.senders = @ \ {w[1]}] \in HandlerRecords
    BY FieldTypes, WorkerKinds DEF Handler
  <2>4. handlers' \in [Starts -> HandlerRecords]
    BY <1>29, <2>3, HandlerTypes DEF EraseSender
  <2> QED
    BY <1>29, <2>1, <2>2, <2>3, <2>4 DEF EraseSender
<1>30. ASSUME NEW w \in Workers, EraseReceiver(w) PROVE TypeOK'
  <2>1. CASE Crash("iterator")
    BY <2>1, CrashTypes DEF Faults
  <2>2. ASSUME NEW dangling \in {Handler(w).dangling, w[1] \in Handler(w).receivers},
               ~Crash("iterator"), Goto(w, "notify"),
               Set(w, [Handler(w) EXCEPT !.receivers = @ \ {w[1]}, !.dangling = @ \/ dangling])
        PROVE TypeOK'
    <3>1. call' \in [Workers -> CallRecords]
      BY <2>2, CallTypes DEF Points, RemovePoints
    <3>2. call[w].handler \in Starts =>
             [Handler(w) EXCEPT !.receivers = @ \ {w[1]}, !.dangling = @ \/ dangling]
                 \in HandlerRecords
      <4>1. call[w].handler \in Starts => dangling \in BOOLEAN
        <5>1. (w[1] \in Handler(w).receivers) \in BOOLEAN
          OBVIOUS
        <5>2. call[w].handler \in Starts => Handler(w).dangling \in BOOLEAN
          BY DEF Handler, HandlerRecords
        <5> QED
          BY <2>2, <5>1, <5>2, Zenon
      <4> QED
        BY <4>1, FieldTypes, WorkerKinds DEF Handler
    <3>3. handlers' \in [Starts -> HandlerRecords]
      BY <2>2, <3>2, HandlerTypes
    <3> QED
      BY <1>30, <2>2, <3>1, <3>3 DEF EraseReceiver
  <2> QED
    BY <1>30, <2>1, <2>2 DEF EraseReceiver
<1>31. ASSUME NEW w \in Workers, Notify(w) PROVE TypeOK'
  <2>1. call' \in [Workers -> CallRecords]
    BY <1>31, CallTypes DEF Notify
  <2>2. w[1] \in Peers
    BY WorkerKinds
  <2> QED
    BY <1>31, <2>1, <2>2 DEF Notify
<1>32. ASSUME NEW w \in Workers, Dangling(w) PROVE TypeOK'
  BY <1>32, CrashTypes DEF Dangling, Faults
<1>33. ASSUME NEW n \in Starts, LaunchFetch(n) PROVE TypeOK'
  <2>1. [at |-> IF current = 0 THEN "over" ELSE "pipeline", handler |-> current] \in LaunchRecords
    BY DEF LaunchRecords
  <2>2. launch' \in [Starts -> LaunchRecords]
    BY <1>33, <2>1 DEF LaunchFetch
  <2> QED
    BY <1>33, <2>1, <2>2 DEF LaunchFetch
<1>34. ASSUME NEW n \in Starts, LaunchPipeline(n) PROVE TypeOK'
  <2>1. n \in 0..MaxStarts
    BY AudioAssumption DEF Starts
  <2>2. \A h \in Starts : [handlers[h] EXCEPT !.pipeline = n] \in HandlerRecords
    BY <2>1 DEF HandlerRecords
  <2>3. handlers' \in [Starts -> HandlerRecords]
    BY <1>34, <2>2 DEF LaunchPipeline
  <2>4. launch' \in [Starts -> LaunchRecords]
    BY <1>34 DEF LaunchPipeline, LaunchRecords
  <2> QED
    BY <1>34, <2>1, <2>2, <2>3, <2>4 DEF LaunchPipeline
<1>35. ASSUME NEW n \in Starts, LaunchElements(n) PROVE TypeOK'
  <2>1. launch' \in [Starts -> LaunchRecords]
    BY <1>35 DEF LaunchElements, LaunchRecords
  <2>2. handlers[launch[n].handler].pipeline \in Starts
    <3>1. launch[n].handler \in Starts
      BY <1>35 DEF LaunchElements, Launches, Launched, Launched, Launched, Launched, Launched,
           Launched, Launched, Launched, LaunchRecords, Starts
    <3> QED
      BY <1>35, <3>1 DEF LaunchElements, Launches, Launched, Launched, Launched, Launched,
           Launched, Launched, Launched, Launched, HandlerRecords, Starts
  <2> QED
    BY <1>35, <2>1, <2>2 DEF LaunchElements
<1> QED
  BY <1>0, <1>1, <1>2, <1>3, <1>4, <1>5, <1>6, <1>7, <1>8, <1>9, <1>10, <1>11, <1>12,
     <1>13, <1>14, <1>15, <1>16, <1>17, <1>18, <1>19, <1>20, <1>21, <1>22, <1>23,
     <1>24, <1>25, <1>26, <1>27, <1>28, <1>29, <1>30, <1>31, <1>32, <1>33, <1>34, <1>35
     DEF Next, Client, Proceed, Launch

\* What a call does by itself, when the media server lives on.
Moves(w) ==
    /\ Up
    /\ UNCHANGED <<clientVars, current, launch, mixers, fault>>
    /\ call[w].at # "idle"
    /\ \A v \in Workers : v # w => call'[v] = call[v]
    /\ \/ call'[w] = Idle
       \/ /\ call'[w].at \in Points \ {"idle", "lookup"}
          /\ call'[w].kind = call[w].kind
          /\ \/ call[w].at = "lookup" /\ current # 0 /\ call'[w].handler = current
             \/ call[w].at # "lookup" /\ call'[w].handler = call[w].handler
    /\ call[w].at = "lookup" =>
          /\ UNCHANGED <<handlers, parts, toDeliver>>
          /\ call'[w].at = "idle" => current = 0
          /\ call'[w].at \in {"idle", "register", "remove"} \cup IceKinds
    /\ call[w].at \notin RemovePoints => \A n \in Starts : parts[n] \subseteq parts'[n]
    /\ call'[w].at = "register" => call[w].at = "lookup"
    /\ call'[w].at = "addSend" => call[w].at = "register"
    /\ (call[w].at = "lookup" /\ call'[w].at \in AddPoints) =>
          handlers[current].pipeline \in mixers \/ "early" \in misused'[w[1]]
    /\ (call[w].at = "lookup" /\ call'[w].at # "idle" /\ Meets(w)) => "overlap" \in misused'[w[1]]
    /\ call'[w].at \in AddPoints => call[w].at \in AddPoints \cup {"lookup"}
    /\ Fits(call[w]) => Fits(call'[w])
    /\ \A h \in Starts :
          /\ handlers'[h].pipeline = handlers[h].pipeline
          /\ h # call[w].handler => handlers'[h] = handlers[h]
    /\ \A n \in Starts : n # Pipeline(w) => parts'[n] = parts[n]
    /\ \A n \in Starts, q \in Peers : q # w[1] =>
          /\ q \in handlers'[n].senders <=> q \in handlers[n].senders
          /\ q \in handlers'[n].receivers <=> q \in handlers[n].receivers
          /\ \A x \in Parts : <<x, q>> \in parts'[n] <=> <<x, q>> \in parts[n]
    /\ UNCHANGED irregular
    /\ \A q \in Peers : misused[q] \subseteq misused'[q]
    /\ toDeliver \subseteq toDeliver'
    /\ toDeliver' \subseteq toDeliver \cup ({"answer", "offer", "reset"} \X {w[1]})

\* Every step of a call is such a move, or the media server's death.
LEMMA Moved ==
  ASSUME TypeOK, NEW w \in Workers, Proceed(w)
  PROVE  Moves(w) \/ \E cause \in Faults : Crash(cause)
<1> DEFINE Dies == \E cause \in Faults : Crash(cause)
<1>a. call \in [Workers -> CallRecords] /\ call[w] \in CallRecords
  BY DEF TypeOK
<1>b. handlers \in [Starts -> HandlerRecords]
  BY DEF TypeOK
<1>c. parts \in [Starts -> SUBSET (Parts \X Peers)]
  BY DEF TypeOK
<1> USE DEF Moves, At, Fits, Points, AddPoints, RemovePoints, IceKinds, Idle,
            clientVars, serverVars, historyVars
<1>1. CASE Lookup(w)
  <2>1. call[w].kind \in Kinds
    BY <1>a DEF CallRecords
  <2>2. /\ First(call[w].kind) \in Points \ {"idle", "lookup"}
        /\ First(call[w].kind) \in {"register", "remove"} \cup IceKinds
        /\ First(call[w].kind) \in AddPoints => call[w].kind = "join"
        /\ First(call[w].kind) \in RemovePoints => call[w].kind \in {"reset", "close"}
        /\ First(call[w].kind) \in IceKinds => call[w].kind = First(call[w].kind)
    BY <2>1 DEF First, Kinds
  <2>3. /\ call'[w].at = First(call[w].kind) /\ call'[w].kind = call[w].kind /\ call'[w].handler = current
        /\ \A v \in Workers : v # w => call'[v] = call[v]
    BY <1>1, <1>a DEF Lookup, CallRecords
  <2>4. PICK what \in SUBSET Misuses :
            /\ Note(w[1], what)
            /\ Meets(w) => "overlap" \in what
            /\ call[w].kind = "join" /\ handlers[current].pipeline \notin mixers => "early" \in what
    BY <1>1 DEF Lookup, Misuses
  <2>5. /\ \A q \in Peers : misused[q] \subseteq misused'[q]
        /\ what \subseteq misused'[w[1]]
    BY <2>4, Noted, WorkerKinds DEF TypeOK
  <2> QED
    BY <1>1, <2>2, <2>3, <2>4, <2>5 DEF Lookup
<1>2. CASE LookupFails(w)
  <2>1. CASE Crash("nullHandler")
    BY <2>1 DEF Faults
  <2>2. CASE ~Crash("nullHandler")
    BY <1>2, <2>2, <1>a, <1>b, <1>c DEF LookupFails, Return, CallRecords
  <2> QED
    BY <2>1, <2>2
<1>3. CASE SenderIce(w)
  <2>1. CASE Crash("nullPeer")
    BY <2>1 DEF Faults
  <2>2. CASE ~Crash("nullPeer")
    BY <1>3, <2>2, <1>a, <1>b, <1>c DEF SenderIce, Return, CallRecords
  <2> QED
    BY <2>1, <2>2
<1>4. CASE ForReceiver(w)
  <2>1. CASE Crash("nullPeer")
    BY <2>1 DEF Faults
  <2>2. CASE ~Crash("nullPeer")
    BY <1>4, <2>2, <1>a, <1>b, <1>c DEF ForReceiver, Return, CallRecords
  <2> QED
    BY <2>1, <2>2
<1>5. CASE Register(w)
  BY <1>5, <1>a, <1>b, <1>c DEF Register, Set, Goto, Handler, HandlerRecords, CallRecords
<1>6. CASE AddSend(w)
  <2>1. CASE Crash("noMixer")
    BY <2>1 DEF Faults
  <2>2. CASE ~Crash("noMixer")
    <3>1. /\ call[w].at = "addSend" /\ PutIn(w, "send") /\ Goto(w, "mix")
          /\ UNCHANGED <<clientVars, current, handlers, launch, mixers, toDeliver, historyVars>>
      BY <1>6, <2>2 DEF AddSend, At
    <3>2. /\ call'[w].at = "mix" /\ call'[w].kind = call[w].kind
          /\ call'[w].handler = call[w].handler
          /\ \A v \in Workers : v # w => call'[v] = call[v]
      BY <3>1, <1>a DEF Goto, CallRecords
    <3>3. /\ \A n \in Starts : parts[n] \subseteq parts'[n]
          /\ \A n \in Starts : n # Pipeline(w) => parts'[n] = parts[n]
          /\ \A n \in Starts, q \in Peers, x \in Parts :
                q # w[1] => (<<x, q>> \in parts'[n] <=> <<x, q>> \in parts[n])
      BY <3>1, <1>c DEF PutIn
    <3>4. /\ UNCHANGED <<clientVars, current, launch, mixers, fault, irregular, misused, toDeliver,
                           handlers>>
          /\ Up
      BY <1>6, <3>1 DEF AddSend
    <3>5. Fits(call[w]) => Fits(call'[w])
      BY <3>1, <3>2
    <3> QED
      BY <3>1, <3>2, <3>3, <3>4, <3>5
  <2> QED
    BY <2>1, <2>2
<1>7. CASE AddSendAgain(w)
  <2>1. CASE Crash("padLink")
    BY <2>1 DEF Faults
  <2>2. CASE ~Crash("padLink")
    BY <1>7, <2>2, <1>a, <1>b, <1>c DEF AddSendAgain, Goto, CallRecords
  <2> QED
    BY <2>1, <2>2
<1>8. CASE Mix(w)
  <2>1. CASE Crash("noMixer") \/ Crash("padLink")
    BY <2>1 DEF Faults
  <2>2. CASE ~(Crash("noMixer") \/ Crash("padLink"))
    BY <1>8, <2>2, <1>a, <1>b, <1>c DEF Mix, PutIn, Goto, CallRecords
  <2> QED
    BY <2>1, <2>2
<1>9. CASE RegisterReceiver(w)
  BY <1>9, <1>a, <1>b, <1>c DEF RegisterReceiver, Set, Goto, Handler, HandlerRecords, CallRecords
<1>10. CASE AddReceiver(w)
  <2>1. CASE Crash("padLink")
    BY <2>1 DEF Faults
  <2>2. CASE ~Crash("padLink")
    <3>1. /\ call[w].at = "addReceiver" /\ PutIn(w, "recv") /\ Goto(w, "tee")
          /\ UNCHANGED <<clientVars, current, handlers, launch, mixers, toDeliver, historyVars>>
      BY <1>10, <2>2 DEF AddReceiver, At
    <3>2. /\ call'[w].at = "tee" /\ call'[w].kind = call[w].kind
          /\ call'[w].handler = call[w].handler
          /\ \A v \in Workers : v # w => call'[v] = call[v]
      BY <3>1, <1>a DEF Goto, CallRecords
    <3>3. /\ \A n \in Starts : parts[n] \subseteq parts'[n]
          /\ \A n \in Starts : n # Pipeline(w) => parts'[n] = parts[n]
          /\ \A n \in Starts, q \in Peers, x \in Parts :
                q # w[1] => (<<x, q>> \in parts'[n] <=> <<x, q>> \in parts[n])
      BY <3>1, <1>c DEF PutIn
    <3>4. /\ UNCHANGED <<clientVars, current, launch, mixers, fault, irregular, misused, toDeliver,
                           handlers>>
          /\ Up
      BY <1>10, <3>1 DEF AddReceiver
    <3>5. Fits(call[w]) => Fits(call'[w])
      BY <3>1, <3>2
    <3> QED
      BY <3>1, <3>2, <3>3, <3>4, <3>5
  <2> QED
    BY <2>1, <2>2
<1>11. CASE Tee(w)
  <2>1. CASE Crash("padLink")
    BY <2>1 DEF Faults
  <2>2. CASE ~Crash("padLink")
    BY <1>11, <2>2, <1>a, <1>b, <1>c DEF Tee, PutIn, Goto, CallRecords
  <2> QED
    BY <2>1, <2>2
<1>12. CASE Apply(w)
  <2>1. CASE Crash("nullPeer")
    BY <2>1 DEF Faults
  <2>2. CASE ~Crash("nullPeer")
    BY <1>12, <2>2, <1>a, <1>b, <1>c DEF Apply, Return, CallRecords
  <2> QED
    BY <2>1, <2>2
<1>13. CASE Remove(w)
  <2>1. CASE Crash("unlinked")
    BY <2>1 DEF Faults
  <2>2. CASE ~Crash("unlinked")
    BY <1>13, <2>2, <1>a, <1>b, <1>c DEF Remove, Return, TakeOut, Goto, CallRecords
  <2> QED
    BY <2>1, <2>2
<1>14. CASE RemoveReceiver(w)
  <2>1. CASE Crash("unlinked")
    BY <2>1 DEF Faults
  <2>2. CASE ~Crash("unlinked")
    BY <1>14, <2>2, <1>a, <1>b, <1>c DEF RemoveReceiver, Return, TakeOut, Goto, CallRecords
  <2> QED
    BY <2>1, <2>2
<1>15. CASE EraseSender(w)
  BY <1>15, <1>a, <1>b, <1>c DEF EraseSender, Set, Goto, Handler, HandlerRecords, CallRecords
<1>16. CASE EraseReceiver(w)
  <2>1. CASE Crash("iterator")
    BY <2>1 DEF Faults
  <2>2. ASSUME NEW handler,
               call[w].handler \in Starts =>
                   /\ handler.pipeline = Handler(w).pipeline
                   /\ handler.senders = Handler(w).senders
                   /\ handler.receivers = Handler(w).receivers \ {w[1]},
               Set(w, handler), Goto(w, "notify"), ~Crash("iterator")
        PROVE Moves(w)
    BY <1>16, <2>2, <1>a, <1>b, <1>c DEF EraseReceiver, Set, Goto, Handler, CallRecords
  <2>3. ASSUME NEW dangling,
               NEW handler,
               handler = [Handler(w) EXCEPT !.receivers = @ \ {w[1]}, !.dangling = @ \/ dangling],
               call[w].handler \in Starts
        PROVE /\ handler.pipeline = Handler(w).pipeline
              /\ handler.senders = Handler(w).senders
              /\ handler.receivers = Handler(w).receivers \ {w[1]}
    BY <1>b, <2>3 DEF Handler, HandlerRecords
  <2> QED
    BY <1>16, <2>1, <2>2, <2>3 DEF EraseReceiver
<1>17. CASE Notify(w)
  BY <1>17, <1>a, <1>b, <1>c DEF Notify, Return, CallRecords
<1>18. CASE Dangling(w)
  BY <1>18 DEF Dangling, Faults
<1> QED
  BY <1>1, <1>2, <1>3, <1>4, <1>5, <1>6, <1>7, <1>8, <1>9, <1>10, <1>11, <1>12, <1>13, <1>14,
       <1>15, <1>16, <1>17, <1>18 DEF Proceed

\* What happened stays in the history until the media server starts again.
LEMMA Before ==
  ASSUME TypeOK, [Next]_vars, ~ProcessRestart
  PROVE  irregular \subseteq irregular' /\ \A q \in Peers : misused[q] \subseteq misused'[q]
<1> USE DEF clientVars, serverVars, historyVars
<1>0. CASE UNCHANGED vars
  BY <1>0 DEF vars
<1>1. CASE CreateAudioChannel
  BY <1>1 DEF CreateAudioChannel
<1>2. CASE SignallingRestart
  BY <1>2 DEF SignallingRestart
<1>3. CASE MapRace
  BY <1>3 DEF MapRace, Crash
<1>4. ASSUME NEW p \in Peers, Client(p), ~Join(p) PROVE UNCHANGED <<irregular, misused>>
  BY <1>4 DEF Client, Connect, Break, Close, SenderCandidate, ReceiverAnswer,
     ReceiverCandidate, QuitAudio
<1>5. ASSUME NEW p \in Peers, Join(p)
      PROVE  UNCHANGED irregular /\ \A q \in Peers : misused[q] \subseteq misused'[q]
  BY <1>5, Noted DEF Join, TypeOK, Misuses
<1>6. ASSUME NEW p \in Peers, CandidateFails(p) PROVE UNCHANGED <<irregular, misused>>
  BY <1>6 DEF CandidateFails
<1>7. ASSUME NEW m \in {"answer", "offer", "reset"} \X Peers, Deliver(m)
      PROVE  UNCHANGED <<irregular, misused>>
  BY <1>7 DEF Deliver
<1>8. ASSUME NEW w \in Workers, Proceed(w)
      PROVE  UNCHANGED irregular /\ \A q \in Peers : misused[q] \subseteq misused'[q]
  BY <1>8, Moved DEF Moves, Crash
<1>9. ASSUME NEW n \in Starts, Launch(n) PROVE UNCHANGED <<irregular, misused>>
  BY <1>9 DEF Launch, LaunchFetch, LaunchPipeline, LaunchElements
<1> QED
  BY <1>0, <1>1, <1>2, <1>3, <1>4, <1>5, <1>6, <1>7, <1>8, <1>9 DEF Next

\* So no peer becomes calm again.
LEMMA CalmBefore ==
  ASSUME TypeOK, [Next]_vars, ~ProcessRestart
  PROVE  Calm' \subseteq Calm /\ Calm \subseteq Peers
  BY Before DEF Calm, Single

\* A worker that was idle makes a call.
Sends(w, kind) ==
    /\ Up /\ call[w].at = "idle"
    /\ call'[w].at = "lookup" /\ call'[w].kind = kind
    /\ \A v \in Workers : v # w => call'[v] = call[v]

\* Which calls the peers' messages make, and a delivery that fails.
LEMMA Calls ==
  ASSUME TypeOK
  PROVE  /\ \A p \in Peers :
            /\ Close(p) => Sends(Session(p), "close")
            /\ Join(p) => Sends(Session(p), "join")
            /\ SenderCandidate(p) => Sends(Session(p), "senderIce")
            /\ ReceiverAnswer(p) => Sends(Session(p), "answer")
            /\ ReceiverCandidate(p) => Sends(Session(p), "receiverIce")
            /\ QuitAudio(p) => Sends(Session(p), "reset")
            /\ CandidateFails(p) =>
                  session[p] \notin {"new", "open"} /\ Sends(Failure(p), "close")
         /\ \A m \in {"answer", "offer", "reset"} \X Peers : Deliver(m) =>
            /\ m[1] \in {"answer", "offer", "reset"} /\ m[2] \in Peers /\ <<m[1], m[2]>> \in toDeliver
            /\ UNCHANGED call \/ (session[m[2]] # "open" /\ Sends(Failure(m[2]), "close"))
<1>1. ASSUME NEW w \in Workers, NEW kind, Up, call[w].at = "idle", Send(w, kind)
      PROVE  Sends(w, kind)
  <2>1. [Idle EXCEPT !.at = "lookup", !.kind = kind].at = "lookup"
        /\ [Idle EXCEPT !.at = "lookup", !.kind = kind].kind = kind
    BY DEF Idle
  <2>2. /\ call'[w] = [Idle EXCEPT !.at = "lookup", !.kind = kind]
        /\ \A v \in Workers : v # w => call'[v] = call[v]
    BY <1>1 DEF Send, TypeOK
  <2> QED
    BY <1>1, <2>1, <2>2 DEF Sends
<1>2. ASSUME NEW p \in Peers, NEW kind, Quiet(p), Send(<<p, "session">>, kind)
      PROVE  Sends(Session(p), kind)
  BY <1>1, <1>2, WorkerKinds DEF Quiet, Session
<1>3. ASSUME NEW p \in Peers
      PROVE  /\ Close(p) => Sends(Session(p), "close")
             /\ Join(p) => Sends(Session(p), "join")
             /\ SenderCandidate(p) => Sends(Session(p), "senderIce")
             /\ ReceiverAnswer(p) => Sends(Session(p), "answer")
             /\ ReceiverCandidate(p) => Sends(Session(p), "receiverIce")
             /\ QuitAudio(p) => Sends(Session(p), "reset")
  BY <1>2 DEF Close, Join, SenderCandidate, ReceiverAnswer, ReceiverCandidate, QuitAudio
<1>4. ASSUME NEW p \in Peers, CandidateFails(p)
      PROVE  session[p] \notin {"new", "open"} /\ Sends(Failure(p), "close")
  BY <1>1, <1>4, WorkerKinds DEF CandidateFails, Failure
<1>5. ASSUME NEW m \in {"answer", "offer", "reset"} \X Peers, Deliver(m)
      PROVE  /\ m[1] \in {"answer", "offer", "reset"} /\ m[2] \in Peers /\ <<m[1], m[2]>> \in toDeliver
             /\ UNCHANGED call \/ (session[m[2]] # "open" /\ Sends(Failure(m[2]), "close"))
  <2>1. m[1] \in {"answer", "offer", "reset"} /\ m[2] \in Peers /\ m = <<m[1], m[2]>>
    OBVIOUS
  <2>2. UNCHANGED call \/ (/\ session[m[2]] # "open" /\ call[Failure(m[2])].at = "idle"
                           /\ Send(Failure(m[2]), "close"))
    BY <1>5 DEF Deliver, Failure
  <2>3. Up /\ m \in toDeliver
    BY <1>5 DEF Deliver
  <2> QED
    BY <1>1, <2>1, <2>2, <2>3, WorkerKinds
<1> QED
  BY <1>3, <1>4, <1>5

\* Sessions start and end as they should, whatever the media server does.
LEMMA NextSessions ==
  ASSUME TypeOK, Sessions, [Next]_vars PROVE Sessions'
<1>a. /\ session \in [Peers -> {"new", "open", "broken", "closed", "lost"}]
      /\ browser \in [Peers -> {"out", "in", "answered"}]
      /\ call \in [Workers -> CallRecords]
      /\ starts \in 0..MaxStarts
      /\ toDeliver \subseteq {"answer", "offer", "reset"} \X Peers
      /\ Idle.at = "idle" /\ Idle.kind = "reset"
  BY DEF TypeOK, Idle
<1> USE WorkerKinds, <1>a DEF Sessions, Ready, clientVars, serverVars, historyVars
<1>0. CASE UNCHANGED vars
  BY <1>0 DEF vars
<1>1. CASE CreateAudioChannel
  <2>1. starts' # 0 /\ current' = starts'
    BY <1>1, AudioAssumption DEF CreateAudioChannel
  <2> QED
    BY <1>1, <2>1 DEF CreateAudioChannel
<1>2. CASE SignallingRestart
  BY <1>2 DEF SignallingRestart
<1>3. CASE ProcessRestart
  BY <1>3 DEF ProcessRestart
<1>4. ASSUME NEW cause \in Faults, Crash(cause) PROVE Sessions'
  BY <1>4 DEF Crash
<1>5. ASSUME NEW p \in Peers, Connect(p) PROVE Sessions'
  <2>1. starts # 0 /\ call[Session(p)].kind = "reset" /\ call[Failure(p)] = Idle
    <3>1. session[p] = "new" /\ channel
      BY <1>5 DEF Connect
    <3>2. Ready(p)
      OBVIOUS
    <3> QED
      BY <3>1, <3>2
  <2>2. \A q \in Peers : session'[q] = IF q = p THEN "open" ELSE session[q]
    BY <1>5 DEF Connect
  <2>3. ASSUME NEW q \in Peers, q # p PROVE Ready(q)'
    BY <1>5, <2>2, <2>3 DEF Connect
  <2>4. Ready(p)'
    BY <1>5, <2>1, <2>2 DEF Connect
  <2> QED
    BY <1>5, <2>3, <2>4 DEF Connect
<1>6. ASSUME NEW p \in Peers, Break(p) PROVE Sessions'
  <2>1. ASSUME NEW q \in Peers PROVE Ready(q)'
    BY <1>6, <2>1 DEF Break
  <2> QED
    BY <1>6, <2>1 DEF Break
<1>7. ASSUME NEW p \in Peers, Close(p) PROVE Sessions'
  <2>1. Sends(Session(p), "close")
    BY <1>7, Calls
  <2>2. ASSUME NEW q \in Peers, q # p PROVE Ready(q)'
    BY <1>7, <2>1, <2>2 DEF Close, Sends
  <2>3. Ready(p)'
    BY <1>7, <2>1 DEF Close, Sends
  <2> QED
    BY <1>7, <2>1, <2>2, <2>3 DEF Close, Sends
<1>8. ASSUME NEW p \in Peers, Join(p) PROVE Sessions'
  <2>1. Sends(Session(p), "join")
    BY <1>8, Calls
  <2>2. ASSUME NEW q \in Peers, q # p PROVE Ready(q)'
    BY <1>8, <2>1, <2>2 DEF Join, Sends
  <2>3. Ready(p)'
    BY <1>8, <2>1 DEF Join, Sends
  <2> QED
    BY <1>8, <2>1, <2>2, <2>3 DEF Join, Sends
<1>9. ASSUME NEW p \in Peers, SenderCandidate(p) PROVE Sessions'
  <2>1. Sends(Session(p), "senderIce")
    BY <1>9, Calls
  <2>2. ASSUME NEW q \in Peers, q # p PROVE Ready(q)'
    BY <1>9, <2>1, <2>2 DEF SenderCandidate, Sends
  <2>3. Ready(p)'
    BY <1>9, <2>1 DEF SenderCandidate, Sends
  <2> QED
    BY <1>9, <2>1, <2>2, <2>3 DEF SenderCandidate, Sends
<1>10. ASSUME NEW p \in Peers, ReceiverAnswer(p) PROVE Sessions'
  <2>1. Sends(Session(p), "answer")
    BY <1>10, Calls
  <2>2. ASSUME NEW q \in Peers, q # p PROVE Ready(q)'
    BY <1>10, <2>1, <2>2 DEF ReceiverAnswer, Sends
  <2>3. Ready(p)'
    BY <1>10, <2>1 DEF ReceiverAnswer, Sends
  <2> QED
    BY <1>10, <2>1, <2>2, <2>3 DEF ReceiverAnswer, Sends
<1>11. ASSUME NEW p \in Peers, ReceiverCandidate(p) PROVE Sessions'
  <2>1. Sends(Session(p), "receiverIce")
    BY <1>11, Calls
  <2>2. ASSUME NEW q \in Peers, q # p PROVE Ready(q)'
    BY <1>11, <2>1, <2>2 DEF ReceiverCandidate, Sends
  <2>3. Ready(p)'
    BY <1>11, <2>1 DEF ReceiverCandidate, Sends
  <2> QED
    BY <1>11, <2>1, <2>2, <2>3 DEF ReceiverCandidate, Sends
<1>12. ASSUME NEW p \in Peers, QuitAudio(p) PROVE Sessions'
  <2>1. Sends(Session(p), "reset")
    BY <1>12, Calls
  <2>2. ASSUME NEW q \in Peers, q # p PROVE Ready(q)'
    BY <1>12, <2>1, <2>2 DEF QuitAudio, Sends
  <2>3. Ready(p)'
    BY <1>12, <2>1 DEF QuitAudio, Sends
  <2> QED
    BY <1>12, <2>1, <2>2, <2>3 DEF QuitAudio, Sends
<1>13. ASSUME NEW p \in Peers, CandidateFails(p) PROVE Sessions'
  <2>1. session[p] \notin {"new", "open"} /\ Sends(Failure(p), "close")
    BY <1>13, Calls
  <2>2. ASSUME NEW q \in Peers PROVE Ready(q)'
    BY <1>13, <2>1, <2>2 DEF CandidateFails, Sends
  <2> QED
    BY <1>13, <2>1, <2>2 DEF CandidateFails, Sends
<1>14. ASSUME NEW m \in {"answer", "offer", "reset"} \X Peers, Deliver(m) PROVE Sessions'
  <2>1. m[2] \in Peers /\ UNCHANGED <<session, browser, starts>> /\ toDeliver' \subseteq toDeliver
    BY <1>14, Calls DEF Deliver
  <2>2. UNCHANGED call \/ (session[m[2]] # "open" /\ Sends(Failure(m[2]), "close"))
    BY <1>14, Calls
  <2>3. ASSUME NEW q \in Peers PROVE Ready(q)'
    <3>1. UNCHANGED call[Session(q)]
      BY <2>1, <2>2 DEF Sends
    <3>2. UNCHANGED call[Failure(q)]
          \/ (q = m[2] /\ session[q] \notin {"new", "open"} /\ call'[Failure(q)].kind = "close")
      <4>1. session[m[2]] # "new"
        BY <1>14, Calls
      <4> QED
        BY <2>1, <2>2, <4>1 DEF Sends
    <3> QED
      BY <2>1, <3>1, <3>2
  <2> QED
    BY <1>14, <2>1, <2>2, <2>3 DEF Deliver, Sends
<1>15. ASSUME NEW w \in Workers, Moves(w) PROVE Sessions'
  <2>1. w[1] \in Peers /\ session[w[1]] # "new"
    <3>1. w[1] \in Peers /\ w \in {Session(w[1]), Failure(w[1])} /\ call[w].at # "idle"
      BY <1>15 DEF Moves
    <3>2. Ready(w[1])
      BY <3>1
    <3>3. session[w[1]] = "new" => call[Session(w[1])] = Idle /\ call[Failure(w[1])] = Idle
      BY <3>2
    <3> QED
      BY <3>1, <3>3
  <2>2. ASSUME NEW q \in Peers PROVE Ready(q)'
    <3>1. session[q] = "new" => \A kind \in {"answer", "offer", "reset"} : <<kind, q>> \notin toDeliver'
      BY <1>15, <2>1, <2>2 DEF Moves
    <3>2. \A v \in {Session(q), Failure(q)} :
              \/ call'[v] = call[v]
              \/ call[v].at # "idle" /\ (call'[v] = Idle \/ call'[v].kind = call[v].kind)
      BY <1>15, <2>2 DEF Moves
    <3>3. UNCHANGED <<session, browser, starts>>
      BY <1>15 DEF Moves
    <3>4. session[q] = "open" /\ call'[Session(q)].at # "idle" =>
             (browser[q] = "out" <=> call'[Session(q)].kind = "reset")
      BY <2>2, <3>2
    <3> QED
      BY <2>2, <3>1, <3>2, <3>3, <3>4
  <2> QED
    BY <1>15, <2>2 DEF Moves
<1>16. ASSUME NEW n \in Starts, LaunchFetch(n) PROVE Sessions'
  BY <1>16 DEF LaunchFetch
<1>17. ASSUME NEW n \in Starts, LaunchPipeline(n) PROVE Sessions'
  BY <1>17 DEF LaunchPipeline
<1>18. ASSUME NEW n \in Starts, LaunchElements(n) PROVE Sessions'
  BY <1>18 DEF LaunchElements
<1>19. CASE MapRace
  BY <1>19, <1>4 DEF MapRace, Faults
<1>20. ASSUME NEW w \in Workers, Proceed(w) PROVE Sessions'
  BY <1>20, <1>4, <1>15, Moved
<1> QED
  BY <1>0, <1>1, <1>2, <1>3, <1>4, <1>5, <1>6, <1>7, <1>8, <1>9, <1>10, <1>11, <1>12,
     <1>13, <1>14, <1>15, <1>16, <1>17, <1>18, <1>19, <1>20
     DEF Next, Client, Launch

\* A call goes on through the points of its kind.
LEMMA NextCallsFit ==
  ASSUME TypeOK, CallsFit, [Next]_vars PROVE CallsFit'
<1> USE WorkerKinds DEF CallsFit, Fits, clientVars, serverVars, historyVars, Idle, AddPoints, RemovePoints, IceKinds
<1>0. CASE UNCHANGED vars
  BY <1>0 DEF vars
<1>1. CASE CreateAudioChannel
  BY <1>1 DEF CreateAudioChannel
<1>2. CASE SignallingRestart
  BY <1>2 DEF SignallingRestart
<1>3. CASE ProcessRestart
  BY <1>3 DEF ProcessRestart
<1>4. ASSUME NEW cause \in Faults, Crash(cause) PROVE CallsFit'
  BY <1>4 DEF Crash
<1>5. ASSUME NEW p \in Peers, Connect(p) PROVE CallsFit'
  BY <1>5 DEF Connect
<1>6. ASSUME NEW p \in Peers, Break(p) PROVE CallsFit'
  BY <1>6 DEF Break
<1>7. ASSUME NEW p \in Peers, Close(p) PROVE CallsFit'
  <2>1. Sends(Session(p), "close")
    BY <1>7, Calls
  <2> QED
    BY <1>7, <2>1 DEF Close, Sends
<1>8. ASSUME NEW p \in Peers, Join(p) PROVE CallsFit'
  <2>1. Sends(Session(p), "join")
    BY <1>8, Calls
  <2> QED
    BY <1>8, <2>1 DEF Join, Sends
<1>9. ASSUME NEW p \in Peers, SenderCandidate(p) PROVE CallsFit'
  <2>1. Sends(Session(p), "senderIce")
    BY <1>9, Calls
  <2> QED
    BY <1>9, <2>1 DEF SenderCandidate, Sends
<1>10. ASSUME NEW p \in Peers, ReceiverAnswer(p) PROVE CallsFit'
  <2>1. Sends(Session(p), "answer")
    BY <1>10, Calls
  <2> QED
    BY <1>10, <2>1 DEF ReceiverAnswer, Sends
<1>11. ASSUME NEW p \in Peers, ReceiverCandidate(p) PROVE CallsFit'
  <2>1. Sends(Session(p), "receiverIce")
    BY <1>11, Calls
  <2> QED
    BY <1>11, <2>1 DEF ReceiverCandidate, Sends
<1>12. ASSUME NEW p \in Peers, QuitAudio(p) PROVE CallsFit'
  <2>1. Sends(Session(p), "reset")
    BY <1>12, Calls
  <2> QED
    BY <1>12, <2>1 DEF QuitAudio, Sends
<1>13. ASSUME NEW p \in Peers, CandidateFails(p) PROVE CallsFit'
  <2>1. session[p] \notin {"new", "open"} /\ Sends(Failure(p), "close")
    BY <1>13, Calls
  <2> QED
    BY <1>13, <2>1 DEF CandidateFails, Sends
<1>14. ASSUME NEW m \in {"answer", "offer", "reset"} \X Peers, Deliver(m) PROVE CallsFit'
  <2>1. m[2] \in Peers /\ m[1] \in {"answer", "offer", "reset"} /\ <<m[1], m[2]>> \in toDeliver
    BY <1>14, Calls
  <2>2. UNCHANGED call \/ (session[m[2]] # "open" /\ Sends(Failure(m[2]), "close"))
    BY <1>14, Calls
  <2> QED
    BY <1>14, <2>1, <2>2 DEF Deliver, Sends
<1>15. ASSUME NEW w \in Workers, Moves(w) PROVE CallsFit'
  BY <1>15 DEF Moves
<1>16. ASSUME NEW n \in Starts, LaunchFetch(n) PROVE CallsFit'
  BY <1>16 DEF LaunchFetch
<1>17. ASSUME NEW n \in Starts, LaunchPipeline(n) PROVE CallsFit'
  BY <1>17 DEF LaunchPipeline
<1>18. ASSUME NEW n \in Starts, LaunchElements(n) PROVE CallsFit'
  BY <1>18 DEF LaunchElements
<1>19. CASE MapRace
  BY <1>19, <1>4 DEF MapRace, Faults
<1>20. ASSUME NEW w \in Workers, Proceed(w) PROVE CallsFit'
  BY <1>20, <1>4, <1>15, Moved
<1> QED
  BY <1>0, <1>1, <1>2, <1>3, <1>4, <1>5, <1>6, <1>7, <1>8, <1>9, <1>10, <1>11, <1>12,
     <1>13, <1>14, <1>15, <1>16, <1>17, <1>18, <1>19, <1>20
     DEF Next, Client, Launch

\* A launch keeps its handler, and a handler its pipeline.
LEMMA NextLaunches ==
  ASSUME TypeOK, Launches, [Next]_vars PROVE Launches'
<1> USE DEF TypeOK, Launches, Launched, clientVars, serverVars, historyVars
<1>0. CASE UNCHANGED vars
  BY <1>0 DEF vars
<1>1. CASE CreateAudioChannel
  BY <1>1 DEF CreateAudioChannel
<1>2. CASE SignallingRestart
  BY <1>2 DEF SignallingRestart
<1>3. CASE ProcessRestart
  BY <1>3 DEF ProcessRestart, NoLaunch
<1>4. ASSUME NEW cause \in Faults, Crash(cause) PROVE Launches'
  BY <1>4 DEF Crash
<1>5. ASSUME NEW p \in Peers, Connect(p) PROVE Launches'
  BY <1>5 DEF Connect
<1>6. ASSUME NEW p \in Peers, Break(p) PROVE Launches'
  BY <1>6 DEF Break
<1>7. ASSUME NEW p \in Peers, Close(p) PROVE Launches'
  <2>1. Sends(Session(p), "close")
    BY <1>7, Calls
  <2> QED
    BY <1>7, <2>1 DEF Close, Sends
<1>8. ASSUME NEW p \in Peers, Join(p) PROVE Launches'
  <2>1. Sends(Session(p), "join")
    BY <1>8, Calls
  <2> QED
    BY <1>8, <2>1 DEF Join, Sends
<1>9. ASSUME NEW p \in Peers, SenderCandidate(p) PROVE Launches'
  <2>1. Sends(Session(p), "senderIce")
    BY <1>9, Calls
  <2> QED
    BY <1>9, <2>1 DEF SenderCandidate, Sends
<1>10. ASSUME NEW p \in Peers, ReceiverAnswer(p) PROVE Launches'
  <2>1. Sends(Session(p), "answer")
    BY <1>10, Calls
  <2> QED
    BY <1>10, <2>1 DEF ReceiverAnswer, Sends
<1>11. ASSUME NEW p \in Peers, ReceiverCandidate(p) PROVE Launches'
  <2>1. Sends(Session(p), "receiverIce")
    BY <1>11, Calls
  <2> QED
    BY <1>11, <2>1 DEF ReceiverCandidate, Sends
<1>12. ASSUME NEW p \in Peers, QuitAudio(p) PROVE Launches'
  <2>1. Sends(Session(p), "reset")
    BY <1>12, Calls
  <2> QED
    BY <1>12, <2>1 DEF QuitAudio, Sends
<1>13. ASSUME NEW p \in Peers, CandidateFails(p) PROVE Launches'
  <2>1. session[p] \notin {"new", "open"} /\ Sends(Failure(p), "close")
    BY <1>13, Calls
  <2> QED
    BY <1>13, <2>1 DEF CandidateFails, Sends
<1>14. ASSUME NEW m \in {"answer", "offer", "reset"} \X Peers, Deliver(m) PROVE Launches'
  <2>1. m[2] \in Peers /\ m[1] \in {"answer", "offer", "reset"} /\ <<m[1], m[2]>> \in toDeliver
    BY <1>14, Calls
  <2>2. UNCHANGED call \/ (session[m[2]] # "open" /\ Sends(Failure(m[2]), "close"))
    BY <1>14, Calls
  <2> QED
    BY <1>14, <2>1, <2>2 DEF Deliver, Sends
<1>15. ASSUME NEW w \in Workers, Moves(w) PROVE Launches'
  <2>1. \A n \in Starts : launch[n].at \in {"pipeline", "elements", "running"} => launch[n].handler \in Starts
    BY DEF LaunchRecords, Starts
  <2> QED
    BY <1>15, <2>1 DEF Moves
<1>16. ASSUME NEW n \in Starts, LaunchFetch(n) PROVE Launches'
  BY <1>16 DEF LaunchFetch, Starts
<1>17. ASSUME NEW n \in Starts, LaunchPipeline(n) PROVE Launches'
  <2>1. \A m \in Starts : launch[m].at \in {"pipeline", "elements", "running"} => launch[m].handler \in Starts
    BY DEF LaunchRecords, Starts
  <2>2. launch[n] \in LaunchRecords /\ n # 0
    BY DEF Starts
  <2>3. \A h \in Starts : handlers'[h].pipeline = IF h = launch[n].handler THEN n ELSE handlers[h].pipeline
    BY <1>17, <2>1 DEF LaunchPipeline, HandlerRecords
  <2>4. \A m \in Starts : launch'[m] = IF m = n THEN [launch[m] EXCEPT !.at = "elements"] ELSE launch[m]
    BY <1>17 DEF LaunchPipeline
  <2>5. ASSUME NEW m \in Starts, m # n PROVE Launched(m)'
    BY <2>1, <2>2, <2>3, <2>4, <2>5 DEF LaunchRecords
  <2>6. Launched(n)'
    BY <1>17, <2>1, <2>2, <2>3, <2>4 DEF LaunchPipeline, LaunchRecords
  <2> QED
    BY <2>5, <2>6
<1>18. ASSUME NEW n \in Starts, LaunchElements(n) PROVE Launches'
  BY <1>18 DEF LaunchElements
<1>19. CASE MapRace
  BY <1>19, <1>4 DEF MapRace, Faults
<1>20. ASSUME NEW w \in Workers, Proceed(w) PROVE Launches'
  BY <1>20, <1>4, <1>15, Moved
<1> QED
  BY <1>0, <1>1, <1>2, <1>3, <1>4, <1>5, <1>6, <1>7, <1>8, <1>9, <1>10, <1>11, <1>12,
     <1>13, <1>14, <1>15, <1>16, <1>17, <1>18, <1>19, <1>20
     DEF Next, Client, Launch

\* The pipeline is made by the one launch, and filled once it is there.
LEMMA NextOnePipeline ==
  ASSUME TypeOK, Plain, [Next]_vars PROVE Single' => OnePipeline'
<1>a. /\ starts \in 0..MaxStarts /\ current \in 0..MaxStarts
      /\ handlers \in [Starts -> HandlerRecords] /\ launch \in [Starts -> LaunchRecords]
      /\ parts \in [Starts -> SUBSET (Parts \X Peers)] /\ mixers \subseteq Starts
  BY DEF TypeOK
<1>b. current # 0 => current \in Starts
  BY <1>a DEF Starts
<1> USE AudioAssumption, <1>a DEF Plain, Single, OnePipeline, Unused, clientVars, serverVars, historyVars
<1>0. CASE UNCHANGED vars
  BY <1>0 DEF vars
<1>1. CASE CreateAudioChannel
  <2>1. CASE ~Single
    BY <1>1, <2>1 DEF CreateAudioChannel
  <2>2. CASE Single
    <3>1. current = 0 /\ current' = starts + 1 /\ starts' = starts + 1 /\ starts + 1 \in Starts
      BY <1>1, <2>2 DEF CreateAudioChannel, NoChannel, Starts
    <3>2. \A n \in Starts : Unused(n)
      BY <2>2, <3>1 DEF Starts
    <3>3. /\ launch'[current'].at = "fetch" /\ handlers'[current'] = NewHandler
          /\ parts'[current'] = {} /\ current' \notin mixers'
      BY <1>1, <3>1, <3>2 DEF CreateAudioChannel
    <3>4. \A n \in Starts : n # current' => Unused(n)'
      BY <1>1, <3>1, <3>2 DEF CreateAudioChannel
    <3>5. current' # 0 /\ NewHandler.pipeline = 0
      BY <3>1 DEF NewHandler, Starts
    <3> QED
      BY <3>1, <3>3, <3>4, <3>5
  <2> QED
    BY <2>1, <2>2
<1>2. CASE SignallingRestart
  BY <1>2 DEF SignallingRestart
<1>3. CASE ProcessRestart
  BY <1>3 DEF ProcessRestart
<1>4. ASSUME NEW cause \in Faults, Crash(cause) PROVE Single' => OnePipeline'
  BY <1>4 DEF Crash
<1>5. ASSUME NEW p \in Peers, Connect(p) PROVE Single' => OnePipeline'
  BY <1>5 DEF Connect
<1>6. ASSUME NEW p \in Peers, Break(p) PROVE Single' => OnePipeline'
  BY <1>6 DEF Break
<1>7. ASSUME NEW p \in Peers, Close(p) PROVE Single' => OnePipeline'
  <2>1. Sends(Session(p), "close")
    BY <1>7, Calls
  <2> QED
    BY <1>7, <2>1 DEF Close, Sends
<1>8. ASSUME NEW p \in Peers, Join(p) PROVE Single' => OnePipeline'
  <2>1. Sends(Session(p), "join")
    BY <1>8, Calls
  <2> QED
    BY <1>8, <2>1 DEF Join, Sends
<1>9. ASSUME NEW p \in Peers, SenderCandidate(p) PROVE Single' => OnePipeline'
  <2>1. Sends(Session(p), "senderIce")
    BY <1>9, Calls
  <2> QED
    BY <1>9, <2>1 DEF SenderCandidate, Sends
<1>10. ASSUME NEW p \in Peers, ReceiverAnswer(p) PROVE Single' => OnePipeline'
  <2>1. Sends(Session(p), "answer")
    BY <1>10, Calls
  <2> QED
    BY <1>10, <2>1 DEF ReceiverAnswer, Sends
<1>11. ASSUME NEW p \in Peers, ReceiverCandidate(p) PROVE Single' => OnePipeline'
  <2>1. Sends(Session(p), "receiverIce")
    BY <1>11, Calls
  <2> QED
    BY <1>11, <2>1 DEF ReceiverCandidate, Sends
<1>12. ASSUME NEW p \in Peers, QuitAudio(p) PROVE Single' => OnePipeline'
  <2>1. Sends(Session(p), "reset")
    BY <1>12, Calls
  <2> QED
    BY <1>12, <2>1 DEF QuitAudio, Sends
<1>13. ASSUME NEW p \in Peers, CandidateFails(p) PROVE Single' => OnePipeline'
  <2>1. session[p] \notin {"new", "open"} /\ Sends(Failure(p), "close")
    BY <1>13, Calls
  <2> QED
    BY <1>13, <2>1 DEF CandidateFails, Sends
<1>14. ASSUME NEW m \in {"answer", "offer", "reset"} \X Peers, Deliver(m)
       PROVE Single' => OnePipeline'
  <2>1. m[2] \in Peers /\ m[1] \in {"answer", "offer", "reset"} /\ <<m[1], m[2]>> \in toDeliver
    BY <1>14, Calls
  <2>2. UNCHANGED call \/ (session[m[2]] # "open" /\ Sends(Failure(m[2]), "close"))
    BY <1>14, Calls
  <2> QED
    BY <1>14, <2>1, <2>2 DEF Deliver, Sends
<1>15. ASSUME NEW w \in Workers, Moves(w) PROVE Single' => OnePipeline'
  <2>1. CASE ~Single
    BY <1>15, <2>1 DEF Moves
  <2>2. CASE Single
    <3>1. call[w].at = "lookup" \/ (call[w].handler = current /\ current \in Starts)
      BY <1>15, <2>2, <1>b DEF Moves, OneHandler, Past
    <3>2. \A n \in Starts :
             n # current => UNCHANGED <<launch[n], handlers[n], parts[n]>>
      BY <1>15, <2>2, <3>1 DEF Moves, Pipeline, Handler, Starts
    <3>3. current # 0 => /\ handlers'[current].pipeline = handlers[current].pipeline
                         /\ handlers[current].pipeline = 0 => parts'[current] = parts[current]
      BY <1>15, <2>2, <3>1, <1>b DEF Moves, Pipeline, Handler
    <3> QED
      BY <1>15, <2>2, <3>2, <3>3 DEF Moves
  <2> QED
    BY <2>1, <2>2
<1>16. ASSUME NEW n \in Starts, LaunchFetch(n) PROVE Single' => OnePipeline'
  <2>1. CASE ~Single
    BY <1>16, <2>1 DEF LaunchFetch
  <2>2. CASE Single
    <3>1. n = current /\ current # 0
      BY <1>16, <2>2 DEF LaunchFetch, NoLaunch, Starts
    <3> QED
      BY <1>16, <2>2, <3>1 DEF LaunchFetch, LaunchRecords, HandlerRecords
  <2> QED
    BY <2>1, <2>2
<1>17. ASSUME NEW n \in Starts, LaunchPipeline(n) PROVE Single' => OnePipeline'
  <2>1. CASE ~Single
    BY <1>17, <2>1 DEF LaunchPipeline
  <2>2. CASE Single
    <3>1. n = current /\ current # 0
      BY <1>17, <2>2 DEF LaunchPipeline, NoLaunch, Starts
    <3> QED
      BY <1>17, <2>2, <3>1 DEF LaunchPipeline, LaunchRecords, HandlerRecords
  <2> QED
    BY <2>1, <2>2
<1>18. ASSUME NEW n \in Starts, LaunchElements(n) PROVE Single' => OnePipeline'
  <2>1. CASE ~Single
    BY <1>18, <2>1 DEF LaunchElements
  <2>2. CASE Single
    <3>1. n = current /\ current # 0
      BY <1>18, <2>2 DEF LaunchElements, NoLaunch, Starts
    <3> QED
      BY <1>18, <2>2, <3>1 DEF LaunchElements, LaunchRecords, HandlerRecords
  <2> QED
    BY <2>1, <2>2
<1>19. CASE MapRace
  BY <1>19, <1>4 DEF MapRace, Faults
<1>20. ASSUME NEW w \in Workers, Proceed(w) PROVE Single' => OnePipeline'
  BY <1>20, <1>4, <1>15, Moved
<1> QED
  BY <1>0, <1>1, <1>2, <1>3, <1>4, <1>5, <1>6, <1>7, <1>8, <1>9, <1>10, <1>11, <1>12,
     <1>13, <1>14, <1>15, <1>16, <1>17, <1>18, <1>19, <1>20
     DEF Next, Client, Launch

\* Nothing goes on without a channel.
LEMMA NextNoChannel ==
  ASSUME TypeOK, Sessions, Plain, [Next]_vars PROVE Single' => NoChannel'
<1>a. /\ call \in [Workers -> CallRecords]
      /\ session \in [Peers -> {"new", "open", "broken", "closed", "lost"}]
      /\ Idle.at = "idle" /\ Idle.kind = "reset"
  BY DEF TypeOK, Idle
<1> USE WorkerKinds, <1>a DEF Plain, Single, NoChannel, clientVars, serverVars, historyVars
<1>0. CASE UNCHANGED vars
  BY <1>0 DEF vars
<1>1. CASE CreateAudioChannel
  BY <1>1 DEF CreateAudioChannel
<1>2. CASE SignallingRestart
  BY <1>2 DEF SignallingRestart
<1>3. CASE ProcessRestart
  BY <1>3 DEF ProcessRestart, Sessions
<1>4. ASSUME NEW cause \in Faults, Crash(cause) PROVE Single' => NoChannel'
  BY <1>4 DEF Crash
<1>5. ASSUME NEW p \in Peers, Connect(p) PROVE Single' => NoChannel'
  BY <1>5 DEF Connect
<1>6. ASSUME NEW p \in Peers, Break(p) PROVE Single' => NoChannel'
  BY <1>6 DEF Break
<1>7. ASSUME NEW p \in Peers, Close(p) PROVE Single' => NoChannel'
  <2>1. Sends(Session(p), "close")
    BY <1>7, Calls
  <2>2. channel
    BY <1>7 DEF Close, Sessions
  <2> QED
    BY <1>7, <2>1, <2>2 DEF Close, Sends
<1>8. ASSUME NEW p \in Peers, Join(p) PROVE Single' => NoChannel'
  <2>1. Sends(Session(p), "join")
    BY <1>8, Calls
  <2>2. channel
    BY <1>8 DEF Join, Sessions
  <2> QED
    BY <1>8, <2>1, <2>2 DEF Join, Sends
<1>9. ASSUME NEW p \in Peers, SenderCandidate(p) PROVE Single' => NoChannel'
  <2>1. Sends(Session(p), "senderIce")
    BY <1>9, Calls
  <2>2. channel
    BY <1>9 DEF SenderCandidate, Sessions
  <2> QED
    BY <1>9, <2>1, <2>2 DEF SenderCandidate, Sends
<1>10. ASSUME NEW p \in Peers, ReceiverAnswer(p) PROVE Single' => NoChannel'
  <2>1. Sends(Session(p), "answer")
    BY <1>10, Calls
  <2>2. channel
    BY <1>10 DEF ReceiverAnswer, Sessions
  <2> QED
    BY <1>10, <2>1, <2>2 DEF ReceiverAnswer, Sends
<1>11. ASSUME NEW p \in Peers, ReceiverCandidate(p) PROVE Single' => NoChannel'
  <2>1. Sends(Session(p), "receiverIce")
    BY <1>11, Calls
  <2>2. channel
    BY <1>11 DEF ReceiverCandidate, Sessions
  <2> QED
    BY <1>11, <2>1, <2>2 DEF ReceiverCandidate, Sends
<1>12. ASSUME NEW p \in Peers, QuitAudio(p) PROVE Single' => NoChannel'
  <2>1. Sends(Session(p), "reset")
    BY <1>12, Calls
  <2>2. channel
    BY <1>12 DEF QuitAudio, Sessions
  <2> QED
    BY <1>12, <2>1, <2>2 DEF QuitAudio, Sends
<1>13. ASSUME NEW p \in Peers, CandidateFails(p) PROVE Single' => NoChannel'
  <2>1. CASE ~Single
    BY <1>13, <2>1 DEF CandidateFails
  <2>2. CASE Single
    <3>1. PICK n \in Starts : parts[n] # {}
      BY <1>13 DEF CandidateFails
    <3>2. current # 0
      BY <2>2, <3>1 DEF OnePipeline, Unused, Starts
    <3>3. channel
      BY <2>2, <3>2
    <3> QED
      BY <1>13, <3>2, <3>3 DEF CandidateFails
  <2> QED
    BY <2>1, <2>2
<1>14. ASSUME NEW m \in {"answer", "offer", "reset"} \X Peers, Deliver(m)
       PROVE Single' => NoChannel'
  <2>1. m[2] \in Peers /\ m[1] \in {"answer", "offer", "reset"} /\ <<m[1], m[2]>> \in toDeliver
    BY <1>14, Calls
  <2>2. UNCHANGED call \/ (session[m[2]] # "open" /\ Sends(Failure(m[2]), "close"))
    BY <1>14, Calls
  <2> QED
    BY <1>14, <2>1, <2>2 DEF Deliver, Sends
<1>15. ASSUME NEW w \in Workers, Moves(w) PROVE Single' => NoChannel'
  <2>1. CASE ~Single
    BY <1>15, <2>1 DEF Moves
  <2>2. CASE Single
    <3>1. channel
      BY <1>15, <2>2 DEF Moves
    <3>2. current # 0 \/ toDeliver' = toDeliver
      BY <1>15, <2>2 DEF Moves, OneHandler, Past
    <3> QED
      BY <1>15, <2>2, <3>1, <3>2 DEF Moves
  <2> QED
    BY <2>1, <2>2
<1>16. ASSUME NEW n \in Starts, LaunchFetch(n) PROVE Single' => NoChannel'
  BY <1>16 DEF LaunchFetch
<1>17. ASSUME NEW n \in Starts, LaunchPipeline(n) PROVE Single' => NoChannel'
  BY <1>17 DEF LaunchPipeline
<1>18. ASSUME NEW n \in Starts, LaunchElements(n) PROVE Single' => NoChannel'
  BY <1>18 DEF LaunchElements
<1>19. CASE MapRace
  BY <1>19, <1>4 DEF MapRace, Faults
<1>20. ASSUME NEW w \in Workers, Proceed(w) PROVE Single' => NoChannel'
  BY <1>20, <1>4, <1>15, Moved
<1> QED
  BY <1>0, <1>1, <1>2, <1>3, <1>4, <1>5, <1>6, <1>7, <1>8, <1>9, <1>10, <1>11, <1>12,
     <1>13, <1>14, <1>15, <1>16, <1>17, <1>18, <1>19, <1>20
     DEF Next, Client, Launch

\* Calls have the handler that was in the map, which stays there.
LEMMA NextOneHandler ==
  ASSUME TypeOK, Sessions, CallsFit, Plain, [Next]_vars PROVE Single' => OneHandler'
<1>a. /\ call \in [Workers -> CallRecords]
      /\ session \in [Peers -> {"new", "open", "broken", "closed", "lost"}]
      /\ Idle.at = "idle" /\ Idle.kind = "reset"
  BY DEF TypeOK, Idle
<1> USE WorkerKinds, <1>a DEF Plain, Single, OneHandler, Past, AddPoints, clientVars, serverVars, historyVars
<1>0. CASE UNCHANGED vars
  BY <1>0 DEF vars
<1>1. CASE CreateAudioChannel
  BY <1>1 DEF CreateAudioChannel, NoChannel
<1>2. CASE SignallingRestart
  BY <1>2 DEF SignallingRestart
<1>3. CASE ProcessRestart
  BY <1>3 DEF ProcessRestart
<1>4. ASSUME NEW cause \in Faults, Crash(cause) PROVE Single' => OneHandler'
  BY <1>4 DEF Crash
<1>5. ASSUME NEW p \in Peers, Connect(p) PROVE Single' => OneHandler'
  BY <1>5 DEF Connect
<1>6. ASSUME NEW p \in Peers, Break(p) PROVE Single' => OneHandler'
  BY <1>6 DEF Break
<1>7. ASSUME NEW p \in Peers, Close(p) PROVE Single' => OneHandler'
  <2>1. Sends(Session(p), "close")
    BY <1>7, Calls
  <2> QED
    BY <1>7, <2>1 DEF Close, Sends
<1>8. ASSUME NEW p \in Peers, Join(p) PROVE Single' => OneHandler'
  <2>1. Sends(Session(p), "join")
    BY <1>8, Calls
  <2>2. \A q \in Peers : misused[q] \subseteq misused'[q]
    BY <1>8, Noted DEF Join, TypeOK, Misuses
  <2> QED
    BY <1>8, <2>1, <2>2 DEF Join, Sends
<1>9. ASSUME NEW p \in Peers, SenderCandidate(p) PROVE Single' => OneHandler'
  <2>1. Sends(Session(p), "senderIce")
    BY <1>9, Calls
  <2> QED
    BY <1>9, <2>1 DEF SenderCandidate, Sends
<1>10. ASSUME NEW p \in Peers, ReceiverAnswer(p) PROVE Single' => OneHandler'
  <2>1. Sends(Session(p), "answer")
    BY <1>10, Calls
  <2> QED
    BY <1>10, <2>1 DEF ReceiverAnswer, Sends
<1>11. ASSUME NEW p \in Peers, ReceiverCandidate(p) PROVE Single' => OneHandler'
  <2>1. Sends(Session(p), "receiverIce")
    BY <1>11, Calls
  <2> QED
    BY <1>11, <2>1 DEF ReceiverCandidate, Sends
<1>12. ASSUME NEW p \in Peers, QuitAudio(p) PROVE Single' => OneHandler'
  <2>1. Sends(Session(p), "reset")
    BY <1>12, Calls
  <2> QED
    BY <1>12, <2>1 DEF QuitAudio, Sends
<1>13. ASSUME NEW p \in Peers, CandidateFails(p) PROVE Single' => OneHandler'
  <2>1. session[p] \notin {"new", "open"} /\ Sends(Failure(p), "close")
    BY <1>13, Calls
  <2> QED
    BY <1>13, <2>1 DEF CandidateFails, Sends
<1>14. ASSUME NEW m \in {"answer", "offer", "reset"} \X Peers, Deliver(m)
       PROVE Single' => OneHandler'
  <2>1. m[2] \in Peers /\ m[1] \in {"answer", "offer", "reset"} /\ <<m[1], m[2]>> \in toDeliver
    BY <1>14, Calls
  <2>2. UNCHANGED call \/ (session[m[2]] # "open" /\ Sends(Failure(m[2]), "close"))
    BY <1>14, Calls
  <2> QED
    BY <1>14, <2>1, <2>2 DEF Deliver, Sends
<1>15. ASSUME NEW w \in Workers, Moves(w) PROVE Single' => OneHandler'
  <2>1. CASE ~Single
    BY <1>15, <2>1 DEF Moves
  <2>2. CASE Single
    <3>1. Past(w)' => current # 0 /\ call'[w].handler = current
      BY <1>15, <2>2 DEF Moves
    <3>2. ASSUME "early" \notin misused'[w[1]], call'[w].at \in AddPoints
          PROVE  launch[current].at = "running"
      <4>1. CASE call[w].at = "lookup"
        <5>1. handlers[current].pipeline \in mixers /\ current # 0
          BY <1>15, <3>2, <4>1 DEF Moves
        <5>2. handlers[current].pipeline \in {0, current} /\ 0 \notin mixers
          BY <2>2, <5>1, TypeOK DEF OnePipeline, TypeOK, Starts
        <5> QED
          BY <2>2, <5>1, <5>2 DEF OnePipeline
      <4>2. CASE call[w].at # "lookup"
        <5>1. call[w].at \in AddPoints
          BY <1>15, <3>2, <4>2 DEF Moves
        <5> QED
          BY <1>15, <2>2, <3>2, <5>1 DEF Moves
      <4> QED
        BY <4>1, <4>2
    <3>3. UNCHANGED <<current, launch>> /\ \A v \in Workers : v # w => call'[v] = call[v]
      BY <1>15 DEF Moves
    <3> QED
      BY <1>15, <2>2, <3>1, <3>2, <3>3 DEF Moves
  <2> QED
    BY <2>1, <2>2
<1>16. ASSUME NEW n \in Starts, LaunchFetch(n) PROVE Single' => OneHandler'
  BY <1>16 DEF LaunchFetch
<1>17. ASSUME NEW n \in Starts, LaunchPipeline(n) PROVE Single' => OneHandler'
  BY <1>17 DEF LaunchPipeline
<1>18. ASSUME NEW n \in Starts, LaunchElements(n) PROVE Single' => OneHandler'
  BY <1>18 DEF LaunchElements
<1>19. CASE MapRace
  BY <1>19, <1>4 DEF MapRace, Faults
<1>20. ASSUME NEW w \in Workers, Proceed(w) PROVE Single' => OneHandler'
  BY <1>20, <1>4, <1>15, Moved
<1> QED
  BY <1>0, <1>1, <1>2, <1>3, <1>4, <1>5, <1>6, <1>7, <1>8, <1>9, <1>10, <1>11, <1>12,
     <1>13, <1>14, <1>15, <1>16, <1>17, <1>18, <1>19, <1>20
     DEF Next, Client, Launch

\* What a call leaves its peer with: at its end what it was for, and on the way
\* what the next point needs.
Effect(w) ==
    /\ call'[w].at = "idle" =>
          /\ call[w].kind \in IceKinds \cup {"join"} => In(w[1])'
          /\ call[w].kind \in {"reset", "close"} => Out(w[1])'
    /\ call[w].at = "remove" /\ Out(w[1]) => call'[w].at = "idle"
    /\ call[w].at = "register" /\ Out(w[1]) => Holds(w[1], TRUE, FALSE, {})'
    /\ call'[w].at # "idle" => \A at \in Points : at = call'[w].at => Stage(w[1], at)'

\* Every step of a call past its lookup has that effect.
LEMMA Effects ==
  ASSUME TypeOK, OnePipeline, OneHandler, CallsFit, NEW w \in Workers, call[w].at # "lookup",
         Proceed(w), Moves(w), Stage(w[1], call[w].at)
  PROVE  Effect(w)
<1> DEFINE p == w[1]
<1>a. /\ p \in Peers /\ current \in Starts /\ call[w].handler = current /\ call[w].at # "idle"
      /\ call[w] \in CallRecords /\ handlers[current] \in HandlerRecords
      /\ Handler(w) = handlers[current] /\ Pipeline(w) \in {0, current}
      /\ Pipeline(w) = 0 => parts[current] = {}
  <2>1. p \in Peers /\ call[w].at # "idle" /\ call[w] \in CallRecords
    BY WorkerKinds DEF Moves, TypeOK
  <2>2. current # 0 /\ call[w].handler = current
    BY <2>1 DEF OneHandler, Past
  <2>3. current \in Starts
    BY <2>2 DEF TypeOK, Starts
  <2> QED
    BY <2>1, <2>2, <2>3 DEF Handler, Pipeline, OnePipeline, TypeOK
<1>b. \A x : Has(w, x) <=> <<x, p>> \in parts[current]
  BY <1>a DEF Has
<1>c. ASSUME NEW x, PutIn(w, x), Pipeline(w) # 0
      PROVE  \A y \in Parts : <<y, p>> \in parts'[current] <=> <<y, p>> \in parts[current] \/ y = x
  BY <1>a, <1>c DEF PutIn, TypeOK
<1>d. ASSUME NEW both, TakeOut(w, both), Pipeline(w) # 0
      PROVE  \A y \in Parts : <<y, p>> \in parts'[current] <=> <<y, p>> \in parts[current] /\ y \notin both
  BY <1>a, <1>d DEF TakeOut, TypeOK
<1>e. /\ UNCHANGED current /\ Fits(call[w]) /\ Up
      /\ \A cause \in Faults \ {"none"} : ~Crash(cause)
  BY DEF Moves, clientVars, CallsFit, Crash, Up
<1>f. ~Crash("noMixer") /\ ~Crash("padLink") /\ ~Crash("nullPeer") /\ ~Crash("unlinked")
  BY <1>e DEF Faults
<1>g. /\ \A point : Goto(w, point) => call'[w].at = point
      /\ Return(w) => call'[w].at = "idle"
  BY <1>a DEF Goto, Return, Idle, CallRecords, TypeOK
<1>h. ASSUME UNCHANGED <<handlers, parts>>
      PROVE  /\ In(p)' <=> In(p)
             /\ Out(p)' <=> Out(p)
  BY <1>e, <1>h DEF In, Out, Holds
<1> USE DEF Effect, Stage, Fits, IceKinds
<1>1. CASE SenderIce(w)
  <2>1. Return(w) /\ UNCHANGED <<handlers, parts>>
    BY <1>1, <1>e, <1>f DEF SenderIce, serverVars
  <2> QED
    BY <1>1, <2>1, <1>e, <1>g, <1>h DEF SenderIce, At
<1>2. CASE ForReceiver(w)
  <2>1. Return(w) /\ UNCHANGED <<handlers, parts>>
    BY <1>2, <1>e, <1>f DEF ForReceiver, serverVars
  <2> QED
    BY <1>2, <2>1, <1>e, <1>g, <1>h DEF ForReceiver
<1>3. CASE Register(w)
  <2>1. call'[w].at = "addSend" /\ UNCHANGED parts
    BY <1>3, <1>g DEF Register
  <2>2. /\ p \in handlers'[current].senders
        /\ p \in handlers'[current].receivers <=> p \in handlers[current].receivers
    BY <1>3, <1>a DEF Register, Set, Handler, HandlerRecords, TypeOK
  <2> QED
    BY <1>3, <2>1, <2>2, <1>e DEF Register, At, In, Out, Holds
<1>4. CASE AddSend(w)
  <2>1. Pipeline(w) # 0
    BY <1>4, <1>f DEF AddSend
  <2>2. PutIn(w, "send") /\ call'[w].at = "mix" /\ UNCHANGED handlers
    BY <1>4, <2>1, <1>g DEF AddSend
  <2>3. \A y \in Parts : <<y, p>> \in parts'[current] <=> <<y, p>> \in parts[current] \/ y = "send"
    BY <2>1, <2>2, <1>c
  <2>4. ~(<<"send", p>> \in parts[current])
    BY <1>4, <1>b DEF AddSend
  <2> QED
    BY <1>4, <2>2, <2>3, <2>4, <1>e DEF AddSend, At, In, Holds, Parts
<1>5. CASE AddSendAgain(w)
  <2>1. call'[w].at = "apply" /\ UNCHANGED <<handlers, parts>>
    BY <1>5, <1>f, <1>g DEF AddSendAgain, serverVars
  <2>2. <<"send", p>> \in parts[current]
    BY <1>5, <1>b DEF AddSendAgain
  <2> QED
    BY <1>5, <2>1, <2>2, <1>e, <1>h DEF AddSendAgain, At, Holds, Parts
<1>6. CASE Mix(w)
  <2>1. Pipeline(w) \in mixers
    BY <1>6, <1>f DEF Mix
  <2>2. Pipeline(w) # 0
    BY <2>1 DEF TypeOK, Starts
  <2>3. PutIn(w, "mix") /\ call'[w].at = "registerReceiver" /\ UNCHANGED handlers
    BY <1>6, <2>1, <1>f, <1>g DEF Mix
  <2>4. \A y \in Parts : <<y, p>> \in parts'[current] <=> <<y, p>> \in parts[current] \/ y = "mix"
    BY <2>2, <2>3, <1>c
  <2> QED
    BY <1>6, <2>3, <2>4, <1>e DEF Mix, At, Holds, Parts
<1>7. CASE RegisterReceiver(w)
  <2>1. call'[w].at = "addReceiver" /\ UNCHANGED parts
    BY <1>7, <1>g DEF RegisterReceiver
  <2>2. /\ p \in handlers'[current].receivers
        /\ p \in handlers'[current].senders <=> p \in handlers[current].senders
    BY <1>7, <1>a DEF RegisterReceiver, Set, Handler, HandlerRecords, TypeOK
  <2> QED
    BY <1>7, <2>1, <2>2, <1>e DEF RegisterReceiver, At, Holds
<1>8. CASE AddReceiver(w)
  <2>1. <<"send", p>> \in parts[current]
    BY <1>8 DEF AddReceiver, At, Holds, Parts
  <2>2. Pipeline(w) # 0
    BY <2>1, <1>a
  <2>3. PutIn(w, "recv") /\ call'[w].at = "tee" /\ UNCHANGED handlers
    BY <1>8, <1>f, <1>g DEF AddReceiver
  <2>4. \A y \in Parts : <<y, p>> \in parts'[current] <=> <<y, p>> \in parts[current] \/ y = "recv"
    BY <2>2, <2>3, <1>c
  <2> QED
    BY <1>8, <2>3, <2>4, <1>e DEF AddReceiver, At, Holds, Parts
<1>9. CASE Tee(w)
  <2>1. <<"send", p>> \in parts[current]
    BY <1>9 DEF Tee, At, Holds, Parts
  <2>2. Pipeline(w) # 0
    BY <2>1, <1>a
  <2>3. PutIn(w, "tee") /\ call'[w].at = "apply" /\ UNCHANGED handlers
    BY <1>9, <1>f, <1>g DEF Tee
  <2>4. \A y \in Parts : <<y, p>> \in parts'[current] <=> <<y, p>> \in parts[current] \/ y = "tee"
    BY <2>2, <2>3, <1>c
  <2> QED
    BY <1>9, <2>3, <2>4, <1>e DEF Tee, At, In, Holds, Parts
<1>10. CASE Apply(w)
  <2>1. Return(w) /\ UNCHANGED <<handlers, parts>>
    BY <1>10, <1>f DEF Apply
  <2> QED
    BY <1>10, <2>1, <1>e, <1>g, <1>h DEF Apply, At, AddPoints
<1>11. CASE Remove(w)
  <2>1. CASE ~Has(w, "send")
    <3>1. Return(w) /\ UNCHANGED <<handlers, parts>>
      BY <1>11, <2>1 DEF Remove, serverVars
    <3>2. Out(p)
      BY <1>11, <2>1, <1>b DEF Remove, At, In, Holds, Parts
    <3> QED
      BY <1>11, <3>1, <3>2, <1>e, <1>g, <1>h DEF Remove, At, RemovePoints
  <2>2. CASE Has(w, "send")
    <3>1. TakeOut(w, {"send", "mix"}) /\ call'[w].at = "removeReceiver" /\ UNCHANGED handlers
      BY <1>11, <2>2, <1>f, <1>g DEF Remove
    <3>2. In(p) /\ ~Out(p) /\ Pipeline(w) # 0
      BY <1>11, <2>2, <1>b DEF Remove, At, Out, Holds, Parts, Has
    <3>3. \A y \in Parts : <<y, p>> \in parts'[current] <=>
              <<y, p>> \in parts[current] /\ y \notin {"send", "mix"}
      BY <3>1, <3>2, <1>d
    <3> QED
      BY <1>11, <3>1, <3>2, <3>3, <1>e DEF Remove, At, In, Holds, Parts
  <2> QED
    BY <2>1, <2>2
<1>12. CASE RemoveReceiver(w)
  <2>1. Has(w, "recv")
    BY <1>12, <1>b DEF RemoveReceiver, At, Holds, Parts
  <2>2. TakeOut(w, {"recv", "tee"}) /\ call'[w].at = "eraseSender" /\ UNCHANGED handlers
    BY <1>12, <2>1, <1>f, <1>g DEF RemoveReceiver
  <2>3. \A y \in Parts : <<y, p>> \in parts'[current] <=>
            <<y, p>> \in parts[current] /\ y \notin {"recv", "tee"}
    BY <2>1, <2>2, <1>d DEF Has
  <2> QED
    BY <1>12, <2>2, <2>3, <1>e DEF RemoveReceiver, At, Holds, Parts
<1>13. CASE EraseSender(w)
  <2>1. call'[w].at = "eraseReceiver" /\ UNCHANGED parts
    BY <1>13, <1>g DEF EraseSender
  <2>2. /\ p \notin handlers'[current].senders
        /\ p \in handlers'[current].receivers <=> p \in handlers[current].receivers
    BY <1>13, <1>a DEF EraseSender, Set, Handler, HandlerRecords, TypeOK
  <2> QED
    BY <1>13, <2>1, <2>2, <1>e DEF EraseSender, At, Holds
<1>14. CASE EraseReceiver(w)
  <2>1. PICK dangling \in {Handler(w).dangling, p \in Handler(w).receivers} :
            /\ Set(w, [Handler(w) EXCEPT !.receivers = @ \ {w[1]}, !.dangling = @ \/ dangling])
            /\ Goto(w, "notify") /\ UNCHANGED parts
    BY <1>14, <1>e DEF EraseReceiver, Faults
  <2>2. /\ p \notin handlers'[current].receivers
        /\ p \in handlers'[current].senders <=> p \in handlers[current].senders
    BY <2>1, <1>a DEF Set, Handler, HandlerRecords, TypeOK
  <2> QED
    BY <1>14, <2>1, <2>2, <1>e, <1>g DEF EraseReceiver, At, Out, Holds
<1>15. CASE Notify(w)
  <2>1. Return(w) /\ UNCHANGED <<handlers, parts>>
    BY <1>15 DEF Notify
  <2> QED
    BY <1>15, <2>1, <1>e, <1>g, <1>h DEF Notify, At, RemovePoints
<1>16. CASE Dangling(w)
  BY <1>16, <1>e DEF Dangling, Faults
<1> QED
  BY <1>1, <1>2, <1>3, <1>4, <1>5, <1>6, <1>7, <1>8, <1>9, <1>10, <1>11, <1>12, <1>13, <1>14,
       <1>15, <1>16
     DEF Proceed, Lookup, LookupFails, At

\* Calls about one peer stay apart.
LEMMA NextAlone ==
  ASSUME TypeOK, Sessions, Alone, [Next]_vars PROVE Alone'
<1>a. /\ \A p \in Peers : Session(p) \in Workers /\ Failure(p) \in Workers
      /\ call \in [Workers -> CallRecords]
      /\ Idle.at = "idle" /\ Idle.kind = "reset"
  BY WorkerKinds DEF TypeOK, Idle
<1> USE WorkerKinds, <1>a DEF Alone, clientVars, serverVars, historyVars
<1>3. CASE ProcessRestart
  BY <1>3 DEF ProcessRestart, Apart, Past, Calm
<1> SUFFICES ASSUME ~ProcessRestart PROVE Alone'
  BY <1>3
<1>b. Calm' \subseteq Calm /\ Calm \subseteq Peers
  BY CalmBefore
<1> USE <1>b
<1>0. CASE UNCHANGED vars
  BY <1>0 DEF vars, Apart, Past
<1>1. CASE CreateAudioChannel
  BY <1>1 DEF CreateAudioChannel, Apart, Past
<1>2. CASE SignallingRestart
  BY <1>2 DEF SignallingRestart, Apart, Past
<1>4. ASSUME NEW cause \in Faults, Crash(cause) PROVE Alone'
  BY <1>4 DEF Crash, Apart, Past
<1>5. ASSUME NEW p \in Peers, Connect(p) PROVE Alone'
  BY <1>5 DEF Connect, Apart, Past
<1>6. ASSUME NEW p \in Peers, Break(p) PROVE Alone'
  BY <1>6 DEF Break, Apart, Past
<1>7. ASSUME NEW p \in Peers, Close(p) PROVE Alone'
  <2>1. Sends(Session(p), "close")
    BY <1>7, Calls DEF Close
  <2>2. call[Failure(p)].at = "idle" \/ "close" = "close"
    BY <1>7, <2>1 DEF Close, Sessions, Ready
  <2>3. ASSUME NEW q \in Calm', q # p PROVE Apart(q)'
    BY <1>7, <2>1, <2>3 DEF Apart, Past, Sends
  <2>4. p \in Calm' => Apart(p)'
    BY <1>7, <2>1, <2>2 DEF Apart, Past, Sends
  <2> QED
    BY <2>3, <2>4
<1>8. ASSUME NEW p \in Peers, Join(p) PROVE Alone'
  <2>1. Sends(Session(p), "join")
    BY <1>8, Calls DEF Join
  <2>2. call[Failure(p)].at = "idle" \/ "join" = "close"
    BY <1>8, <2>1 DEF Join, Sessions, Ready
  <2>3. ASSUME NEW q \in Calm', q # p PROVE Apart(q)'
    BY <1>8, <2>1, <2>3 DEF Apart, Past, Sends
  <2>4. p \in Calm' => Apart(p)'
    BY <1>8, <2>1, <2>2 DEF Apart, Past, Sends
  <2> QED
    BY <2>3, <2>4
<1>9. ASSUME NEW p \in Peers, SenderCandidate(p) PROVE Alone'
  <2>1. Sends(Session(p), "senderIce")
    BY <1>9, Calls DEF SenderCandidate
  <2>2. call[Failure(p)].at = "idle" \/ "senderIce" = "close"
    BY <1>9, <2>1 DEF SenderCandidate, Sessions, Ready
  <2>3. ASSUME NEW q \in Calm', q # p PROVE Apart(q)'
    BY <1>9, <2>1, <2>3 DEF Apart, Past, Sends
  <2>4. p \in Calm' => Apart(p)'
    BY <1>9, <2>1, <2>2 DEF Apart, Past, Sends
  <2> QED
    BY <2>3, <2>4
<1>10. ASSUME NEW p \in Peers, ReceiverAnswer(p) PROVE Alone'
  <2>1. Sends(Session(p), "answer")
    BY <1>10, Calls DEF ReceiverAnswer
  <2>2. call[Failure(p)].at = "idle" \/ "answer" = "close"
    BY <1>10, <2>1 DEF ReceiverAnswer, Sessions, Ready
  <2>3. ASSUME NEW q \in Calm', q # p PROVE Apart(q)'
    BY <1>10, <2>1, <2>3 DEF Apart, Past, Sends
  <2>4. p \in Calm' => Apart(p)'
    BY <1>10, <2>1, <2>2 DEF Apart, Past, Sends
  <2> QED
    BY <2>3, <2>4
<1>11. ASSUME NEW p \in Peers, ReceiverCandidate(p) PROVE Alone'
  <2>1. Sends(Session(p), "receiverIce")
    BY <1>11, Calls DEF ReceiverCandidate
  <2>2. call[Failure(p)].at = "idle" \/ "receiverIce" = "close"
    BY <1>11, <2>1 DEF ReceiverCandidate, Sessions, Ready
  <2>3. ASSUME NEW q \in Calm', q # p PROVE Apart(q)'
    BY <1>11, <2>1, <2>3 DEF Apart, Past, Sends
  <2>4. p \in Calm' => Apart(p)'
    BY <1>11, <2>1, <2>2 DEF Apart, Past, Sends
  <2> QED
    BY <2>3, <2>4
<1>12. ASSUME NEW p \in Peers, QuitAudio(p) PROVE Alone'
  <2>1. Sends(Session(p), "reset")
    BY <1>12, Calls DEF QuitAudio
  <2>2. call[Failure(p)].at = "idle" \/ "reset" = "close"
    BY <1>12, <2>1 DEF QuitAudio, Sessions, Ready
  <2>3. ASSUME NEW q \in Calm', q # p PROVE Apart(q)'
    BY <1>12, <2>1, <2>3 DEF Apart, Past, Sends
  <2>4. p \in Calm' => Apart(p)'
    BY <1>12, <2>1, <2>2 DEF Apart, Past, Sends
  <2> QED
    BY <2>3, <2>4
<1>13. ASSUME NEW p \in Peers, CandidateFails(p) PROVE Alone'
  <2>1. Sends(Failure(p), "close")
    BY <1>13, Calls DEF CandidateFails
  <2>2. ASSUME NEW q \in Calm' PROVE Apart(q)'
    BY <2>1, <2>2 DEF Apart, Past, Sends
  <2> QED
    BY <2>2
<1>14. ASSUME NEW m \in {"answer", "offer", "reset"} \X Peers, Deliver(m) PROVE Alone'
  <2>1. m[2] \in Peers
    BY <1>14, Calls DEF Deliver
  <2>2. UNCHANGED call \/ (session[m[2]] # "open" /\ Sends(Failure(m[2]), "close"))
    BY <1>14, Calls
  <2>3. ASSUME NEW q \in Calm' PROVE Apart(q)'
    BY <1>14, <2>1, <2>2 DEF Apart, Past, Sends
  <2> QED
    BY <2>3
<1>15. ASSUME NEW w \in Workers, Moves(w) PROVE Alone'
  <2>1. /\ w[1] \in Peers
        /\ \A v \in Workers : v # w => call'[v] = call[v]
    BY <1>15, WorkerKinds DEF Moves
  <2>2. ASSUME NEW q \in Calm', q # w[1] PROVE Apart(q)'
    BY <2>1, <2>2 DEF Apart, Past
  <2>3. ASSUME w[1] \in Calm' PROVE Apart(w[1])'
    <3>1. CASE Past(w)
      <4>1. Past(w)' => call'[w].kind = call[w].kind
        BY <1>15 DEF Moves, Past
      <4> QED
        BY <1>15, <2>1, <2>3, <3>1, <4>1 DEF Apart, Past, Moves
    <3>2. CASE ~Past(w) /\ ~Past(w)'
      <4>1. call[w].at = "lookup" /\ call'[w].at = "idle"
        BY <1>15, <3>2 DEF Moves, Past
      <4> QED
        BY <2>1, <2>3, <4>1 DEF Apart, Past
    <3>3. CASE ~Past(w) /\ Past(w)'
      <4>1. ~Meets(w)
        BY <1>15, <2>3, <3>3 DEF Moves, Past, Calm
      <4>2. \A v \in Workers : v # w /\ v[1] = w[1] => call'[v].at = "idle"
        BY <2>1, <4>1 DEF Meets
      <4> QED
        BY <4>2 DEF Apart, Past
    <3> QED
      BY <3>1, <3>2, <3>3
  <2> QED
    BY <2>2, <2>3
<1>16. ASSUME NEW n \in Starts, LaunchFetch(n) PROVE Alone'
  BY <1>16 DEF LaunchFetch, Apart, Past
<1>17. ASSUME NEW n \in Starts, LaunchPipeline(n) PROVE Alone'
  BY <1>17 DEF LaunchPipeline, Apart, Past
<1>18. ASSUME NEW n \in Starts, LaunchElements(n) PROVE Alone'
  BY <1>18 DEF LaunchElements, Apart, Past
<1>19. CASE MapRace
  BY <1>19, <1>4 DEF MapRace, Faults
<1>20. ASSUME NEW w \in Workers, Proceed(w) PROVE Alone'
  BY <1>20, <1>4, <1>15, Moved
<1> QED
  BY <1>0, <1>1, <1>2, <1>3, <1>4, <1>5, <1>6, <1>7, <1>8, <1>9, <1>10, <1>11, <1>12,
     <1>13, <1>14, <1>15, <1>16, <1>17, <1>18, <1>19, <1>20
     DEF Next, Client, Launch

\* A step leaves a peer's entries and parts as they are.
Same(p) ==
    /\ UNCHANGED current
    /\ p \in handlers'[current].senders <=> p \in handlers[current].senders
    /\ p \in handlers'[current].receivers <=> p \in handlers[current].receivers
    /\ \A x \in Parts : <<x, p>> \in parts'[current] <=> <<x, p>> \in parts[current]

\* What is said of a peer's entries and parts is said of nothing else.
LEMMA SameStays ==
  ASSUME NEW p \in Peers, Same(p)
  PROVE  /\ In(p)' <=> In(p)
         /\ Out(p)' <=> Out(p)
         /\ Holds(p, TRUE, FALSE, {})' <=> Holds(p, TRUE, FALSE, {})
         /\ \A at \in Points : Stage(p, at)' <=> Stage(p, at)
<1>1. /\ In(p)' <=> In(p)
      /\ Out(p)' <=> Out(p)
      /\ Holds(p, TRUE, FALSE, {})' <=> Holds(p, TRUE, FALSE, {})
  BY DEF Same, In, Out, Holds
<1>2. ASSUME NEW at \in Points PROVE Stage(p, at)' <=> Stage(p, at)
  BY <1>1 DEF Same, Stage, Holds
<1> QED
  BY <1>1, <1>2

\* A call's own moves.
LEMMA MoveStages ==
  ASSUME TypeOK, Sessions, CallsFit, OnePipeline, OneHandler, current # 0,
         Alone, Alone', Stages, Intent, NEW w \in Workers, Moves(w), Proceed(w)
  PROVE  /\ UNCHANGED current
         /\ \A q \in Peers : q # w[1] => Same(q)
         /\ call[w].at = "lookup" => Same(w[1])
         /\ w[1] \in Calm /\ call[w].at # "lookup" => Effect(w)
         /\ Stages'
<1>a. w[1] \in Peers /\ current \in Starts /\ call'[w].at \in Points /\ call[w].at \in Points
  BY WorkerKinds DEF TypeOK, Starts, Moves, CallRecords, Points, Idle
<1>b. call'[w].at # "idle" => Past(w)'
  BY DEF Moves, Past, Idle
<1>c. Calm' \subseteq Calm /\ Calm \subseteq Peers
  BY DEF Moves, Calm, Single
<1>1. /\ UNCHANGED current
      /\ \A q \in Peers : q # w[1] => Same(q)
      /\ call[w].at = "lookup" => Same(w[1])
  BY <1>a DEF Moves, Same
<1>2. w[1] \in Calm /\ call[w].at # "lookup" => Effect(w)
  <2> SUFFICES ASSUME w[1] \in Calm, call[w].at # "lookup" PROVE Effect(w)
    OBVIOUS
  <2>1. Stage(w[1], call[w].at)
    BY WorkerKinds, <1>a DEF Stages, Staged
  <2> QED
    BY <2>1, Effects
<1>3. ASSUME NEW q \in Calm', q # w[1] PROVE Staged(q)'
  <2>1. Staged(q)
    BY <1>3, <1>c DEF Stages
  <2>2. call'[Session(q)] = call[Session(q)] /\ call'[Failure(q)] = call[Failure(q)]
    BY <1>3, <1>c, WorkerKinds DEF Moves
  <2> QED
    BY <1>1, <1>3, <1>c, <2>1, <2>2, SameStays DEF Staged, Past
<1>4. ASSUME w[1] \in Calm' PROVE Staged(w[1])'
  <2> DEFINE p == w[1]
  <2>1. /\ Staged(p) /\ Wanted(p) /\ Apart(p) /\ Apart(p)'
    BY <1>4, <1>c DEF Stages, Intent, Alone
  <2>2. PICK v \in Workers :
            /\ v # w /\ v \in {Session(p), Failure(p)} /\ w \in {Session(p), Failure(p)}
            /\ UNCHANGED call[v]
    BY <1>a, WorkerKinds DEF Moves
  <2>3. ~(Past(v)' /\ Past(w)')
    BY <2>1, <2>2 DEF Apart, Past
  <2>4. call[v].at \in Points /\ call'[v].at \in Points
    BY <2>2 DEF TypeOK, CallRecords
  <2>5. Stage(p, "idle")' /\ Stage(p, "lookup")'
    BY DEF Stage, IceKinds
  <2>6. CASE call[w].at = "lookup" /\ call'[w].at # "idle"
    <3>1. ~Past(v) /\ (In(p) \/ Out(p))
      BY <1>b, <2>1, <2>2, <2>3, <2>6 DEF Past, Staged
    <3>2. call'[w].at \in IceKinds => In(p)
      <4>1. ASSUME call'[w].at \in IceKinds
            PROVE  w = Session(p) /\ call[w].kind \in IceKinds
        <5>1. call[w].kind \in IceKinds
          BY <2>6, <4>1 DEF Moves, CallsFit, Fits, Idle
        <5> QED
          BY <1>a, <2>2, <2>6, <5>1 DEF Sessions, Ready, IceKinds
      <4> QED
        BY <2>1, <2>6, <4>1 DEF Wanted
    <3>3. \A at \in Points : at = call'[w].at => Stage(p, at)'
      <4>1. \A at \in {"register", "remove"} \cup IceKinds : at = call'[w].at => Stage(p, at)
        BY <3>1, <3>2 DEF Stage, IceKinds
      <4>2. call'[w].at \in {"register", "remove"} \cup IceKinds
        BY <2>6 DEF Moves
      <4> QED
        BY <1>a, <1>1, <2>6, <4>1, <4>2, SameStays
    <3> QED
      <4>1. call'[v].at \in {"idle", "lookup"}
        BY <2>2, <3>1 DEF Past
      <4> QED
        BY <1>b, <2>2, <2>5, <2>6, <3>3, <4>1 DEF Staged
  <2>7. CASE call[w].at = "lookup" /\ call'[w].at = "idle"
    BY <2>7 DEF Moves
  <2>8. CASE call[w].at # "lookup"
    <3>1. Effect(w)
      BY <2>8, <1>2, <1>4, <1>c
    <3>3. call'[w].at = "idle" => In(p)' \/ Out(p)'
      BY <3>1 DEF Effect, TypeOK, CallRecords, Kinds, IceKinds
    <3>4. ~Past(v)'
      <4>1. Past(w)
        BY <2>8 DEF Moves, Past
      <4> QED
        BY <2>1, <2>2, <4>1 DEF Apart, Past
    <3>5. ~Past(Session(p))' /\ ~Past(Failure(p))' => In(p)' \/ Out(p)'
      BY <1>b, <2>2, <3>3
    <3>6. ASSUME NEW at \in Points, at = call'[w].at PROVE Stage(p, at)'
      BY <2>5, <3>1, <3>6 DEF Effect
    <3>7. ASSUME NEW at \in Points, at = call'[v].at PROVE Stage(p, at)'
      BY <2>5, <3>4, <3>7 DEF Past
    <3> QED
      BY <2>2, <3>5, <3>6, <3>7 DEF Staged
  <2> QED
    BY <2>6, <2>7, <2>8
<1> QED
  BY <1>1, <1>2, <1>3, <1>4 DEF Stages

\* A new call is not past its lookup.
LEMMA SendStages ==
  ASSUME TypeOK, NEW w \in Workers, NEW kind, Sends(w, kind), NEW p \in Peers, Same(p), Staged(p)
  PROVE  Staged(p)'
<1>1. \A at \in Points : call[w].at = "idle" /\ (at = call'[w].at => at = "lookup")
  BY DEF Sends
<1>2. \A v \in Workers : v # w => call'[v] = call[v]
  BY DEF Sends
<1>3. Stage(p, "lookup")'
  BY DEF Stage, IceKinds
<1>4. \A v \in Workers : Past(v)' <=> Past(v)
  BY DEF Past, Sends
<1>5. ASSUME NEW v \in {Session(p), Failure(p)}, NEW at \in Points, at = call'[v].at
      PROVE  Stage(p, at)'
  <2>1. CASE v = w
    BY <1>1, <1>3, <1>5, <2>1
  <2>2. CASE v # w
    <3>1. at = call[v].at
      BY <1>2, <1>5, <2>2, WorkerKinds
    <3> QED
      BY <1>5, <3>1, SameStays DEF Staged
  <2> QED
    BY <2>1, <2>2
<1>6. ~Past(Session(p))' /\ ~Past(Failure(p))' => In(p)' \/ Out(p)'
  BY <1>4, SameStays, WorkerKinds DEF Staged
<1> QED
  BY <1>5, <1>6 DEF Staged

\* A call's point tells what its peer has.
LEMMA NextStages ==
  ASSUME TypeOK, Sessions, CallsFit, Plain, Alone, Alone', Stages, Intent, current' # 0, [Next]_vars PROVE Stages'
<1>a. /\ \A p \in Peers : Session(p) \in Workers /\ Failure(p) \in Workers
      /\ Idle.at = "idle" /\ Idle.kind = "reset"
  BY WorkerKinds DEF Idle
<1> USE <1>a
<1>3. CASE ProcessRestart
  BY <1>3 DEF ProcessRestart
<1> SUFFICES ASSUME ~ProcessRestart PROVE Stages'
  BY <1>3
<1>b. /\ Calm' \subseteq Calm /\ Calm \subseteq Peers
      /\ \A p \in Peers : misused[p] \subseteq misused'[p]
  BY CalmBefore, Before
<1> USE <1>b
<1> SUFFICES ASSUME Single PROVE Stages'
  BY DEF Stages, Calm
<1>0. CASE UNCHANGED vars
  <2>0. current # 0
    BY <1>0 DEF vars, serverVars
  <2>1. \A q \in Calm : Same(q) /\ Staged(q)
    BY <1>0, <2>0 DEF vars, Same, Stages, clientVars, serverVars, historyVars
  <2> QED
    BY <1>0, <2>1, SameStays DEF vars, Stages, Staged, Past
<1>1. CASE CreateAudioChannel
  <2>1. ~channel /\ current \in 0..MaxStarts /\ starts + 1 \in Starts
    BY <1>1, AudioAssumption DEF CreateAudioChannel, TypeOK, Starts
  <2>2. /\ current = 0 /\ current' = starts + 1 /\ UNCHANGED call
        /\ UNCHANGED <<handlers, parts>>
        /\ \A w \in Workers : call[w] = Idle
    BY <1>1, <2>1 DEF Plain, NoChannel, CreateAudioChannel
  <2>3. Unused(current')
    BY <2>1, <2>2 DEF Plain, OnePipeline, Starts
  <2>4. \A p \in Peers : Out(p)'
    BY <2>2, <2>3 DEF Unused, NewHandler, Out, Holds
  <2>5. \A p \in Peers : Stage(p, "idle")'
    BY DEF Stage, IceKinds
  <2> QED
    BY <2>2, <2>4, <2>5 DEF Stages, Staged, Past
<1>2. CASE SignallingRestart
  BY <1>2 DEF SignallingRestart, Stages, Calm, Single
<1>4. ASSUME NEW cause \in Faults, Crash(cause) PROVE Stages'
  <2>1. \A q \in Peers : Same(q)
    BY <1>4 DEF Crash, Same, clientVars, serverVars, historyVars
  <2>2. current # 0
    BY <1>4 DEF Crash, serverVars
  <2>3. \A q \in Calm : Staged(q)
    BY <2>2 DEF Stages
  <2> QED
    BY <1>4, <2>1, <2>3, SameStays DEF Crash, Stages, Staged, Past
<1>5. ASSUME NEW p \in Peers, Connect(p) PROVE Stages'
  <2>1. \A q \in Peers : Same(q)
    BY <1>5 DEF Connect, Same, clientVars, serverVars, historyVars
  <2>2. current # 0
    BY <1>5 DEF Connect, serverVars
  <2>3. \A q \in Calm : Staged(q)
    BY <2>2 DEF Stages
  <2> QED
    BY <1>5, <2>1, <2>3, SameStays DEF Connect, Stages, Staged, Past
<1>6. ASSUME NEW p \in Peers, Break(p) PROVE Stages'
  <2>1. \A q \in Peers : Same(q)
    BY <1>6 DEF Break, Same, clientVars, serverVars, historyVars
  <2>2. current # 0
    BY <1>6 DEF Break, serverVars
  <2>3. \A q \in Calm : Staged(q)
    BY <2>2 DEF Stages
  <2> QED
    BY <1>6, <2>1, <2>3, SameStays DEF Break, Stages, Staged, Past
<1>7. ASSUME NEW p \in Peers, Close(p) PROVE Stages'
  <2>1. \A q \in Peers : Same(q)
    BY <1>7 DEF Close, Same, clientVars, serverVars, historyVars
  <2>2. current # 0
    BY <1>7 DEF Close, serverVars
  <2>3. \A q \in Calm : Staged(q)
    BY <2>2 DEF Stages
  <2>4. Sends(Session(p), "close")
    BY <1>7, Calls
  <2> QED
    BY <2>1, <2>3, <2>4, SendStages DEF Stages
<1>8. ASSUME NEW p \in Peers, Join(p) PROVE Stages'
  <2>1. \A q \in Peers : Same(q)
    BY <1>8 DEF Join, Same, clientVars, serverVars, historyVars
  <2>2. current # 0
    BY <1>8 DEF Join, serverVars
  <2>3. \A q \in Calm : Staged(q)
    BY <2>2 DEF Stages
  <2>4. Sends(Session(p), "join")
    BY <1>8, Calls
  <2> QED
    BY <2>1, <2>3, <2>4, SendStages DEF Stages
<1>9. ASSUME NEW p \in Peers, SenderCandidate(p) PROVE Stages'
  <2>1. \A q \in Peers : Same(q)
    BY <1>9 DEF SenderCandidate, Same, clientVars, serverVars, historyVars
  <2>2. current # 0
    BY <1>9 DEF SenderCandidate, serverVars
  <2>3. \A q \in Calm : Staged(q)
    BY <2>2 DEF Stages
  <2>4. Sends(Session(p), "senderIce")
    BY <1>9, Calls
  <2> QED
    BY <2>1, <2>3, <2>4, SendStages DEF Stages
<1>10. ASSUME NEW p \in Peers, ReceiverAnswer(p) PROVE Stages'
  <2>1. \A q \in Peers : Same(q)
    BY <1>10 DEF ReceiverAnswer, Same, clientVars, serverVars, historyVars
  <2>2. current # 0
    BY <1>10 DEF ReceiverAnswer, serverVars
  <2>3. \A q \in Calm : Staged(q)
    BY <2>2 DEF Stages
  <2>4. Sends(Session(p), "answer")
    BY <1>10, Calls
  <2> QED
    BY <2>1, <2>3, <2>4, SendStages DEF Stages
<1>11. ASSUME NEW p \in Peers, ReceiverCandidate(p) PROVE Stages'
  <2>1. \A q \in Peers : Same(q)
    BY <1>11 DEF ReceiverCandidate, Same, clientVars, serverVars, historyVars
  <2>2. current # 0
    BY <1>11 DEF ReceiverCandidate, serverVars
  <2>3. \A q \in Calm : Staged(q)
    BY <2>2 DEF Stages
  <2>4. Sends(Session(p), "receiverIce")
    BY <1>11, Calls
  <2> QED
    BY <2>1, <2>3, <2>4, SendStages DEF Stages
<1>12. ASSUME NEW p \in Peers, QuitAudio(p) PROVE Stages'
  <2>1. \A q \in Peers : Same(q)
    BY <1>12 DEF QuitAudio, Same, clientVars, serverVars, historyVars
  <2>2. current # 0
    BY <1>12 DEF QuitAudio, serverVars
  <2>3. \A q \in Calm : Staged(q)
    BY <2>2 DEF Stages
  <2>4. Sends(Session(p), "reset")
    BY <1>12, Calls
  <2> QED
    BY <2>1, <2>3, <2>4, SendStages DEF Stages
<1>13. ASSUME NEW p \in Peers, CandidateFails(p) PROVE Stages'
  <2>1. \A q \in Peers : Same(q)
    BY <1>13 DEF CandidateFails, Same, clientVars, serverVars, historyVars
  <2>2. current # 0
    BY <1>13 DEF CandidateFails, serverVars
  <2>3. \A q \in Calm : Staged(q)
    BY <2>2 DEF Stages
  <2>4. Sends(Failure(p), "close")
    BY <1>13, Calls
  <2> QED
    BY <2>1, <2>3, <2>4, SendStages DEF Stages
<1>14. ASSUME NEW m \in {"answer", "offer", "reset"} \X Peers, Deliver(m) PROVE Stages'
  <2>1. \A q \in Peers : Same(q)
    BY <1>14 DEF Deliver, Same, clientVars, serverVars, historyVars
  <2>2. current # 0
    BY <1>14 DEF Deliver, serverVars
  <2>3. \A q \in Calm : Staged(q)
    BY <2>2 DEF Stages
  <2>4. UNCHANGED call \/ Sends(Failure(m[2]), "close")
    BY <1>14, Calls
  <2>5. m[2] \in Peers
    OBVIOUS
  <2>6. CASE UNCHANGED call
    BY <2>1, <2>3, <2>6, SameStays DEF Stages, Staged, Past
  <2> QED
    BY <2>1, <2>3, <2>4, <2>5, <2>6, SendStages DEF Stages
<1>15. ASSUME NEW w \in Workers, Moves(w), Proceed(w) PROVE Stages'
  <2>1. current # 0
    BY <1>15 DEF Moves
  <2>2. OnePipeline /\ OneHandler
    BY DEF Plain
  <2> QED
    BY <1>15, <2>1, <2>2, MoveStages
<1>16. ASSUME NEW n \in Starts, LaunchFetch(n) PROVE Stages'
  <2>1. \A q \in Peers : Same(q)
    BY <1>16 DEF LaunchFetch, Same, clientVars, serverVars, historyVars
  <2>2. current # 0
    BY <1>16 DEF LaunchFetch, serverVars
  <2>3. \A q \in Calm : Staged(q)
    BY <2>2 DEF Stages
  <2> QED
    BY <1>16, <2>1, <2>3, SameStays DEF LaunchFetch, Stages, Staged, Past
<1>17. ASSUME NEW n \in Starts, LaunchPipeline(n) PROVE Stages'
  <2>0. handlers \in [Starts -> HandlerRecords]
    BY DEF TypeOK
  <2>1. \A q \in Peers : Same(q)
    BY <1>17, <2>0 DEF HandlerRecords, LaunchPipeline, Same, clientVars, serverVars, historyVars
  <2>2. current # 0
    BY <1>17 DEF LaunchPipeline, serverVars
  <2>3. \A q \in Calm : Staged(q)
    BY <2>2 DEF Stages
  <2> QED
    BY <1>17, <2>1, <2>3, SameStays DEF LaunchPipeline, Stages, Staged, Past
<1>18. ASSUME NEW n \in Starts, LaunchElements(n) PROVE Stages'
  <2>1. \A q \in Peers : Same(q)
    BY <1>18 DEF LaunchElements, Same, clientVars, serverVars, historyVars
  <2>2. current # 0
    BY <1>18 DEF LaunchElements, serverVars
  <2>3. \A q \in Calm : Staged(q)
    BY <2>2 DEF Stages
  <2> QED
    BY <1>18, <2>1, <2>3, SameStays DEF LaunchElements, Stages, Staged, Past
<1>19. CASE MapRace
  BY <1>19, <1>4 DEF MapRace, Faults
<1>20. ASSUME NEW w \in Workers, Proceed(w) PROVE Stages'
  BY <1>20, <1>4, <1>15, Moved
<1> QED
  BY <1>0, <1>1, <1>2, <1>3, <1>4, <1>5, <1>6, <1>7, <1>8, <1>9, <1>10, <1>11, <1>12,
     <1>13, <1>14, <1>15, <1>16, <1>17, <1>18, <1>19, <1>20
     DEF Next, Client, Launch

\* What a call's own move leaves of the browser's intent.
LEMMA MoveWanted ==
  ASSUME TypeOK, Sessions, CallsFit, OnePipeline, OneHandler, current # 0,
         Alone, Alone', Stages, Intent, NEW w \in Workers, Moves(w), Proceed(w)
  PROVE  Intent'
<1>a. /\ w[1] \in Peers /\ w \in {Session(w[1]), Failure(w[1])} /\ call[w].at # "idle"
      /\ UNCHANGED <<session, browser, current>>
      /\ \A p \in Peers : misused[p] \subseteq misused'[p]
      /\ Calm' \subseteq Calm /\ Calm \subseteq Peers
      /\ \A v \in Workers : v # w => call'[v] = call[v]
      /\ \A p \in Peers : Session(p) \in Workers /\ Failure(p) \in Workers
      /\ \A v \in Workers : call[v].at \in Points /\ call[v].kind \in Kinds
  BY WorkerKinds DEF Moves, clientVars, TypeOK, CallRecords, Calm, Single
<1>b. /\ \A q \in Peers : q # w[1] => Same(q)
      /\ call[w].at = "lookup" => Same(w[1])
      /\ w[1] \in Calm /\ call[w].at # "lookup" => Effect(w)
  BY MoveStages
<1>c. \A p \in Calm : Wanted(p) /\ Staged(p) /\ Apart(p) /\ Ready(p)
  BY <1>a DEF Intent, Stages, Alone, Sessions
<1>d. Idle.at = "idle" /\ Idle.kind = "reset"
  BY DEF Idle
<1>1. ASSUME NEW q \in Calm', q # w[1] PROVE Wanted(q)'
  <2>1. call'[Session(q)] = call[Session(q)] /\ call'[Failure(q)] = call[Failure(q)]
    BY <1>1, <1>a, WorkerKinds
  <2> QED
    BY <1>1, <1>a, <1>b, <1>c, <2>1, SameStays DEF Wanted
<1> SUFFICES ASSUME w[1] \in Calm' PROVE Wanted(w[1])'
  BY <1>1 DEF Intent
<1>e. PICK p \in Calm : p = w[1] /\ (w = Session(p) \/ w = Failure(p))
  BY <1>a
<1>f. /\ Wanted(p) /\ Staged(p) /\ Apart(p) /\ Ready(p)
      /\ call[w].at = "lookup" => Same(p)
      /\ call[w].at # "lookup" => Effect(w)
  BY <1>b, <1>c, <1>e
<1>2. ASSUME w = Session(p) PROVE Wanted(p)'
  <2>1. UNCHANGED call[Failure(p)]
    BY <1>2, <1>a, WorkerKinds
  <2>2. CASE call[w].at = "lookup"
    <3>1. /\ call'[w].at \in {"register", "remove"} \cup IceKinds
          /\ call'[w].kind = call[w].kind
      BY <2>2, <1>d DEF Moves
    <3> QED
      BY <1>2, <1>a, <1>e, <1>f, <2>2, <3>1, SameStays DEF Wanted, IceKinds
  <2>3. CASE call[w].at # "lookup"
    <3>1. Effect(w)
      BY <2>3, <1>f
    <3>2. call'[w].at # "idle" => call'[w].at \notin {"lookup", "register"} /\ call'[w].kind = call[w].kind
      BY <2>3, <1>d DEF Moves
    <3>3. CASE call'[w].at # "idle"
      <4>1. ASSUME call'[w].at = "addSend", call[w].kind = "join", "joinedTwice" \notin misused'[p]
            PROVE  Holds(p, TRUE, FALSE, {})'
        <5>1. call[w].at = "register"
          BY <4>1 DEF Moves
        <5>2. Out(p)
          BY <1>2, <1>a, <1>e, <1>f, <4>1, <5>1 DEF Wanted
        <5> QED
          BY <1>e, <3>1, <5>1, <5>2 DEF Effect
      <4> QED
        BY <1>2, <1>a, <1>e, <1>f, <3>2, <3>3, <4>1 DEF Wanted
    <3>4. CASE call'[w].at = "idle"
      <4>1. call'[w] = Idle
        BY <3>4 DEF Moves
      <4>2. ~Past(Failure(p))
        BY <1>2, <1>a, <1>e, <1>f, <2>3 DEF Apart, Past
      <4>3. /\ session[p] = "open" => call[w].kind # "close"
            /\ session[p] = "closed" => call[w].kind = "close"
            /\ session[p] # "new"
        BY <1>2, <1>a, <1>e, <1>f, <1>d DEF Ready
      <4>4. /\ session[p] = "closed" => Out(p)'
            /\ session[p] = "open" => IF browser[p] = "out" THEN Out(p)' ELSE In(p)'
        BY <1>2, <1>a, <1>e, <1>f, <3>1, <3>4, <4>3 DEF Effect, Wanted, Ready, Kinds, IceKinds
      <4> QED
        BY <1>2, <1>a, <1>d, <2>1, <4>1, <4>2, <4>3, <4>4 DEF Wanted, Past, IceKinds
    <3> QED
      BY <3>3, <3>4
  <2> QED
    BY <2>2, <2>3
<1>3. ASSUME w = Failure(p) PROVE Wanted(p)'
  <2>1. UNCHANGED call[Session(p)] /\ session[p] \notin {"new", "open"} /\ call[w].kind = "close"
    BY <1>3, <1>a, <1>e, <1>f, <1>d, WorkerKinds DEF Ready
  <2>2. CASE call[w].at = "lookup"
    <3>1. call'[w].at \in {"register", "remove"} \cup IceKinds /\ Fits(call'[w]) /\ call'[w].kind = "close"
      BY <2>1, <2>2, <1>d DEF Moves, CallsFit, IceKinds
    <3>2. call'[w].at = "remove"
      BY <3>1 DEF Fits, AddPoints, IceKinds
    <3> QED
      BY <1>3, <1>a, <1>e, <1>f, <2>1, <2>2, <3>2, SameStays DEF Wanted
  <2>3. CASE call[w].at # "lookup"
    <3>1. call[Session(p)].at = "idle" \/ call[Session(p)].kind = "close"
      BY <1>3, <1>a, <1>e, <1>f, <2>3 DEF Apart, Past
    <3>2. ASSUME session[p] = "closed", call[Session(p)].at = "idle"
          PROVE  Out(p)' /\ call'[w].at = "idle"
      <4>1. call[w].at = "remove" /\ Out(p)
        BY <1>3, <1>a, <1>e, <1>f, <2>3, <3>2 DEF Wanted
      <4> QED
        BY <1>e, <1>f, <2>1, <2>3, <4>1 DEF Effect
    <3> QED
      BY <1>3, <1>a, <2>1, <3>1, <3>2 DEF Wanted, IceKinds
  <2> QED
    BY <2>2, <2>3
<1> QED
  BY <1>e, <1>2, <1>3

\* A peer that is not in a call has what its browser wants.
LEMMA NextIntent ==
  ASSUME TypeOK, Sessions, CallsFit, Plain, Alone, Alone', Stages, Intent, current' # 0, [Next]_vars PROVE Intent'
<1>a. /\ \A p \in Peers : Session(p) \in Workers /\ Failure(p) \in Workers
      /\ Idle.at = "idle" /\ Idle.kind = "reset"
  BY WorkerKinds DEF Idle
<1> USE <1>a
<1>3. CASE ProcessRestart
  BY <1>3 DEF ProcessRestart
<1> SUFFICES ASSUME ~ProcessRestart PROVE Intent'
  BY <1>3
<1>b. /\ Calm' \subseteq Calm /\ Calm \subseteq Peers
      /\ \A p \in Peers : misused[p] \subseteq misused'[p]
  BY CalmBefore, Before
<1> USE <1>b
<1> SUFFICES ASSUME Single PROVE Intent'
  BY DEF Intent, Calm
<1>0. CASE UNCHANGED vars
  <2>0. current # 0
    BY <1>0 DEF vars, serverVars
  <2>1. \A q \in Calm : Same(q) /\ Wanted(q)
    BY <1>0, <2>0 DEF vars, Same, Intent, clientVars, serverVars, historyVars
  <2> QED
    BY <1>0, <2>1, SameStays DEF vars, Intent, Wanted, clientVars, serverVars, historyVars
<1>1. CASE CreateAudioChannel
  <2>1. ~channel /\ current \in 0..MaxStarts /\ starts + 1 \in Starts
    BY <1>1, AudioAssumption DEF CreateAudioChannel, TypeOK, Starts
  <2>2. /\ current = 0 /\ current' = starts + 1 /\ UNCHANGED <<call, session, browser>>
        /\ UNCHANGED <<handlers, parts>>
        /\ \A w \in Workers : call[w] = Idle
        /\ \A p \in Peers : session[p] \in {"new", "lost"} /\ Ready(p)
    BY <1>1, <2>1 DEF Plain, NoChannel, CreateAudioChannel, Sessions
  <2>3. Unused(current')
    BY <2>1, <2>2 DEF Plain, OnePipeline, Starts
  <2>4. \A p \in Peers : Out(p)'
    BY <2>2, <2>3 DEF Unused, NewHandler, Out, Holds
  <2> QED
    BY <2>2, <2>4 DEF Intent, Wanted, Ready, IceKinds
<1>2. CASE SignallingRestart
  BY <1>2 DEF SignallingRestart, Intent, Calm, Single
<1>4. ASSUME NEW cause \in Faults, Crash(cause) PROVE Intent'
  <2>1. \A q \in Peers : Same(q)
    BY <1>4 DEF Crash, Same, clientVars, serverVars, historyVars
  <2>2. current # 0
    BY <1>4 DEF Crash, serverVars
  <2>3. \A q \in Calm : Wanted(q) /\ Ready(q)
    BY <2>2 DEF Intent, Sessions
  <2> QED
    BY <1>4, <2>1, <2>3, SameStays DEF Crash, Intent, Wanted, clientVars, serverVars, historyVars
<1>5. ASSUME NEW p \in Peers, Connect(p) PROVE Intent'
  <2>0. session \in [Peers -> {"new", "open", "broken", "closed", "lost"}]
        /\ browser \in [Peers -> {"out", "in", "answered"}]
    BY DEF TypeOK
  <2>1. \A q \in Peers : Same(q)
    BY <1>5 DEF Connect, Same, clientVars, serverVars, historyVars
  <2>2. current # 0
    BY <1>5 DEF Connect, serverVars
  <2>3. \A q \in Calm : Wanted(q) /\ Ready(q)
    BY <2>2 DEF Intent, Sessions
  <2>4. ASSUME NEW q \in Calm', q # p PROVE Wanted(q)'
    BY <1>5, <2>0, <2>1, <2>3, <2>4, SameStays DEF Connect, Wanted, clientVars, serverVars,
         historyVars
  <2>5. ASSUME p \in Calm' PROVE Wanted(p)'
    BY <1>5, <2>5, <2>0, <2>1, <2>3, SameStays DEF Connect, Wanted, Ready, clientVars, serverVars,
         historyVars
  <2> QED
    BY <2>4, <2>5 DEF Intent
<1>6. ASSUME NEW p \in Peers, Break(p) PROVE Intent'
  <2>0. session \in [Peers -> {"new", "open", "broken", "closed", "lost"}]
        /\ browser \in [Peers -> {"out", "in", "answered"}]
    BY DEF TypeOK
  <2>1. \A q \in Peers : Same(q)
    BY <1>6 DEF Break, Same, clientVars, serverVars, historyVars
  <2>2. current # 0
    BY <1>6 DEF Break, serverVars
  <2>3. \A q \in Calm : Wanted(q) /\ Ready(q)
    BY <2>2 DEF Intent, Sessions
  <2>4. ASSUME NEW q \in Calm', q # p PROVE Wanted(q)'
    BY <1>6, <2>0, <2>1, <2>3, <2>4, SameStays DEF Break, Wanted, clientVars, serverVars,
         historyVars
  <2>5. ASSUME p \in Calm' PROVE Wanted(p)'
    BY <1>6, <2>5, <2>0, <2>1, <2>3, SameStays DEF Break, Wanted, Ready, clientVars, serverVars,
         historyVars
  <2> QED
    BY <2>4, <2>5 DEF Intent
<1>7. ASSUME NEW p \in Peers, Close(p) PROVE Intent'
  <2>0. session \in [Peers -> {"new", "open", "broken", "closed", "lost"}]
        /\ browser \in [Peers -> {"out", "in", "answered"}]
    BY DEF TypeOK
  <2>1. \A q \in Peers : Same(q)
    BY <1>7 DEF Close, Same, clientVars, serverVars, historyVars
  <2>2. current # 0
    BY <1>7 DEF Close, serverVars
  <2>3. \A q \in Calm : Wanted(q) /\ Ready(q)
    BY <2>2 DEF Intent, Sessions
  <2>4. Sends(Session(p), "close")
    BY <1>7, Calls DEF Close, historyVars
  <2>5. \A w \in Workers : w # Session(p) => call'[w] = call[w]
    BY <2>4 DEF Sends
  <2>6. ASSUME NEW q \in Calm', q # p PROVE Wanted(q)'
    <3>1. UNCHANGED <<session[q], browser[q], call[Session(q)], call[Failure(q)]>>
      BY <1>7, <2>0, <2>5, <2>6, WorkerKinds DEF Close, clientVars
    <3> QED
      BY <2>1, <2>3, <2>4, <2>6, <3>1, SameStays DEF Wanted
  <2>7. ASSUME p \in Calm' PROVE Wanted(p)'
    BY <1>7, <2>7, <2>0, <2>1, <2>3, <2>4, SameStays DEF Close, Wanted, Sends, IceKinds, clientVars,
         serverVars, historyVars
  <2> QED
    BY <2>6, <2>7 DEF Intent
<1>8. ASSUME NEW p \in Peers, Join(p) PROVE Intent'
  <2>0. session \in [Peers -> {"new", "open", "broken", "closed", "lost"}]
        /\ browser \in [Peers -> {"out", "in", "answered"}]
    BY DEF TypeOK
  <2>1. \A q \in Peers : Same(q)
    BY <1>8 DEF Join, Same, clientVars, serverVars, historyVars
  <2>2. current # 0
    BY <1>8 DEF Join, serverVars
  <2>3. \A q \in Calm : Wanted(q) /\ Ready(q)
    BY <2>2 DEF Intent, Sessions
  <2>4. Sends(Session(p), "join")
    BY <1>8, Calls DEF Join, historyVars
  <2>5. \A w \in Workers : w # Session(p) => call'[w] = call[w]
    BY <2>4 DEF Sends
  <2>6. ASSUME NEW q \in Calm', q # p PROVE Wanted(q)'
    <3>1. UNCHANGED <<session[q], browser[q], call[Session(q)], call[Failure(q)]>>
      BY <1>8, <2>0, <2>5, <2>6, WorkerKinds DEF Join, clientVars
    <3> QED
      BY <2>1, <2>3, <2>4, <2>6, <3>1, SameStays DEF Wanted
  <2>7. ASSUME p \in Calm' PROVE Wanted(p)'
    <3>1. p \in Calm /\ Wanted(p)
      BY <2>3, <2>6, <2>7, <1>8, CalmBefore DEF Calm
    <3>2. "joinedTwice" \notin misused'[p] => browser[p] = "out"
      <4>1. {"joinedTwice"} \in SUBSET Misuses /\ misused \in [Peers -> SUBSET Misuses]
        BY DEF Misuses, TypeOK
      <4>2. browser[p] # "out" => Note(p, {"joinedTwice"})
        BY <1>8 DEF Join
      <4> QED
        BY <4>1, <4>2, Noted
    <3>3. "joinedTwice" \notin misused'[p] => Out(p)
      BY <3>1, <3>2, <1>8, <2>4 DEF Join, Wanted, Sends
    <3>4. /\ call'[Session(p)].at = "lookup" /\ call'[Session(p)].kind = "join"
          /\ session'[p] = "open"
      BY <1>8, <2>0, <2>4 DEF Join, Sends
    <3> QED
      BY <2>1, <3>3, <3>4, SameStays DEF Wanted, IceKinds
  <2> QED
    BY <2>6, <2>7 DEF Intent
<1>9. ASSUME NEW p \in Peers, SenderCandidate(p) PROVE Intent'
  <2>0. session \in [Peers -> {"new", "open", "broken", "closed", "lost"}]
        /\ browser \in [Peers -> {"out", "in", "answered"}]
    BY DEF TypeOK
  <2>1. \A q \in Peers : Same(q)
    BY <1>9 DEF SenderCandidate, Same, clientVars, serverVars, historyVars
  <2>2. current # 0
    BY <1>9 DEF SenderCandidate, serverVars
  <2>3. \A q \in Calm : Wanted(q) /\ Ready(q)
    BY <2>2 DEF Intent, Sessions
  <2>4. Sends(Session(p), "senderIce")
    BY <1>9, Calls DEF SenderCandidate, historyVars
  <2>5. \A w \in Workers : w # Session(p) => call'[w] = call[w]
    BY <2>4 DEF Sends
  <2>6. ASSUME NEW q \in Calm', q # p PROVE Wanted(q)'
    <3>1. UNCHANGED <<session[q], browser[q], call[Session(q)], call[Failure(q)]>>
      BY <1>9, <2>0, <2>5, <2>6, WorkerKinds DEF SenderCandidate, clientVars
    <3> QED
      BY <2>1, <2>3, <2>4, <2>6, <3>1, SameStays DEF Wanted
  <2>7. ASSUME p \in Calm' PROVE Wanted(p)'
    BY <1>9, <2>7, <2>0, <2>1, <2>3, <2>4, SameStays DEF SenderCandidate, Wanted, Sends, IceKinds,
         clientVars, serverVars, historyVars
  <2> QED
    BY <2>6, <2>7 DEF Intent
<1>10. ASSUME NEW p \in Peers, ReceiverAnswer(p) PROVE Intent'
  <2>0. session \in [Peers -> {"new", "open", "broken", "closed", "lost"}]
        /\ browser \in [Peers -> {"out", "in", "answered"}]
    BY DEF TypeOK
  <2>1. \A q \in Peers : Same(q)
    BY <1>10 DEF ReceiverAnswer, Same, clientVars, serverVars, historyVars
  <2>2. current # 0
    BY <1>10 DEF ReceiverAnswer, serverVars
  <2>3. \A q \in Calm : Wanted(q) /\ Ready(q)
    BY <2>2 DEF Intent, Sessions
  <2>4. Sends(Session(p), "answer")
    BY <1>10, Calls DEF ReceiverAnswer, historyVars
  <2>5. \A w \in Workers : w # Session(p) => call'[w] = call[w]
    BY <2>4 DEF Sends
  <2>6. ASSUME NEW q \in Calm', q # p PROVE Wanted(q)'
    <3>1. UNCHANGED <<session[q], browser[q], call[Session(q)], call[Failure(q)]>>
      BY <1>10, <2>0, <2>5, <2>6, WorkerKinds DEF ReceiverAnswer, clientVars
    <3> QED
      BY <2>1, <2>3, <2>4, <2>6, <3>1, SameStays DEF Wanted
  <2>7. ASSUME p \in Calm' PROVE Wanted(p)'
    BY <1>10, <2>7, <2>0, <2>1, <2>3, <2>4, SameStays DEF ReceiverAnswer, Wanted, Sends, IceKinds,
         clientVars, serverVars, historyVars
  <2> QED
    BY <2>6, <2>7 DEF Intent
<1>11. ASSUME NEW p \in Peers, ReceiverCandidate(p) PROVE Intent'
  <2>0. session \in [Peers -> {"new", "open", "broken", "closed", "lost"}]
        /\ browser \in [Peers -> {"out", "in", "answered"}]
    BY DEF TypeOK
  <2>1. \A q \in Peers : Same(q)
    BY <1>11 DEF ReceiverCandidate, Same, clientVars, serverVars, historyVars
  <2>2. current # 0
    BY <1>11 DEF ReceiverCandidate, serverVars
  <2>3. \A q \in Calm : Wanted(q) /\ Ready(q)
    BY <2>2 DEF Intent, Sessions
  <2>4. Sends(Session(p), "receiverIce")
    BY <1>11, Calls DEF ReceiverCandidate, historyVars
  <2>5. \A w \in Workers : w # Session(p) => call'[w] = call[w]
    BY <2>4 DEF Sends
  <2>6. ASSUME NEW q \in Calm', q # p PROVE Wanted(q)'
    <3>1. UNCHANGED <<session[q], browser[q], call[Session(q)], call[Failure(q)]>>
      BY <1>11, <2>0, <2>5, <2>6, WorkerKinds DEF ReceiverCandidate, clientVars
    <3> QED
      BY <2>1, <2>3, <2>4, <2>6, <3>1, SameStays DEF Wanted
  <2>7. ASSUME p \in Calm' PROVE Wanted(p)'
    BY <1>11, <2>7, <2>0, <2>1, <2>3, <2>4, SameStays DEF ReceiverCandidate, Wanted, Sends, IceKinds,
         clientVars, serverVars, historyVars
  <2> QED
    BY <2>6, <2>7 DEF Intent
<1>12. ASSUME NEW p \in Peers, QuitAudio(p) PROVE Intent'
  <2>0. session \in [Peers -> {"new", "open", "broken", "closed", "lost"}]
        /\ browser \in [Peers -> {"out", "in", "answered"}]
    BY DEF TypeOK
  <2>1. \A q \in Peers : Same(q)
    BY <1>12 DEF QuitAudio, Same, clientVars, serverVars, historyVars
  <2>2. current # 0
    BY <1>12 DEF QuitAudio, serverVars
  <2>3. \A q \in Calm : Wanted(q) /\ Ready(q)
    BY <2>2 DEF Intent, Sessions
  <2>4. Sends(Session(p), "reset")
    BY <1>12, Calls DEF QuitAudio, historyVars
  <2>5. \A w \in Workers : w # Session(p) => call'[w] = call[w]
    BY <2>4 DEF Sends
  <2>6. ASSUME NEW q \in Calm', q # p PROVE Wanted(q)'
    <3>1. UNCHANGED <<session[q], browser[q], call[Session(q)], call[Failure(q)]>>
      BY <1>12, <2>0, <2>5, <2>6, WorkerKinds DEF QuitAudio, clientVars
    <3> QED
      BY <2>1, <2>3, <2>4, <2>6, <3>1, SameStays DEF Wanted
  <2>7. ASSUME p \in Calm' PROVE Wanted(p)'
    BY <1>12, <2>7, <2>0, <2>1, <2>3, <2>4, SameStays DEF QuitAudio, Wanted, Sends, IceKinds,
         clientVars, serverVars, historyVars
  <2> QED
    BY <2>6, <2>7 DEF Intent
<1>13. ASSUME NEW p \in Peers, CandidateFails(p) PROVE Intent'
  <2>1. \A q \in Peers : Same(q)
    BY <1>13 DEF CandidateFails, Same, clientVars, serverVars, historyVars
  <2>2. current # 0
    BY <1>13 DEF CandidateFails, serverVars
  <2>3. \A q \in Calm : Wanted(q) /\ Ready(q)
    BY <2>2 DEF Intent, Sessions
  <2>4. Sends(Failure(p), "close") /\ UNCHANGED <<session, browser>>
    BY <1>13, Calls DEF CandidateFails, clientVars, historyVars
  <2>5. ASSUME NEW q \in Calm' PROVE Wanted(q)'
    <3>1. UNCHANGED call[Session(q)] /\ call'[Failure(q)].at \in {call[Failure(q)].at, "lookup"}
      BY <2>4, WorkerKinds DEF Sends
    <3> QED
      BY <2>1, <2>3, <2>4, <3>1, SameStays DEF Wanted
  <2> QED
    BY <2>5 DEF Intent
<1>14. ASSUME NEW m \in {"answer", "offer", "reset"} \X Peers, Deliver(m) PROVE Intent'
  <2>1. \A q \in Peers : Same(q)
    BY <1>14 DEF Deliver, Same, clientVars, serverVars, historyVars
  <2>2. current # 0
    BY <1>14 DEF Deliver, serverVars
  <2>3. \A q \in Calm : Wanted(q) /\ Ready(q)
    BY <2>2 DEF Intent, Sessions
  <2>4. UNCHANGED call \/ Sends(Failure(m[2]), "close")
    BY <1>14, Calls
  <2>5. m[2] \in Peers /\ UNCHANGED <<session, browser>>
    BY <1>14 DEF Deliver, clientVars, historyVars
  <2>6. CASE UNCHANGED call
    BY <2>1, <2>3, <2>5, <2>6, SameStays DEF Intent, Wanted
  <2>7. CASE Sends(Failure(m[2]), "close")
    <3>1. ASSUME NEW q \in Calm' PROVE Wanted(q)'
      <4>1. UNCHANGED call[Session(q)] /\ call'[Failure(q)].at \in {call[Failure(q)].at, "lookup"}
        BY <2>5, <2>7, WorkerKinds DEF Sends
      <4> QED
        BY <2>1, <2>3, <2>5, <4>1, SameStays DEF Wanted
    <3> QED
      BY <3>1 DEF Intent
  <2> QED
    BY <2>4, <2>6, <2>7
<1>15. ASSUME NEW w \in Workers, Moves(w), Proceed(w) PROVE Intent'
  <2>1. current # 0
    BY <1>15 DEF Moves
  <2>2. OnePipeline /\ OneHandler
    BY DEF Plain
  <2> QED
    BY <1>15, <2>1, <2>2, MoveWanted
<1>16. ASSUME NEW n \in Starts, LaunchFetch(n) PROVE Intent'
  <2>1. \A q \in Peers : Same(q)
    BY <1>16 DEF LaunchFetch, Same, clientVars, serverVars, historyVars
  <2>2. current # 0
    BY <1>16 DEF LaunchFetch, serverVars
  <2>3. \A q \in Calm : Wanted(q) /\ Ready(q)
    BY <2>2 DEF Intent, Sessions
  <2> QED
    BY <1>16, <2>1, <2>3, SameStays DEF LaunchFetch, Intent, Wanted, clientVars, serverVars,
         historyVars
<1>17. ASSUME NEW n \in Starts, LaunchPipeline(n) PROVE Intent'
  <2>0. handlers \in [Starts -> HandlerRecords]
    BY DEF TypeOK
  <2>1. \A q \in Peers : Same(q)
    BY <1>17, <2>0 DEF HandlerRecords, LaunchPipeline, Same, clientVars, serverVars, historyVars
  <2>2. current # 0
    BY <1>17 DEF LaunchPipeline, serverVars
  <2>3. \A q \in Calm : Wanted(q) /\ Ready(q)
    BY <2>2 DEF Intent, Sessions
  <2> QED
    BY <1>17, <2>1, <2>3, SameStays DEF LaunchPipeline, Intent, Wanted, clientVars, serverVars,
         historyVars
<1>18. ASSUME NEW n \in Starts, LaunchElements(n) PROVE Intent'
  <2>1. \A q \in Peers : Same(q)
    BY <1>18 DEF LaunchElements, Same, clientVars, serverVars, historyVars
  <2>2. current # 0
    BY <1>18 DEF LaunchElements, serverVars
  <2>3. \A q \in Calm : Wanted(q) /\ Ready(q)
    BY <2>2 DEF Intent, Sessions
  <2> QED
    BY <1>18, <2>1, <2>3, SameStays DEF LaunchElements, Intent, Wanted, clientVars, serverVars,
         historyVars
<1>19. CASE MapRace
  BY <1>19, <1>4 DEF MapRace, Faults
<1>20. ASSUME NEW w \in Workers, Proceed(w) PROVE Intent'
  BY <1>20, <1>4, <1>15, Moved
<1> QED
  BY <1>0, <1>1, <1>2, <1>3, <1>4, <1>5, <1>6, <1>7, <1>8, <1>9, <1>10, <1>11, <1>12,
     <1>13, <1>14, <1>15, <1>16, <1>17, <1>18, <1>19, <1>20
     DEF Next, Client, Launch

\* Where a call can die, and of what.
Dies(w) ==
    /\ fault' = "noMixer" =>
          call[w].at \in {"addSend", "mix"} /\ (Pipeline(w) = 0 \/ Pipeline(w) \notin mixers)
    /\ fault' = "padLink" =>
          \/ call[w].at = "addSend" /\ Has(w, "send")
          \/ call[w].at = "mix" /\ ~Has(w, "send")
          \/ call[w].at = "addReceiver" /\ Has(w, "recv")
          \/ call[w].at = "tee" /\ ~Has(w, "recv")
    /\ fault' = "unlinked" =>
          \/ call[w].at = "remove" /\ Has(w, "send") /\ ~Has(w, "mix")
          \/ call[w].at = "removeReceiver" /\ Has(w, "recv") /\ ~Has(w, "tee")
    /\ fault' = "nullPeer" =>
          \/ call[w].at \in {"senderIce", "apply"} /\ w[1] \notin Handler(w).senders
          \/ call[w].at \in {"answer", "receiverIce"} /\ w[1] \notin Handler(w).receivers
    /\ fault' = "nullHandler" => call[w].at = "lookup" /\ current = 0

\* No step of a call kills the media server in another way.
LEMMA Deaths ==
  ASSUME NEW w \in Workers, Proceed(w)
  PROVE  Up /\ Dies(w)
<1>1. Up
  BY DEF Proceed, Lookup, LookupFails, SenderIce, ForReceiver, Register, AddSend, AddSendAgain,
       Mix, RegisterReceiver, AddReceiver, Tee, Apply, Remove, RemoveReceiver, EraseSender,
       EraseReceiver, Notify, Dangling, At
<1> USE <1>1 DEF Up, Dies, At, historyVars
<1>2. CASE Lookup(w)
  BY <1>2 DEF Lookup, Crash
<1>3. CASE LookupFails(w)
  BY <1>3 DEF LookupFails, Crash
<1>4. CASE SenderIce(w)
  BY <1>4 DEF SenderIce, Crash
<1>5. CASE ForReceiver(w)
  BY <1>5 DEF ForReceiver, Crash
<1>6. CASE Register(w)
  BY <1>6 DEF Register, Crash
<1>7. CASE AddSend(w)
  BY <1>7 DEF AddSend, Crash
<1>8. CASE AddSendAgain(w)
  BY <1>8 DEF AddSendAgain, Crash
<1>9. CASE Mix(w)
  BY <1>9 DEF Mix, Crash
<1>10. CASE RegisterReceiver(w)
  BY <1>10 DEF RegisterReceiver, Crash
<1>11. CASE AddReceiver(w)
  BY <1>11 DEF AddReceiver, Crash
<1>12. CASE Tee(w)
  BY <1>12 DEF Tee, Crash
<1>13. CASE Apply(w)
  BY <1>13 DEF Apply, Crash
<1>14. CASE Remove(w)
  BY <1>14 DEF Remove, Crash
<1>15. CASE RemoveReceiver(w)
  BY <1>15 DEF RemoveReceiver, Crash
<1>16. CASE EraseSender(w)
  BY <1>16 DEF EraseSender, Crash
<1>17. CASE EraseReceiver(w)
  BY <1>17 DEF EraseReceiver, Crash
<1>18. CASE Notify(w)
  BY <1>18 DEF Notify, Crash
<1>19. CASE Dangling(w)
  BY <1>19 DEF Dangling, Crash
<1> QED
  BY <1>2, <1>3, <1>4, <1>5, <1>6, <1>7, <1>8, <1>9, <1>10, <1>11, <1>12, <1>13, <1>14, <1>15,
       <1>16, <1>17, <1>18, <1>19 DEF Proceed

\* A death of a call has its cause.
LEMMA Causes ==
  ASSUME IInv, NEW w \in Workers, Proceed(w), NEW cause \in Faults, Crash(cause)
  PROVE  FaultHasCause'
<1>a. /\ fault' = cause /\ UNCHANGED <<irregular, misused>> /\ Dies(w) /\ w[1] \in Peers
      /\ w \in {Session(w[1]), Failure(w[1])} /\ call[w].at \in Points
  BY Deaths, WorkerKinds DEF Crash, IInv, TypeOK, CallRecords
<1>b. IInv
  OBVIOUS
<1>c. ASSUME Single, Past(w)
      PROVE  /\ current \in Starts /\ OnePipeline /\ OneHandler /\ Handler(w) = handlers[current]
             /\ Pipeline(w) \in {0, current}
             /\ Pipeline(w) = 0 => parts[current] = {}
  <2>1. OnePipeline /\ OneHandler
    BY <1>b, <1>c DEF IInv, Plain
  <2>2. current \in Starts /\ call[w].handler = current
    BY <1>b, <1>c, <2>1 DEF OneHandler, IInv, TypeOK, Starts
  <2> QED
    BY <2>1, <2>2 DEF Handler, Pipeline, OnePipeline, Starts
<1>d. ASSUME w[1] \in Calm, Past(w)
      PROVE  /\ Stage(w[1], call[w].at) /\ Handler(w) = handlers[current]
             /\ \A x \in Parts : Has(w, x) <=> <<x, w[1]>> \in parts[current]
  <2>1. Staged(w[1]) /\ current # 0
    BY <1>b, <1>c, <1>d DEF IInv, Stages, Calm, Starts
  <2> QED
    BY <1>a, <1>c, <1>d, <2>1 DEF Staged, Has, Calm
<1>1. ASSUME cause = "noMixer" PROVE "early" \in misused[w[1]] \/ ~Single
  <2> SUFFICES ASSUME "early" \notin misused[w[1]], Single PROVE FALSE
    OBVIOUS
  <2>1. call[w].at \in AddPoints /\ Past(w)
    BY <1>1, <1>a DEF Dies, Past, AddPoints
  <2>2. launch[current].at = "running"
    BY <1>c, <2>1 DEF OneHandler
  <2>3. Pipeline(w) = current /\ current \in mixers /\ current # 0
    BY <1>c, <2>1, <2>2 DEF OnePipeline, Pipeline, Starts
  <2> QED
    BY <1>1, <1>a, <2>3 DEF Dies
<1>2. ASSUME cause = "padLink" PROVE "joinedTwice" \in misused[w[1]] \/ w[1] \notin Calm
  <2> SUFFICES ASSUME "joinedTwice" \notin misused[w[1]], w[1] \in Calm PROVE FALSE
    OBVIOUS
  <2>1. Past(w) /\ call[w].at \in AddPoints
    BY <1>2, <1>a DEF Dies, Past, AddPoints
  <2>2. w = Session(w[1]) /\ call[w].kind = "join"
    BY <1>a, <1>b, <2>1 DEF IInv, CallsFit, Fits, Sessions, Ready, AddPoints
  <2>3. call[w].at = "addSend" => Holds(w[1], TRUE, FALSE, {})
    <3>1. Wanted(w[1])
      BY <1>b, <1>c, <2>1 DEF IInv, Intent, Calm, Starts
    <3> QED
      BY <2>2, <3>1 DEF Wanted
  <2> QED
    BY <1>2, <1>a, <1>d, <2>1, <2>3 DEF Dies, Stage, Holds, Parts
<1>3. ASSUME cause = "unlinked" PROVE w[1] \notin Calm
  BY <1>3, <1>a, <1>d DEF Dies, Past, Stage, In, Out, Holds, Parts
<1>4. ASSUME cause = "nullPeer" PROVE w[1] \notin Calm
  BY <1>4, <1>a, <1>d DEF Dies, Past, Stage, In, Holds, IceKinds
<1>5. ASSUME cause = "nullHandler" PROVE "restart" \in irregular
  <2> SUFFICES ASSUME "restart" \notin irregular PROVE FALSE
    OBVIOUS
  <2>1. call[w].at = "lookup" /\ current = 0
    BY <1>5, <1>a DEF Dies
  <2>2. starts = 0 /\ Ready(w[1])
    BY <1>a, <1>b, <2>1 DEF IInv, Sessions
  <2>3. call[w] = Idle
    BY <1>a, <2>2 DEF Ready
  <2> QED
    BY <2>1, <2>3 DEF Idle
<1> QED
  BY <1>a, <1>1, <1>2, <1>3, <1>4, <1>5 DEF FaultHasCause, Calm, Single

\* Whatever the media server dies of has its cause.
LEMMA NextCauses ==
  ASSUME IInv, [Next]_vars PROVE FaultHasCause'
<1>a. FaultHasCause
  BY DEF IInv
<1>b. ASSUME fault' = "none" \/ UNCHANGED fault PROVE FaultHasCause'
  <2>1. CASE ProcessRestart
    BY <2>1 DEF ProcessRestart, FaultHasCause
  <2>2. CASE ~ProcessRestart
    BY <1>a, <1>b, <2>2, Before DEF FaultHasCause, IInv
  <2> QED
    BY <2>1, <2>2
<1>0. CASE UNCHANGED vars
  BY <1>0, <1>b DEF vars, historyVars
<1>1. CASE CreateAudioChannel
  BY <1>1, <1>b DEF CreateAudioChannel, historyVars
<1>2. CASE SignallingRestart
  BY <1>2, <1>b DEF SignallingRestart
<1>3. CASE ProcessRestart
  BY <1>3, <1>b DEF ProcessRestart
<1>4. CASE MapRace
  BY <1>4, <1>a DEF MapRace, Crash, FaultHasCause
<1>5. ASSUME NEW p \in Peers, Client(p) PROVE FaultHasCause'
  BY <1>5, <1>b DEF Client, Connect, Break, Close, Join, SenderCandidate, ReceiverAnswer,
     ReceiverCandidate, QuitAudio, Note, historyVars
<1>6. ASSUME NEW m \in {"answer", "offer", "reset"} \X Peers, Deliver(m) PROVE FaultHasCause'
  BY <1>6, <1>b DEF Deliver, historyVars
<1>7. ASSUME NEW w \in Workers, Proceed(w) PROVE FaultHasCause'
  <2>1. CASE Moves(w)
    BY <2>1, <1>b DEF Moves
  <2> QED
    BY <1>7, <2>1, Moved, Causes DEF IInv
<1>8. ASSUME NEW n \in Starts, Launch(n) PROVE FaultHasCause'
  BY <1>8, <1>b DEF Launch, LaunchFetch, LaunchPipeline, LaunchElements, historyVars
<1>9. ASSUME NEW p \in Peers, CandidateFails(p) PROVE FaultHasCause'
  BY <1>9, <1>b DEF CandidateFails, historyVars
<1> QED
  BY <1>0, <1>1, <1>2, <1>3, <1>4, <1>5, <1>6, <1>7, <1>8, <1>9 DEF Next

\* Nobody is there at the start.
LEMMA InitIInv ==
  ASSUME Init PROVE IInv
<1>1. TypeOK
  <2>1. Idle \in CallRecords /\ NewHandler \in HandlerRecords /\ NoLaunch \in LaunchRecords
    BY AudioAssumption DEF CallRecords, HandlerRecords, LaunchRecords, Idle, NewHandler,
         NoLaunch, Points, Kinds
  <2>2. 0 \in 0..MaxStarts /\ "none" \in Faults
    BY AudioAssumption DEF Faults
  <2> QED
    BY <2>1, <2>2 DEF Init, TypeOK
<1>2. \A w \in Workers : call[w] = Idle
  BY DEF Init
<1>3. Sessions
  BY <1>2, WorkerKinds DEF Init, Sessions, Ready, Idle
<1>4. CallsFit /\ Launches
  BY <1>2 DEF Init, CallsFit, Fits, Launches, Launched, Idle, NoLaunch, AddPoints, RemovePoints,
       IceKinds
<1>5. Plain
  BY <1>2, AudioAssumption DEF Init, Plain, OnePipeline, Unused, NoChannel, OneHandler, Past,
       Idle, AddPoints
<1>6. Alone
  <2>1. \A w \in Workers : ~Past(w)
    BY <1>2 DEF Past, Idle
  <2> QED
    BY <2>1, WorkerKinds DEF Alone, Apart, Calm
<1>7. Stages /\ Intent /\ FaultHasCause
  BY DEF Init, Stages, Intent, FaultHasCause
<1> QED
  BY <1>1, <1>3, <1>4, <1>5, <1>6, <1>7 DEF IInv

\* Every step of every actor keeps IInv.
LEMMA NextIInv ==
  ASSUME IInv, [Next]_vars PROVE IInv'
<1> USE DEF IInv
<1>1. TypeOK' /\ Sessions' /\ CallsFit' /\ Launches'
  BY NextTypes, NextSessions, NextCallsFit, NextLaunches
<1>2. Plain'
  BY NextOnePipeline, NextNoChannel, NextOneHandler DEF Plain
<1>3. Alone'
  BY NextAlone DEF Alone
<1>4. Stages' /\ Intent'
  BY <1>3, NextStages, NextIntent DEF Stages, Intent
<1> QED
  BY <1>1, <1>2, <1>3, <1>4, NextCauses

\* IInv holds of the conference for every set of peers and number of starts.
THEOREM Invariance == Spec => []IInv
  BY InitIInv, NextIInv, PTL DEF Spec

\* The types of the model's variables: the calls, the handlers' maps, the parts in
\* the pipelines.
THEOREM TypesKept == Spec => []TypeOK
<1>1. IInv => TypeOK
  BY DEF IInv
<1> QED
  BY <1>1, Invariance, PTL

\* What IInv says of a peer between the calls about it.
LEMMA PeersAtRest ==
  ASSUME IInv, NEW p \in Peers, Undisturbed(p), AtRest(p), current # 0
  PROVE  /\ In(p) \/ Out(p)
         /\ PartsOf(p) = {x \in Parts : <<x, p>> \in parts[current]}
         /\ In(p) => PartsOf(p) = Parts
         /\ Out(p) => PartsOf(p) = {}
         /\ Wanted(p)
<1>1. p \in Calm /\ OnePipeline
  BY DEF IInv, Plain, Single, Calm, Undisturbed
<1>2. Staged(p) /\ Wanted(p)
  BY <1>1 DEF IInv, Stages, Intent
<1>3. In(p) \/ Out(p)
  BY <1>2, WorkerKinds DEF Staged, Past, AtRest
<1>4. current \in Starts /\ handlers[current].pipeline \in {0, current}
      /\ (handlers[current].pipeline = 0 => parts[current] = {})
  BY <1>1 DEF IInv, TypeOK, Starts, OnePipeline
<1>5. PartsOf(p) = {x \in Parts : <<x, p>> \in parts[current]}
  BY <1>4 DEF PartsOf
<1>6. In(p) => PartsOf(p) = Parts
  BY <1>5 DEF In, Holds
<1>7. Out(p) => PartsOf(p) = {}
  BY <1>5 DEF Out, Holds
<1> QED
  BY <1>2, <1>3, <1>5, <1>6, <1>7

\* No half peer: add_webrtc_audio_sender_receiver and
\* remove_webrtc_audio_sender_receiver leave a peer all of its parts and entries or
\* none, whatever the calls about other peers do and have done to them.
THEOREM WholePeersKept == Spec => []WholePeers
<1>1. Parts # {}
  BY DEF Parts
<1>2. IInv => WholePeers
  BY <1>1, PeersAtRest DEF WholePeers, In, Out, Holds
<1> QED
  BY <1>2, Invariance, PTL

\* Whoever has joined is in the conference with all parts once its calls are over,
\* and whoever has quit or left is out of it.
THEOREM JoinedHeard == Spec => []JoinedIsHeard
<1>1. ASSUME IInv, NEW p \in Peers, Undisturbed(p), AtRest(p)
      PROVE  /\ session[p] = "open" => PartsOf(p) = IF browser[p] = "out" THEN {} ELSE Parts
             /\ session[p] = "closed" => PartsOf(p) = {}
  <2>1. CASE current # 0
    <3>1. call[Session(p)].at = "idle"
      BY <1>1, WorkerKinds DEF AtRest
    <3> QED
      BY <1>1, <2>1, <3>1, PeersAtRest DEF Wanted
  <2>2. CASE current = 0
    <3>1. session[p] \in {"new", "lost"}
      BY <1>1, <2>2 DEF IInv, Sessions, Undisturbed, Ready
    <3> QED
      BY <3>1
  <2> QED
    BY <2>1, <2>2
<1>2. IInv => JoinedIsHeard
  BY <1>1 DEF JoinedIsHeard
<1> QED
  BY <1>2, Invariance, PTL

\* A step that takes a peer out of the conference is a removal's.
LEMMA Leaves ==
  ASSUME IInv, [Next]_vars, NEW p \in Peers, PartsOf(p) = Parts, PartsOf(p)' # Parts,
         session[p] = "open", Up, Single
  PROVE  browser[p] = "out"
<1>a. /\ OnePipeline /\ Ready(p) /\ Parts # {}
      /\ session \in [Peers -> {"new", "open", "broken", "closed", "lost"}]
  BY DEF IInv, Plain, Sessions, Parts, TypeOK
<1>b. current \in Starts /\ handlers[current].pipeline # 0 /\ handlers[current].pipeline = current
  BY <1>a DEF PartsOf, OnePipeline, IInv, TypeOK, Starts
<1>c. ~UNCHANGED <<current, handlers, parts>>
  BY DEF PartsOf
<1> USE DEF clientVars, serverVars, historyVars
<1>1. CASE UNCHANGED vars
  BY <1>1, <1>c DEF vars
<1>2. CASE CreateAudioChannel
  BY <1>2 DEF CreateAudioChannel, IInv, Sessions
<1>3. CASE SignallingRestart \/ MapRace \/ ProcessRestart
  BY <1>3, <1>c DEF SignallingRestart, MapRace, Crash, ProcessRestart
<1>4. ASSUME NEW q \in Peers, Client(q) PROVE FALSE
  BY <1>4, <1>c DEF Client, Connect, Break, Close, Join, SenderCandidate, ReceiverAnswer,
     ReceiverCandidate, QuitAudio
<1>5. ASSUME NEW m \in {"answer", "offer", "reset"} \X Peers, Deliver(m) PROVE FALSE
  BY <1>5, <1>c DEF Deliver
<1>6. ASSUME NEW w \in Workers, Proceed(w) PROVE browser[p] = "out"
  <2>1. CASE \E cause \in Faults : Crash(cause)
    BY <2>1, <1>c DEF Crash
  <2>2. CASE Moves(w)
    <3>1. /\ UNCHANGED current /\ handlers'[current].pipeline = handlers[current].pipeline
      BY <2>2, <1>b DEF Moves
    <3>2. PICK x \in Parts : <<x, p>> \in parts[current] /\ <<x, p>> \notin parts'[current]
      BY <3>1, <1>b DEF PartsOf
    <3>3. w[1] = p /\ call[w].at \in RemovePoints
      BY <2>2, <1>b, <3>2 DEF Moves
    <3>4. call[w].kind \in {"reset", "close"} /\ call[w].at # "idle"
      BY <3>3 DEF IInv, CallsFit, Fits, RemovePoints
    <3>5. w = Session(p)
      <4>1. call[Failure(p)].at = "idle"
        BY <1>a DEF Ready, Idle
      <4> QED
        BY <3>3, <3>4, <4>1, WorkerKinds
    <3> QED
      BY <1>a, <3>4, <3>5 DEF Ready
  <2> QED
    BY <1>6, <2>1, <2>2, Moved DEF IInv
<1>7. ASSUME NEW n \in Starts, Launch(n) PROVE FALSE
  <2>1. CASE LaunchPipeline(n)
    <3>1. n = current
      BY <2>1, <1>a DEF LaunchPipeline, OnePipeline, Unused, NoLaunch
    <3> QED
      BY <2>1, <1>a, <1>b, <3>1 DEF LaunchPipeline, OnePipeline, Starts
  <2>2. CASE LaunchFetch(n) \/ LaunchElements(n)
    BY <2>2, <1>c DEF LaunchFetch, LaunchElements
  <2> QED
    BY <1>7, <2>1, <2>2 DEF Launch
<1>8. ASSUME NEW q \in Peers, CandidateFails(q) PROVE FALSE
  BY <1>8, <1>c DEF CandidateFails
<1> QED
  BY <1>1, <1>2, <1>3, <1>4, <1>5, <1>6, <1>7, <1>8 DEF Next

\* Nobody is dropped: whatever is in flight for a peer, and whatever could not be
\* delivered to another, it goes when it has quit or its websocket is not open.
THEOREM NobodyDropped == Spec => OnlyLeaversGo
<1>1. ASSUME IInv, [Next]_vars
      PROVE  \A p \in Peers :
                PartsOf(p) = Parts /\ PartsOf(p)' # Parts =>
                    \/ browser[p] = "out" \/ session[p] # "open"
                    \/ ~Up \/ "relaunch" \in irregular
  BY <1>1, Leaves DEF Single
<1> QED
  BY <1>1, Invariance, PTL DEF Spec, OnlyLeaversGo

\* Parts are put in by joins only.
LEMMA Grows ==
  ASSUME TypeOK, NEW w \in Workers, Proceed(w), NEW n \in Starts, NEW x \in parts'[n], x \notin parts[n]
  PROVE  call[w].at \in AddPoints
<1> USE DEF serverVars, At, AddPoints
<1>1. ~UNCHANGED parts
  OBVIOUS
<1>2. /\ ~Lookup(w) /\ ~LookupFails(w) /\ ~SenderIce(w) /\ ~ForReceiver(w) /\ ~Register(w)
      /\ ~AddSendAgain(w) /\ ~RegisterReceiver(w) /\ ~Apply(w) /\ ~EraseSender(w)
      /\ ~EraseReceiver(w) /\ ~Notify(w) /\ ~Dangling(w)
  BY <1>1 DEF Lookup, LookupFails, SenderIce, ForReceiver, Register, AddSendAgain, RegisterReceiver,
     Apply, EraseSender, EraseReceiver, Notify, Dangling, Crash
<1>3. ASSUME NEW both, TakeOut(w, both) PROVE FALSE
  BY <1>3 DEF TakeOut, TypeOK
<1>4. ~Remove(w) /\ ~RemoveReceiver(w)
  BY <1>1, <1>3 DEF Remove, RemoveReceiver, Crash
<1> QED
  BY <1>2, <1>4 DEF Proceed, AddSend, Mix, AddReceiver, Tee

\* A step that puts a peer into the conference is its join's.
LEMMA Enters ==
  ASSUME IInv, NEW w \in Workers, Proceed(w), Moves(w), NEW p \in Peers, Single,
         PartsOf(p) # Parts, PartsOf(p)' = Parts
  PROVE  w[1] = p /\ browser[p] # "out"
<1>a. OnePipeline /\ Ready(w[1]) /\ TypeOK /\ CallsFit
  BY WorkerKinds DEF IInv, Plain, Sessions
<1>b. /\ UNCHANGED current /\ current # 0 /\ handlers'[current].pipeline # 0
      /\ current \in Starts
  BY DEF Moves, PartsOf, Parts, TypeOK, Starts, IInv
<1>c. handlers'[current].pipeline = current /\ handlers[current].pipeline = current
  BY <1>a, <1>b DEF Moves, OnePipeline
<1>1. PICK x \in Parts : <<x, p>> \in parts'[current] /\ <<x, p>> \notin parts[current]
  BY <1>b, <1>c DEF PartsOf
<1>2. w[1] = p
  BY <1>1, <1>b DEF Moves
<1>3. call[w].at \in AddPoints
  BY <1>a, <1>b, <1>1, Grows
<1>4. call[w].at # "idle" /\ call[w].kind = "join"
  BY <1>3, <1>a DEF CallsFit, Fits, AddPoints
<1>5. w = Session(p)
  BY <1>2, <1>4, <1>a, WorkerKinds DEF Ready
<1> QED
  BY <1>2, <1>4, <1>5, <1>a DEF Ready

\* A worker has its peer's parts in its hands, and nobody else's.
LEMMA Others ==
  ASSUME IInv, NEW w \in Workers, Moves(w), NEW p \in Peers, p # w[1], Single
  PROVE  PartsOf(p)' = PartsOf(p)
<1>1. CASE current = 0
  BY <1>1 DEF Moves, PartsOf
<1>2. CASE current # 0
  <2>1. current \in Starts /\ OnePipeline
    BY <1>2 DEF IInv, TypeOK, Plain, Starts
  <2>2. UNCHANGED current /\ handlers'[current].pipeline = handlers[current].pipeline
    BY <2>1 DEF Moves
  <2>3. handlers[current].pipeline \in {0, current}
    BY <2>1 DEF OnePipeline, Starts
  <2>4. \A x \in Parts : <<x, p>> \in parts'[current] <=> <<x, p>> \in parts[current]
    BY <2>1 DEF Moves
  <2> QED
    BY <2>1, <2>2, <2>3, <2>4 DEF PartsOf
<1> QED
  BY <1>1, <1>2

\* Every step is one of the conference, or changes nothing that it speaks of.
LEMMA Confers ==
  ASSUME IInv, [Next]_vars, Up, Single, Single'
  PROVE  Conf!Next \/ UNCHANGED <<Wanting, Away, Members>>
<1>a. /\ OnePipeline /\ NoChannel /\ Parts # {} /\ TypeOK
      /\ session \in [Peers -> {"new", "open", "broken", "closed", "lost"}]
      /\ browser \in [Peers -> {"out", "in", "answered"}]
  BY DEF IInv, Plain, Parts, TypeOK
<1>b. UNCHANGED <<current, handlers, parts>> => UNCHANGED Members
  BY DEF PartsOf, Members
<1>c. UNCHANGED session => UNCHANGED Away
  BY DEF Away
<1>d. UNCHANGED browser => UNCHANGED Wanting
  BY DEF Wanting
<1> USE DEF clientVars, serverVars, historyVars
<1>1. CASE UNCHANGED vars
  BY <1>1, <1>b, <1>c, <1>d DEF vars
<1>2. CASE CreateAudioChannel
  <2>1. current = 0 /\ current' = starts + 1 /\ starts + 1 \in Starts /\ UNCHANGED handlers
        /\ UNCHANGED <<session, browser>>
    BY <1>2, <1>a, AudioAssumption DEF CreateAudioChannel, NoChannel, TypeOK, Starts
  <2>2. handlers[starts + 1].pipeline = 0
    BY <2>1, <1>a DEF OnePipeline, Unused, Starts, NewHandler
  <2>3. \A p \in Peers : PartsOf(p) = {} /\ PartsOf(p)' = {}
    BY <2>1, <2>2 DEF PartsOf
  <2> QED
    BY <1>a, <1>c, <1>d, <2>1, <2>3 DEF Members
<1>3. CASE SignallingRestart \/ ProcessRestart
  BY <1>3 DEF SignallingRestart, ProcessRestart, Single
<1>4. CASE MapRace
  BY <1>4, <1>b, <1>c, <1>d DEF MapRace, Crash
<1>5. ASSUME NEW p \in Peers, Client(p)
      PROVE  Conf!Next \/ UNCHANGED <<Wanting, Away, Members>>
  <2>0. UNCHANGED Members
    BY <1>5, <1>b DEF Client, Connect, Break, Close, Join, SenderCandidate, ReceiverAnswer,
       ReceiverCandidate, QuitAudio
  <2>1. CASE Connect(p)
    <3>1. UNCHANGED Away
      BY <1>a, <2>1 DEF Connect, Away
    <3> QED
      BY <2>0, <2>1, <3>1, <1>d DEF Connect
  <2>2. CASE Break(p)
    <3>1. Away' = Away \cup {p}
      BY <1>a, <2>2 DEF Break, Away
    <3>2. Conf!Leave(p)
      BY <2>0, <2>2, <3>1, <1>d DEF Break, Conf!Leave
    <3> QED
      BY <3>2 DEF Conf!Next
  <2>3. CASE Close(p)
    <3>1. Away' = Away \cup {p}
      BY <1>a, <2>3 DEF Close, Away
    <3>2. Wanting' = Wanting \ {p}
      BY <1>a, <2>3 DEF Close, Wanting
    <3>3. Conf!Leave(p)
      BY <2>0, <3>1, <3>2 DEF Conf!Leave
    <3> QED
      BY <3>3 DEF Conf!Next
  <2>4. CASE Join(p)
    <3>1. Wanting' = Wanting \cup {p}
      BY <1>a, <2>4 DEF Join, Wanting
    <3>2. p \notin Away
      BY <2>4 DEF Join, Away
    <3>3. Conf!Ask(p)
      BY <2>0, <2>4, <3>1, <3>2, <1>c DEF Join, Conf!Ask
    <3> QED
      BY <3>3 DEF Conf!Next
  <2>5. CASE SenderCandidate(p) \/ ReceiverCandidate(p)
    BY <2>0, <2>5, <1>c, <1>d DEF SenderCandidate, ReceiverCandidate
  <2>6. CASE ReceiverAnswer(p)
    <3>1. UNCHANGED Wanting
      BY <1>a, <2>6 DEF ReceiverAnswer, Wanting
    <3> QED
      BY <2>0, <2>6, <3>1, <1>c DEF ReceiverAnswer
  <2>7. CASE QuitAudio(p)
    <3>1. Wanting' = Wanting \ {p}
      BY <1>a, <2>7 DEF QuitAudio, Wanting
    <3>2. Conf!Withdraw(p)
      BY <2>0, <2>7, <3>1, <1>c DEF QuitAudio, Conf!Withdraw
    <3> QED
      BY <3>2 DEF Conf!Next
  <2> QED
    BY <1>5, <2>1, <2>2, <2>3, <2>4, <2>5, <2>6, <2>7 DEF Client
<1>6. ASSUME NEW m \in {"answer", "offer", "reset"} \X Peers, Deliver(m)
      PROVE  UNCHANGED <<Wanting, Away, Members>>
  BY <1>6, <1>b, <1>c, <1>d DEF Deliver
<1>7. ASSUME NEW p \in Peers, CandidateFails(p) PROVE UNCHANGED <<Wanting, Away, Members>>
  BY <1>7, <1>b, <1>c, <1>d DEF CandidateFails
<1>8. ASSUME NEW w \in Workers, Proceed(w)
      PROVE  Conf!Next \/ UNCHANGED <<Wanting, Away, Members>>
  <2>1. CASE \E cause \in Faults : Crash(cause)
    BY <2>1, <1>b, <1>c, <1>d DEF Crash
  <2>2. CASE Moves(w)
    <3>0. w[1] \in Peers /\ UNCHANGED <<Wanting, Away, session, browser>>
      BY <2>2, <1>c, <1>d, WorkerKinds DEF Moves
    <3>1. \A q \in Peers : q # w[1] => PartsOf(q)' = PartsOf(q)
      BY <2>2, Others
    <3>2. CASE PartsOf(w[1]) = Parts <=> PartsOf(w[1])' = Parts
      <4>1. UNCHANGED Members
        BY <3>0, <3>1, <3>2 DEF Members
      <4> QED
        BY <3>0, <4>1
    <3>3. CASE PartsOf(w[1]) # Parts /\ PartsOf(w[1])' = Parts
      <4>1. Members' = Members \cup {w[1]}
        BY <3>0, <3>1, <3>3 DEF Members
      <4>2. w[1] \in Wanting
        BY <1>8, <2>2, <3>0, <3>3, Enters DEF Wanting
      <4>3. Conf!Admit(w[1])
        BY <3>0, <4>1, <4>2 DEF Conf!Admit
      <4> QED
        BY <3>0, <4>3 DEF Conf!Next
    <3>4. CASE PartsOf(w[1]) = Parts /\ PartsOf(w[1])' # Parts
      <4>1. Members' = Members \ {w[1]}
        BY <3>0, <3>1, <3>4 DEF Members
      <4>2. session[w[1]] = "open" => browser[w[1]] = "out"
        BY <3>0, <3>4, Leaves
      <4>3. session[w[1]] = "new" => browser[w[1]] = "out"
        BY <3>0 DEF IInv, Sessions, Ready
      <4>4. w[1] \notin Wanting \/ w[1] \in Away
        BY <1>a, <3>0, <4>2, <4>3 DEF Wanting, Away
      <4>5. Conf!Dismiss(w[1])
        BY <3>0, <4>1, <4>4 DEF Conf!Dismiss
      <4> QED
        BY <3>0, <4>5 DEF Conf!Next
    <3> QED
      BY <3>2, <3>3, <3>4
  <2> QED
    BY <1>8, <1>a, <2>1, <2>2, Moved
<1>9. ASSUME NEW n \in Starts, Launch(n) PROVE UNCHANGED <<Wanting, Away, Members>>
  <2>1. CASE LaunchPipeline(n)
    <3>1. n = current /\ current # 0 /\ current \in Starts
      BY <2>1, <1>a DEF LaunchPipeline, OnePipeline, Unused, NoLaunch, Starts
    <3>2. handlers[current].pipeline = 0 /\ parts[current] = {} /\ launch[current].handler = current
      BY <2>1, <1>a, <3>1 DEF LaunchPipeline, OnePipeline
    <3>3. UNCHANGED <<session, browser, current, parts>> /\ handlers'[current].pipeline = current
      BY <2>1, <1>a, <3>1, <3>2 DEF LaunchPipeline, TypeOK, HandlerRecords
    <3>4. \A p \in Peers : PartsOf(p) = {} /\ PartsOf(p)' = {}
      BY <3>1, <3>2, <3>3 DEF PartsOf
    <3> QED
      BY <1>a, <1>c, <1>d, <3>3, <3>4 DEF Members
  <2>2. CASE LaunchFetch(n) \/ LaunchElements(n)
    BY <2>2, <1>b, <1>c, <1>d DEF LaunchFetch, LaunchElements
  <2> QED
    BY <1>9, <2>1, <2>2 DEF Launch
<1> QED
  BY <1>1, <1>2, <1>3, <1>4, <1>5, <1>6, <1>7, <1>8, <1>9 DEF Next

\* The audio pipeline implements a conference, whichever calls about a peer meet:
\* peers come one by one, after they have asked, and go one by one, after they have
\* quit or left, while the media server lives and no second start has come.
THEOREM ConferenceRefinement == Spec => ImplementsConference
<1>1. Init => Conf!Init
  BY DEF Init, Conf!Init, Wanting, Away, Members, PartsOf, Parts
<1>2. IInv /\ [Next]_vars =>
        [Conf!Next \/ ~Up \/ "relaunch" \in irregular']_<<Wanting, Away, Members>>
  <2>1. ASSUME IInv, [Next]_vars, Up, "relaunch" \notin irregular' PROVE Single
    BY <2>1, Before DEF IInv, ProcessRestart, Single
  <2> QED
    BY <2>1, Confers DEF Single
<1> QED
  BY <1>1, <1>2, Invariance, PTL DEF Spec, ImplementsConference

\* Each death of the media server has one of the causes that can lead to it.
THEOREM FaultsHaveCauses == Spec => []FaultHasCause
<1>1. IInv => FaultHasCause
  BY DEF IInv
<1> QED
  BY <1>1, Invariance, PTL
=============================================================================
