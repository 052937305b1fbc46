------------------------ MODULE VideoChannel_proofs ------------------------
(***************************************************************************)
(* What VideoChannel keeps of the lock and the stream for every set of     *)
(* peers and every number of offers and restarts.  The inductive invariant *)
(* IInv has parts that hold in every behaviour (CallsFit, Launches, Fresh, *)
(* Sessions, Strangers), and parts that hold as long as nothing has        *)
(* overlapped: there is one handler, and one launch or removal of it at a  *)
(* time (OneStream), and its sender is the peer the lock is about (Owner). *)
(* Kept, further down, says in the same way what a launch leaves behind.   *)
(***************************************************************************)
EXTENDS VideoChannel, FiniteSetTheorems, TLAPS

Session(p) == <<p, "session">>
Failure(p) == <<p, "failure">>
Removing(w) == call[w].at \in RemovePoints
Pending(w) == call[w].kind = "offer"
Tidy == ~overlapped /\ ~slow

\* What a call is about: its worker's peer, at a point of its kind, with a
\* handler once it has found one.
Fits(w) ==
    LET c == call[w] IN
    /\ c.at = "idle" => c.kind = "reset"
    /\ c.at # "idle" /\ w # BusWorker => c.peer = w[1]
    /\ c.at # "idle" => (c.kind = "bus" <=> w = BusWorker)
    /\ w[2] = "failure" => c.at = "idle" \/ c.kind = "close"
    /\ c.kind = "bus" => c.at \in TeardownPoints
    /\ c.kind = "offer" => c.at \in {"lookup", "create"}
    /\ c.kind = "close" => c.at \in {"unlist", "lookup"} \cup RemovePoints
    /\ c.at = "unlist" => w[2] = "session"
    /\ c.at = "create" => c.kind = "offer"
    /\ c.at \in RemovePoints => c.kind \in {"reset", "close", "bus"}
    /\ c.at \notin {"idle", "unlist", "lookup", "create"} => c.handler # 0

CallsFit == \A w \in Workers : Fits(w)

\* A pipeline and a main loop have a launch that has found a handler.
Bound(n) == launch[n].handler # 0 /\ launch[n].at \notin {"none", "fetch"}

Launches ==
    /\ current # 0 => handlers[current].sender \in Peers
    /\ \A n \in Offers :
        /\ launch[n].handler # 0 => handlers[launch[n].handler].sender \in Peers
        /\ launch[n].at \in {"build", "receivers", "play", "loop", "running"} =>
              launch[n].handler # 0
        /\ handlers[n].pipeline # 0 => Bound(handlers[n].pipeline)
        /\ handlers[n].loop # 0 => Bound(handlers[n].loop)
        /\ n \in playing => Bound(n)

\* An offer on its way is one whose launch has not begun, and the only one with
\* its number.
Fresh ==
    /\ \A n \in Offers : n > count => launch[n].at = "none"
    /\ \A w \in Workers :
          Pending(w) => call[w].offer \in 1..count /\ launch[call[w].offer].at = "none"
    /\ \A v, w \in Workers :
          Pending(v) /\ Pending(w) /\ v # w => call[v].offer # call[w].offer

\* What a session that is not open cannot have.
Ready(p) ==
    LET c == call[Session(p)] IN
    /\ session[p] = "new" => c.at = "idle"
    /\ session[p] \in {"new", "open"} => call[Failure(p)].at = "idle" /\ c.kind # "close"
    /\ lock = p \/ p \in trying => session[p] \in {"open", "broken"}
    /\ c.at # "idle" /\ c.kind \in {"reset", "close"} => lock # p
    /\ c.kind = "offer" => p \in trying \/ Lost(p)
    /\ c.kind = "offer" => p \notin c.invited

Sessions == \A p \in Peers : Ready(p)

\* A peer that has not connected is known nowhere.
Unknown(p) ==
    /\ p \notin inChannel
    /\ \A w \in Workers : p \notin call[w].invited
    /\ \A n \in Offers :
          /\ p # handlers[n].sender /\ p \notin handlers[n].receivers
          /\ \A bin \in bins[n] : bin[2] # p
    /\ \A bin \in toDeliver : bin[2] # p

Strangers == \A p \in Peers : session[p] = "new" => Unknown(p)

\* The parts of a pipeline whose handler's sender and receivers are these.
Whole(sender, receivers) == {<<"send", sender>>} \cup ({"recv"} \X receivers)

\* How far the removal has come: the pipeline has been stopped, the handler has
\* forgotten it, the main loop is quit.
Stopped == SomeAt({"forget", "quit", "unmap"})
Forgotten == SomeAt({"quit", "unmap"})
LoopQuit == SomeAt({"unmap"})

\* The handler in the map, as far as its launch and its removal have come.
Stage(h) ==
    LET at == launch[h].at IN
    /\ at \in BuildPoints \cup {"running", "over"}
    /\ at # "fetch" => launch[h].handler = h
    /\ at = "over" <=> LoopQuit
    /\ handlers[h].pipeline =
          IF at \in {"fetch", "build"} \/ Forgotten THEN 0 ELSE h
    /\ handlers[h].loop = IF at \in {"running", "over"} THEN h ELSE 0
    /\ bins[h] = CASE at \in {"fetch", "build"} -> {}
                   [] at = "receivers" -> {<<"send", handlers[h].sender>>}
                   [] OTHER -> Whole(handlers[h].sender, handlers[h].receivers)
    /\ h \in playing <=> at \in {"loop", "running"} /\ ~Stopped
    /\ handlers[h].sender \in Peers \ handlers[h].receivers

\* One handler and one pipeline, and one launch or one removal.
OneStream ==
    /\ \A n \in Offers : n # current =>
          /\ n \notin playing
          /\ launch[n].at \in {"none", "over"}
          /\ launch[n].at = "none" => handlers[n] = NewHandler /\ bins[n] = {}
    /\ current # 0 => Stage(current)
    /\ current = 0 => \A w \in Workers : ~Removing(w)
    /\ \A v, w \in Workers : Removing(v) /\ Removing(w) => v = w
    /\ \A w \in Workers : Removing(w) =>
          /\ call[w].handler = current
          /\ launch[current].at \in {"running", "over"}
          /\ call[w].at # "nullifyLate"
    /\ \A w \in Workers : call[w].at = "apply" => Caller(w) \in Handler(w).receivers

\* The removal of the stream is past the point where its sender has the lock.
Ending == SomeAt(TeardownPoints \ {"free"})

\* The session of p is in a call that removes p.
Leaving(p) ==
    LET c == call[Session(p)] IN
    c.kind \in {"reset", "close"} /\ c.at \in {"unlist", "lookup"} \cup RemovePoints

\* A peer that has the lock, and is connected, is about to offer or streams; one
\* that is about to offer does not stream.
Holding(p) ==
    /\ lock = p /\ session[p] = "open" =>
          Pending(Session(p)) \/ (current # 0 /\ handlers[current].sender = p /\ ~Ending)
    /\ Pending(Session(p)) =>
          (lock = p \/ Lost(p)) /\ (current # 0 => handlers[current].sender # p)

\* The sender has the lock, or is on its way out.
Sending(p) ==
    /\ lock = p \/ Lost(p) \/ Ending \/ Leaving(p)
    /\ p \in trying \/ session[p] \in {"closed", "lost"} \/ Leaving(p)

\* The stream is the lock holder's, and its sender's calls or the bus end it.
Owner ==
    /\ \A p \in Peers : Holding(p)
    /\ current # 0 => Sending(handlers[current].sender)
    /\ \A w \in Workers \ {BusWorker} :
          call[w].at \in TeardownPoints => Caller(w) = handlers[current].sender

IInv ==
    /\ TypeOK /\ CallsFit /\ Launches /\ Fresh /\ Sessions /\ Strangers
    /\ Tidy => OneStream /\ Owner
    /\ FaultNeedsOverlap

\* The workers are the peers' two and the buses', all different.
LEMMA WorkerKinds ==
    /\ \A p \in Peers :
        /\ Session(p) \in Workers /\ Session(p)[1] = p /\ Session(p)[2] = "session"
        /\ Failure(p) \in Workers /\ Failure(p)[1] = p /\ Failure(p)[2] = "failure"
        /\ Session(p) # Failure(p) /\ Session(p) # BusWorker /\ Failure(p) # BusWorker
    /\ BusWorker \in Workers /\ BusWorker[2] = "bus"
    /\ \A w \in Workers \ {BusWorker} : w[1] \in Peers /\ w \in {Session(w[1]), Failure(w[1])}
    /\ \A p, q \in Peers : p # q =>
          Session(p) # Session(q) /\ Session(p) # Failure(q) /\ Failure(p) # Failure(q)
  BY ChannelAssumption DEF Workers, Session, Failure, BusWorker

\* The other workers' calls stay as they are.
Alone(w) == \A v \in Workers : v # w => call'[v] = call[v]

\* The call of w goes on at a point.
Moves(w, point) ==
    /\ Alone(w)
    /\ call'[w].at = point
    /\ call'[w].kind = call[w].kind /\ call'[w].peer = call[w].peer
    /\ call'[w].handler = call[w].handler /\ call'[w].offer = call[w].offer
    /\ call'[w].invited = call[w].invited

\* The call of w is over.
Ends(w) == Alone(w) /\ call'[w] = Idle

\* A call of w begins, at a point.
Begins(w, point, kind, peer, n, invited) ==
    /\ Alone(w)
    /\ call'[w].at = point /\ call'[w].kind = kind /\ call'[w].peer = peer
    /\ call'[w].handler = 0 /\ call'[w].offer = n /\ call'[w].invited = invited

LEMMA IdleType == Idle \in CallRecords /\ Idle.at = "idle" /\ Idle.kind = "reset"
  BY ChannelAssumption DEF Idle, CallRecords, Points, Kinds

\* What a step that lets a call go on does to the calls.
LEMMA GotoMoves ==
  ASSUME call \in [Workers -> CallRecords], NEW w \in Workers, NEW point \in Points,
         Goto(w, point)
  PROVE  Moves(w, point) /\ call' \in [Workers -> CallRecords]
<1>1. [call[w] EXCEPT !.at = point] \in CallRecords
  BY DEF CallRecords
<1>2. call' = [call EXCEPT ![w] = [call[w] EXCEPT !.at = point]]
  BY DEF Goto
<1> QED
  BY <1>1, <1>2 DEF Moves, Alone, CallRecords

\* ... one that ends it ...
LEMMA ReturnEnds ==
  ASSUME call \in [Workers -> CallRecords], NEW w \in Workers, Return(w)
  PROVE  Ends(w) /\ call' \in [Workers -> CallRecords]
  BY IdleType DEF Return, Ends, Alone

\* ... one that begins it with a message of a peer ...
LEMMA SendBegins ==
  ASSUME call \in [Workers -> CallRecords], NEW p \in Peers, NEW kind \in Kinds,
         NEW n \in 0..MaxOffers, NEW invited \in SUBSET Peers, Send(p, kind, n, invited)
  PROVE  Begins(Session(p), "lookup", kind, p, n, invited) /\ call' \in [Workers -> CallRecords]
<1> DEFINE c == [at |-> "lookup", kind |-> kind, peer |-> p, handler |-> 0, offer |-> n,
                 invited |-> invited]
<1>1. c \in CallRecords
  BY ChannelAssumption DEF CallRecords, Points
<1>2. call' = [call EXCEPT ![Session(p)] = c]
  BY DEF Send, Session
<1> QED
  BY <1>1, <1>2, WorkerKinds DEF Begins, Alone

\* ... and one that begins it because a peer is gone.
LEMMA CloseBegins ==
  ASSUME call \in [Workers -> CallRecords], NEW p \in Peers, NEW w \in Workers,
         NEW point \in Points,
         call' = [call EXCEPT ![w] = [Idle EXCEPT !.at = point, !.kind = "close", !.peer = p]]
  PROVE  /\ Begins(w, point, "close", p, 0, {})
         /\ call' \in [Workers -> CallRecords]
<1>1. [Idle EXCEPT !.at = point, !.kind = "close", !.peer = p] \in CallRecords
  BY IdleType DEF CallRecords, Kinds
<1> QED
  BY <1>1 DEF Begins, Alone, Idle

\* What the steps of the browsers, of their sessions and of the deliveries do to
\* the calls.
LEMMA ClientCalls ==
  ASSUME TypeOK, NEW p \in Peers
  PROVE  /\ Close(p) => Begins(Session(p), "unlist", "close", p, 0, {})
         /\ Offer(p) =>
               Begins(Session(p), "lookup", "offer", p, count + 1, inChannel \ {p})
         /\ SenderIce(p) => Begins(Session(p), "lookup", "ice", p, 0, {})
         /\ ReceiverAnswer(p) \/ ReceiverIce(p) =>
               Begins(Session(p), "lookup", "answer", p, 0, {})
         /\ VideoReset(p) => Begins(Session(p), "lookup", "reset", p, 0, {})
         /\ CandidateFails(p) => Begins(Failure(p), "lookup", "close", p, 0, {})
         /\ Client(p) \/ CandidateFails(p) => call' \in [Workers -> CallRecords]
<1>a. call \in [Workers -> CallRecords] /\ count \in 0..MaxOffers /\ inChannel \subseteq Peers
  BY DEF TypeOK
<1>b. 0 \in 0..MaxOffers /\ {} \in SUBSET Peers /\ Session(p) \in Workers /\ Failure(p) \in Workers
  BY ChannelAssumption, WorkerKinds
<1>1. ASSUME Close(p)
      PROVE  Begins(Session(p), "unlist", "close", p, 0, {}) /\ call' \in [Workers -> CallRecords]
  BY <1>1, <1>a, <1>b, CloseBegins DEF Close, Session, Points
<1>2. ASSUME Offer(p)
      PROVE  /\ Begins(Session(p), "lookup", "offer", p, count + 1, inChannel \ {p})
             /\ call' \in [Workers -> CallRecords]
  <2>1. count + 1 \in 0..MaxOffers /\ inChannel \ {p} \in SUBSET Peers
    BY <1>2, <1>a, ChannelAssumption DEF Offer
  <2>2. Send(p, "offer", count + 1, inChannel \ {p})
    BY <1>2 DEF Offer
  <2> QED
    BY <1>a, <2>1, <2>2, SendBegins DEF Kinds
<1>3. ASSUME SenderIce(p)
      PROVE  Begins(Session(p), "lookup", "ice", p, 0, {}) /\ call' \in [Workers -> CallRecords]
  BY <1>3, <1>a, <1>b, SendBegins DEF SenderIce, Kinds
<1>4. ASSUME ReceiverAnswer(p)
      PROVE  Begins(Session(p), "lookup", "answer", p, 0, {}) /\ call' \in [Workers -> CallRecords]
  BY <1>4, <1>a, <1>b, SendBegins DEF ReceiverAnswer, Kinds
<1>5. ASSUME ReceiverIce(p)
      PROVE  Begins(Session(p), "lookup", "answer", p, 0, {}) /\ call' \in [Workers -> CallRecords]
  BY <1>5, <1>a, <1>b, SendBegins DEF ReceiverIce, Kinds
<1>6. ASSUME VideoReset(p)
      PROVE  Begins(Session(p), "lookup", "reset", p, 0, {}) /\ call' \in [Workers -> CallRecords]
  BY <1>6, <1>a, <1>b, SendBegins DEF VideoReset, Kinds
<1>7. ASSUME CandidateFails(p)
      PROVE  Begins(Failure(p), "lookup", "close", p, 0, {}) /\ call' \in [Workers -> CallRecords]
  BY <1>7, <1>a, <1>b, CloseBegins DEF CandidateFails, Report, Failure, Points
<1>8. Connect(p) \/ Break(p) \/ OfferDropped(p) => call' \in [Workers -> CallRecords]
  BY <1>a DEF Connect, Break, OfferDropped
<1> QED
  BY <1>1, <1>2, <1>3, <1>4, <1>5, <1>6, <1>7, <1>8 DEF Client

\* ... those of the deliveries ...
LEMMA DeliverCalls ==
  ASSUME TypeOK, NEW bin \in Bins, Deliver(bin)
  PROVE  /\ bin[2] \in Peers
         /\ \/ UNCHANGED call
            \/ /\ session[bin[2]] # "open" /\ call[Failure(bin[2])].at = "idle"
               /\ Begins(Failure(bin[2]), "lookup", "close", bin[2], 0, {})
         /\ call' \in [Workers -> CallRecords]
<1>1. bin[2] \in Peers
  BY DEF Bins
<1>2. CASE UNCHANGED call
  BY <1>1, <1>2 DEF TypeOK
<1>3. CASE session[bin[2]] # "open" /\ call[Failure(bin[2])].at = "idle" /\ Report(bin[2])
  <2>1. Failure(bin[2]) \in Workers
    BY <1>1, WorkerKinds
  <2> QED
    BY <1>1, <1>3, <2>1, CloseBegins DEF Report, Failure, Points, TypeOK
<1> QED
  BY <1>1, <1>2, <1>3 DEF Deliver, Failure

\* ... and those of a restart of the signalling server.
LEMMA RestartCalls ==
  ASSUME TypeOK, SignallingRestart
  PROVE  /\ \A w \in Workers : call'[w] = (IF call[w].at = "unlist" THEN Idle ELSE call[w])
         /\ call' \in [Workers -> CallRecords]
<1>1. call' = [w \in Workers |-> IF call[w].at = "unlist" THEN Idle ELSE call[w]]
  BY DEF SignallingRestart
<1> QED
  BY <1>1, IdleType DEF TypeOK

\* A step changes nothing but what the media server died of, or that its lookups
\* have met another call.
Frozen ==
    /\ UNCHANGED <<clientVars, call, serverVars, slow>>
    /\ fault' = fault \/ fault' \in Faults
    /\ overlapped' = overlapped \/ overlapped' = TRUE

\* A crash leaves everything else as it was.
LEMMA CrashFreezes ==
  ASSUME NEW cause \in Faults, Crash(cause) PROVE Frozen
  BY DEF Crash, Frozen

\* What the steps of a call do to the calls, unless the media server dies.
LEMMA WorkerCalls ==
  ASSUME TypeOK, CallsFit, NEW w \in Workers
  PROVE  /\ Unlist(w) => Moves(w, "lookup")
         /\ Lookup(w) =>
               \/ current = 0 /\ call[w].kind # "offer" /\ Ends(w)
               \/ /\ current # 0 \/ call[w].kind = "offer"
                  /\ Alone(w)
                  /\ call'[w].at = Found(call[w].kind) /\ call'[w].handler = current
                  /\ call'[w].kind = call[w].kind /\ call'[w].peer = call[w].peer
                  /\ call'[w].offer = call[w].offer /\ call'[w].invited = call[w].invited
         /\ Create(w) \/ Ice(w) \/ Unmap(w) => Ends(w)
         /\ Answer(w) =>
               IF Caller(w) \in Handler(w).receivers THEN Moves(w, "apply") ELSE Ends(w)
         /\ Apply(w) => Ends(w) \/ Crash("freed")
         /\ Remove(w) =>
               IF Caller(w) = Handler(w).sender THEN Moves(w, "strip") ELSE Ends(w)
         /\ Free(w) => Moves(w, "strip")
         /\ Strip(w) =>
               IF Handler(w).pipeline = 0 THEN Moves(w, "quit") ELSE Moves(w, "nullify")
         /\ Nullify(w) => Moves(w, "forget")
         /\ NullifyTimeout(w) => Moves(w, "nullifyLate")
         /\ NullifyLate(w) \/ Forget(w) => Moves(w, "quit")
         /\ Quit(w) => Moves(w, "unmap") \/ Crash("freed")
         /\ Proceed(w) => call' \in [Workers -> CallRecords]
<1> DEFINE Typed == call' \in [Workers -> CallRecords]
<1>a. call \in [Workers -> CallRecords] /\ call[w] \in CallRecords /\ current \in 0..MaxOffers
  BY DEF TypeOK
<1>b. \A point \in Points : Goto(w, point) => Moves(w, point) /\ Typed
  BY <1>a, GotoMoves
<1>c. Return(w) => Ends(w) /\ Typed
  BY <1>a, ReturnEnds
<1>d. ASSUME NEW cause, Crash(cause) PROVE Typed
  BY <1>d, <1>a DEF Crash
<1> HIDE DEF Typed
<1> USE DEF Points, RemovePoints, TeardownPoints
<1>1. Unlist(w) => Moves(w, "lookup") /\ Typed
  BY <1>b DEF Unlist
<1>2. ASSUME Lookup(w)
      PROVE  /\ \/ current = 0 /\ call[w].kind # "offer" /\ Ends(w)
                \/ /\ current # 0 \/ call[w].kind = "offer"
                   /\ Alone(w)
                   /\ call'[w].at = Found(call[w].kind) /\ call'[w].handler = current
                   /\ call'[w].kind = call[w].kind /\ call'[w].peer = call[w].peer
                   /\ call'[w].offer = call[w].offer /\ call'[w].invited = call[w].invited
             /\ Typed
  <2>1. CASE current = 0 /\ call[w].kind # "offer"
    BY <1>2, <2>1, <1>c DEF Lookup
  <2>2. CASE ~(current = 0 /\ call[w].kind # "offer")
    <3> DEFINE c == [call[w] EXCEPT !.at = Found(call[w].kind), !.handler = current]
    <3>1. call' = [call EXCEPT ![w] = c]
      BY <1>2, <2>2 DEF Lookup
    <3>2. Found(call[w].kind) \in Points
      <4>1. call[w].kind \in Kinds
        BY <1>a DEF CallRecords
      <4>2. call[w].kind # "bus"
        BY <1>2 DEF Lookup, At, CallsFit, Fits
      <4> QED
        BY <4>1, <4>2 DEF Found, Kinds
    <3>3. c \in CallRecords
      BY <1>a, <3>2 DEF CallRecords
    <3>4. /\ c.at = Found(call[w].kind) /\ c.handler = current
          /\ c.kind = call[w].kind /\ c.peer = call[w].peer
          /\ c.offer = call[w].offer /\ c.invited = call[w].invited
      BY <1>a DEF CallRecords
    <3> HIDE DEF c
    <3> QED
      BY <1>a, <2>2, <3>1, <3>3, <3>4 DEF Alone, Typed
  <2> QED
    BY <2>1, <2>2
<1>3. Create(w) \/ Ice(w) \/ Unmap(w) => Ends(w) /\ Typed
  BY <1>c DEF Create, Ice, Unmap
<1>4. Answer(w) =>
          (IF Caller(w) \in Handler(w).receivers THEN Moves(w, "apply") ELSE Ends(w)) /\ Typed
  BY <1>b, <1>c DEF Answer
<1>5. Apply(w) => (Ends(w) \/ Crash("freed")) /\ Typed
  BY <1>c, <1>d DEF Apply
<1>6. Remove(w) =>
          (IF Caller(w) = Handler(w).sender THEN Moves(w, "strip") ELSE Ends(w)) /\ Typed
  BY <1>b, <1>c DEF Remove, Handler
<1>7. Free(w) => Moves(w, "strip") /\ Typed
  BY <1>b DEF Free
<1>8. Strip(w) =>
          (IF Handler(w).pipeline = 0 THEN Moves(w, "quit") ELSE Moves(w, "nullify")) /\ Typed
  BY <1>b DEF Strip, Handler
<1>9. Nullify(w) => Moves(w, "forget") /\ Typed
  BY <1>b DEF Nullify
<1>10. NullifyTimeout(w) => Moves(w, "nullifyLate") /\ Typed
  BY <1>b DEF NullifyTimeout
<1>11. NullifyLate(w) \/ Forget(w) => Moves(w, "quit") /\ Typed
  BY <1>b DEF NullifyLate, Forget
<1>12. Quit(w) => (Moves(w, "unmap") \/ Crash("freed")) /\ Typed
  BY <1>b, <1>d DEF Quit
<1>13. StripErases(w) => Typed
  BY <1>d DEF StripErases
<1> QED
  BY <1>1, <1>2, <1>3, <1>4, <1>5, <1>6, <1>7, <1>8, <1>9, <1>10, <1>11, <1>12, <1>13
     DEF Proceed, Typed

\* Fields of a handler that are written with what they hold.
LEMMA FieldTypes ==
  ASSUME NEW r \in HandlerRecords, NEW p \in Peers, NEW S \in SUBSET Peers, NEW n \in 0..MaxOffers
  PROVE  /\ [r EXCEPT !.sender = p, !.receivers = @ \cup S, !.sends = FALSE] \in HandlerRecords
         /\ [r EXCEPT !.receivers = @ \ {p}] \in HandlerRecords
         /\ [r EXCEPT !.receivers = {}] \in HandlerRecords
         /\ [r EXCEPT !.pipeline = n] \in HandlerRecords
         /\ [r EXCEPT !.pipeline = n, !.sends = TRUE] \in HandlerRecords
         /\ [r EXCEPT !.loop = n] \in HandlerRecords
  BY DEF HandlerRecords

\* A handler with one of these fields written is still a handler.
LEMMA HandlerTypes ==
  ASSUME handlers \in [Offers -> HandlerRecords], NEW h, NEW r \in HandlerRecords,
         SetHandler(h, r)
  PROVE  handlers' \in [Offers -> HandlerRecords]
  BY DEF SetHandler

\* A call that has found a handler works on one, and one that is not the buses'
\* for the peer of its worker.
LEMMA CallHandlers ==
  ASSUME TypeOK, CallsFit, NEW w \in Workers
  PROVE  /\ call[w].at \notin {"idle", "unlist", "lookup", "create"} =>
                call[w].handler \in Offers /\ Handler(w) \in HandlerRecords
         /\ call[w].at \notin {"idle"} \cup TeardownPoints => Caller(w) \in Peers /\ w # BusWorker
<1>a. /\ call[w] \in CallRecords /\ handlers \in [Offers -> HandlerRecords]
      /\ Fits(w)
  BY DEF TypeOK, CallsFit
<1>1. call[w].handler \in 0..MaxOffers /\ 0..MaxOffers = Offers \cup {0}
  BY <1>a, ChannelAssumption DEF CallRecords, Offers
<1>2. call[w].at \notin {"idle", "unlist", "lookup", "create"} =>
          call[w].handler \in Offers /\ Handler(w) \in HandlerRecords
  BY <1>a, <1>1 DEF Fits, Handler
<1>3. call[w].at \notin {"idle"} \cup TeardownPoints => Caller(w) \in Peers /\ w # BusWorker
  BY <1>a, WorkerKinds DEF Fits, Caller
<1> QED
  BY <1>2, <1>3

\* A call that creates a handler has an offer's number.
LEMMA OfferPending ==
  ASSUME TypeOK, CallsFit, Fresh, NEW w \in Workers, call[w].at = "create"
  PROVE  call[w].offer \in Offers /\ launch[call[w].offer].at = "none" /\ call[w].kind = "offer"
<1>1. call[w].kind = "offer"
  BY DEF CallsFit, Fits
<1>2. call[w].offer \in 1..count /\ launch[call[w].offer].at = "none"
  BY <1>1 DEF Fresh, Pending
<1>3. count \in 0..MaxOffers
  BY DEF TypeOK
<1> QED
  BY <1>1, <1>2, <1>3, ChannelAssumption DEF Offers

\* Every step keeps the types.
LEMMA NextTypes ==
  ASSUME TypeOK, CallsFit, Launches, Fresh, [Next]_vars PROVE TypeOK'
<1>a. /\ lock \in Peers \cup {NoPeer} /\ count \in 0..MaxOffers /\ restarts \in 0..MaxRestarts
      /\ session \in [Peers -> {"new", "open", "broken", "closed", "lost"}]
      /\ inChannel \subseteq Peers /\ trying \subseteq Peers
      /\ overlapped \in BOOLEAN /\ slow \in BOOLEAN /\ fault \in Faults
  BY DEF TypeOK
<1>b. call \in [Workers -> CallRecords]
  BY DEF TypeOK
<1>c. current \in 0..MaxOffers /\ playing \subseteq Offers /\ watched \subseteq Offers
  BY DEF TypeOK
<1>d. handlers \in [Offers -> HandlerRecords] /\ launch \in [Offers -> LaunchRecords]
  BY DEF TypeOK
<1>e. bins \in [Offers -> SUBSET Bins] /\ toDeliver \subseteq Bins
  BY DEF TypeOK
<1>f. 0 \in 0..MaxOffers /\ Offers \subseteq 0..MaxOffers /\ 0..MaxOffers = Offers \cup {0}
  BY ChannelAssumption DEF Offers
<1> DEFINE ClientTypes ==
      /\ lock' \in Peers \cup {NoPeer} /\ count' \in 0..MaxOffers /\ restarts' \in 0..MaxRestarts
      /\ session' \in [Peers -> {"new", "open", "broken", "closed", "lost"}]
      /\ inChannel' \subseteq Peers /\ trying' \subseteq Peers
    CallTypes == call' \in [Workers -> CallRecords]
    HandlersTypes == handlers' \in [Offers -> HandlerRecords]
    LaunchTypes == launch' \in [Offers -> LaunchRecords]
    BinTypes == bins' \in [Offers -> SUBSET Bins] /\ toDeliver' \subseteq Bins
    PlayTypes == current' \in 0..MaxOffers /\ playing' \subseteq Offers /\ watched' \subseteq Offers
    HistoryTypes == overlapped' \in BOOLEAN /\ slow' \in BOOLEAN /\ fault' \in Faults
<1>g. ClientTypes /\ CallTypes /\ HandlersTypes /\ LaunchTypes /\ BinTypes /\ PlayTypes
          /\ HistoryTypes => TypeOK'
  BY DEF TypeOK
<1>h. UNCHANGED clientVars => ClientTypes
  BY <1>a DEF clientVars
<1>i. UNCHANGED serverVars => HandlersTypes /\ LaunchTypes /\ BinTypes /\ PlayTypes
  BY <1>c, <1>d, <1>e DEF serverVars
<1>j. UNCHANGED historyVars => HistoryTypes
  BY <1>a DEF historyVars
<1>k. UNCHANGED handlers => HandlersTypes
  BY <1>d
<1>l. UNCHANGED launch => LaunchTypes
  BY <1>d
<1>m. \A w \in Workers : Proceed(w) => CallTypes
  BY WorkerCalls
<1> HIDE DEF CallTypes, HandlersTypes, LaunchTypes, BinTypes, PlayTypes
<1>1. ASSUME Frozen PROVE TypeOK'
  BY <1>1, <1>g, <1>h, <1>i, <1>b, <1>a DEF Frozen, CallTypes
<1>2. CASE UNCHANGED vars
  BY <1>2, <1>1 DEF vars, Frozen, historyVars
<1>3. CASE CallbackAborts \/ LookupRace
  BY <1>3, <1>1, CrashFreezes DEF CallbackAborts, LookupRace, Frozen, Faults
<1>4. ASSUME NEW p \in Peers, Connect(p) PROVE TypeOK'
  <2>1. CallTypes
    BY <1>4, ClientCalls DEF CallTypes, Client
  <2>2. ClientTypes
    BY <1>4, <1>a, ChannelAssumption DEF Connect, Unlock, clientVars
  <2>3. HandlersTypes /\ LaunchTypes /\ BinTypes /\ PlayTypes /\ HistoryTypes
    BY <1>4, <1>i, <1>j, <1>c, <1>d, <1>e DEF Connect, serverVars
  <2> QED
    BY <1>g, <2>1, <2>2, <2>3
<1>5. ASSUME NEW p \in Peers, Break(p) PROVE TypeOK'
  <2>1. CallTypes
    BY <1>5, ClientCalls DEF CallTypes, Client
  <2>2. ClientTypes
    BY <1>5, <1>a, ChannelAssumption DEF Break, Unlock, clientVars
  <2>3. HandlersTypes /\ LaunchTypes /\ BinTypes /\ PlayTypes /\ HistoryTypes
    BY <1>5, <1>i, <1>j, <1>c, <1>d, <1>e DEF Break, serverVars
  <2> QED
    BY <1>g, <2>1, <2>2, <2>3
<1>6. ASSUME NEW p \in Peers, Close(p) PROVE TypeOK'
  <2>1. CallTypes
    BY <1>6, ClientCalls DEF CallTypes, Client
  <2>2. ClientTypes
    BY <1>6, <1>a, ChannelAssumption DEF Close, Unlock, clientVars
  <2>3. HandlersTypes /\ LaunchTypes /\ BinTypes /\ PlayTypes /\ HistoryTypes
    BY <1>6, <1>i, <1>j, <1>c, <1>d, <1>e DEF Close, serverVars
  <2> QED
    BY <1>g, <2>1, <2>2, <2>3
<1>7. ASSUME NEW p \in Peers, Offer(p) PROVE TypeOK'
  <2>1. CallTypes
    BY <1>7, ClientCalls DEF CallTypes, Client
  <2>2. ClientTypes
    BY <1>7, <1>a, ChannelAssumption DEF Offer, Unlock, clientVars
  <2>3. HandlersTypes /\ LaunchTypes /\ BinTypes /\ PlayTypes /\ HistoryTypes
    BY <1>7, <1>i, <1>j, <1>c, <1>d, <1>e DEF Offer, serverVars
  <2> QED
    BY <1>g, <2>1, <2>2, <2>3
<1>8. ASSUME NEW p \in Peers, OfferDropped(p) PROVE TypeOK'
  <2>1. CallTypes
    BY <1>8, ClientCalls DEF CallTypes, Client
  <2>2. ClientTypes
    BY <1>8, <1>a, ChannelAssumption DEF OfferDropped, Unlock, clientVars
  <2>3. HandlersTypes /\ LaunchTypes /\ BinTypes /\ PlayTypes /\ HistoryTypes
    BY <1>8, <1>i, <1>j, <1>c, <1>d, <1>e DEF OfferDropped, serverVars
  <2> QED
    BY <1>g, <2>1, <2>2, <2>3
<1>9. ASSUME NEW p \in Peers, SenderIce(p) PROVE TypeOK'
  <2>1. CallTypes
    BY <1>9, ClientCalls DEF CallTypes, Client
  <2>2. ClientTypes
    BY <1>9, <1>a, ChannelAssumption DEF SenderIce, Unlock, clientVars
  <2>3. HandlersTypes /\ LaunchTypes /\ BinTypes /\ PlayTypes /\ HistoryTypes
    BY <1>9, <1>i, <1>j, <1>c, <1>d, <1>e DEF SenderIce, serverVars
  <2> QED
    BY <1>g, <2>1, <2>2, <2>3
<1>10. ASSUME NEW p \in Peers, ReceiverAnswer(p) PROVE TypeOK'
  <2>1. CallTypes
    BY <1>10, ClientCalls DEF CallTypes, Client
  <2>2. ClientTypes
    BY <1>10, <1>a, ChannelAssumption DEF ReceiverAnswer, Unlock, clientVars
  <2>3. HandlersTypes /\ LaunchTypes /\ BinTypes /\ PlayTypes /\ HistoryTypes
    BY <1>10, <1>i, <1>j, <1>c, <1>d, <1>e DEF ReceiverAnswer, serverVars, HandlersTypes,
         LaunchTypes, BinTypes, PlayTypes
  <2> QED
    BY <1>g, <2>1, <2>2, <2>3
<1>11. ASSUME NEW p \in Peers, ReceiverIce(p) PROVE TypeOK'
  <2>1. CallTypes
    BY <1>11, ClientCalls DEF CallTypes, Client
  <2>2. ClientTypes
    BY <1>11, <1>a, ChannelAssumption DEF ReceiverIce, Unlock, clientVars
  <2>3. HandlersTypes /\ LaunchTypes /\ BinTypes /\ PlayTypes /\ HistoryTypes
    BY <1>11, <1>i, <1>j, <1>c, <1>d, <1>e DEF ReceiverIce, serverVars
  <2> QED
    BY <1>g, <2>1, <2>2, <2>3
<1>12. ASSUME NEW p \in Peers, VideoReset(p) PROVE TypeOK'
  <2>1. CallTypes
    BY <1>12, ClientCalls DEF CallTypes, Client
  <2>2. ClientTypes
    BY <1>12, <1>a, ChannelAssumption DEF VideoReset, Unlock, clientVars
  <2>3. HandlersTypes /\ LaunchTypes /\ BinTypes /\ PlayTypes /\ HistoryTypes
    BY <1>12, <1>i, <1>j, <1>c, <1>d, <1>e DEF VideoReset, serverVars
  <2> QED
    BY <1>g, <2>1, <2>2, <2>3
<1>13. ASSUME NEW p \in Peers, CandidateFails(p) PROVE TypeOK'
  <2>1. CallTypes
    BY <1>13, ClientCalls DEF CallTypes, Client
  <2>2. ClientTypes
    BY <1>13, <1>a, ChannelAssumption DEF CandidateFails, Unlock, clientVars
  <2>3. HandlersTypes /\ LaunchTypes /\ BinTypes /\ PlayTypes /\ HistoryTypes
    BY <1>13, <1>i, <1>j, <1>c, <1>d, <1>e DEF CandidateFails, serverVars
  <2> QED
    BY <1>g, <2>1, <2>2, <2>3
<1>14. ASSUME NEW bin \in Bins, Deliver(bin) PROVE TypeOK'
  <2>1. CallTypes
    BY <1>14, DeliverCalls DEF CallTypes
  <2>2. ClientTypes /\ HistoryTypes
    BY <1>14, <1>h, <1>j DEF Deliver
  <2>3. HandlersTypes /\ LaunchTypes /\ BinTypes /\ PlayTypes
    BY <1>14, <1>c, <1>d, <1>e DEF Deliver, HandlersTypes, LaunchTypes, BinTypes, PlayTypes
  <2> QED
    BY <1>g, <2>1, <2>2, <2>3
<1>15. CASE SignallingRestart
  <2>1. CallTypes
    BY <1>15, RestartCalls DEF CallTypes
  <2>2. ClientTypes
    BY <1>15, <1>a, ChannelAssumption DEF SignallingRestart
  <2>3. HandlersTypes /\ LaunchTypes /\ BinTypes /\ PlayTypes /\ HistoryTypes
    BY <1>15, <1>c, <1>d, <1>e, <1>j DEF SignallingRestart, HandlersTypes, LaunchTypes, BinTypes,
         PlayTypes
  <2> QED
    BY <1>g, <2>1, <2>2, <2>3
<1>16. ASSUME NEW w \in Workers, Unlist(w) PROVE TypeOK'
  <2>1. CallTypes
    BY <1>16, <1>m DEF Proceed
  <2>2. ClientTypes
    BY <1>16, <1>a DEF Unlist
  <2>3. HistoryTypes
    BY <1>16, <1>j DEF Unlist
  <2>4. HandlersTypes
    BY <1>16, <1>i, <1>k DEF Unlist
  <2>5. LaunchTypes
    BY <1>16, <1>i, <1>l DEF Unlist
  <2>6. BinTypes /\ PlayTypes
    BY <1>16, <1>c, <1>e, <1>f, <1>i DEF Unlist, BinTypes, PlayTypes, StopCurrent, serverVars
  <2> QED
    BY <1>g, <2>1, <2>2, <2>3, <2>4, <2>5, <2>6
<1>17. ASSUME NEW w \in Workers, Lookup(w) PROVE TypeOK'
  <2>1. CallTypes
    BY <1>17, <1>m DEF Proceed
  <2>2. ClientTypes
    BY <1>17, <1>h DEF Lookup
  <2>3. HistoryTypes
    BY <1>17, <1>a DEF Lookup
  <2>4. HandlersTypes
    BY <1>17, <1>i, <1>k DEF Lookup
  <2>5. LaunchTypes
    BY <1>17, <1>i, <1>l DEF Lookup
  <2>6. BinTypes /\ PlayTypes
    BY <1>17, <1>c, <1>e, <1>f, <1>i DEF Lookup, BinTypes, PlayTypes, StopCurrent, serverVars
  <2> QED
    BY <1>g, <2>1, <2>2, <2>3, <2>4, <2>5, <2>6
<1>18. ASSUME NEW w \in Workers, Create(w) PROVE TypeOK'
  <2>1. CallTypes
    BY <1>18, <1>m DEF Proceed
  <2>2. ClientTypes
    BY <1>18, <1>h DEF Create
  <2>3. HistoryTypes
    BY <1>18, <1>a DEF Create
  <2>4. HandlersTypes
    <3>1. /\ Caller(w) \in Peers /\ call[w].invited \in SUBSET Peers
          /\ call[w].handler \in 0..MaxOffers
      BY <1>18, <1>b, CallHandlers DEF Create, At, TeardownPoints, CallRecords
    <3>2. call[w].offer \in Offers
      BY <1>18, <1>a, OfferPending DEF Create, At
    <3> DEFINE h == IF call[w].handler = 0 THEN call[w].offer ELSE call[w].handler
    <3>3. h \in Offers /\ handlers[h] \in HandlerRecords
      BY <1>d, <1>f, <3>1, <3>2
    <3>4. [handlers[h] EXCEPT !.sender = Caller(w), !.receivers = @ \cup call[w].invited,
                              !.sends = FALSE] \in HandlerRecords
      BY <1>f, <3>1, <3>3, FieldTypes
    <3> QED
      BY <1>18, <1>d, <3>4, HandlerTypes DEF Create, HandlersTypes
  <2>5. LaunchTypes
    BY <1>18, <1>d DEF Create, LaunchTypes, LaunchRecords, LaunchPoints, BuildPoints
  <2>6. BinTypes
    BY <1>18, <1>e DEF Create, BinTypes
  <2>7. PlayTypes
    <3>1. call[w].offer \in Offers
      BY <1>18, <1>a, OfferPending DEF Create, At
    <3> QED
      BY <1>18, <1>c, <1>f, <3>1 DEF Create, PlayTypes
  <2> QED
    BY <1>g, <2>1, <2>2, <2>3, <2>4, <2>5, <2>6, <2>7
<1>19. ASSUME NEW w \in Workers, Ice(w) PROVE TypeOK'
  <2>1. CallTypes
    BY <1>19, <1>m DEF Proceed
  <2>2. ClientTypes
    BY <1>19, <1>h DEF Ice
  <2>3. HistoryTypes
    BY <1>19, <1>j DEF Ice
  <2>4. HandlersTypes
    BY <1>19, <1>i, <1>k DEF Ice
  <2>5. LaunchTypes
    BY <1>19, <1>i, <1>l DEF Ice
  <2>6. BinTypes /\ PlayTypes
    BY <1>19, <1>c, <1>e, <1>f, <1>i DEF Ice, BinTypes, PlayTypes, StopCurrent, serverVars
  <2> QED
    BY <1>g, <2>1, <2>2, <2>3, <2>4, <2>5, <2>6
<1>20. ASSUME NEW w \in Workers, Answer(w) PROVE TypeOK'
  <2>1. CallTypes
    BY <1>20, <1>m DEF Proceed
  <2>2. ClientTypes
    BY <1>20, <1>h DEF Answer
  <2>3. HistoryTypes
    BY <1>20, <1>j DEF Answer
  <2>4. HandlersTypes
    BY <1>20, <1>i, <1>k DEF Answer
  <2>5. LaunchTypes
    BY <1>20, <1>i, <1>l DEF Answer
  <2>6. BinTypes /\ PlayTypes
    BY <1>20, <1>c, <1>e, <1>f, <1>i DEF Answer, BinTypes, PlayTypes, StopCurrent, serverVars
  <2> QED
    BY <1>g, <2>1, <2>2, <2>3, <2>4, <2>5, <2>6
<1>21. ASSUME NEW w \in Workers, Apply(w) PROVE TypeOK'
  <2>1. CASE Crash("freed")
    BY <2>1, <1>1, CrashFreezes DEF Faults
  <2>2. CASE ~Crash("freed")
    <3>1. CallTypes
      BY <1>21, <2>2, <1>m DEF Proceed
    <3>2. ClientTypes
      BY <1>21, <2>2, <1>h DEF Apply
    <3>3. HistoryTypes
      BY <1>21, <2>2, <1>j DEF Apply
    <3>4. HandlersTypes
      BY <1>21, <2>2, <1>i, <1>k DEF Apply
    <3>5. LaunchTypes
      BY <1>21, <2>2, <1>i, <1>l DEF Apply
    <3>6. BinTypes /\ PlayTypes
      BY <1>21, <2>2, <1>c, <1>e, <1>f, <1>i DEF Apply, BinTypes, PlayTypes, StopCurrent,
           serverVars
    <3> QED
      BY <1>g, <3>1, <3>2, <3>3, <3>4, <3>5, <3>6
  <2> QED
    BY <2>1, <2>2
<1>22. ASSUME NEW w \in Workers, Remove(w) PROVE TypeOK'
  <2>1. CallTypes
    BY <1>22, <1>m DEF Proceed
  <2>2. ClientTypes
    BY <1>22, <1>h DEF Remove
  <2>3. HistoryTypes
    BY <1>22, <1>a DEF Remove
  <2>4. HandlersTypes
    <3>1. Caller(w) \in Peers /\ call[w].handler \in Offers /\ Handler(w) \in HandlerRecords
      BY <1>22, CallHandlers DEF Remove, At, TeardownPoints
    <3>2. [Handler(w) EXCEPT !.receivers = @ \ {Caller(w)}] \in HandlerRecords
      BY <3>1, <1>f, FieldTypes
    <3> QED
      BY <1>22, <1>d, <3>2, HandlerTypes DEF Remove, HandlersTypes, Handler
  <2>5. LaunchTypes
    BY <1>22, <1>i, <1>l DEF Remove
  <2>6. BinTypes
    BY <1>22, <1>e DEF Remove, BinTypes
  <2>7. PlayTypes
    BY <1>22, <1>c, <1>i DEF Remove, PlayTypes
  <2> QED
    BY <1>g, <2>1, <2>2, <2>3, <2>4, <2>5, <2>6, <2>7
<1>23. ASSUME NEW w \in Workers, Free(w) PROVE TypeOK'
  <2>1. CallTypes
    BY <1>23, <1>m DEF Proceed
  <2>2. ClientTypes
    BY <1>23, <1>a, ChannelAssumption DEF Free, Unlock
  <2>3. HistoryTypes
    BY <1>23, <1>j DEF Free
  <2>4. HandlersTypes
    BY <1>23, <1>i, <1>k DEF Free
  <2>5. LaunchTypes
    BY <1>23, <1>i, <1>l DEF Free
  <2>6. BinTypes /\ PlayTypes
    BY <1>23, <1>c, <1>e, <1>f, <1>i DEF Free, BinTypes, PlayTypes, StopCurrent, serverVars
  <2> QED
    BY <1>g, <2>1, <2>2, <2>3, <2>4, <2>5, <2>6
<1>24. ASSUME NEW w \in Workers, Strip(w) PROVE TypeOK'
  <2>1. CallTypes
    BY <1>24, <1>m DEF Proceed
  <2>2. ClientTypes
    BY <1>24, <1>h DEF Strip
  <2>3. HistoryTypes
    BY <1>24, <1>a DEF Strip
  <2>4. HandlersTypes
    <3>1. call[w].handler \in Offers /\ Handler(w) \in HandlerRecords
      BY <1>24, CallHandlers DEF Strip, At
    <3>2. [Handler(w) EXCEPT !.receivers = {}] \in HandlerRecords
      BY <3>1 DEF HandlerRecords
    <3> QED
      BY <1>24, <1>d, <3>2, HandlerTypes DEF Strip, HandlersTypes, Handler
  <2>5. LaunchTypes
    BY <1>24, <1>i, <1>l DEF Strip
  <2>6. BinTypes
    BY <1>24, <1>e DEF Strip, BinTypes
  <2>7. PlayTypes
    BY <1>24, <1>c, <1>i DEF Strip, PlayTypes
  <2> QED
    BY <1>g, <2>1, <2>2, <2>3, <2>4, <2>5, <2>6, <2>7
<1>25. ASSUME NEW w \in Workers, StripErases(w) PROVE TypeOK'
  BY <1>25, <1>1, CrashFreezes DEF StripErases, Faults
<1>26. ASSUME NEW w \in Workers, Nullify(w) PROVE TypeOK'
  <2>1. CallTypes
    BY <1>26, <1>m DEF Proceed
  <2>2. ClientTypes
    BY <1>26, <1>h DEF Nullify
  <2>3. HistoryTypes
    BY <1>26, <1>j DEF Nullify
  <2>4. HandlersTypes
    BY <1>26, <1>i, <1>k DEF Nullify
  <2>5. LaunchTypes
    BY <1>26, <1>i, <1>l DEF Nullify
  <2>6. BinTypes /\ PlayTypes
    BY <1>26, <1>c, <1>e, <1>f, <1>i DEF Nullify, BinTypes, PlayTypes, StopCurrent, serverVars
  <2> QED
    BY <1>g, <2>1, <2>2, <2>3, <2>4, <2>5, <2>6
<1>27. ASSUME NEW w \in Workers, NullifyTimeout(w) PROVE TypeOK'
  <2>1. CallTypes
    BY <1>27, <1>m DEF Proceed
  <2>2. ClientTypes
    BY <1>27, <1>h DEF NullifyTimeout
  <2>3. HistoryTypes
    BY <1>27, <1>a DEF NullifyTimeout
  <2>4. HandlersTypes
    <3>1. [Handler(w) EXCEPT !.pipeline = 0] \in HandlerRecords
      <4>1. Handler(w) \in HandlerRecords
        BY <1>27, CallHandlers DEF NullifyTimeout, At
      <4> QED
        BY <1>f, <4>1 DEF HandlerRecords
    <3> QED
      BY <1>27, <1>d, <3>1, HandlerTypes DEF NullifyTimeout, HandlersTypes
  <2>5. LaunchTypes
    BY <1>27, <1>i, <1>l DEF NullifyTimeout
  <2>6. BinTypes /\ PlayTypes
    BY <1>27, <1>c, <1>e, <1>f, <1>i DEF NullifyTimeout, BinTypes, PlayTypes, StopCurrent,
         serverVars
  <2> QED
    BY <1>g, <2>1, <2>2, <2>3, <2>4, <2>5, <2>6
<1>28. ASSUME NEW w \in Workers, Forget(w) PROVE TypeOK'
  <2>1. CallTypes
    BY <1>28, <1>m DEF Proceed
  <2>2. ClientTypes
    BY <1>28, <1>h DEF Forget
  <2>3. HistoryTypes
    BY <1>28, <1>j DEF Forget
  <2>4. HandlersTypes
    <3>1. [Handler(w) EXCEPT !.pipeline = 0] \in HandlerRecords
      <4>1. Handler(w) \in HandlerRecords
        BY <1>28, CallHandlers DEF Forget, At
      <4> QED
        BY <1>f, <4>1 DEF HandlerRecords
    <3> QED
      BY <1>28, <1>d, <3>1, HandlerTypes DEF Forget, HandlersTypes
  <2>5. LaunchTypes
    BY <1>28, <1>i, <1>l DEF Forget
  <2>6. BinTypes /\ PlayTypes
    BY <1>28, <1>c, <1>e, <1>f, <1>i DEF Forget, BinTypes, PlayTypes, StopCurrent, serverVars
  <2> QED
    BY <1>g, <2>1, <2>2, <2>3, <2>4, <2>5, <2>6
<1>29. ASSUME NEW w \in Workers, NullifyLate(w) PROVE TypeOK'
  <2>1. CallTypes
    BY <1>29, <1>m DEF Proceed
  <2>2. ClientTypes
    BY <1>29, <1>h DEF NullifyLate
  <2>3. HistoryTypes
    BY <1>29, <1>j DEF NullifyLate
  <2>4. HandlersTypes
    BY <1>29, <1>i, <1>k DEF NullifyLate
  <2>5. LaunchTypes
    BY <1>29, <1>i, <1>l DEF NullifyLate
  <2>6. BinTypes /\ PlayTypes
    BY <1>29, <1>c, <1>e, <1>f, <1>i DEF NullifyLate, BinTypes, PlayTypes, StopCurrent, serverVars
  <2> QED
    BY <1>g, <2>1, <2>2, <2>3, <2>4, <2>5, <2>6
<1>30. ASSUME NEW w \in Workers, Quit(w) PROVE TypeOK'
  <2>1. CASE Crash("freed")
    BY <2>1, <1>1, CrashFreezes DEF Faults
  <2>2. CASE ~Crash("freed")
    <3>1. CallTypes
      BY <1>30, <2>2, <1>m DEF Proceed
    <3>2. ClientTypes
      BY <1>30, <2>2, <1>h DEF Quit
    <3>3. HistoryTypes
      BY <1>30, <2>2, <1>j DEF Quit
    <3>4. HandlersTypes
      BY <1>30, <2>2, <1>i, <1>k DEF Quit
    <3>5. LaunchTypes
      BY <1>30, <2>2, <1>d DEF Quit, LaunchTypes, LaunchRecords, LaunchPoints
    <3>6. BinTypes /\ PlayTypes
      BY <1>30, <2>2, <1>c, <1>e, <1>f, <1>i DEF Quit, BinTypes, PlayTypes, StopCurrent,
           serverVars
    <3> QED
      BY <1>g, <3>1, <3>2, <3>3, <3>4, <3>5, <3>6
  <2> QED
    BY <2>1, <2>2
<1>31. ASSUME NEW w \in Workers, Unmap(w) PROVE TypeOK'
  <2>1. CallTypes
    BY <1>31, <1>m DEF Proceed
  <2>2. ClientTypes
    BY <1>31, <1>h DEF Unmap
  <2>3. HistoryTypes
    BY <1>31, <1>j DEF Unmap
  <2>4. HandlersTypes
    BY <1>31, <1>i, <1>k DEF Unmap
  <2>5. LaunchTypes
    BY <1>31, <1>i, <1>l DEF Unmap
  <2>6. BinTypes /\ PlayTypes
    BY <1>31, <1>c, <1>e, <1>f, <1>i DEF Unmap, BinTypes, PlayTypes, StopCurrent, serverVars
  <2> QED
    BY <1>g, <2>1, <2>2, <2>3, <2>4, <2>5, <2>6
<1>32. ASSUME NEW n \in Offers, BusMessage(n) PROVE TypeOK'
  <2>1. CallTypes
    <3> DEFINE c == [Idle EXCEPT !.at = "free", !.kind = "bus", !.handler = launch[n].handler]
    <3>1. c \in CallRecords
      BY <1>d, IdleType DEF CallRecords, LaunchRecords, Points, RemovePoints, TeardownPoints,
           Kinds
    <3> QED
      BY <1>32, <1>b, <3>1 DEF BusMessage, CallTypes
  <2>2. ClientTypes /\ HistoryTypes
    BY <1>32, <1>h, <1>a DEF BusMessage
  <2>3. HandlersTypes /\ LaunchTypes /\ BinTypes /\ PlayTypes
    BY <1>32, <1>c, <1>d, <1>e DEF BusMessage, HandlersTypes, LaunchTypes, BinTypes, PlayTypes
  <2> QED
    BY <1>g, <2>1, <2>2, <2>3
<1>33. ASSUME NEW n \in Offers, LaunchFetch(n) PROVE TypeOK'
  <2>1. CallTypes
    BY <1>33, <1>b DEF LaunchFetch, CallTypes
  <2>2. ClientTypes /\ HistoryTypes
    BY <1>33, <1>h, <1>j DEF LaunchFetch
  <2>3. HandlersTypes
    BY <1>33, <1>k DEF LaunchFetch
  <2>4. LaunchTypes
    BY <1>33, <1>d, <1>c DEF LaunchFetch, LaunchTo, LaunchTypes, LaunchRecords, LaunchPoints,
         BuildPoints
  <2>5. BinTypes
    BY <1>33, <1>e DEF LaunchFetch, BinTypes
  <2>6. PlayTypes
    BY <1>33, <1>c DEF LaunchFetch, PlayTypes
  <2> QED
    BY <1>g, <2>1, <2>2, <2>3, <2>4, <2>5, <2>6
<1>34. ASSUME NEW n \in Offers, LaunchBuild(n) PROVE TypeOK'
  <2>1. launch[n].handler \in Offers
    BY <1>34, <1>d, <1>f DEF LaunchBuild, LaunchAt, Launches, LaunchRecords
  <2>2. CallTypes
    BY <1>34, <1>b DEF LaunchBuild, CallTypes
  <2>3. ClientTypes /\ HistoryTypes
    BY <1>34, <1>h, <1>j DEF LaunchBuild
  <2>4. HandlersTypes
    <3>1. [handlers[launch[n].handler] EXCEPT !.pipeline = n, !.sends = TRUE] \in HandlerRecords
      <4>1. handlers[launch[n].handler] \in HandlerRecords
        BY <1>d, <2>1
      <4> QED
        BY <1>f, <4>1 DEF HandlerRecords
    <3> QED
      BY <1>34, <1>d, <3>1, HandlerTypes DEF LaunchBuild, HandlersTypes
  <2>5. LaunchTypes
    BY <1>34, <1>d, <1>c DEF LaunchBuild, LaunchTo, LaunchTypes, LaunchRecords, LaunchPoints,
         BuildPoints
  <2>6. BinTypes
    <3>1. handlers[launch[n].handler].sender \in Peers
      BY <2>1, <1>f, ChannelAssumption DEF Launches, Offers
    <3> QED
      BY <1>34, <1>e, <3>1 DEF LaunchBuild, BinTypes, Bins
  <2>7. PlayTypes
    BY <1>34, <1>c DEF LaunchBuild, PlayTypes
  <2> QED
    BY <1>g, <2>1, <2>2, <2>3, <2>4, <2>5, <2>6, <2>7
<1>35. ASSUME NEW n \in Offers, LaunchReceivers(n) PROVE TypeOK'
  <2>1. CASE Crash("assert")
    BY <2>1, <1>1, CrashFreezes DEF Faults
  <2>2. CASE ~Crash("assert")
    <3>1. launch[n].handler \in Offers
      BY <1>35, <2>2, <1>d, <1>f DEF LaunchReceivers, LaunchAt, Launches, LaunchRecords
    <3>2. CallTypes
      BY <1>35, <2>2, <1>b DEF LaunchReceivers, CallTypes
    <3>3. ClientTypes /\ HistoryTypes
      BY <1>35, <2>2, <1>h, <1>j DEF LaunchReceivers
    <3>4. HandlersTypes
      BY <1>35, <2>2, <1>k DEF LaunchReceivers
    <3>5. LaunchTypes
      BY <1>35, <2>2, <1>d, <1>c DEF LaunchReceivers, LaunchTo, LaunchTypes, LaunchRecords,
           LaunchPoints, BuildPoints
    <3>6. BinTypes
      <4>1. {"recv"} \X handlers[launch[n].handler].receivers \in SUBSET Bins
        BY <1>d, <3>1 DEF HandlerRecords, Bins
      <4> QED
        BY <1>35, <2>2, <1>e, <4>1 DEF LaunchReceivers, BinTypes
    <3>7. PlayTypes
      BY <1>35, <2>2, <1>c DEF LaunchReceivers, PlayTypes
    <3> QED
      BY <1>g, <3>1, <3>2, <3>3, <3>4, <3>5, <3>6, <3>7
  <2> QED
    BY <2>1, <2>2
<1>36. ASSUME NEW n \in Offers, LaunchPlay(n) PROVE TypeOK'
  <2>1. launch[n].handler \in Offers
    BY <1>36, <1>d, <1>f DEF LaunchPlay, LaunchAt, Launches, LaunchRecords
  <2>2. handlers[launch[n].handler].pipeline \in Offers \cup {0}
    BY <2>1, <1>d, <1>f DEF HandlerRecords
  <2>3. CallTypes
    BY <1>36, <1>b DEF LaunchPlay, CallTypes
  <2>4. ClientTypes /\ HistoryTypes
    BY <1>36, <1>h, <1>j DEF LaunchPlay
  <2>5. HandlersTypes
    BY <1>36, <1>k DEF LaunchPlay
  <2>6. LaunchTypes
    BY <1>36, <1>d, <1>c DEF LaunchPlay, LaunchTo, LaunchTypes, LaunchRecords, LaunchPoints,
         BuildPoints
  <2>7. BinTypes
    BY <1>36, <1>e, <2>2 DEF LaunchPlay, BinTypes
  <2>8. PlayTypes
    BY <1>36, <1>c, <2>2 DEF LaunchPlay, PlayTypes
  <2> QED
    BY <1>g, <2>1, <2>2, <2>3, <2>4, <2>5, <2>6, <2>7, <2>8
<1>37. ASSUME NEW n \in Offers, LaunchLoop(n) PROVE TypeOK'
  <2>1. launch[n].handler \in Offers
    BY <1>37, <1>d, <1>f DEF LaunchLoop, LaunchAt, Launches, LaunchRecords
  <2>2. CallTypes
    BY <1>37, <1>b DEF LaunchLoop, CallTypes
  <2>3. ClientTypes /\ HistoryTypes
    BY <1>37, <1>h, <1>j DEF LaunchLoop
  <2>4. HandlersTypes
    <3>1. [handlers[launch[n].handler] EXCEPT !.loop = n] \in HandlerRecords
      BY <1>d, <1>f, <2>1 DEF HandlerRecords
    <3> QED
      BY <1>37, <1>d, <3>1, HandlerTypes DEF LaunchLoop, HandlersTypes
  <2>5. LaunchTypes
    BY <1>37, <1>d, <1>c DEF LaunchLoop, LaunchTo, LaunchTypes, LaunchRecords, LaunchPoints,
         BuildPoints
  <2>6. BinTypes
    BY <1>37, <1>e DEF LaunchLoop, BinTypes
  <2>7. PlayTypes
    BY <1>37, <1>c DEF LaunchLoop, PlayTypes
  <2> QED
    BY <1>g, <2>1, <2>2, <2>3, <2>4, <2>5, <2>6, <2>7
<1> QED
  BY <1>1, <1>2, <1>3, <1>4, <1>5, <1>6, <1>7, <1>8, <1>9, <1>10, <1>11, <1>12, <1>13,
     <1>14, <1>15, <1>16, <1>17, <1>18, <1>19, <1>20, <1>21, <1>22, <1>23, <1>24,
     <1>25, <1>26, <1>27, <1>28, <1>29, <1>30, <1>31, <1>32, <1>33, <1>34, <1>35,
     <1>36, <1>37
     DEF Next, Step, Proceed, Launch, Client

\* Only the worker whose call changes can break what fits.
LEMMA FitsAlone ==
  ASSUME CallsFit, NEW w \in Workers, Alone(w), Fits(w)' PROVE CallsFit'
  BY DEF CallsFit, Alone, Fits

\* A call that has ended fits.
LEMMA IdleFits ==
  ASSUME CallsFit, NEW w \in Workers, Ends(w) PROVE CallsFit'
<1>1. Fits(w)'
  BY IdleType DEF Ends, Fits, RemovePoints, TeardownPoints, Idle
<1> QED
  BY <1>1, FitsAlone DEF Ends

\* Every step leaves calls that fit.
LEMMA NextCallsFit ==
  ASSUME TypeOK, CallsFit, Launches, [Next]_vars PROVE CallsFit'
<1> USE DEF RemovePoints, TeardownPoints
<1>1. ASSUME Frozen PROVE CallsFit'
  BY <1>1 DEF Frozen, CallsFit, Fits
<1>2. CASE UNCHANGED vars
  BY <1>2, <1>1 DEF vars, Frozen, historyVars
<1>3. CASE CallbackAborts \/ LookupRace
  BY <1>3, <1>1, CrashFreezes DEF CallbackAborts, LookupRace, Frozen, Faults
<1>4. ASSUME NEW p \in Peers, Connect(p) PROVE CallsFit'
  BY <1>4 DEF Connect, CallsFit, Fits
<1>5. ASSUME NEW p \in Peers, Break(p) PROVE CallsFit'
  BY <1>5 DEF Break, CallsFit, Fits
<1>6. ASSUME NEW p \in Peers, Close(p) PROVE CallsFit'
  <2>1. Alone(Session(p)) /\ Session(p) \in Workers
    BY <1>6, ClientCalls, WorkerKinds DEF Begins
  <2>2. Fits(Session(p))'
    BY <1>6, ClientCalls, WorkerKinds DEF Begins, Fits
  <2> QED
    BY <2>1, <2>2, FitsAlone
<1>7. ASSUME NEW p \in Peers, Offer(p) PROVE CallsFit'
  <2>1. Alone(Session(p)) /\ Session(p) \in Workers
    BY <1>7, ClientCalls, WorkerKinds DEF Begins
  <2>2. Fits(Session(p))'
    BY <1>7, ClientCalls, WorkerKinds DEF Begins, Fits
  <2> QED
    BY <2>1, <2>2, FitsAlone
<1>8. ASSUME NEW p \in Peers, OfferDropped(p) PROVE CallsFit'
  BY <1>8 DEF OfferDropped, CallsFit, Fits
<1>9. ASSUME NEW p \in Peers, SenderIce(p) PROVE CallsFit'
  <2>1. Alone(Session(p)) /\ Session(p) \in Workers
    BY <1>9, ClientCalls, WorkerKinds DEF Begins
  <2>2. Fits(Session(p))'
    BY <1>9, ClientCalls, WorkerKinds DEF Begins, Fits
  <2> QED
    BY <2>1, <2>2, FitsAlone
<1>10. ASSUME NEW p \in Peers, ReceiverAnswer(p) PROVE CallsFit'
  <2>1. Alone(Session(p)) /\ Session(p) \in Workers
    BY <1>10, ClientCalls, WorkerKinds DEF Begins
  <2>2. Fits(Session(p))'
    BY <1>10, ClientCalls, WorkerKinds DEF Begins, Fits
  <2> QED
    BY <2>1, <2>2, FitsAlone
<1>11. ASSUME NEW p \in Peers, ReceiverIce(p) PROVE CallsFit'
  <2>1. Alone(Session(p)) /\ Session(p) \in Workers
    BY <1>11, ClientCalls, WorkerKinds DEF Begins
  <2>2. Fits(Session(p))'
    BY <1>11, ClientCalls, WorkerKinds DEF Begins, Fits
  <2> QED
    BY <2>1, <2>2, FitsAlone
<1>12. ASSUME NEW p \in Peers, VideoReset(p) PROVE CallsFit'
  <2>1. Alone(Session(p)) /\ Session(p) \in Workers
    BY <1>12, ClientCalls, WorkerKinds DEF Begins
  <2>2. Fits(Session(p))'
    BY <1>12, ClientCalls, WorkerKinds DEF Begins, Fits
  <2> QED
    BY <2>1, <2>2, FitsAlone
<1>13. ASSUME NEW p \in Peers, CandidateFails(p) PROVE CallsFit'
  <2>1. Alone(Failure(p)) /\ Failure(p) \in Workers
    BY <1>13, ClientCalls, WorkerKinds DEF Begins
  <2>2. Fits(Failure(p))'
    BY <1>13, ClientCalls, WorkerKinds DEF Begins, Fits
  <2> QED
    BY <2>1, <2>2, FitsAlone
<1>14. ASSUME NEW bin \in Bins, Deliver(bin) PROVE CallsFit'
  <2>1. CASE UNCHANGED call
    BY <2>1 DEF CallsFit, Fits
  <2>2. CASE ~UNCHANGED call
    <3>1. Begins(Failure(bin[2]), "lookup", "close", bin[2], 0, {}) /\ bin[2] \in Peers
      BY <1>14, <2>2, DeliverCalls
    <3>2. Fits(Failure(bin[2]))'
      BY <3>1, WorkerKinds DEF Begins, Fits
    <3> QED
      BY <3>1, <3>2, WorkerKinds, FitsAlone DEF Begins
  <2> QED
    BY <2>1, <2>2
<1>15. CASE SignallingRestart
  <2>1. ASSUME NEW w \in Workers PROVE Fits(w)'
    <3>1. CASE call[w].at = "unlist"
      BY <1>15, <3>1, RestartCalls, IdleType DEF Fits, Idle
    <3>2. CASE call[w].at # "unlist"
      BY <1>15, <3>2, RestartCalls DEF CallsFit, Fits
    <3> QED
      BY <3>1, <3>2
  <2> QED
    BY <2>1 DEF CallsFit
<1>16. ASSUME NEW w \in Workers, Unlist(w) PROVE CallsFit'
  <2>1. Alone(w) /\ Fits(w) /\ call[w] \in CallRecords
    BY <1>16, WorkerCalls DEF CallsFit, TypeOK, Moves
  <2>2. Fits(w)'
    BY <1>16, <2>1, WorkerCalls DEF Moves, Unlist, At, Fits
  <2> QED
    BY <2>1, <2>2, FitsAlone
<1>17. ASSUME NEW w \in Workers, Lookup(w) PROVE CallsFit'
  <2>1. CASE Ends(w)
    BY <2>1, IdleFits
  <2>2. CASE ~Ends(w)
    <3>1. /\ Fits(w) /\ call[w].at = "lookup" /\ call[w].kind \in Kinds
      BY <1>17 DEF CallsFit, Lookup, At, TypeOK, CallRecords
    <3>2. /\ Alone(w) /\ call'[w].at = Found(call[w].kind) /\ call'[w].handler = current
          /\ call'[w].kind = call[w].kind /\ call'[w].peer = call[w].peer
          /\ current # 0 \/ call[w].kind = "offer"
      BY <1>17, <2>2, WorkerCalls
    <3>3. call[w].kind # "bus"
      BY <3>1 DEF Fits
    <3>4. Fits(w)'
      BY <3>1, <3>2, <3>3 DEF Found, Fits, Kinds
    <3> QED
      BY <3>2, <3>4, FitsAlone
  <2> QED
    BY <2>1, <2>2
<1>18. ASSUME NEW w \in Workers, Create(w) PROVE CallsFit'
  BY <1>18, WorkerCalls, IdleFits
<1>19. ASSUME NEW w \in Workers, Ice(w) PROVE CallsFit'
  BY <1>19, WorkerCalls, IdleFits
<1>20. ASSUME NEW w \in Workers, Answer(w) PROVE CallsFit'
  <2>1. CASE Ends(w)
    BY <2>1, IdleFits
  <2>2. CASE Moves(w, "apply")
    <3>1. Fits(w) /\ call[w].at = "answer"
      BY <1>20 DEF CallsFit, Answer, At
    <3>2. Fits(w)'
      BY <2>2, <3>1 DEF Moves, Fits
    <3> QED
      BY <2>2, <3>2, FitsAlone DEF Moves
  <2> QED
    BY <1>20, <2>1, <2>2, WorkerCalls
<1>21. ASSUME NEW w \in Workers, Apply(w) PROVE CallsFit'
  <2>1. CASE Crash("freed")
    BY <2>1, <1>1, CrashFreezes DEF Faults
  <2>2. CASE ~Crash("freed")
    BY <1>21, <2>2, WorkerCalls, IdleFits
  <2> QED
    BY <2>1, <2>2
<1>22. ASSUME NEW w \in Workers, Remove(w) PROVE CallsFit'
  <2>1. CASE Ends(w)
    BY <2>1, IdleFits
  <2>2. CASE Moves(w, "strip")
    <3>1. Fits(w) /\ call[w].at = "remove"
      BY <1>22 DEF CallsFit, Remove, At
    <3>2. Fits(w)'
      BY <2>2, <3>1 DEF Moves, Fits
    <3> QED
      BY <2>2, <3>2, FitsAlone DEF Moves
  <2> QED
    BY <1>22, <2>1, <2>2, WorkerCalls
<1>23. ASSUME NEW w \in Workers, Free(w) PROVE CallsFit'
  <2>1. Alone(w) /\ Fits(w) /\ call[w] \in CallRecords
    BY <1>23, WorkerCalls DEF CallsFit, TypeOK, Moves
  <2>2. Fits(w)'
    BY <1>23, <2>1, WorkerCalls DEF Moves, Free, At, Fits
  <2> QED
    BY <2>1, <2>2, FitsAlone
<1>24. ASSUME NEW w \in Workers, Strip(w) PROVE CallsFit'
  <2>1. Moves(w, "quit") \/ Moves(w, "nullify")
    BY <1>24, WorkerCalls
  <2>2. Fits(w) /\ call[w].at = "strip"
    BY <1>24 DEF CallsFit, Strip, At
  <2>3. Fits(w)'
    BY <2>1, <2>2 DEF Moves, Fits
  <2> QED
    BY <2>1, <2>3, FitsAlone DEF Moves
<1>25. ASSUME NEW w \in Workers, StripErases(w) PROVE CallsFit'
  BY <1>25, <1>1, CrashFreezes DEF StripErases, Faults
<1>26. ASSUME NEW w \in Workers, Nullify(w) PROVE CallsFit'
  <2>1. Alone(w) /\ Fits(w) /\ call[w] \in CallRecords
    BY <1>26, WorkerCalls DEF CallsFit, TypeOK, Moves
  <2>2. Fits(w)'
    BY <1>26, <2>1, WorkerCalls DEF Moves, Nullify, At, Fits
  <2> QED
    BY <2>1, <2>2, FitsAlone
<1>27. ASSUME NEW w \in Workers, NullifyTimeout(w) PROVE CallsFit'
  <2>1. Alone(w) /\ Fits(w) /\ call[w] \in CallRecords
    BY <1>27, WorkerCalls DEF CallsFit, TypeOK, Moves
  <2>2. Fits(w)'
    BY <1>27, <2>1, WorkerCalls DEF Moves, NullifyTimeout, At, Fits
  <2> QED
    BY <2>1, <2>2, FitsAlone
<1>28. ASSUME NEW w \in Workers, Forget(w) PROVE CallsFit'
  <2>1. Alone(w) /\ Fits(w) /\ call[w] \in CallRecords
    BY <1>28, WorkerCalls DEF CallsFit, TypeOK, Moves
  <2>2. Fits(w)'
    BY <1>28, <2>1, WorkerCalls DEF Moves, Forget, At, Fits
  <2> QED
    BY <2>1, <2>2, FitsAlone
<1>29. ASSUME NEW w \in Workers, NullifyLate(w) PROVE CallsFit'
  <2>1. Alone(w) /\ Fits(w) /\ call[w] \in CallRecords
    BY <1>29, WorkerCalls DEF CallsFit, TypeOK, Moves
  <2>2. Fits(w)'
    BY <1>29, <2>1, WorkerCalls DEF Moves, NullifyLate, At, Fits
  <2> QED
    BY <2>1, <2>2, FitsAlone
<1>30. ASSUME NEW w \in Workers, Quit(w) PROVE CallsFit'
  <2>1. CASE Crash("freed")
    BY <2>1, <1>1, CrashFreezes DEF Faults
  <2>2. CASE ~Crash("freed")
    <3>0. Moves(w, "unmap")
      BY <1>30, <2>2, WorkerCalls
    <3>1. Alone(w) /\ Fits(w) /\ call[w] \in CallRecords
      BY <1>30, <2>2, <3>0 DEF CallsFit, TypeOK, Moves
    <3>2. Fits(w)'
      BY <1>30, <2>2, <3>0, <3>1 DEF Moves, Quit, At, Fits
    <3> QED
      BY <3>1, <3>2, FitsAlone
  <2> QED
    BY <2>1, <2>2
<1>31. ASSUME NEW w \in Workers, Unmap(w) PROVE CallsFit'
  BY <1>31, WorkerCalls, IdleFits
<1>32. ASSUME NEW n \in Offers, BusMessage(n) PROVE CallsFit'
  <2>1. n \in Offers /\ launch[n].handler # 0
    BY <1>32 DEF BusMessage, Launches, Bound
  <2>2. Alone(BusWorker) /\ call'[BusWorker] = [Idle EXCEPT !.at = "free", !.kind = "bus", !.handler = launch[n].handler]
    BY <1>32, WorkerKinds DEF BusMessage, TypeOK, Alone
  <2>3. Fits(BusWorker)'
    BY <2>1, <2>2, WorkerKinds DEF Fits, Idle
  <2> QED
    BY <2>2, <2>3, WorkerKinds, FitsAlone
<1>33. ASSUME NEW n \in Offers, LaunchFetch(n) PROVE CallsFit'
  BY <1>33 DEF LaunchFetch, CallsFit, Fits
<1>34. ASSUME NEW n \in Offers, LaunchBuild(n) PROVE CallsFit'
  BY <1>34 DEF LaunchBuild, CallsFit, Fits
<1>35. ASSUME NEW n \in Offers, LaunchReceivers(n) PROVE CallsFit'
  <2>1. CASE Crash("assert")
    BY <2>1, <1>1, CrashFreezes DEF Faults
  <2>2. CASE ~Crash("assert")
    BY <1>35, <2>2 DEF LaunchReceivers, CallsFit, Fits
  <2> QED
    BY <2>1, <2>2
<1>36. ASSUME NEW n \in Offers, LaunchPlay(n) PROVE CallsFit'
  BY <1>36 DEF LaunchPlay, CallsFit, Fits
<1>37. ASSUME NEW n \in Offers, LaunchLoop(n) PROVE CallsFit'
  BY <1>37 DEF LaunchLoop, CallsFit, Fits
<1> QED
  BY <1>1, <1>2, <1>3, <1>4, <1>5, <1>6, <1>7, <1>8, <1>9, <1>10, <1>11, <1>12, <1>13,
     <1>14, <1>15, <1>16, <1>17, <1>18, <1>19, <1>20, <1>21, <1>22, <1>23, <1>24,
     <1>25, <1>26, <1>27, <1>28, <1>29, <1>30, <1>31, <1>32, <1>33, <1>34, <1>35,
     <1>36, <1>37
     DEF Next, Step, Proceed, Launch, Client

\* A step of a browser, of its session or of a delivery.
ClientStep ==
    \/ \E p \in Peers : Client(p) \/ CandidateFails(p)
    \/ \E bin \in Bins : Deliver(bin)
    \/ SignallingRestart

\* It changes nothing of the media server, and begins or ends calls only.
LEMMA ClientKeeps ==
  ASSUME TypeOK, ClientStep
  PROVE  /\ UNCHANGED <<current, handlers, launch, bins, playing, watched, historyVars>>
         /\ \A w \in Workers :
               \/ call'[w] = call[w]
               \/ call[w].at \in {"idle", "unlist"} /\ call'[w].at \in {"idle", "unlist", "lookup"}
<1> DEFINE Keeps ==
      /\ UNCHANGED <<current, handlers, launch, bins, playing, watched, historyVars>>
      /\ \A w \in Workers :
            \/ call'[w] = call[w]
            \/ call[w].at \in {"idle", "unlist"} /\ call'[w].at \in {"idle", "unlist", "lookup"}
<1>1. ASSUME NEW p \in Peers, Connect(p) PROVE Keeps
  BY <1>1 DEF Connect, serverVars, historyVars
<1>2. ASSUME NEW p \in Peers, Break(p) PROVE Keeps
  BY <1>2 DEF Break, serverVars, historyVars
<1>3. ASSUME NEW p \in Peers, Close(p) PROVE Keeps
  <2>1. /\ Alone(Session(p)) /\ call'[Session(p)].at \in {"unlist", "lookup"}
        /\ call[Session(p)].at = "idle"
    BY <1>3, ClientCalls DEF Close, Quiet, Begins, Session, Failure
  <2> QED
    BY <1>3, <2>1 DEF Close, Alone, serverVars, historyVars
<1>4. ASSUME NEW p \in Peers, Offer(p) PROVE Keeps
  <2>1. /\ Alone(Session(p)) /\ call'[Session(p)].at \in {"unlist", "lookup"}
        /\ call[Session(p)].at = "idle"
    BY <1>4, ClientCalls DEF Offer, Quiet, Begins, Session, Failure
  <2> QED
    BY <1>4, <2>1 DEF Offer, Alone, serverVars, historyVars
<1>5. ASSUME NEW p \in Peers, OfferDropped(p) PROVE Keeps
  BY <1>5 DEF OfferDropped, serverVars, historyVars
<1>6. ASSUME NEW p \in Peers, SenderIce(p) PROVE Keeps
  <2>1. /\ Alone(Session(p)) /\ call'[Session(p)].at \in {"unlist", "lookup"}
        /\ call[Session(p)].at = "idle"
    BY <1>6, ClientCalls DEF SenderIce, Quiet, Begins, Session, Failure
  <2> QED
    BY <1>6, <2>1 DEF SenderIce, Alone, serverVars, historyVars
<1>7. ASSUME NEW p \in Peers, ReceiverAnswer(p) PROVE Keeps
  <2>1. /\ Alone(Session(p)) /\ call'[Session(p)].at \in {"unlist", "lookup"}
        /\ call[Session(p)].at = "idle"
    BY <1>7, ClientCalls DEF ReceiverAnswer, Quiet, Begins, Session, Failure
  <2> QED
    BY <1>7, <2>1 DEF ReceiverAnswer, Alone, serverVars, historyVars
<1>8. ASSUME NEW p \in Peers, ReceiverIce(p) PROVE Keeps
  <2>1. /\ Alone(Session(p)) /\ call'[Session(p)].at \in {"unlist", "lookup"}
        /\ call[Session(p)].at = "idle"
    BY <1>8, ClientCalls DEF ReceiverIce, Quiet, Begins, Session, Failure
  <2> QED
    BY <1>8, <2>1 DEF ReceiverIce, Alone, serverVars, historyVars
<1>9. ASSUME NEW p \in Peers, VideoReset(p) PROVE Keeps
  <2>1. /\ Alone(Session(p)) /\ call'[Session(p)].at \in {"unlist", "lookup"}
        /\ call[Session(p)].at = "idle"
    BY <1>9, ClientCalls DEF VideoReset, Quiet, Begins, Session, Failure
  <2> QED
    BY <1>9, <2>1 DEF VideoReset, Alone, serverVars, historyVars
<1>10. ASSUME NEW p \in Peers, CandidateFails(p) PROVE Keeps
  <2>1. /\ Alone(Failure(p)) /\ call'[Failure(p)].at \in {"unlist", "lookup"}
        /\ call[Failure(p)].at = "idle"
    BY <1>10, ClientCalls DEF CandidateFails, Quiet, Begins, Session, Failure
  <2> QED
    BY <1>10, <2>1 DEF CandidateFails, Alone, serverVars, historyVars
<1>11. ASSUME NEW bin \in Bins, Deliver(bin) PROVE Keeps
  <2>1. UNCHANGED <<current, handlers, launch, bins, playing, watched, historyVars>>
    BY <1>11 DEF Deliver, historyVars
  <2> QED
    BY <1>11, <2>1, DeliverCalls DEF Begins, Alone
<1>12. CASE SignallingRestart
  <2>1. UNCHANGED <<current, handlers, launch, bins, playing, watched, historyVars>>
    BY <1>12 DEF SignallingRestart, historyVars
  <2> QED
    BY <1>12, <2>1, RestartCalls, IdleType
<1> QED
  BY <1>1, <1>2, <1>3, <1>4, <1>5, <1>6, <1>7, <1>8, <1>9, <1>10, <1>11, <1>12
     DEF ClientStep, Client

\* Every step leaves pipelines and loops to launches that have found a handler.
LEMMA NextLaunches ==
  ASSUME TypeOK, CallsFit, Launches, Fresh, [Next]_vars PROVE Launches'
<1>a. /\ handlers \in [Offers -> HandlerRecords] /\ launch \in [Offers -> LaunchRecords]
      /\ current \in 0..MaxOffers /\ playing \subseteq Offers
  BY DEF TypeOK
<1>b. 0..MaxOffers = Offers \cup {0} /\ 0 \notin Offers
  BY ChannelAssumption DEF Offers
<1>c. UNCHANGED <<current, handlers, launch, playing>> => Launches'
  BY DEF Launches, Bound
<1>1. ASSUME Frozen PROVE Launches'
  BY <1>1, <1>c DEF Frozen, serverVars
<1>2. CASE UNCHANGED vars
  BY <1>2, <1>1 DEF vars, Frozen, historyVars
<1>3. CASE CallbackAborts \/ LookupRace
  BY <1>3, <1>1, CrashFreezes DEF CallbackAborts, LookupRace, Frozen, Faults
<1>4. CASE ClientStep
  BY <1>4, <1>c, ClientKeeps
<1>5. ASSUME NEW w \in Workers, Unlist(w) PROVE Launches'
  BY <1>5, <1>c DEF Unlist, serverVars
<1>6. ASSUME NEW w \in Workers, Lookup(w) PROVE Launches'
  BY <1>6, <1>c DEF Lookup, serverVars
<1>7. ASSUME NEW w \in Workers, Create(w) PROVE Launches'
  <2> DEFINE k == call[w].offer
             h == IF call[w].handler = 0 THEN k ELSE call[w].handler
  <2>1. /\ k \in Offers /\ launch[k].at = "none" /\ Caller(w) \in Peers
        /\ call[w].handler \in 0..MaxOffers
    BY <1>7, OfferPending, CallHandlers DEF Create, At, TeardownPoints, TypeOK, CallRecords
  <2>2. h \in Offers
    BY <1>b, <2>1
  <2>3. /\ \A n \in Offers :
              /\ handlers'[n].pipeline = handlers[n].pipeline /\ handlers'[n].loop = handlers[n].loop
              /\ n # h => handlers'[n].sender = handlers[n].sender
        /\ handlers'[h].sender = Caller(w)
    BY <1>7, <1>a, <2>2 DEF Create, SetHandler, HandlerRecords
  <2>4. /\ \A n \in Offers :
              /\ launch'[n].handler = launch[n].handler
              /\ n # k => launch'[n].at = launch[n].at
        /\ launch'[k].at = "fetch"
    BY <1>7, <1>a, <2>1 DEF Create, LaunchRecords
  <2>5. UNCHANGED playing /\ current' \in {h, current}
    BY <1>7 DEF Create
  <2> HIDE DEF h, k
  <2>6. /\ current' # 0 => handlers'[current'].sender \in Peers
        /\ \A n \in Offers : launch'[n].handler # 0 => handlers'[launch'[n].handler].sender \in Peers
    BY <1>a, <1>b, <2>1, <2>2, <2>3, <2>4, <2>5 DEF Launches, LaunchRecords
  <2>7. \A n \in Offers : Bound(n) => Bound(n)'
    BY <2>1, <2>4 DEF Bound
  <2> QED
    BY <1>a, <1>b, <2>1, <2>3, <2>4, <2>5, <2>6, <2>7 DEF Launches, HandlerRecords
<1>8. ASSUME NEW w \in Workers, Ice(w) PROVE Launches'
  BY <1>8, <1>c DEF Ice, serverVars
<1>9. ASSUME NEW w \in Workers, Answer(w) PROVE Launches'
  BY <1>9, <1>c DEF Answer, serverVars
<1>10. ASSUME NEW w \in Workers, Apply(w) PROVE Launches'
  <2>1. CASE Crash("freed")
    BY <2>1, <1>1, CrashFreezes DEF Faults
  <2>2. CASE ~Crash("freed")
    BY <1>10, <2>2, <1>c DEF Apply, serverVars
  <2> QED
    BY <2>1, <2>2
<1>11. ASSUME NEW w \in Workers, Remove(w) PROVE Launches'
  <2>1. call[w].handler \in Offers /\ Handler(w) \in HandlerRecords
    BY <1>11, CallHandlers DEF Remove, At, Handler
  <2>2. /\ UNCHANGED <<current, launch, playing>>
        /\ \A n \in Offers :
              /\ handlers'[n].sender = handlers[n].sender /\ handlers'[n].loop = handlers[n].loop
              /\ handlers'[n].pipeline \in {0, handlers[n].pipeline}
    BY <1>11, <1>a, <2>1 DEF Remove, SetHandler, Handler, HandlerRecords
  <2> QED
    BY <1>a, <1>b, <2>2 DEF Launches, Bound, LaunchRecords, HandlerRecords
<1>12. ASSUME NEW w \in Workers, Free(w) PROVE Launches'
  BY <1>12, <1>c DEF Free, serverVars
<1>13. ASSUME NEW w \in Workers, Strip(w) PROVE Launches'
  <2>1. call[w].handler \in Offers /\ Handler(w) \in HandlerRecords
    BY <1>13, CallHandlers DEF Strip, At, Handler
  <2>2. /\ UNCHANGED <<current, launch, playing>>
        /\ \A n \in Offers :
              /\ handlers'[n].sender = handlers[n].sender /\ handlers'[n].loop = handlers[n].loop
              /\ handlers'[n].pipeline \in {0, handlers[n].pipeline}
    BY <1>13, <1>a, <2>1 DEF Strip, SetHandler, Handler, HandlerRecords
  <2> QED
    BY <1>a, <1>b, <2>2 DEF Launches, Bound, LaunchRecords, HandlerRecords
<1>14. ASSUME NEW w \in Workers, StripErases(w) PROVE Launches'
  BY <1>14, <1>1, CrashFreezes DEF StripErases, Faults
<1>15. ASSUME NEW w \in Workers, Nullify(w) PROVE Launches'
  BY <1>15 DEF Nullify, StopCurrent, Launches, Bound
<1>16. ASSUME NEW w \in Workers, NullifyTimeout(w) PROVE Launches'
  <2>1. call[w].handler \in Offers /\ Handler(w) \in HandlerRecords
    BY <1>16, CallHandlers DEF NullifyTimeout, At, Handler
  <2>2. /\ UNCHANGED <<current, launch, playing>>
        /\ \A n \in Offers :
              /\ handlers'[n].sender = handlers[n].sender /\ handlers'[n].loop = handlers[n].loop
              /\ handlers'[n].pipeline \in {0, handlers[n].pipeline}
    BY <1>16, <1>a, <2>1 DEF NullifyTimeout, SetHandler, Handler, HandlerRecords
  <2> QED
    BY <1>a, <1>b, <2>2 DEF Launches, Bound, LaunchRecords, HandlerRecords
<1>17. ASSUME NEW w \in Workers, Forget(w) PROVE Launches'
  <2>1. call[w].handler \in Offers /\ Handler(w) \in HandlerRecords
    BY <1>17, CallHandlers DEF Forget, At, Handler
  <2>2. /\ UNCHANGED <<current, launch, playing>>
        /\ \A n \in Offers :
              /\ handlers'[n].sender = handlers[n].sender /\ handlers'[n].loop = handlers[n].loop
              /\ handlers'[n].pipeline \in {0, handlers[n].pipeline}
    BY <1>17, <1>a, <2>1 DEF Forget, SetHandler, Handler, HandlerRecords
  <2> QED
    BY <1>a, <1>b, <2>2 DEF Launches, Bound, LaunchRecords, HandlerRecords
<1>18. ASSUME NEW w \in Workers, NullifyLate(w) PROVE Launches'
  BY <1>18 DEF NullifyLate, StopCurrent, Launches, Bound
<1>19. ASSUME NEW w \in Workers, Quit(w) PROVE Launches'
  <2>1. CASE Crash("freed")
    BY <2>1, <1>1, CrashFreezes DEF Faults
  <2>2. CASE ~Crash("freed")
    <3>1. call[w].handler \in Offers /\ Handler(w) \in HandlerRecords
      BY <1>19, <2>2, CallHandlers DEF Quit, At, Handler
    <3>2. /\ UNCHANGED <<current, handlers, playing>>
          /\ \A n \in Offers :
                /\ launch'[n].handler = launch[n].handler
                /\ launch'[n].at \in {launch[n].at, "over"}
      BY <1>19, <2>2, <1>a, <3>1 DEF Quit, LaunchRecords
    <3> QED
      BY <1>a, <1>b, <3>2 DEF Launches, Bound, LaunchRecords, HandlerRecords
  <2> QED
    BY <2>1, <2>2
<1>20. ASSUME NEW w \in Workers, Unmap(w) PROVE Launches'
  BY <1>20 DEF Unmap, Launches, Bound
<1>21. ASSUME NEW n \in Offers, BusMessage(n) PROVE Launches'
  BY <1>21, <1>c DEF BusMessage, serverVars
<1>22. ASSUME NEW n \in Offers, LaunchFetch(n) PROVE Launches'
  <2>1. launch[n].at = "fetch" /\ UNCHANGED <<current, handlers, playing>>
    BY <1>22 DEF LaunchFetch, LaunchAt
  <2>2. /\ \A m \in Offers : m # n => launch'[m] = launch[m]
        /\ launch'[n].handler = current
        /\ launch'[n].at = IF current = 0 THEN "over" ELSE "build"
    BY <1>22, <1>a DEF LaunchFetch
  <2>3. \A m \in Offers : Bound(m) => Bound(m)'
    BY <2>1, <2>2 DEF Bound
  <2> QED
    BY <1>a, <1>b, <2>1, <2>2, <2>3 DEF Launches, HandlerRecords, LaunchRecords
<1>23. ASSUME NEW n \in Offers, LaunchBuild(n) PROVE Launches'
  <2>1. launch[n].at = "build" /\ launch[n].handler \in Offers
    BY <1>23, <1>a, <1>b DEF LaunchBuild, LaunchAt, Launches, LaunchRecords
  <2>2. /\ \A m \in Offers : launch'[m].handler = launch[m].handler
        /\ \A m \in Offers : m # n => launch'[m].at = launch[m].at
        /\ launch'[n].at \in {"receivers"}
    BY <1>23, <1>a, <2>1 DEF LaunchBuild, LaunchTo, LaunchRecords
  <2>3. \A m \in Offers :
           /\ handlers'[m].sender = handlers[m].sender /\ handlers'[m].loop = handlers[m].loop
           /\ handlers'[m].pipeline \in {handlers[m].pipeline, n}
    BY <1>23, <1>a, <2>1 DEF LaunchBuild, SetHandler, HandlerRecords
  <2>4. UNCHANGED current /\ playing' \subseteq playing \cup {handlers[launch[n].handler].pipeline}
        /\ (playing' # playing => handlers[launch[n].handler].pipeline # 0)
    BY <1>23 DEF LaunchBuild
  <2>5. \A m \in Offers : Bound(m) => Bound(m)'
    BY <2>1, <2>2 DEF Bound
  <2> QED
    BY <1>a, <1>b, <2>1, <2>2, <2>3, <2>4, <2>5 DEF Launches, Bound, HandlerRecords, LaunchRecords
<1>24. ASSUME NEW n \in Offers, LaunchReceivers(n) PROVE Launches'
  <2>1. CASE Crash("assert")
    BY <2>1, <1>1, CrashFreezes DEF Faults
  <2>2. CASE ~Crash("assert")
    <3>1. launch[n].at = "receivers" /\ launch[n].handler \in Offers
      BY <1>24, <2>2, <1>a, <1>b DEF LaunchReceivers, LaunchAt, Launches, LaunchRecords
    <3>2. /\ \A m \in Offers : launch'[m].handler = launch[m].handler
          /\ \A m \in Offers : m # n => launch'[m].at = launch[m].at
          /\ launch'[n].at \in {"play"}
      BY <1>24, <2>2, <1>a, <3>1 DEF LaunchReceivers, LaunchTo, LaunchRecords
    <3>3. UNCHANGED handlers
      BY <1>24, <2>2, <1>a, <3>1 DEF LaunchReceivers, SetHandler, HandlerRecords
    <3>4. UNCHANGED current /\ playing' \subseteq playing \cup {handlers[launch[n].handler].pipeline}
          /\ (playing' # playing => handlers[launch[n].handler].pipeline # 0)
      BY <1>24, <2>2 DEF LaunchReceivers
    <3>5. \A m \in Offers : Bound(m) => Bound(m)'
      BY <3>1, <3>2 DEF Bound
    <3> QED
      BY <1>a, <1>b, <3>1, <3>2, <3>3, <3>4, <3>5 DEF Launches, Bound, HandlerRecords,
           LaunchRecords
  <2> QED
    BY <2>1, <2>2
<1>25. ASSUME NEW n \in Offers, LaunchPlay(n) PROVE Launches'
  <2>1. launch[n].at = "play" /\ launch[n].handler \in Offers
    BY <1>25, <1>a, <1>b DEF LaunchPlay, LaunchAt, Launches, LaunchRecords
  <2>2. /\ \A m \in Offers : launch'[m].handler = launch[m].handler
        /\ \A m \in Offers : m # n => launch'[m].at = launch[m].at
        /\ launch'[n].at \in {"over", "loop"}
    BY <1>25, <1>a, <2>1 DEF LaunchPlay, LaunchTo, LaunchRecords
  <2>3. UNCHANGED handlers
    BY <1>25, <1>a, <2>1 DEF LaunchPlay, SetHandler, HandlerRecords
  <2>4. UNCHANGED current /\ playing' \subseteq playing \cup {handlers[launch[n].handler].pipeline}
        /\ (playing' # playing => handlers[launch[n].handler].pipeline # 0)
    BY <1>25 DEF LaunchPlay
  <2>5. \A m \in Offers : Bound(m) => Bound(m)'
    BY <2>1, <2>2 DEF Bound
  <2> QED
    BY <1>a, <1>b, <2>1, <2>2, <2>3, <2>4, <2>5 DEF Launches, Bound, HandlerRecords, LaunchRecords
<1>26. ASSUME NEW n \in Offers, LaunchLoop(n) PROVE Launches'
  <2>1. launch[n].at = "loop" /\ launch[n].handler \in Offers
    BY <1>26, <1>a, <1>b DEF LaunchLoop, LaunchAt, Launches, LaunchRecords
  <2>2. /\ \A m \in Offers : launch'[m].handler = launch[m].handler
        /\ \A m \in Offers : m # n => launch'[m].at = launch[m].at
        /\ launch'[n].at \in {"running"}
    BY <1>26, <1>a, <2>1 DEF LaunchLoop, LaunchTo, LaunchRecords
  <2>3. \A m \in Offers :
           /\ handlers'[m].sender = handlers[m].sender /\ handlers'[m].pipeline = handlers[m].pipeline
           /\ handlers'[m].loop \in {handlers[m].loop, n}
    BY <1>26, <1>a, <2>1 DEF LaunchLoop, SetHandler, HandlerRecords
  <2>4. UNCHANGED <<current, playing>>
    BY <1>26 DEF LaunchLoop
  <2>5. \A m \in Offers : Bound(m) => Bound(m)'
    BY <2>1, <2>2 DEF Bound
  <2>6. Bound(n)'
    BY <1>b, <2>1, <2>2 DEF Bound
  <2>7. \A m \in Offers : (handlers[m].pipeline # 0 => Bound(handlers[m].pipeline))'
    BY <1>a, <1>b, <2>3, <2>5 DEF Launches, Bound, HandlerRecords
  <2>8. \A m \in Offers : (handlers[m].loop # 0 => Bound(handlers[m].loop))'
    BY <1>a, <1>b, <2>3, <2>5, <2>6 DEF Launches, Bound, HandlerRecords
  <2>9. /\ current' # 0 => handlers'[current'].sender \in Peers
        /\ \A m \in Offers : launch'[m].handler # 0 => handlers'[launch'[m].handler].sender \in Peers
    BY <1>a, <1>b, <2>2, <2>3, <2>4 DEF Launches, LaunchRecords
  <2> QED
    BY <2>1, <2>2, <2>4, <2>5, <2>7, <2>8, <2>9 DEF Launches, Bound
<1> QED
  BY <1>1, <1>2, <1>3, <1>4, <1>5, <1>6, <1>7, <1>8, <1>9, <1>10, <1>11, <1>12, <1>13,
     <1>14, <1>15, <1>16, <1>17, <1>18, <1>19, <1>20, <1>21, <1>22, <1>23, <1>24,
     <1>25, <1>26
     DEF Next, Step, Proceed, Launch, ClientStep

\* Offers on their way stay fresh when no launch begins and no call becomes one.
LEMMA StaysFresh ==
  ASSUME Fresh, count' = count,
         \A n \in Offers : launch'[n].at = "none" <=> launch[n].at = "none",
         \A w \in Workers : Pending(w)' => Pending(w) /\ call'[w].offer = call[w].offer,
         count \in 0..MaxOffers
  PROVE  Fresh'
<1>1. \A n \in 1..count : n \in Offers
  BY ChannelAssumption DEF Offers
<1> QED
  BY <1>1 DEF Fresh, Pending

\* Every step leaves the offers on their way fresh.
LEMMA NextFresh ==
  ASSUME TypeOK, CallsFit, Launches, Fresh, [Next]_vars PROVE Fresh'
<1>a. /\ call \in [Workers -> CallRecords] /\ launch \in [Offers -> LaunchRecords]
      /\ count \in 0..MaxOffers
  BY DEF TypeOK
<1>b. 0..MaxOffers = Offers \cup {0} /\ 0 \notin Offers /\ 1..count \subseteq Offers
  BY <1>a, ChannelAssumption DEF Offers
<1>c. ASSUME count' = count, UNCHANGED launch,
             \A w \in Workers : Pending(w)' => Pending(w) /\ call'[w].offer = call[w].offer
      PROVE  Fresh'
  BY <1>a, <1>c, StaysFresh
<1>d. ASSUME count' = count, UNCHANGED launch, NEW w \in Workers, Alone(w),
             Pending(w)' => Pending(w) /\ call'[w].offer = call[w].offer
      PROVE  Fresh'
  BY <1>c, <1>d DEF Alone, Pending
<1>1. ASSUME Frozen PROVE Fresh'
  BY <1>1, <1>c DEF Frozen, clientVars, serverVars, Pending
<1>2. CASE UNCHANGED vars
  BY <1>2, <1>1 DEF vars, Frozen, historyVars
<1>3. CASE CallbackAborts \/ LookupRace
  BY <1>3, <1>1, CrashFreezes DEF CallbackAborts, LookupRace, Frozen, Faults
<1>4. ASSUME NEW p \in Peers, Connect(p) PROVE Fresh'
  BY <1>4, <1>c DEF Connect, serverVars, Pending
<1>5. ASSUME NEW p \in Peers, Break(p) PROVE Fresh'
  BY <1>5, <1>c DEF Break, serverVars, Pending
<1>6. ASSUME NEW p \in Peers, Close(p) PROVE Fresh'
  <2>1. Session(p) \in Workers /\ Alone(Session(p)) /\ call'[Session(p)].kind = "close"
    BY <1>6, ClientCalls, WorkerKinds DEF Begins
  <2> QED
    BY <1>6, <1>d, <2>1 DEF Close, Pending, clientVars, serverVars
<1>7. ASSUME NEW p \in Peers, Offer(p) PROVE Fresh'
  <2>1. Begins(Session(p), "lookup", "offer", p, count + 1, inChannel \ {p})
    BY <1>7, ClientCalls
  <2>2. count' = count + 1 /\ count + 1 \in Offers /\ UNCHANGED launch
    BY <1>7, <1>a, ChannelAssumption DEF Offer, Offers, serverVars
  <2>3. launch[count + 1].at = "none"
    BY <1>a, <2>2 DEF Fresh
  <2>4. /\ \A w \in Workers : w # Session(p) => call'[w] = call[w]
        /\ call'[Session(p)].offer = count + 1
    BY <2>1 DEF Begins, Alone
  <2>5. \A n \in Offers : n > count' => launch'[n].at = "none"
    BY <1>a, <2>2 DEF Fresh, Offers
  <2>6. \A w \in Workers :
           Pending(w)' => call'[w].offer \in 1..count' /\ launch'[call'[w].offer].at = "none"
    BY <1>a, <2>2, <2>3, <2>4 DEF Fresh, Pending
  <2>7. \A v, w \in Workers :
           Pending(v)' /\ Pending(w)' /\ v # w => call'[v].offer # call'[w].offer
    BY <1>a, <2>4 DEF Fresh, Pending
  <2> QED
    BY <2>5, <2>6, <2>7 DEF Fresh, Pending
<1>8. ASSUME NEW p \in Peers, OfferDropped(p) PROVE Fresh'
  BY <1>8, <1>c DEF OfferDropped, serverVars, Pending
<1>9. ASSUME NEW p \in Peers, SenderIce(p) PROVE Fresh'
  <2>1. Session(p) \in Workers /\ Alone(Session(p)) /\ call'[Session(p)].kind = "ice"
    BY <1>9, ClientCalls, WorkerKinds DEF Begins
  <2> QED
    BY <1>9, <1>d, <2>1 DEF SenderIce, Pending, clientVars, serverVars
<1>10. ASSUME NEW p \in Peers, ReceiverAnswer(p) PROVE Fresh'
  <2>1. Session(p) \in Workers /\ Alone(Session(p)) /\ call'[Session(p)].kind = "answer"
    BY <1>10, ClientCalls, WorkerKinds DEF Begins
  <2> QED
    BY <1>10, <1>d, <2>1 DEF ReceiverAnswer, Pending, clientVars, serverVars
<1>11. ASSUME NEW p \in Peers, ReceiverIce(p) PROVE Fresh'
  <2>1. Session(p) \in Workers /\ Alone(Session(p)) /\ call'[Session(p)].kind = "answer"
    BY <1>11, ClientCalls, WorkerKinds DEF Begins
  <2> QED
    BY <1>11, <1>d, <2>1 DEF ReceiverIce, Pending, clientVars, serverVars
<1>12. ASSUME NEW p \in Peers, VideoReset(p) PROVE Fresh'
  <2>1. Session(p) \in Workers /\ Alone(Session(p)) /\ call'[Session(p)].kind = "reset"
    BY <1>12, ClientCalls, WorkerKinds DEF Begins
  <2> QED
    BY <1>12, <1>d, <2>1 DEF VideoReset, Pending, clientVars, serverVars
<1>13. ASSUME NEW p \in Peers, CandidateFails(p) PROVE Fresh'
  <2>1. Failure(p) \in Workers /\ Alone(Failure(p)) /\ call'[Failure(p)].kind = "close"
    BY <1>13, ClientCalls, WorkerKinds DEF Begins
  <2> QED
    BY <1>13, <1>d, <2>1 DEF CandidateFails, Pending, clientVars, serverVars
<1>14. ASSUME NEW bin \in Bins, Deliver(bin) PROVE Fresh'
  <2>1. count' = count /\ UNCHANGED launch
    BY <1>14 DEF Deliver, clientVars
  <2>2. \A w \in Workers : call'[w] = call[w] \/ call'[w].kind = "close"
    BY <1>14, DeliverCalls DEF Begins, Alone
  <2> QED
    BY <1>c, <2>1, <2>2 DEF Pending
<1>15. CASE SignallingRestart
  <2>1. count' = count /\ UNCHANGED launch
    BY <1>15 DEF SignallingRestart
  <2>2. \A w \in Workers : call'[w] = call[w] \/ call'[w].kind = "reset"
    BY <1>15, RestartCalls, IdleType
  <2> QED
    BY <1>c, <2>1, <2>2 DEF Pending
<1>16. ASSUME NEW w \in Workers, Unlist(w) PROVE Fresh'
  <2>1. count' = count /\ UNCHANGED launch
    BY <1>16 DEF Unlist, clientVars, serverVars
  <2>2. Alone(w) /\ (Pending(w)' => Pending(w) /\ call'[w].offer = call[w].offer)
    BY <1>16, WorkerCalls, IdleType DEF Moves, Ends, Pending
  <2> QED
    BY <1>d, <2>1, <2>2
<1>17. ASSUME NEW w \in Workers, Lookup(w) PROVE Fresh'
  <2>1. count' = count /\ UNCHANGED launch
    BY <1>17 DEF Lookup, clientVars, serverVars
  <2>2. Alone(w) /\ (Pending(w)' => Pending(w) /\ call'[w].offer = call[w].offer)
    BY <1>17, WorkerCalls, IdleType DEF Moves, Ends, Pending
  <2> QED
    BY <1>d, <2>1, <2>2
<1>18. ASSUME NEW w \in Workers, Create(w) PROVE Fresh'
  <2>1. Ends(w) /\ count' = count
    BY <1>18, WorkerCalls DEF Create, clientVars
  <2>2. call[w].offer \in Offers /\ Pending(w) /\ call[w].offer \in 1..count
    BY <1>18, OfferPending DEF Create, At, Pending, Fresh
  <2>3. \A n \in Offers : n # call[w].offer => launch'[n] = launch[n]
    BY <1>18, <1>a, <2>2 DEF Create
  <2>4. \A v \in Workers : v # w => call'[v] = call[v]
    BY <2>1 DEF Ends, Alone
  <2>5. ~Pending(w)'
    BY <2>1, IdleType DEF Ends, Pending
  <2>6. \A n \in Offers : n > count' => launch'[n].at = "none"
    BY <1>a, <2>1, <2>2, <2>3 DEF Fresh, Offers
  <2>7. \A v \in Workers :
           Pending(v)' => call'[v].offer \in 1..count' /\ launch'[call'[v].offer].at = "none"
    BY <1>b, <2>1, <2>2, <2>3, <2>4, <2>5 DEF Fresh, Pending
  <2>8. \A u, v \in Workers :
           Pending(u)' /\ Pending(v)' /\ u # v => call'[u].offer # call'[v].offer
    BY <2>4, <2>5 DEF Fresh, Pending
  <2> QED
    BY <2>6, <2>7, <2>8 DEF Fresh, Pending
<1>19. ASSUME NEW w \in Workers, Ice(w) PROVE Fresh'
  <2>1. count' = count /\ UNCHANGED launch
    BY <1>19 DEF Ice, clientVars, serverVars
  <2>2. Alone(w) /\ (Pending(w)' => Pending(w) /\ call'[w].offer = call[w].offer)
    BY <1>19, WorkerCalls, IdleType DEF Moves, Ends, Pending
  <2> QED
    BY <1>d, <2>1, <2>2
<1>20. ASSUME NEW w \in Workers, Answer(w) PROVE Fresh'
  <2>1. count' = count /\ UNCHANGED launch
    BY <1>20 DEF Answer, clientVars, serverVars
  <2>2. Alone(w) /\ (Pending(w)' => Pending(w) /\ call'[w].offer = call[w].offer)
    BY <1>20, WorkerCalls, IdleType DEF Moves, Ends, Pending
  <2> QED
    BY <1>d, <2>1, <2>2
<1>21. ASSUME NEW w \in Workers, Apply(w) PROVE Fresh'
  <2>1. CASE Crash("freed")
    BY <2>1, <1>1, CrashFreezes DEF Faults
  <2>2. CASE ~Crash("freed")
    <3>1. count' = count /\ UNCHANGED launch
      BY <1>21, <2>2 DEF Apply, clientVars, serverVars
    <3>2. Alone(w) /\ (Pending(w)' => Pending(w) /\ call'[w].offer = call[w].offer)
      BY <1>21, <2>2, WorkerCalls, IdleType DEF Moves, Ends, Pending
    <3> QED
      BY <1>d, <3>1, <3>2
  <2> QED
    BY <2>1, <2>2
<1>22. ASSUME NEW w \in Workers, Remove(w) PROVE Fresh'
  <2>1. count' = count /\ UNCHANGED launch
    BY <1>22 DEF Remove, clientVars, serverVars
  <2>2. Alone(w) /\ (Pending(w)' => Pending(w) /\ call'[w].offer = call[w].offer)
    BY <1>22, WorkerCalls, IdleType DEF Moves, Ends, Pending
  <2> QED
    BY <1>d, <2>1, <2>2
<1>23. ASSUME NEW w \in Workers, Free(w) PROVE Fresh'
  <2>1. count' = count /\ UNCHANGED launch
    BY <1>23 DEF Free, clientVars, serverVars
  <2>2. Alone(w) /\ (Pending(w)' => Pending(w) /\ call'[w].offer = call[w].offer)
    BY <1>23, WorkerCalls, IdleType DEF Moves, Ends, Pending
  <2> QED
    BY <1>d, <2>1, <2>2
<1>24. ASSUME NEW w \in Workers, Strip(w) PROVE Fresh'
  <2>1. count' = count /\ UNCHANGED launch
    BY <1>24 DEF Strip, clientVars, serverVars
  <2>2. Alone(w) /\ (Pending(w)' => Pending(w) /\ call'[w].offer = call[w].offer)
    BY <1>24, WorkerCalls, IdleType DEF Moves, Ends, Pending
  <2> QED
    BY <1>d, <2>1, <2>2
<1>25. ASSUME NEW w \in Workers, StripErases(w) PROVE Fresh'
  BY <1>25, <1>1, CrashFreezes DEF StripErases, Faults
<1>26. ASSUME NEW w \in Workers, Nullify(w) PROVE Fresh'
  <2>1. count' = count /\ UNCHANGED launch
    BY <1>26 DEF Nullify, clientVars, serverVars
  <2>2. Alone(w) /\ (Pending(w)' => Pending(w) /\ call'[w].offer = call[w].offer)
    BY <1>26, WorkerCalls, IdleType DEF Moves, Ends, Pending
  <2> QED
    BY <1>d, <2>1, <2>2
<1>27. ASSUME NEW w \in Workers, NullifyTimeout(w) PROVE Fresh'
  <2>1. count' = count /\ UNCHANGED launch
    BY <1>27 DEF NullifyTimeout, clientVars, serverVars
  <2>2. Alone(w) /\ (Pending(w)' => Pending(w) /\ call'[w].offer = call[w].offer)
    BY <1>27, WorkerCalls, IdleType DEF Moves, Ends, Pending
  <2> QED
    BY <1>d, <2>1, <2>2
<1>28. ASSUME NEW w \in Workers, Forget(w) PROVE Fresh'
  <2>1. count' = count /\ UNCHANGED launch
    BY <1>28 DEF Forget, clientVars, serverVars
  <2>2. Alone(w) /\ (Pending(w)' => Pending(w) /\ call'[w].offer = call[w].offer)
    BY <1>28, WorkerCalls, IdleType DEF Moves, Ends, Pending
  <2> QED
    BY <1>d, <2>1, <2>2
<1>29. ASSUME NEW w \in Workers, NullifyLate(w) PROVE Fresh'
  <2>1. count' = count /\ UNCHANGED launch
    BY <1>29 DEF NullifyLate, clientVars, serverVars
  <2>2. Alone(w) /\ (Pending(w)' => Pending(w) /\ call'[w].offer = call[w].offer)
    BY <1>29, WorkerCalls, IdleType DEF Moves, Ends, Pending
  <2> QED
    BY <1>d, <2>1, <2>2
<1>30. ASSUME NEW w \in Workers, Quit(w) PROVE Fresh'
  <2>1. CASE Crash("freed")
    BY <2>1, <1>1, CrashFreezes DEF Faults
  <2>2. CASE ~Crash("freed")
    <3>1. Handler(w).loop # 0 => launch[Handler(w).loop].at # "none"
      <4>1. call[w].handler \in Offers
        BY <1>30, <2>2, CallHandlers DEF Quit, At
      <4> QED
        BY <4>1 DEF Launches, Bound, Handler
    <3>2. \A n \in Offers : launch'[n].at = "none" <=> launch[n].at = "none"
      BY <1>30, <2>2, <1>a, <3>1 DEF Quit, LaunchRecords
    <3>3. \A v \in Workers : Pending(v)' => Pending(v) /\ call'[v].offer = call[v].offer
      BY <1>30, <2>2, WorkerCalls DEF Moves, Alone, Pending
    <3>4. count' = count
      BY <1>30, <2>2 DEF Quit, clientVars
    <3> QED
      BY <1>a, <3>2, <3>3, <3>4, StaysFresh
  <2> QED
    BY <2>1, <2>2
<1>31. ASSUME NEW w \in Workers, Unmap(w) PROVE Fresh'
  <2>1. count' = count /\ UNCHANGED launch
    BY <1>31 DEF Unmap, clientVars, serverVars
  <2>2. Alone(w) /\ (Pending(w)' => Pending(w) /\ call'[w].offer = call[w].offer)
    BY <1>31, WorkerCalls, IdleType DEF Moves, Ends, Pending
  <2> QED
    BY <1>d, <2>1, <2>2
<1>32. ASSUME NEW n \in Offers, BusMessage(n) PROVE Fresh'
  <2>1. \A w \in Workers : call'[w] = call[w] \/ call'[w].kind = "bus"
    BY <1>32, <1>a DEF BusMessage, Idle
  <2> QED
    BY <1>32, <1>c, <2>1 DEF BusMessage, Pending, clientVars
<1>33. ASSUME NEW n \in Offers, LaunchFetch(n) PROVE Fresh'
  <2>1. \A m \in Offers : launch'[m].at = "none" <=> launch[m].at = "none"
    BY <1>33, <1>a DEF LaunchFetch, LaunchTo, LaunchAt, LaunchRecords
  <2>2. count' = count /\ UNCHANGED call
    BY <1>33 DEF LaunchFetch, clientVars
  <2> QED
    BY <1>a, <2>1, <2>2, StaysFresh DEF Pending
<1>34. ASSUME NEW n \in Offers, LaunchBuild(n) PROVE Fresh'
  <2>1. \A m \in Offers : launch'[m].at = "none" <=> launch[m].at = "none"
    BY <1>34, <1>a DEF LaunchBuild, LaunchTo, LaunchAt, LaunchRecords
  <2>2. count' = count /\ UNCHANGED call
    BY <1>34 DEF LaunchBuild, clientVars
  <2> QED
    BY <1>a, <2>1, <2>2, StaysFresh DEF Pending
<1>35. ASSUME NEW n \in Offers, LaunchReceivers(n) PROVE Fresh'
  <2>1. CASE Crash("assert")
    BY <2>1, <1>1, CrashFreezes DEF Faults
  <2>2. CASE ~Crash("assert")
    <3>1. \A m \in Offers : launch'[m].at = "none" <=> launch[m].at = "none"
      BY <1>35, <2>2, <1>a DEF LaunchReceivers, LaunchTo, LaunchAt, LaunchRecords
    <3>2. count' = count /\ UNCHANGED call
      BY <1>35, <2>2 DEF LaunchReceivers, clientVars
    <3> QED
      BY <1>a, <3>1, <3>2, StaysFresh DEF Pending
  <2> QED
    BY <2>1, <2>2
<1>36. ASSUME NEW n \in Offers, LaunchPlay(n) PROVE Fresh'
  <2>1. \A m \in Offers : launch'[m].at = "none" <=> launch[m].at = "none"
    BY <1>36, <1>a DEF LaunchPlay, LaunchTo, LaunchAt, LaunchRecords
  <2>2. count' = count /\ UNCHANGED call
    BY <1>36 DEF LaunchPlay, clientVars
  <2> QED
    BY <1>a, <2>1, <2>2, StaysFresh DEF Pending
<1>37. ASSUME NEW n \in Offers, LaunchLoop(n) PROVE Fresh'
  <2>1. \A m \in Offers : launch'[m].at = "none" <=> launch[m].at = "none"
    BY <1>37, <1>a DEF LaunchLoop, LaunchTo, LaunchAt, LaunchRecords
  <2>2. count' = count /\ UNCHANGED call
    BY <1>37 DEF LaunchLoop, clientVars
  <2> QED
    BY <1>a, <2>1, <2>2, StaysFresh DEF Pending
<1> QED
  BY <1>1, <1>2, <1>3, <1>4, <1>5, <1>6, <1>7, <1>8, <1>9, <1>10, <1>11, <1>12, <1>13,
     <1>14, <1>15, <1>16, <1>17, <1>18, <1>19, <1>20, <1>21, <1>22, <1>23, <1>24,
     <1>25, <1>26, <1>27, <1>28, <1>29, <1>30, <1>31, <1>32, <1>33, <1>34, <1>35,
     <1>36, <1>37
     DEF Next, Step, Proceed, Launch, Client

\* A session stays ready when neither it nor the lock has changed, and its calls
\* are the same or have gone on.
LEMMA StaysReady ==
  ASSUME NEW q \in Peers, Ready(q), session'[q] = session[q], q \in trying' => q \in trying,
         lock' = q => lock = q,
         \/ call'[Session(q)] = call[Session(q)]
         \/ /\ call'[Session(q)].at = "idle" /\ call'[Session(q)].kind = "reset"
         \/ /\ call[Session(q)].at # "idle" /\ call'[Session(q)].at # "idle"
            /\ call'[Session(q)].kind = call[Session(q)].kind
            /\ call'[Session(q)].invited = call[Session(q)].invited,
         call'[Failure(q)].at # "idle" => call[Failure(q)].at # "idle",
         call[Session(q)].kind = "offer" /\ q \in trying => q \in trying'
  PROVE  Ready(q)'
  BY DEF Ready, Lost

\* Every step leaves sessions that have what they can have.
LEMMA NextSessions ==
  ASSUME TypeOK, CallsFit, Sessions, Strangers, [Next]_vars PROVE Sessions'
<1>a. /\ call \in [Workers -> CallRecords] /\ lock \in Peers \cup {NoPeer} /\ trying \subseteq Peers
      /\ session \in [Peers -> {"new", "open", "broken", "closed", "lost"}]
  BY DEF TypeOK
<1>b. NoPeer \notin Peers /\ \A q \in Peers : Session(q) \in Workers /\ Failure(q) \in Workers
  BY ChannelAssumption, WorkerKinds
<1>c. ASSUME UNCHANGED <<session, trying>>, \A q \in Peers : lock' = q => lock = q,
             NEW w \in Workers, Alone(w),
             \/ Ends(w)
             \/ /\ call[w].at # "idle" /\ call'[w].at # "idle"
                /\ call'[w].kind = call[w].kind /\ call'[w].invited = call[w].invited
      PROVE  Sessions'
  <2>1. ASSUME NEW q \in Peers PROVE Ready(q)'
    <3>1. /\ \/ call'[Session(q)] = call[Session(q)]
             \/ call'[Session(q)].at = "idle" /\ call'[Session(q)].kind = "reset"
             \/ /\ call[Session(q)].at # "idle" /\ call'[Session(q)].at # "idle"
                /\ call'[Session(q)].kind = call[Session(q)].kind
                /\ call'[Session(q)].invited = call[Session(q)].invited
          /\ call'[Failure(q)].at # "idle" => call[Failure(q)].at # "idle"
      BY <1>b, <1>c, <2>1, IdleType DEF Alone, Ends
    <3> QED
      BY <1>c, <2>1, <3>1, StaysReady DEF Sessions
  <2> QED
    BY <2>1 DEF Sessions
<1>1. ASSUME Frozen PROVE Sessions'
  BY <1>1 DEF Frozen, clientVars, Sessions, Ready, Lost
<1>2. CASE UNCHANGED vars
  BY <1>2, <1>1 DEF vars, Frozen, historyVars
<1>3. CASE CallbackAborts \/ LookupRace
  BY <1>3, <1>1, CrashFreezes DEF CallbackAborts, LookupRace, Frozen, Faults
<1>4. ASSUME NEW p \in Peers, Connect(p) PROVE Sessions'
  <2>1. UNCHANGED call
    BY <1>4 DEF Connect
  <2> QED
    BY <1>4, <1>a, <2>1 DEF Connect, Sessions, Ready, Lost
<1>5. ASSUME NEW p \in Peers, Break(p) PROVE Sessions'
  <2>1. UNCHANGED call
    BY <1>5 DEF Break
  <2> QED
    BY <1>5, <1>a, <2>1 DEF Break, Sessions, Ready, Lost
<1>6. ASSUME NEW p \in Peers, Close(p) PROVE Sessions'
  <2>1. Alone(Session(p)) /\ call'[Session(p)].at = "unlist" /\ call'[Session(p)].kind = "close"
    BY <1>6, <1>b, ClientCalls DEF Begins
  <2>2. ASSUME NEW q \in Peers, q # p PROVE Ready(q)'
    <3>1. call'[Session(q)] = call[Session(q)] /\ call'[Failure(q)] = call[Failure(q)]
      BY <1>b, <2>1, <2>2, WorkerKinds DEF Alone
    <3>2. session'[q] = session[q] /\ (q \in trying' <=> q \in trying) /\ (lock' = q => lock = q)
      BY <1>6, <1>a, <1>b, <2>2 DEF Close, Unlock, clientVars
    <3> QED
      BY <2>2, <3>1, <3>2, StaysReady DEF Sessions
  <2>3. Ready(p)'
    BY <1>6, <1>a, <1>b, <2>1, WorkerKinds DEF Close, Sessions, Ready, Lost, Alone, Unlock,
         Quiet, Session, clientVars
  <2> QED
    BY <2>2, <2>3 DEF Sessions
<1>7. ASSUME NEW p \in Peers, Offer(p) PROVE Sessions'
  <2>1. Alone(Session(p)) /\ call'[Session(p)].at = "lookup" /\ call'[Session(p)].kind = "offer"
        /\ call'[Session(p)].invited = inChannel \ {p}
    BY <1>7, <1>b, ClientCalls DEF Begins
  <2>2. ASSUME NEW q \in Peers, q # p PROVE Ready(q)'
    <3>1. call'[Session(q)] = call[Session(q)] /\ call'[Failure(q)] = call[Failure(q)]
      BY <1>b, <2>1, <2>2, WorkerKinds DEF Alone
    <3>2. session'[q] = session[q] /\ (q \in trying' <=> q \in trying) /\ (lock' = q => lock = q)
      BY <1>7, <1>a, <1>b, <2>2 DEF Offer, Unlock, clientVars
    <3> QED
      BY <2>2, <3>1, <3>2, StaysReady DEF Sessions
  <2>3. Ready(p)'
    BY <1>7, <1>a, <1>b, <2>1, WorkerKinds DEF Offer, Sessions, Ready, Lost, Alone, Unlock,
         Quiet, Session, clientVars
  <2> QED
    BY <2>2, <2>3 DEF Sessions
<1>8. ASSUME NEW p \in Peers, OfferDropped(p) PROVE Sessions'
  <2>1. UNCHANGED call
    BY <1>8 DEF OfferDropped
  <2> QED
    BY <1>8, <1>a, <2>1 DEF OfferDropped, Sessions, Ready, Lost
<1>9. ASSUME NEW p \in Peers, SenderIce(p) PROVE Sessions'
  <2>1. Alone(Session(p)) /\ call'[Session(p)].at = "lookup" /\ call'[Session(p)].kind = "ice"
    BY <1>9, <1>b, ClientCalls DEF Begins
  <2>2. ASSUME NEW q \in Peers, q # p PROVE Ready(q)'
    <3>1. call'[Session(q)] = call[Session(q)] /\ call'[Failure(q)] = call[Failure(q)]
      BY <1>b, <2>1, <2>2, WorkerKinds DEF Alone
    <3>2. session'[q] = session[q] /\ (q \in trying' <=> q \in trying) /\ (lock' = q => lock = q)
      BY <1>9, <1>a, <1>b, <2>2 DEF SenderIce, Unlock, clientVars
    <3> QED
      BY <2>2, <3>1, <3>2, StaysReady DEF Sessions
  <2>3. Ready(p)'
    BY <1>9, <1>a, <1>b, <2>1, WorkerKinds DEF SenderIce, Sessions, Ready, Lost, Alone, Unlock,
         Quiet, Session, clientVars
  <2> QED
    BY <2>2, <2>3 DEF Sessions
<1>10. ASSUME NEW p \in Peers, ReceiverAnswer(p) PROVE Sessions'
  <2>1. Alone(Session(p)) /\ call'[Session(p)].at = "lookup" /\ call'[Session(p)].kind = "answer"
    BY <1>10, <1>b, ClientCalls DEF Begins
  <2>2. ASSUME NEW q \in Peers, q # p PROVE Ready(q)'
    <3>1. call'[Session(q)] = call[Session(q)] /\ call'[Failure(q)] = call[Failure(q)]
      BY <1>b, <2>1, <2>2, WorkerKinds DEF Alone
    <3>2. session'[q] = session[q] /\ (q \in trying' <=> q \in trying) /\ (lock' = q => lock = q)
      BY <1>10, <1>a, <1>b, <2>2 DEF ReceiverAnswer, Unlock, clientVars
    <3> QED
      BY <2>2, <3>1, <3>2, StaysReady DEF Sessions
  <2>3. Ready(p)'
    BY <1>10, <1>a, <1>b, <2>1, WorkerKinds DEF ReceiverAnswer, Sessions, Ready, Lost, Alone,
         Unlock, Quiet, Session, clientVars
  <2> QED
    BY <2>2, <2>3 DEF Sessions
<1>11. ASSUME NEW p \in Peers, ReceiverIce(p) PROVE Sessions'
  <2>1. Alone(Session(p)) /\ call'[Session(p)].at = "lookup" /\ call'[Session(p)].kind = "answer"
    BY <1>11, <1>b, ClientCalls DEF Begins
  <2>2. ASSUME NEW q \in Peers, q # p PROVE Ready(q)'
    <3>1. call'[Session(q)] = call[Session(q)] /\ call'[Failure(q)] = call[Failure(q)]
      BY <1>b, <2>1, <2>2, WorkerKinds DEF Alone
    <3>2. session'[q] = session[q] /\ (q \in trying' <=> q \in trying) /\ (lock' = q => lock = q)
      BY <1>11, <1>a, <1>b, <2>2 DEF ReceiverIce, Unlock, clientVars
    <3> QED
      BY <2>2, <3>1, <3>2, StaysReady DEF Sessions
  <2>3. Ready(p)'
    BY <1>11, <1>a, <1>b, <2>1, WorkerKinds DEF ReceiverIce, Sessions, Ready, Lost, Alone,
         Unlock, Quiet, Session, clientVars
  <2> QED
    BY <2>2, <2>3 DEF Sessions
<1>12. ASSUME NEW p \in Peers, VideoReset(p) PROVE Sessions'
  <2>1. Alone(Session(p)) /\ call'[Session(p)].at = "lookup" /\ call'[Session(p)].kind = "reset"
    BY <1>12, <1>b, ClientCalls DEF Begins
  <2>2. ASSUME NEW q \in Peers, q # p PROVE Ready(q)'
    <3>1. call'[Session(q)] = call[Session(q)] /\ call'[Failure(q)] = call[Failure(q)]
      BY <1>b, <2>1, <2>2, WorkerKinds DEF Alone
    <3>2. session'[q] = session[q] /\ (q \in trying' <=> q \in trying) /\ (lock' = q => lock = q)
      BY <1>12, <1>a, <1>b, <2>2 DEF VideoReset, Unlock, clientVars
    <3> QED
      BY <2>2, <3>1, <3>2, StaysReady DEF Sessions
  <2>3. Ready(p)'
    BY <1>12, <1>a, <1>b, <2>1, WorkerKinds DEF VideoReset, Sessions, Ready, Lost, Alone, Unlock,
         Quiet, Session, clientVars
  <2> QED
    BY <2>2, <2>3 DEF Sessions
<1>13. ASSUME NEW p \in Peers, CandidateFails(p) PROVE Sessions'
  <2>1. Alone(Failure(p)) /\ call'[Failure(p)].at = "lookup" /\ call'[Failure(p)].kind = "close"
    BY <1>13, <1>b, ClientCalls DEF Begins
  <2>2. ASSUME NEW q \in Peers, q # p PROVE Ready(q)'
    <3>1. call'[Session(q)] = call[Session(q)] /\ call'[Failure(q)] = call[Failure(q)]
      BY <1>b, <2>1, <2>2, WorkerKinds DEF Alone
    <3>2. session'[q] = session[q] /\ (q \in trying' <=> q \in trying) /\ (lock' = q => lock = q)
      BY <1>13, <1>a, <1>b, <2>2 DEF CandidateFails, Unlock, clientVars
    <3> QED
      BY <2>2, <3>1, <3>2, StaysReady DEF Sessions
  <2>3. Ready(p)'
    BY <1>13, <1>a, <1>b, <2>1, WorkerKinds DEF CandidateFails, Sessions, Ready, Lost, Alone,
         Unlock, Quiet, Session, clientVars
  <2> QED
    BY <2>2, <2>3 DEF Sessions
<1>14. ASSUME NEW bin \in Bins, Deliver(bin) PROVE Sessions'
  <2>1. UNCHANGED <<session, trying, lock>> /\ bin[2] \in Peers
    BY <1>14, DeliverCalls DEF Deliver, clientVars
  <2>2. CASE UNCHANGED call
    BY <2>1, <2>2 DEF Sessions, Ready, Lost
  <2>3. CASE session[bin[2]] # "open" /\ call[Failure(bin[2])].at = "idle"
             /\ Begins(Failure(bin[2]), "lookup", "close", bin[2], 0, {})
    <3>1. ASSUME NEW q \in Peers, q # bin[2] PROVE Ready(q)'
      BY <1>b, <2>1, <2>3, <3>1, WorkerKinds, StaysReady DEF Begins, Alone, Sessions
    <3>2. session[bin[2]] # "new"
      BY <1>14, <2>1 DEF Deliver, Strangers, Unknown
    <3>3. Ready(bin[2])'
      BY <1>b, <2>1, <2>3, <3>2, WorkerKinds DEF Begins, Alone, Sessions, Ready, Lost
    <3> QED
      BY <3>1, <3>3 DEF Sessions
  <2> QED
    BY <1>14, <2>2, <2>3, DeliverCalls
<1>15. CASE SignallingRestart
  <2>1. ASSUME NEW q \in Peers PROVE Ready(q)'
    <3>1. /\ session'[q] = IF session[q] \in {"open", "broken"} \/ Unlisting(q) THEN "lost" ELSE session[q]
          /\ lock' = NoPeer /\ trying' = {}
      BY <1>15 DEF SignallingRestart
    <3>2. /\ call'[Session(q)] = IF call[Session(q)].at = "unlist" THEN Idle ELSE call[Session(q)]
          /\ call'[Failure(q)].at # "idle" => call[Failure(q)].at # "idle"
      BY <1>15, <1>b, RestartCalls, IdleType
    <3>3. Ready(q)
      BY DEF Sessions
    <3> QED
      BY <1>a, <1>b, <3>1, <3>2, <3>3, IdleType DEF Ready, Lost
  <2> QED
    BY <2>1 DEF Sessions
<1>16. ASSUME NEW w \in Workers, Unlist(w) PROVE Sessions'
  <2>1. UNCHANGED <<session, trying>> /\ \A q \in Peers : lock' = q => lock = q
    BY <1>16, <1>b DEF Unlist, Unlock, clientVars
  <2>2. call[w].at # "idle"
    BY <1>16 DEF Unlist, At
  <2>3. /\ Alone(w)
        /\ \/ Ends(w)
           \/ call'[w].at # "idle" /\ call'[w].kind = call[w].kind /\ call'[w].invited = call[w].invited
    BY <1>16, WorkerCalls DEF Moves, Ends
  <2> QED
    BY <1>c, <2>1, <2>2, <2>3
<1>17. ASSUME NEW w \in Workers, Lookup(w) PROVE Sessions'
  <2>1. UNCHANGED <<session, trying>> /\ \A q \in Peers : lock' = q => lock = q
    BY <1>17, <1>b DEF Lookup, Unlock, clientVars
  <2>2. call[w].at # "idle"
    BY <1>17 DEF Lookup, At
  <2>3. /\ Alone(w)
        /\ \/ Ends(w)
           \/ call'[w].at # "idle" /\ call'[w].kind = call[w].kind /\ call'[w].invited = call[w].invited
    <3>1. call[w].kind \in Kinds \ {"bus"} /\ call[w].kind \in Kinds
      BY <1>17, <1>a, WorkerKinds DEF Lookup, At, CallRecords, CallsFit, Fits, TeardownPoints
    <3>2. Found(call[w].kind) # "idle"
      BY <3>1 DEF Found, Kinds
    <3> QED
      BY <1>17, <3>2, WorkerCalls DEF Ends
  <2> QED
    BY <1>c, <2>1, <2>2, <2>3
<1>18. ASSUME NEW w \in Workers, Create(w) PROVE Sessions'
  <2>1. UNCHANGED <<session, trying>> /\ \A q \in Peers : lock' = q => lock = q
    BY <1>18, <1>b DEF Create, Unlock, clientVars
  <2>2. call[w].at # "idle"
    BY <1>18 DEF Create, At
  <2>3. /\ Alone(w)
        /\ \/ Ends(w)
           \/ call'[w].at # "idle" /\ call'[w].kind = call[w].kind /\ call'[w].invited = call[w].invited
    BY <1>18, WorkerCalls DEF Moves, Ends
  <2> QED
    BY <1>c, <2>1, <2>2, <2>3
<1>19. ASSUME NEW w \in Workers, Ice(w) PROVE Sessions'
  <2>1. UNCHANGED <<session, trying>> /\ \A q \in Peers : lock' = q => lock = q
    BY <1>19, <1>b DEF Ice, Unlock, clientVars
  <2>2. call[w].at # "idle"
    BY <1>19 DEF Ice, At
  <2>3. /\ Alone(w)
        /\ \/ Ends(w)
           \/ call'[w].at # "idle" /\ call'[w].kind = call[w].kind /\ call'[w].invited = call[w].invited
    BY <1>19, WorkerCalls DEF Moves, Ends
  <2> QED
    BY <1>c, <2>1, <2>2, <2>3
<1>20. ASSUME NEW w \in Workers, Answer(w) PROVE Sessions'
  <2>1. UNCHANGED <<session, trying>> /\ \A q \in Peers : lock' = q => lock = q
    BY <1>20, <1>b DEF Answer, Unlock, clientVars
  <2>2. call[w].at # "idle"
    BY <1>20 DEF Answer, At
  <2>3. /\ Alone(w)
        /\ \/ Ends(w)
           \/ call'[w].at # "idle" /\ call'[w].kind = call[w].kind /\ call'[w].invited = call[w].invited
    BY <1>20, WorkerCalls DEF Moves, Ends
  <2> QED
    BY <1>c, <2>1, <2>2, <2>3
<1>21. ASSUME NEW w \in Workers, Apply(w) PROVE Sessions'
  <2>1. CASE Crash("freed")
    BY <2>1, <1>1, CrashFreezes DEF Faults
  <2>2. CASE ~Crash("freed")
    <3>1. UNCHANGED <<session, trying>> /\ \A q \in Peers : lock' = q => lock = q
      BY <1>21, <2>2, <1>b DEF Apply, Unlock, clientVars
    <3>2. call[w].at # "idle"
      BY <1>21, <2>2 DEF Apply, At
    <3>3. /\ Alone(w)
          /\ \/ Ends(w)
             \/ call'[w].at # "idle" /\ call'[w].kind = call[w].kind /\ call'[w].invited = call[w].invited
      BY <1>21, <2>2, WorkerCalls DEF Moves, Ends
    <3> QED
      BY <1>c, <3>1, <3>2, <3>3
  <2> QED
    BY <2>1, <2>2
<1>22. ASSUME NEW w \in Workers, Remove(w) PROVE Sessions'
  <2>1. UNCHANGED <<session, trying>> /\ \A q \in Peers : lock' = q => lock = q
    BY <1>22, <1>b DEF Remove, Unlock, clientVars
  <2>2. call[w].at # "idle"
    BY <1>22 DEF Remove, At
  <2>3. /\ Alone(w)
        /\ \/ Ends(w)
           \/ call'[w].at # "idle" /\ call'[w].kind = call[w].kind /\ call'[w].invited = call[w].invited
    BY <1>22, WorkerCalls DEF Moves, Ends
  <2> QED
    BY <1>c, <2>1, <2>2, <2>3
<1>23. ASSUME NEW w \in Workers, Free(w) PROVE Sessions'
  <2>1. UNCHANGED <<session, trying>> /\ \A q \in Peers : lock' = q => lock = q
    BY <1>23, <1>b DEF Free, Unlock, clientVars
  <2>2. call[w].at # "idle"
    BY <1>23 DEF Free, At
  <2>3. /\ Alone(w)
        /\ \/ Ends(w)
           \/ call'[w].at # "idle" /\ call'[w].kind = call[w].kind /\ call'[w].invited = call[w].invited
    BY <1>23, WorkerCalls DEF Moves, Ends
  <2> QED
    BY <1>c, <2>1, <2>2, <2>3
<1>24. ASSUME NEW w \in Workers, Strip(w) PROVE Sessions'
  <2>1. UNCHANGED <<session, trying>> /\ \A q \in Peers : lock' = q => lock = q
    BY <1>24, <1>b DEF Strip, Unlock, clientVars
  <2>2. call[w].at # "idle"
    BY <1>24 DEF Strip, At
  <2>3. /\ Alone(w)
        /\ \/ Ends(w)
           \/ call'[w].at # "idle" /\ call'[w].kind = call[w].kind /\ call'[w].invited = call[w].invited
    BY <1>24, WorkerCalls DEF Moves, Ends
  <2> QED
    BY <1>c, <2>1, <2>2, <2>3
<1>25. ASSUME NEW w \in Workers, StripErases(w) PROVE Sessions'
  BY <1>25, <1>1, CrashFreezes DEF StripErases, Faults
<1>26. ASSUME NEW w \in Workers, Nullify(w) PROVE Sessions'
  <2>1. UNCHANGED <<session, trying>> /\ \A q \in Peers : lock' = q => lock = q
    BY <1>26, <1>b DEF Nullify, Unlock, clientVars
  <2>2. call[w].at # "idle"
    BY <1>26 DEF Nullify, At
  <2>3. /\ Alone(w)
        /\ \/ Ends(w)
           \/ call'[w].at # "idle" /\ call'[w].kind = call[w].kind /\ call'[w].invited = call[w].invited
    BY <1>26, WorkerCalls DEF Moves, Ends
  <2> QED
    BY <1>c, <2>1, <2>2, <2>3
<1>27. ASSUME NEW w \in Workers, NullifyTimeout(w) PROVE Sessions'
  <2>1. UNCHANGED <<session, trying>> /\ \A q \in Peers : lock' = q => lock = q
    BY <1>27, <1>b DEF NullifyTimeout, Unlock, clientVars
  <2>2. call[w].at # "idle"
    BY <1>27 DEF NullifyTimeout, At
  <2>3. /\ Alone(w)
        /\ \/ Ends(w)
           \/ call'[w].at # "idle" /\ call'[w].kind = call[w].kind /\ call'[w].invited = call[w].invited
    BY <1>27, WorkerCalls DEF Moves, Ends
  <2> QED
    BY <1>c, <2>1, <2>2, <2>3
<1>28. ASSUME NEW w \in Workers, Forget(w) PROVE Sessions'
  <2>1. UNCHANGED <<session, trying>> /\ \A q \in Peers : lock' = q => lock = q
    BY <1>28, <1>b DEF Forget, Unlock, clientVars
  <2>2. call[w].at # "idle"
    BY <1>28 DEF Forget, At
  <2>3. /\ Alone(w)
        /\ \/ Ends(w)
           \/ call'[w].at # "idle" /\ call'[w].kind = call[w].kind /\ call'[w].invited = call[w].invited
    BY <1>28, WorkerCalls DEF Moves, Ends
  <2> QED
    BY <1>c, <2>1, <2>2, <2>3
<1>29. ASSUME NEW w \in Workers, NullifyLate(w) PROVE Sessions'
  <2>1. UNCHANGED <<session, trying>> /\ \A q \in Peers : lock' = q => lock = q
    BY <1>29, <1>b DEF NullifyLate, Unlock, clientVars
  <2>2. call[w].at # "idle"
    BY <1>29 DEF NullifyLate, At
  <2>3. /\ Alone(w)
        /\ \/ Ends(w)
           \/ call'[w].at # "idle" /\ call'[w].kind = call[w].kind /\ call'[w].invited = call[w].invited
    BY <1>29, WorkerCalls DEF Moves, Ends
  <2> QED
    BY <1>c, <2>1, <2>2, <2>3
<1>30. ASSUME NEW w \in Workers, Quit(w) PROVE Sessions'
  <2>1. CASE Crash("freed")
    BY <2>1, <1>1, CrashFreezes DEF Faults
  <2>2. CASE ~Crash("freed")
    <3>1. UNCHANGED <<session, trying>> /\ \A q \in Peers : lock' = q => lock = q
      BY <1>30, <2>2, <1>b DEF Quit, Unlock, clientVars
    <3>2. call[w].at # "idle"
      BY <1>30, <2>2 DEF Quit, At
    <3>3. /\ Alone(w)
          /\ \/ Ends(w)
             \/ call'[w].at # "idle" /\ call'[w].kind = call[w].kind /\ call'[w].invited = call[w].invited
      BY <1>30, <2>2, WorkerCalls DEF Moves, Ends
    <3> QED
      BY <1>c, <3>1, <3>2, <3>3
  <2> QED
    BY <2>1, <2>2
<1>31. ASSUME NEW w \in Workers, Unmap(w) PROVE Sessions'
  <2>1. UNCHANGED <<session, trying>> /\ \A q \in Peers : lock' = q => lock = q
    BY <1>31, <1>b DEF Unmap, Unlock, clientVars
  <2>2. call[w].at # "idle"
    BY <1>31 DEF Unmap, At
  <2>3. /\ Alone(w)
        /\ \/ Ends(w)
           \/ call'[w].at # "idle" /\ call'[w].kind = call[w].kind /\ call'[w].invited = call[w].invited
    BY <1>31, WorkerCalls DEF Moves, Ends
  <2> QED
    BY <1>c, <2>1, <2>2, <2>3
<1>32. ASSUME NEW n \in Offers, BusMessage(n) PROVE Sessions'
  <2>1. UNCHANGED <<session, trying, lock>> /\ Alone(BusWorker)
    BY <1>32, <1>a DEF BusMessage, clientVars, Alone
  <2>2. ASSUME NEW q \in Peers PROVE Ready(q)'
    BY <1>b, <2>1, <2>2, WorkerKinds, StaysReady DEF Alone, Sessions
  <2> QED
    BY <2>2 DEF Sessions
<1>33. ASSUME NEW n \in Offers, LaunchFetch(n) PROVE Sessions'
  <2>1. UNCHANGED <<session, trying, lock, call>>
    BY <1>33 DEF LaunchFetch, clientVars
  <2> QED
    BY <2>1 DEF Sessions, Ready, Lost
<1>34. ASSUME NEW n \in Offers, LaunchBuild(n) PROVE Sessions'
  <2>1. UNCHANGED <<session, trying, lock, call>>
    BY <1>34 DEF LaunchBuild, clientVars
  <2> QED
    BY <2>1 DEF Sessions, Ready, Lost
<1>35. ASSUME NEW n \in Offers, LaunchReceivers(n) PROVE Sessions'
  <2>1. CASE Crash("assert")
    BY <2>1, <1>1, CrashFreezes DEF Faults
  <2>2. CASE ~Crash("assert")
    <3>1. UNCHANGED <<session, trying, lock, call>>
      BY <1>35, <2>2 DEF LaunchReceivers, clientVars
    <3> QED
      BY <3>1 DEF Sessions, Ready, Lost
  <2> QED
    BY <2>1, <2>2
<1>36. ASSUME NEW n \in Offers, LaunchPlay(n) PROVE Sessions'
  <2>1. UNCHANGED <<session, trying, lock, call>>
    BY <1>36 DEF LaunchPlay, clientVars
  <2> QED
    BY <2>1 DEF Sessions, Ready, Lost
<1>37. ASSUME NEW n \in Offers, LaunchLoop(n) PROVE Sessions'
  <2>1. UNCHANGED <<session, trying, lock, call>>
    BY <1>37 DEF LaunchLoop, clientVars
  <2> QED
    BY <2>1 DEF Sessions, Ready, Lost
<1> QED
  BY <1>1, <1>2, <1>3, <1>4, <1>5, <1>6, <1>7, <1>8, <1>9, <1>10, <1>11, <1>12, <1>13,
     <1>14, <1>15, <1>16, <1>17, <1>18, <1>19, <1>20, <1>21, <1>22, <1>23, <1>24,
     <1>25, <1>26, <1>27, <1>28, <1>29, <1>30, <1>31, <1>32, <1>33, <1>34, <1>35,
     <1>36, <1>37
     DEF Next, Step, Proceed, Launch, Client

\* Peers known nowhere stay so when everything names the same peers or fewer.
LEMMA StaysUnknown ==
  ASSUME NEW q \in Peers, Unknown(q), q \in inChannel' => q \in inChannel,
         \A w \in Workers : q \in call'[w].invited => q \in call[w].invited,
         \A n \in Offers :
            /\ handlers'[n].sender = q => handlers[n].sender = q
            /\ q \in handlers'[n].receivers => q \in handlers[n].receivers
            /\ \A bin \in bins'[n] : bin[2] = q => \E b \in bins[n] : b[2] = q,
         \A bin \in toDeliver' : bin[2] = q => \E b \in toDeliver : b[2] = q
  PROVE  Unknown(q)'
  BY DEF Unknown

\* Every step leaves peers that have not connected unknown.
LEMMA NextStrangers ==
  ASSUME TypeOK, CallsFit, Launches, Fresh, Sessions, Strangers, [Next]_vars PROVE Strangers'
<1>a. /\ call \in [Workers -> CallRecords] /\ handlers \in [Offers -> HandlerRecords]
      /\ bins \in [Offers -> SUBSET Bins] /\ launch \in [Offers -> LaunchRecords]
      /\ session \in [Peers -> {"new", "open", "broken", "closed", "lost"}]
      /\ current \in 0..MaxOffers
  BY DEF TypeOK
<1>b. 0..MaxOffers = Offers \cup {0} /\ Idle.invited = {}
  BY ChannelAssumption DEF Offers, Idle
<1>c. ASSUME NEW q \in Peers, session'[q] = "new", UNCHANGED inChannel, session[q] = "new",
             \A w \in Workers : call'[w].invited \in {call[w].invited, {}},
             UNCHANGED <<handlers, bins>>, toDeliver' \subseteq toDeliver
      PROVE  Unknown(q)'
  BY <1>c, StaysUnknown DEF Strangers
<1>d. ASSUME UNCHANGED <<session, inChannel, handlers, bins>>, toDeliver' \subseteq toDeliver,
             \A w \in Workers : call'[w].invited \in {call[w].invited, {}}
      PROVE  Strangers'
  BY <1>c, <1>d DEF Strangers
<1>1. ASSUME Frozen PROVE Strangers'
  BY <1>1, <1>d DEF Frozen, clientVars, serverVars
<1>2. CASE UNCHANGED vars
  BY <1>2, <1>1 DEF vars, Frozen, historyVars
<1>3. CASE CallbackAborts \/ LookupRace
  BY <1>3, <1>1, CrashFreezes DEF CallbackAborts, LookupRace, Frozen, Faults
<1>4. ASSUME NEW p \in Peers, Connect(p) PROVE Strangers'
  <2>1. ASSUME NEW q \in Peers, session'[q] = "new" PROVE Unknown(q)'
    <3>1. session[q] = "new" /\ q # p
      BY <1>4, <1>a, <2>1 DEF Connect
    <3> QED
      BY <1>4, <3>1 DEF Connect, serverVars, Strangers, Unknown
  <2> QED
    BY <2>1 DEF Strangers
<1>5. ASSUME NEW p \in Peers, Break(p) PROVE Strangers'
  <2>1. ASSUME NEW q \in Peers, session'[q] = "new" PROVE Unknown(q)'
    BY <1>5, <1>a, <1>c, <2>1 DEF Break, serverVars
  <2> QED
    BY <2>1 DEF Strangers
<1>6. ASSUME NEW p \in Peers, Close(p) PROVE Strangers'
  <2>1. \A w \in Workers : call'[w] = call[w] \/ call'[w].invited = {}
    BY <1>6, ClientCalls DEF Begins, Alone
  <2>2. ASSUME NEW q \in Peers, session'[q] = "new" PROVE Unknown(q)'
    <3>1. session[q] = "new" /\ UNCHANGED <<inChannel, handlers, bins>> /\ toDeliver' \subseteq toDeliver
      BY <1>6, <1>a, <2>2 DEF Close, clientVars, serverVars
    <3> QED
      BY <2>1, <2>2, <3>1, <1>c
  <2> QED
    BY <2>2 DEF Strangers
<1>7. ASSUME NEW p \in Peers, Offer(p) PROVE Strangers'
  <2>1. \A w \in Workers : call'[w] = call[w] \/ call'[w].invited = inChannel \ {p}
    BY <1>7, ClientCalls DEF Begins, Alone
  <2>2. ASSUME NEW q \in Peers, session'[q] = "new" PROVE Unknown(q)'
    <3>1. session[q] = "new" /\ UNCHANGED <<inChannel, handlers, bins>> /\ toDeliver' \subseteq toDeliver
      BY <1>7, <1>a, <2>2 DEF Offer, clientVars, serverVars
    <3> QED
      BY <2>1, <2>2, <3>1, StaysUnknown DEF Strangers, Unknown
  <2> QED
    BY <2>2 DEF Strangers
<1>8. ASSUME NEW p \in Peers, OfferDropped(p) PROVE Strangers'
  <2>1. ASSUME NEW q \in Peers, session'[q] = "new" PROVE Unknown(q)'
    BY <1>8, <1>a, <1>c, <2>1 DEF OfferDropped, serverVars
  <2> QED
    BY <2>1 DEF Strangers
<1>9. ASSUME NEW p \in Peers, SenderIce(p) PROVE Strangers'
  <2>1. \A w \in Workers : call'[w] = call[w] \/ call'[w].invited = {}
    BY <1>9, ClientCalls DEF Begins, Alone
  <2>2. ASSUME NEW q \in Peers, session'[q] = "new" PROVE Unknown(q)'
    <3>1. session[q] = "new" /\ UNCHANGED <<inChannel, handlers, bins>> /\ toDeliver' \subseteq toDeliver
      BY <1>9, <1>a, <2>2 DEF SenderIce, clientVars, serverVars
    <3> QED
      BY <2>1, <2>2, <3>1, <1>c
  <2> QED
    BY <2>2 DEF Strangers
<1>10. ASSUME NEW p \in Peers, ReceiverAnswer(p) PROVE Strangers'
  <2>1. \A w \in Workers : call'[w] = call[w] \/ call'[w].invited = {}
    BY <1>10, ClientCalls DEF Begins, Alone
  <2>2. ASSUME NEW q \in Peers, session'[q] = "new" PROVE Unknown(q)'
    <3>1. session[q] = "new" /\ UNCHANGED <<inChannel, handlers, bins>> /\ toDeliver' \subseteq toDeliver
      BY <1>10, <1>a, <2>2 DEF ReceiverAnswer, clientVars, serverVars
    <3> QED
      BY <2>1, <2>2, <3>1, <1>c
  <2> QED
    BY <2>2 DEF Strangers
<1>11. ASSUME NEW p \in Peers, ReceiverIce(p) PROVE Strangers'
  <2>1. \A w \in Workers : call'[w] = call[w] \/ call'[w].invited = {}
    BY <1>11, ClientCalls DEF Begins, Alone
  <2>2. ASSUME NEW q \in Peers, session'[q] = "new" PROVE Unknown(q)'
    <3>1. session[q] = "new" /\ UNCHANGED <<inChannel, handlers, bins>> /\ toDeliver' \subseteq toDeliver
      BY <1>11, <1>a, <2>2 DEF ReceiverIce, clientVars, serverVars
    <3> QED
      BY <2>1, <2>2, <3>1, <1>c
  <2> QED
    BY <2>2 DEF Strangers
<1>12. ASSUME NEW p \in Peers, VideoReset(p) PROVE Strangers'
  <2>1. \A w \in Workers : call'[w] = call[w] \/ call'[w].invited = {}
    BY <1>12, ClientCalls DEF Begins, Alone
  <2>2. ASSUME NEW q \in Peers, session'[q] = "new" PROVE Unknown(q)'
    <3>1. session[q] = "new" /\ UNCHANGED <<inChannel, handlers, bins>> /\ toDeliver' \subseteq toDeliver
      BY <1>12, <1>a, <2>2 DEF VideoReset, clientVars, serverVars
    <3> QED
      BY <2>1, <2>2, <3>1, <1>c
  <2> QED
    BY <2>2 DEF Strangers
<1>13. ASSUME NEW p \in Peers, CandidateFails(p) PROVE Strangers'
  <2>1. \A w \in Workers : call'[w] = call[w] \/ call'[w].invited = {}
    BY <1>13, ClientCalls DEF Begins, Alone
  <2>2. ASSUME NEW q \in Peers, session'[q] = "new" PROVE Unknown(q)'
    <3>1. session[q] = "new" /\ UNCHANGED <<inChannel, handlers, bins>> /\ toDeliver' \subseteq toDeliver
      BY <1>13, <1>a, <2>2 DEF CandidateFails, clientVars, serverVars
    <3> QED
      BY <2>1, <2>2, <3>1, <1>c
  <2> QED
    BY <2>2 DEF Strangers
<1>14. ASSUME NEW bin \in Bins, Deliver(bin) PROVE Strangers'
  <2>1. \A w \in Workers : call'[w].invited \in {call[w].invited, {}}
    BY <1>14, DeliverCalls DEF Begins, Alone
  <2> QED
    BY <1>14, <1>d, <2>1 DEF Deliver, clientVars
<1>15. CASE SignallingRestart
  <2>1. \A w \in Workers : call'[w].invited \in {call[w].invited, {}}
    BY <1>15, <1>b, RestartCalls
  <2>2. ASSUME NEW q \in Peers, session'[q] = "new" PROVE Unknown(q)'
    <3>1. session[q] = "new"
      BY <1>15, <2>2 DEF SignallingRestart
    <3>2. UNCHANGED <<handlers, bins>> /\ toDeliver' \subseteq toDeliver /\ inChannel' = {}
      BY <1>15 DEF SignallingRestart
    <3> QED
      BY <2>1, <2>2, <3>1, <3>2, StaysUnknown DEF Strangers
  <2> QED
    BY <2>2 DEF Strangers
<1>16. ASSUME NEW w \in Workers, Unlist(w) PROVE Strangers'
  <2>1. \A v \in Workers : call'[v].invited \in {call[v].invited, {}}
    BY <1>16, <1>b, WorkerCalls DEF Moves, Ends, Alone
  <2>2. ASSUME NEW q \in Peers, session'[q] = "new" PROVE Unknown(q)'
    <3>1. session[q] = "new" /\ inChannel' \subseteq inChannel /\ UNCHANGED serverVars
      BY <1>16, <2>2 DEF Unlist
    <3> QED
      BY <2>1, <2>2, <3>1 DEF Strangers, Unknown, serverVars
  <2> QED
    BY <2>2 DEF Strangers
<1>17. ASSUME NEW w \in Workers, Lookup(w) PROVE Strangers'
  <2>1. \A v \in Workers : call'[v].invited \in {call[v].invited, {}}
    BY <1>17, <1>b, WorkerCalls DEF Moves, Ends, Alone
  <2> QED
    BY <1>17, <1>d, <2>1 DEF Lookup, clientVars, serverVars
<1>18. ASSUME NEW w \in Workers, Create(w) PROVE Strangers'
  <2>1. \A v \in Workers : call'[v].invited \in {call[v].invited, {}}
    BY <1>18, <1>b, WorkerCalls DEF Moves, Ends, Alone
  <2> DEFINE h == IF call[w].handler = 0 THEN call[w].offer ELSE call[w].handler
  <2>2. call[w].offer \in Offers /\ Pending(w) /\ h \in Offers
    BY <1>18, <1>a, <1>b, OfferPending DEF Create, At, Pending, CallRecords
  <2>3. \A n \in Offers :
           /\ n # h => handlers'[n] = handlers[n]
           /\ n = h => /\ handlers'[n].sender = Caller(w)
                       /\ handlers'[n].receivers = handlers[n].receivers \cup call[w].invited
    BY <1>18, <1>a, <2>2 DEF Create, SetHandler, HandlerRecords
  <2>4. UNCHANGED <<session, inChannel, toDeliver, bins>>
    BY <1>18 DEF Create, clientVars
  <2> HIDE DEF h
  <2>5. Caller(w) \in Peers /\ session[Caller(w)] # "new"
    <3>1. w # BusWorker /\ w[2] # "failure" /\ Caller(w) = w[1]
      BY <1>18, <2>2 DEF Create, At, CallsFit, Fits, Pending, Caller
    <3>2. w = Session(Caller(w)) /\ Caller(w) \in Peers
      BY <3>1, WorkerKinds
    <3> QED
      BY <1>18, <3>2 DEF Create, At, Sessions, Ready
  <2>6. ASSUME NEW q \in Peers, session'[q] = "new" PROVE Unknown(q)'
    <3>1. Unknown(q) /\ q # Caller(w)
      BY <2>4, <2>5, <2>6 DEF Strangers
    <3> QED
      BY <2>1, <2>3, <2>4, <3>1 DEF Unknown
  <2> QED
    BY <2>6 DEF Strangers
<1>19. ASSUME NEW w \in Workers, Ice(w) PROVE Strangers'
  <2>1. \A v \in Workers : call'[v].invited \in {call[v].invited, {}}
    BY <1>19, <1>b, WorkerCalls DEF Moves, Ends, Alone
  <2> QED
    BY <1>19, <1>d, <2>1 DEF Ice, clientVars, serverVars
<1>20. ASSUME NEW w \in Workers, Answer(w) PROVE Strangers'
  <2>1. \A v \in Workers : call'[v].invited \in {call[v].invited, {}}
    BY <1>20, <1>b, WorkerCalls DEF Moves, Ends, Alone
  <2> QED
    BY <1>20, <1>d, <2>1 DEF Answer, clientVars, serverVars
<1>21. ASSUME NEW w \in Workers, Apply(w) PROVE Strangers'
  <2>1. CASE Crash("freed")
    BY <2>1, <1>1, CrashFreezes DEF Faults
  <2>2. CASE ~Crash("freed")
    <3>1. \A v \in Workers : call'[v].invited \in {call[v].invited, {}}
      BY <1>21, <2>2, <1>b, WorkerCalls DEF Moves, Ends, Alone
    <3> QED
      BY <1>21, <2>2, <1>d, <3>1 DEF Apply, clientVars, serverVars
  <2> QED
    BY <2>1, <2>2
<1>22. ASSUME NEW w \in Workers, Remove(w) PROVE Strangers'
  <2>1. \A v \in Workers : call'[v].invited \in {call[v].invited, {}}
    BY <1>22, <1>b, WorkerCalls DEF Moves, Ends, Alone
  <2>2. call[w].handler \in Offers /\ Handler(w) \in HandlerRecords
    BY <1>22, CallHandlers DEF Remove, At
  <2>3. \A n \in Offers :
           /\ handlers'[n].sender = handlers[n].sender
           /\ handlers'[n].receivers \subseteq handlers[n].receivers
    BY <1>22, <1>a, <2>2 DEF Remove, SetHandler, Handler, HandlerRecords
  <2>4. \A n \in Offers : bins'[n] \subseteq bins[n]
    BY <1>22, <1>a DEF Remove
  <2>5. UNCHANGED <<session, inChannel, toDeliver>>
    BY <1>22 DEF Remove, clientVars
  <2>6. ASSUME NEW q \in Peers, session'[q] = "new" PROVE Unknown(q)'
    BY <2>1, <2>3, <2>4, <2>5, <2>6 DEF Strangers, Unknown
  <2> QED
    BY <2>6 DEF Strangers
<1>23. ASSUME NEW w \in Workers, Free(w) PROVE Strangers'
  <2>1. \A v \in Workers : call'[v].invited \in {call[v].invited, {}}
    BY <1>23, <1>b, WorkerCalls DEF Moves, Ends, Alone
  <2> QED
    BY <1>23, <1>d, <2>1 DEF Free, clientVars, serverVars
<1>24. ASSUME NEW w \in Workers, Strip(w) PROVE Strangers'
  <2>1. \A v \in Workers : call'[v].invited \in {call[v].invited, {}}
    BY <1>24, <1>b, WorkerCalls DEF Moves, Ends, Alone
  <2>2. call[w].handler \in Offers /\ Handler(w) \in HandlerRecords
    BY <1>24, CallHandlers DEF Strip, At
  <2>3. \A n \in Offers :
           /\ handlers'[n].sender = handlers[n].sender
           /\ handlers'[n].receivers \subseteq handlers[n].receivers
    BY <1>24, <1>a, <2>2 DEF Strip, SetHandler, Handler, HandlerRecords
  <2>4. \A n \in Offers : bins'[n] \subseteq bins[n]
    BY <1>24, <1>a DEF Strip
  <2>5. UNCHANGED <<session, inChannel, toDeliver>>
    BY <1>24 DEF Strip, clientVars
  <2>6. ASSUME NEW q \in Peers, session'[q] = "new" PROVE Unknown(q)'
    BY <2>1, <2>3, <2>4, <2>5, <2>6 DEF Strangers, Unknown
  <2> QED
    BY <2>6 DEF Strangers
<1>25. ASSUME NEW w \in Workers, StripErases(w) PROVE Strangers'
  BY <1>25, <1>1, CrashFreezes DEF StripErases, Faults
<1>26. ASSUME NEW w \in Workers, Nullify(w) PROVE Strangers'
  <2>1. \A v \in Workers : call'[v].invited \in {call[v].invited, {}}
    BY <1>26, <1>b, WorkerCalls DEF Moves, Ends, Alone
  <2> QED
    BY <1>26, <1>d, <2>1 DEF Nullify, clientVars, serverVars
<1>27. ASSUME NEW w \in Workers, NullifyTimeout(w) PROVE Strangers'
  <2>1. \A v \in Workers : call'[v].invited \in {call[v].invited, {}}
    BY <1>27, <1>b, WorkerCalls DEF Moves, Ends, Alone
  <2>2. call[w].handler \in Offers /\ Handler(w) \in HandlerRecords
    BY <1>27, CallHandlers DEF NullifyTimeout, At
  <2>3. \A n \in Offers :
           /\ handlers'[n].sender = handlers[n].sender
           /\ handlers'[n].receivers \subseteq handlers[n].receivers
    BY <1>27, <1>a, <2>2 DEF NullifyTimeout, SetHandler, Handler, HandlerRecords
  <2>4. \A n \in Offers : bins'[n] \subseteq bins[n]
    BY <1>27, <1>a DEF NullifyTimeout
  <2>5. UNCHANGED <<session, inChannel, toDeliver>>
    BY <1>27 DEF NullifyTimeout, clientVars
  <2>6. ASSUME NEW q \in Peers, session'[q] = "new" PROVE Unknown(q)'
    BY <2>1, <2>3, <2>4, <2>5, <2>6 DEF Strangers, Unknown
  <2> QED
    BY <2>6 DEF Strangers
<1>28. ASSUME NEW w \in Workers, Forget(w) PROVE Strangers'
  <2>1. \A v \in Workers : call'[v].invited \in {call[v].invited, {}}
    BY <1>28, <1>b, WorkerCalls DEF Moves, Ends, Alone
  <2>2. call[w].handler \in Offers /\ Handler(w) \in HandlerRecords
    BY <1>28, CallHandlers DEF Forget, At
  <2>3. \A n \in Offers :
           /\ handlers'[n].sender = handlers[n].sender
           /\ handlers'[n].receivers \subseteq handlers[n].receivers
    BY <1>28, <1>a, <2>2 DEF Forget, SetHandler, Handler, HandlerRecords
  <2>4. \A n \in Offers : bins'[n] \subseteq bins[n]
    BY <1>28, <1>a DEF Forget
  <2>5. UNCHANGED <<session, inChannel, toDeliver>>
    BY <1>28 DEF Forget, clientVars
  <2>6. ASSUME NEW q \in Peers, session'[q] = "new" PROVE Unknown(q)'
    BY <2>1, <2>3, <2>4, <2>5, <2>6 DEF Strangers, Unknown
  <2> QED
    BY <2>6 DEF Strangers
<1>29. ASSUME NEW w \in Workers, NullifyLate(w) PROVE Strangers'
  <2>1. \A v \in Workers : call'[v].invited \in {call[v].invited, {}}
    BY <1>29, <1>b, WorkerCalls DEF Moves, Ends, Alone
  <2> QED
    BY <1>29, <1>d, <2>1 DEF NullifyLate, clientVars, serverVars
<1>30. ASSUME NEW w \in Workers, Quit(w) PROVE Strangers'
  <2>1. CASE Crash("freed")
    BY <2>1, <1>1, CrashFreezes DEF Faults
  <2>2. CASE ~Crash("freed")
    <3>1. \A v \in Workers : call'[v].invited \in {call[v].invited, {}}
      BY <1>30, <2>2, <1>b, WorkerCalls DEF Moves, Ends, Alone
    <3> QED
      BY <1>30, <2>2, <1>d, <3>1 DEF Quit, clientVars, serverVars
  <2> QED
    BY <2>1, <2>2
<1>31. ASSUME NEW w \in Workers, Unmap(w) PROVE Strangers'
  <2>1. \A v \in Workers : call'[v].invited \in {call[v].invited, {}}
    BY <1>31, <1>b, WorkerCalls DEF Moves, Ends, Alone
  <2> QED
    BY <1>31, <1>d, <2>1 DEF Unmap, clientVars, serverVars
<1>32. ASSUME NEW n \in Offers, BusMessage(n) PROVE Strangers'
  <2>1. \A w \in Workers : call'[w].invited \in {call[w].invited, {}}
    BY <1>32, <1>a DEF BusMessage, Idle
  <2> QED
    BY <1>32, <1>d, <2>1 DEF BusMessage, clientVars
<1>33. ASSUME NEW n \in Offers, LaunchFetch(n) PROVE Strangers'
  BY <1>33, <1>d DEF LaunchFetch, clientVars
<1>34. ASSUME NEW n \in Offers, LaunchBuild(n) PROVE Strangers'
  <2>1. launch[n].handler \in Offers
    BY <1>34, <1>a, <1>b DEF LaunchBuild, LaunchAt, Launches, LaunchRecords
  <2>2. UNCHANGED <<session, inChannel, call>>
    BY <1>34 DEF LaunchBuild, clientVars
  <2>3. \A m \in Offers : handlers'[m].sender = handlers[m].sender /\ handlers'[m].receivers = handlers[m].receivers
    BY <1>34, <1>a DEF LaunchBuild, SetHandler, HandlerRecords
  <2>4. ASSUME NEW q \in Peers, session'[q] = "new" PROVE Unknown(q)'
    <3>1. Unknown(q)
      BY <2>2, <2>4 DEF Strangers
    <3>2. \A m \in Offers : \A bin \in bins'[m] : bin[2] # q
      BY <1>34, <1>a, <2>1, <3>1 DEF LaunchBuild, Unknown
    <3>3. \A bin \in toDeliver' : bin[2] # q
      BY <1>34, <3>1 DEF LaunchBuild, Unknown
    <3> QED
      BY <2>2, <2>3, <3>1, <3>2, <3>3 DEF Unknown
  <2> QED
    BY <2>4 DEF Strangers
<1>35. ASSUME NEW n \in Offers, LaunchReceivers(n) PROVE Strangers'
  <2>1. CASE Crash("assert")
    BY <2>1, <1>1, CrashFreezes DEF Faults
  <2>2. CASE ~Crash("assert")
    <3>1. launch[n].handler \in Offers
      BY <1>35, <2>2, <1>a, <1>b DEF LaunchReceivers, LaunchAt, Launches, LaunchRecords
    <3>2. UNCHANGED <<session, inChannel, call>>
      BY <1>35, <2>2 DEF LaunchReceivers, clientVars
    <3>3. \A m \in Offers : handlers'[m].sender = handlers[m].sender /\ handlers'[m].receivers = handlers[m].receivers
      BY <1>35, <2>2, <1>a DEF LaunchReceivers, SetHandler, HandlerRecords
    <3>4. ASSUME NEW q \in Peers, session'[q] = "new" PROVE Unknown(q)'
      <4>1. Unknown(q)
        BY <3>2, <3>4 DEF Strangers
      <4>2. \A m \in Offers : \A bin \in bins'[m] : bin[2] # q
        BY <1>35, <2>2, <1>a, <3>1, <4>1 DEF LaunchReceivers, Unknown
      <4>3. \A bin \in toDeliver' : bin[2] # q
        BY <1>35, <2>2, <4>1 DEF LaunchReceivers, Unknown
      <4> QED
        BY <3>2, <3>3, <4>1, <4>2, <4>3 DEF Unknown
    <3> QED
      BY <3>4 DEF Strangers
  <2> QED
    BY <2>1, <2>2
<1>36. ASSUME NEW n \in Offers, LaunchPlay(n) PROVE Strangers'
  <2>1. launch[n].handler \in Offers
    BY <1>36, <1>a, <1>b DEF LaunchPlay, LaunchAt, Launches, LaunchRecords
  <2>2. UNCHANGED <<session, inChannel, call>>
    BY <1>36 DEF LaunchPlay, clientVars
  <2>3. \A m \in Offers : handlers'[m].sender = handlers[m].sender /\ handlers'[m].receivers = handlers[m].receivers
    BY <1>36, <1>a DEF LaunchPlay, SetHandler, HandlerRecords
  <2>4. ASSUME NEW q \in Peers, session'[q] = "new" PROVE Unknown(q)'
    <3>1. Unknown(q)
      BY <2>2, <2>4 DEF Strangers
    <3>2. \A m \in Offers : \A bin \in bins'[m] : bin[2] # q
      BY <1>36, <3>1 DEF LaunchPlay, Unknown
    <3>3. \A bin \in toDeliver' : bin[2] # q
      <4>1. handlers[launch[n].handler].pipeline \in Offers \cup {0}
        BY <1>a, <1>b, <2>1 DEF HandlerRecords
      <4> QED
        BY <1>36, <1>b, <3>1, <4>1 DEF LaunchPlay, Unknown
    <3> QED
      BY <2>2, <2>3, <3>1, <3>2, <3>3 DEF Unknown
  <2> QED
    BY <2>4 DEF Strangers
<1>37. ASSUME NEW n \in Offers, LaunchLoop(n) PROVE Strangers'
  <2>1. launch[n].handler \in Offers
    BY <1>37, <1>a, <1>b DEF LaunchLoop, LaunchAt, Launches, LaunchRecords
  <2>2. UNCHANGED <<session, inChannel, call>>
    BY <1>37 DEF LaunchLoop, clientVars
  <2>3. \A m \in Offers : handlers'[m].sender = handlers[m].sender /\ handlers'[m].receivers = handlers[m].receivers
    BY <1>37, <1>a DEF LaunchLoop, SetHandler, HandlerRecords
  <2>4. ASSUME NEW q \in Peers, session'[q] = "new" PROVE Unknown(q)'
    <3>1. Unknown(q)
      BY <2>2, <2>4 DEF Strangers
    <3>2. \A m \in Offers : \A bin \in bins'[m] : bin[2] # q
      BY <1>37, <3>1 DEF LaunchLoop, Unknown
    <3>3. \A bin \in toDeliver' : bin[2] # q
      BY <1>37, <3>1 DEF LaunchLoop, Unknown
    <3> QED
      BY <2>2, <2>3, <3>1, <3>2, <3>3 DEF Unknown
  <2> QED
    BY <2>4 DEF Strangers
<1> QED
  BY <1>1, <1>2, <1>3, <1>4, <1>5, <1>6, <1>7, <1>8, <1>9, <1>10, <1>11, <1>12, <1>13,
     <1>14, <1>15, <1>16, <1>17, <1>18, <1>19, <1>20, <1>21, <1>22, <1>23, <1>24,
     <1>25, <1>26, <1>27, <1>28, <1>29, <1>30, <1>31, <1>32, <1>33, <1>34, <1>35,
     <1>36, <1>37
     DEF Next, Step, Proceed, Launch, Client

\* Nothing has overlapped before, when nothing has after a step.
LEMMA TidyBefore ==
  ASSUME TypeOK, [Next]_vars, Tidy' PROVE Tidy
<1>a. overlapped \in BOOLEAN /\ slow \in BOOLEAN
  BY DEF TypeOK
<1> USE <1>a DEF Tidy, historyVars
<1>1. CASE UNCHANGED vars
  BY <1>1 DEF vars
<1>2. CASE ClientStep
  BY <1>2, ClientKeeps
<1>3. ASSUME NEW w \in Workers, Unlist(w) PROVE Tidy
  BY <1>3 DEF Unlist, Crash
<1>4. ASSUME NEW w \in Workers, Lookup(w) PROVE Tidy
  BY <1>4 DEF Lookup, Crash
<1>5. ASSUME NEW w \in Workers, Create(w) PROVE Tidy
  BY <1>5 DEF Create, Crash
<1>6. ASSUME NEW w \in Workers, Ice(w) PROVE Tidy
  BY <1>6 DEF Ice, Crash
<1>7. ASSUME NEW w \in Workers, Answer(w) PROVE Tidy
  BY <1>7 DEF Answer, Crash
<1>8. ASSUME NEW w \in Workers, Apply(w) PROVE Tidy
  BY <1>8 DEF Apply, Crash
<1>9. ASSUME NEW w \in Workers, Remove(w) PROVE Tidy
  BY <1>9 DEF Remove, Crash
<1>10. ASSUME NEW w \in Workers, Free(w) PROVE Tidy
  BY <1>10 DEF Free, Crash
<1>11. ASSUME NEW w \in Workers, Strip(w) PROVE Tidy
  BY <1>11 DEF Strip, Crash
<1>12. ASSUME NEW w \in Workers, StripErases(w) PROVE Tidy
  BY <1>12 DEF StripErases, Crash
<1>13. ASSUME NEW w \in Workers, Nullify(w) PROVE Tidy
  BY <1>13 DEF Nullify, Crash
<1>14. ASSUME NEW w \in Workers, NullifyTimeout(w) PROVE Tidy
  BY <1>14 DEF NullifyTimeout, Crash
<1>15. ASSUME NEW w \in Workers, Forget(w) PROVE Tidy
  BY <1>15 DEF Forget, Crash
<1>16. ASSUME NEW w \in Workers, NullifyLate(w) PROVE Tidy
  BY <1>16 DEF NullifyLate, Crash
<1>17. ASSUME NEW w \in Workers, Quit(w) PROVE Tidy
  BY <1>17 DEF Quit, Crash
<1>18. ASSUME NEW w \in Workers, Unmap(w) PROVE Tidy
  BY <1>18 DEF Unmap, Crash
<1>19. ASSUME NEW n \in Offers, BusMessage(n) PROVE Tidy
  BY <1>19 DEF BusMessage, Crash
<1>20. ASSUME NEW n \in Offers, LaunchFetch(n) PROVE Tidy
  BY <1>20 DEF LaunchFetch, Crash
<1>21. ASSUME NEW n \in Offers, LaunchBuild(n) PROVE Tidy
  BY <1>21 DEF LaunchBuild, Crash
<1>22. ASSUME NEW n \in Offers, LaunchReceivers(n) PROVE Tidy
  BY <1>22 DEF LaunchReceivers, Crash
<1>23. ASSUME NEW n \in Offers, LaunchPlay(n) PROVE Tidy
  BY <1>23 DEF LaunchPlay, Crash
<1>24. ASSUME NEW n \in Offers, LaunchLoop(n) PROVE Tidy
  BY <1>24 DEF LaunchLoop, Crash
<1>25. CASE CallbackAborts \/ LookupRace
  BY <1>25 DEF CallbackAborts, LookupRace, Crash
<1> QED
  BY <1>1, <1>2, <1>3, <1>4, <1>5, <1>6, <1>7, <1>8, <1>9, <1>10, <1>11, <1>12, <1>13,
     <1>14, <1>15, <1>16, <1>17, <1>18, <1>19, <1>20, <1>21, <1>22, <1>23, <1>24, <1>25
     DEF Next, Step, ClientStep, Proceed, Launch

\* How far the removal has come is where its call is.
LEMMA RemoverAt ==
  ASSUME OneStream, NEW w \in Workers, Removing(w)
  PROVE  /\ Stopped <=> call[w].at \in {"forget", "quit", "unmap"}
         /\ Forgotten <=> call[w].at \in {"quit", "unmap"}
         /\ LoopQuit <=> call[w].at = "unmap"
         /\ \A v \in Workers : v # w => ~Removing(v)
<1>1. \A v \in Workers : v # w => ~Removing(v)
  BY DEF OneStream
<1> QED
  BY <1>1 DEF Stopped, Forgotten, LoopQuit, SomeAt, Removing, RemovePoints, TeardownPoints

\* Where there is no removal it has not come anywhere.
LEMMA NoRemover ==
  ASSUME \A w \in Workers : ~Removing(w)
  PROVE  ~Stopped /\ ~Forgotten /\ ~LoopQuit
  BY DEF Stopped, Forgotten, LoopQuit, SomeAt, Removing, RemovePoints, TeardownPoints

\* The only removal moves on or ends, and no call becomes another.
LEMMA RemoverGoesOn ==
  ASSUME OneStream, NEW w \in Workers, Removing(w), Alone(w)
  PROVE  /\ Stopped' <=> call'[w].at \in {"forget", "quit", "unmap"}
         /\ Forgotten' <=> call'[w].at \in {"quit", "unmap"}
         /\ LoopQuit' <=> call'[w].at = "unmap"
         /\ \A v \in Workers : Removing(v)' => v = w
<1>1. \A v \in Workers : v # w => ~Removing(v) /\ call'[v] = call[v]
  BY DEF OneStream, Alone
<1> QED
  BY <1>1 DEF Stopped, Forgotten, LoopQuit, SomeAt, Removing, RemovePoints, TeardownPoints

\* Steps of calls that do not remove, and that leave the stream alone.
LEMMA StreamKept ==
  ASSUME OneStream, UNCHANGED <<current, handlers, launch, bins, playing>>,
         \A w \in Workers :
            \/ call'[w] = call[w]
            \/ /\ ~Removing(w) /\ ~Removing(w)'
               /\ call'[w].at = "apply" => Caller(w)' \in Handler(w)'.receivers
  PROVE  OneStream'
<1>1. /\ \A w \in Workers : Removing(w)' <=> Removing(w)
      /\ \A w \in Workers : Removing(w) => call'[w] = call[w]
  BY DEF Removing
<1>2. Stopped' = Stopped /\ Forgotten' = Forgotten /\ LoopQuit' = LoopQuit
  BY <1>1 DEF Stopped, Forgotten, LoopQuit, SomeAt, Removing, RemovePoints, TeardownPoints
<1>3. Stage(current)' <=> Stage(current)
  BY <1>2 DEF Stage
<1>4. \A w \in Workers : call'[w].at = "apply" => Caller(w)' \in Handler(w)'.receivers
  BY DEF OneStream, Caller, Handler
<1> QED
  BY <1>1, <1>3, <1>4 DEF OneStream

\* The parts of OneStream when the handler in the map, and a call that removes,
\* stay the ones they are.
LEMMA StreamMoves ==
  ASSUME OneStream, current # 0, current' = current,
         \A n \in Offers : n # current =>
            /\ n \in playing' => n \in playing
            /\ UNCHANGED <<launch[n], handlers[n], bins[n]>>,
         Stage(current)',
         \A w \in Workers : Removing(w)' =>
            /\ \A v \in Workers : Removing(v)' => v = w
            /\ call'[w].handler = current
            /\ launch'[current].at \in {"running", "over"}
            /\ call'[w].at # "nullifyLate",
         \A w \in Workers : call'[w].at = "apply" => Caller(w)' \in Handler(w)'.receivers
  PROVE  OneStream'
  BY DEF OneStream

\* While nothing overlaps there is one stream.
LEMMA NextOneStream ==
  ASSUME TypeOK, CallsFit, Launches, Fresh, Sessions, Tidy => OneStream, Tidy', [Next]_vars
         PROVE OneStream'
<1>a. /\ call \in [Workers -> CallRecords] /\ handlers \in [Offers -> HandlerRecords]
      /\ bins \in [Offers -> SUBSET Bins] /\ launch \in [Offers -> LaunchRecords]
      /\ current \in 0..MaxOffers /\ playing \subseteq Offers
  BY DEF TypeOK
<1>b. 0..MaxOffers = Offers \cup {0} /\ 0 \notin Offers
  BY ChannelAssumption DEF Offers
<1>c. OneStream
  BY TidyBefore
<1>d. ASSUME NEW w \in Workers, Removing(w)
      PROVE  /\ call[w].handler = current /\ current \in Offers /\ Stage(current)
             /\ launch[current].at \in {"running", "over"}
             /\ launch[current].at = "running" <=> call[w].at # "unmap"
             /\ Handler(w) = handlers[current]
  <2>1. current # 0
    BY <1>c, <1>d DEF OneStream
  <2>2. Stage(current) /\ call[w].handler = current /\ launch[current].at \in {"running", "over"}
    BY <1>c, <1>d, <2>1 DEF OneStream
  <2>3. LoopQuit <=> call[w].at = "unmap"
    BY <1>c, <1>d, RemoverAt
  <2> QED
    BY <1>a, <1>b, <2>1, <2>2, <2>3 DEF Stage, Handler
<1>e. ASSUME NEW n \in Offers, launch[n].at \in BuildPoints
      PROVE  /\ n = current /\ current # 0 /\ Stage(n)
             /\ \A w \in Workers : ~Removing(w)
             /\ ~Stopped /\ ~Forgotten /\ ~LoopQuit
  <2>1. n = current /\ current # 0 /\ Stage(n)
    BY <1>b, <1>c, <1>e DEF OneStream, BuildPoints
  <2>2. \A w \in Workers : ~Removing(w)
    BY <1>c, <1>e, <2>1 DEF OneStream, BuildPoints
  <2> QED
    BY <2>1, <2>2, NoRemover
<1>1. ASSUME Frozen PROVE OneStream'
  <2>1. UNCHANGED <<current, handlers, launch, bins, playing, call>>
    BY <1>1 DEF Frozen, serverVars
  <2> QED
    BY <1>c, <2>1, StreamKept
<1>2. CASE UNCHANGED vars
  BY <1>2, <1>1 DEF vars, Frozen, historyVars
<1>3. CASE CallbackAborts \/ LookupRace
  BY <1>3, <1>1, CrashFreezes DEF CallbackAborts, LookupRace, Frozen, Faults
<1>4. CASE ClientStep
  <2>1. /\ UNCHANGED <<current, handlers, launch, bins, playing>>
        /\ \A w \in Workers :
              \/ call'[w] = call[w]
              \/ /\ ~Removing(w) /\ ~Removing(w)'
                 /\ call'[w].at # "apply"
    BY <1>4, ClientKeeps DEF Removing, RemovePoints, TeardownPoints
  <2> QED
    BY <1>c, <2>1, StreamKept
<1>5. ASSUME NEW w \in Workers, Unlist(w) PROVE OneStream'
  <2>1. UNCHANGED <<current, handlers, launch, bins, playing>>
    BY <1>5 DEF Unlist, serverVars
  <2>2. Alone(w) /\ ~Removing(w) /\ ~Removing(w)' /\ call'[w].at # "apply"
    BY <1>5, WorkerCalls, IdleType DEF Unlist, At, Moves, Ends, Removing, RemovePoints,
         TeardownPoints
  <2> QED
    BY <1>c, <2>1, <2>2, StreamKept DEF Alone
<1>6. ASSUME NEW w \in Workers, Lookup(w) PROVE OneStream'
  <2>1. UNCHANGED <<current, handlers, launch, bins, playing>> /\ ~Removing(w)
        /\ call[w].at = "lookup"
    BY <1>6 DEF Lookup, At, serverVars, Removing, RemovePoints, TeardownPoints
  <2>2. call[w].kind \in Kinds \ {"bus"}
    BY <1>6, <1>a, <2>1 DEF CallRecords, CallsFit, Fits, TeardownPoints
  <2>3. CASE Ends(w)
    BY <1>c, <2>1, <2>3, StreamKept, IdleType DEF Ends, Alone, Removing, RemovePoints,
         TeardownPoints
  <2>4. CASE ~Ends(w)
    <3>1. /\ Alone(w) /\ call'[w].at = Found(call[w].kind) /\ call'[w].handler = current
          /\ current # 0 \/ call[w].kind = "offer"
      BY <1>6, <2>4, WorkerCalls
    <3>2. CASE call[w].kind \notin {"reset", "close"}
      <4>1. ~Removing(w)' /\ call'[w].at # "apply"
        BY <2>2, <3>1, <3>2 DEF Found, Kinds, Removing, RemovePoints, TeardownPoints
      <4> QED
        BY <1>c, <2>1, <3>1, <4>1, StreamKept DEF Alone
    <3>3. CASE call[w].kind \in {"reset", "close"}
      <4>1. current # 0 /\ call'[w].at = "remove"
        BY <3>1, <3>3 DEF Found
      <4>2. ~Launching /\ ~SomeAt(RemovePoints)
        BY <1>6, <3>3, <4>1 DEF Lookup, Tidy
      <4>3. \A v \in Workers : ~Removing(v)
        BY <4>2 DEF SomeAt, Removing
      <4>4. current \in Offers /\ Stage(current) /\ launch[current].at \in {"running", "over"}
        BY <1>a, <1>b, <1>c, <4>1, <4>2 DEF OneStream, Launching, Stage
      <4>5. ~Stopped /\ ~Forgotten /\ ~LoopQuit
        BY <4>3, NoRemover
      <4>6. ~Stopped' /\ ~Forgotten' /\ ~LoopQuit'
        BY <3>1, <4>1, <4>3 DEF Alone, Stopped, Forgotten, LoopQuit, SomeAt, Removing,
             RemovePoints, TeardownPoints
      <4>7. Stage(current)'
        BY <2>1, <4>4, <4>5, <4>6 DEF Stage
      <4>8. \A v \in Workers : Removing(v)' => v = w
        BY <3>1, <4>3 DEF Alone, Removing
      <4>9. \A v \in Workers : call'[v].at = "apply" => Caller(v)' \in Handler(v)'.receivers
        BY <1>c, <2>1, <3>1, <4>1 DEF OneStream, Alone, Caller, Handler
      <4> QED
        BY <1>c, <2>1, <3>1, <4>1, <4>4, <4>7, <4>8, <4>9, StreamMoves
    <3> QED
      BY <3>2, <3>3
  <2> QED
    BY <2>3, <2>4
<1>7. ASSUME NEW w \in Workers, Create(w) PROVE OneStream'
  <2>0. PICK n \in Offers : n = call[w].offer
    BY <1>7, OfferPending DEF Create, At
  <2>1. /\ call[w].handler = 0 /\ current = 0 /\ current' = n
        /\ ~Launching /\ ~SomeAt(RemovePoints)
    BY <1>7, <1>a, <2>0 DEF Create, Tidy
  <2>2. n \in Offers /\ launch[n].at = "none" /\ call[w].kind = "offer"
    BY <1>7, <2>0, OfferPending DEF Create, At
  <2>3. handlers[n] = NewHandler /\ bins[n] = {} /\ n \notin playing
    BY <1>b, <1>c, <2>1, <2>2 DEF OneStream
  <2>4. Ends(w)
    BY <1>7, WorkerCalls
  <2>5. \A v \in Workers : ~Removing(v)'
    BY <2>1, <2>4, IdleType DEF SomeAt, Ends, Alone, Removing, RemovePoints, TeardownPoints
  <2>6. ~Stopped' /\ ~Forgotten' /\ ~LoopQuit'
    BY <2>5 DEF Stopped, Forgotten, LoopQuit, SomeAt, Removing, RemovePoints, TeardownPoints
  <2>7. /\ handlers'[n].sender = Caller(w) /\ handlers'[n].receivers = call[w].invited
        /\ handlers'[n].pipeline = 0 /\ handlers'[n].loop = 0
        /\ \A m \in Offers : m # n => handlers'[m] = handlers[m]
    <3>1. SetHandler(n, [handlers[n] EXCEPT !.sender = Caller(w),
                                            !.receivers = @ \cup call[w].invited,
                                            !.sends = FALSE])
      BY <1>7, <2>0, <2>1 DEF Create
    <3> QED
      BY <1>a, <2>3, <3>1 DEF SetHandler, NewHandler
  <2>8. /\ launch'[n].at = "fetch"
        /\ \A m \in Offers : m # n => launch'[m] = launch[m]
        /\ UNCHANGED <<bins, playing>>
    BY <1>7, <1>a, <2>0 DEF Create, LaunchRecords
  <2>9. Caller(w) \in Peers /\ Caller(w) \notin call[w].invited
    <3>1. w # BusWorker /\ w[2] # "failure" /\ Caller(w) = w[1]
      BY <1>7, <2>2 DEF Create, At, CallsFit, Fits, Caller
    <3>2. w = Session(Caller(w)) /\ Caller(w) \in Peers
      BY <3>1, WorkerKinds
    <3> QED
      BY <2>2, <3>2 DEF Sessions, Ready
  <2>10. Stage(n)'
    BY <2>2, <2>3, <2>6, <2>7, <2>8, <2>9 DEF Stage, BuildPoints
  <2>11. \A v \in Workers : call'[v].at = "apply" => Caller(v)' \in Handler(v)'.receivers
    <3> SUFFICES ASSUME NEW v \in Workers, call'[v].at = "apply"
                 PROVE  Caller(v)' \in Handler(v)'.receivers
      OBVIOUS
    <3>1. v # w /\ call'[v] = call[v]
      BY <2>4, IdleType DEF Ends, Alone
    <3>2. call[v].handler \in Offers /\ Caller(v) \in handlers[call[v].handler].receivers
      BY <1>c, <3>1, CallHandlers DEF OneStream, Handler
    <3>3. call[v].handler # n
      BY <2>3, <3>2 DEF NewHandler
    <3> QED
      BY <2>7, <3>1, <3>2, <3>3 DEF Caller, Handler
  <2>12. \A m \in Offers : m # n =>
            /\ m \notin playing /\ launch[m].at \in {"none", "over"}
            /\ launch[m].at = "none" => handlers[m] = NewHandler /\ bins[m] = {}
    BY <1>b, <1>c, <2>1 DEF OneStream
  <2>13. \A m \in Offers : m # n =>
            /\ m \notin playing' /\ launch'[m].at \in {"none", "over"}
            /\ launch'[m].at = "none" => handlers'[m] = NewHandler /\ bins'[m] = {}
    BY <2>7, <2>8, <2>12
  <2> QED
    BY <1>b, <2>1, <2>2, <2>5, <2>10, <2>11, <2>13 DEF OneStream
<1>8. ASSUME NEW w \in Workers, Ice(w) PROVE OneStream'
  <2>1. UNCHANGED <<current, handlers, launch, bins, playing>>
    BY <1>8 DEF Ice, serverVars
  <2>2. Alone(w) /\ ~Removing(w) /\ ~Removing(w)' /\ call'[w].at # "apply"
    BY <1>8, WorkerCalls, IdleType DEF Ice, At, Moves, Ends, Removing, RemovePoints,
         TeardownPoints
  <2> QED
    BY <1>c, <2>1, <2>2, StreamKept DEF Alone
<1>9. ASSUME NEW w \in Workers, Answer(w) PROVE OneStream'
  <2>1. UNCHANGED <<current, handlers, launch, bins, playing>>
    BY <1>9 DEF Answer, serverVars
  <2>2. Alone(w) /\ ~Removing(w) /\ ~Removing(w)'
    BY <1>9, WorkerCalls, IdleType DEF Answer, At, Moves, Ends, Removing, RemovePoints,
         TeardownPoints
  <2>3. call'[w].at = "apply" => Caller(w)' \in Handler(w)'.receivers
    BY <1>9, <2>1, WorkerCalls, IdleType DEF Moves, Ends, Caller, Handler
  <2> QED
    BY <1>c, <2>1, <2>2, <2>3, StreamKept DEF Alone
<1>10. ASSUME NEW w \in Workers, Apply(w) PROVE OneStream'
  <2>1. CASE Crash("freed")
    BY <2>1, <1>1, CrashFreezes DEF Faults
  <2>2. CASE ~Crash("freed")
    <3>1. UNCHANGED <<current, handlers, launch, bins, playing>>
      BY <1>10, <2>2 DEF Apply, serverVars
    <3>2. Alone(w) /\ ~Removing(w) /\ ~Removing(w)' /\ call'[w].at # "apply"
      BY <1>10, <2>2, WorkerCalls, IdleType DEF Apply, At, Moves, Ends, Removing, RemovePoints,
           TeardownPoints
    <3> QED
      BY <1>c, <3>1, <3>2, StreamKept DEF Alone
  <2> QED
    BY <2>1, <2>2
<1>11. ASSUME NEW w \in Workers, Remove(w) PROVE OneStream'
  <2> DEFINE p == Caller(w)
  <2>1. Removing(w) /\ call[w].at = "remove" /\ UNCHANGED <<current, launch, playing>>
    BY <1>11 DEF Remove, At, StopCurrent, serverVars, Removing, RemovePoints, TeardownPoints
  <2>2. Alone(w) /\ call'[w].at \in {"strip", "idle"} /\ (call'[w].at = "strip" => call'[w].handler = call[w].handler)
    BY <1>11, WorkerCalls, IdleType DEF Moves, Ends
  <2>3. /\ call[w].handler = current /\ current \in Offers /\ Stage(current)
        /\ launch[current].at = "running" /\ Handler(w) = handlers[current]
    BY <1>d, <2>1
  <2>4. /\ Stopped <=> call[w].at \in {"forget", "quit", "unmap"}
        /\ Forgotten <=> call[w].at \in {"quit", "unmap"}
        /\ LoopQuit <=> call[w].at = "unmap"
    BY <1>c, <2>1, RemoverAt
  <2>5. /\ Stopped' <=> call'[w].at \in {"forget", "quit", "unmap"}
        /\ Forgotten' <=> call'[w].at \in {"quit", "unmap"}
        /\ LoopQuit' <=> call'[w].at = "unmap"
        /\ \A v \in Workers : Removing(v)' => v = w
    BY <1>c, <2>1, <2>2, RemoverGoesOn
  <2>a. CASE p = handlers[current].sender
    <3>1. UNCHANGED <<handlers, bins>> /\ call'[w].at = "strip"
      BY <1>11, <2>a, <2>3, WorkerCalls DEF Remove, Moves, Handler
    <3>2. Stage(current)'
      BY <2>1, <2>3, <2>4, <2>5, <3>1 DEF Stage
    <3>3. \A v \in Workers : call'[v].at = "apply" => Caller(v)' \in Handler(v)'.receivers
      BY <1>c, <2>1, <2>2, <3>1 DEF OneStream, Alone, Caller, Handler
    <3> QED
      BY <1>b, <1>c, <2>1, <2>2, <2>3, <2>5, <3>1, <3>2, <3>3, StreamMoves
  <2>b. CASE p # handlers[current].sender
    <3>1. Ends(w) /\ Handler(w).pipeline = current /\ current # 0
      BY <1>11, <1>b, <2>b, <2>1, <2>3, <2>4, WorkerCalls DEF Stage
    <3>2. ~\E v \in Workers : call[v].at = "apply" /\ Caller(v) = p
      BY <1>11, <2>b, <2>3 DEF Remove, Tidy, Handler
    <3>3. /\ \A n \in Offers : n # current => handlers'[n] = handlers[n]
          /\ handlers'[current].sender = handlers[current].sender
          /\ handlers'[current].receivers = handlers[current].receivers \ {p}
          /\ handlers'[current].pipeline = handlers[current].pipeline
          /\ handlers'[current].loop = handlers[current].loop
          /\ \A n \in Offers : n # current => bins'[n] = bins[n]
          /\ bins'[current] = bins[current] \ {<<"recv", p>>}
      BY <1>11, <1>a, <2>b, <2>3, <3>1 DEF Remove, SetHandler, Handler, HandlerRecords
    <3>4. call'[w].at = "idle"
      BY <3>1, IdleType DEF Ends
    <3> HIDE DEF p
    <3>5. bins'[current] = Whole(handlers'[current].sender, handlers'[current].receivers)
      BY <2>3, <3>3 DEF Stage, Whole
    <3>6. Stage(current)'
      BY <2>1, <2>3, <2>4, <2>5, <3>3, <3>4, <3>5 DEF Stage
    <3>7. \A v \in Workers : call'[v].at = "apply" => Caller(v)' \in Handler(v)'.receivers
      <4> SUFFICES ASSUME NEW v \in Workers, call'[v].at = "apply"
                   PROVE  Caller(v)' \in Handler(v)'.receivers
        OBVIOUS
      <4>1. v # w /\ call'[v] = call[v]
        BY <2>2, <3>4 DEF Alone
      <4>2. call[v].handler \in Offers /\ Caller(v) \in handlers[call[v].handler].receivers
        BY <1>c, <4>1, CallHandlers DEF OneStream, Handler
      <4>3. Caller(v) # p
        BY <3>2, <4>1
      <4> QED
        BY <3>3, <4>1, <4>2, <4>3 DEF Caller, Handler
    <3> QED
      BY <1>b, <1>c, <2>1, <2>2, <2>3, <2>5, <3>3, <3>4, <3>6, <3>7, StreamMoves DEF Removing,
           RemovePoints, TeardownPoints
  <2> QED
    BY <2>a, <2>b
<1>12. ASSUME NEW w \in Workers, Free(w) PROVE OneStream'
  <2>1. Removing(w) /\ call[w].at = "free" /\ UNCHANGED <<current, handlers, launch, bins, playing>>
    BY <1>12 DEF Free, At, StopCurrent, serverVars, Removing, RemovePoints, TeardownPoints
  <2>2. Alone(w) /\ call'[w].at = "strip" /\ call'[w].handler = call[w].handler
    BY <1>12, WorkerCalls, IdleType DEF Moves, Ends
  <2>3. /\ call[w].handler = current /\ current \in Offers /\ Stage(current)
        /\ launch[current].at = "running" /\ Handler(w) = handlers[current]
    BY <1>d, <2>1
  <2>4. /\ Stopped <=> call[w].at \in {"forget", "quit", "unmap"}
        /\ Forgotten <=> call[w].at \in {"quit", "unmap"}
        /\ LoopQuit <=> call[w].at = "unmap"
    BY <1>c, <2>1, RemoverAt
  <2>5. /\ Stopped' <=> call'[w].at \in {"forget", "quit", "unmap"}
        /\ Forgotten' <=> call'[w].at \in {"quit", "unmap"}
        /\ LoopQuit' <=> call'[w].at = "unmap"
        /\ \A v \in Workers : Removing(v)' => v = w
    BY <1>c, <2>1, <2>2, RemoverGoesOn
  <2>6. TRUE
    OBVIOUS
  <2>7. Stage(current)'
    BY <1>a, <2>1, <2>2, <2>3, <2>4, <2>5, <2>6 DEF Stage
  <2>8. \A v \in Workers : call'[v].at = "apply" => Caller(v)' \in Handler(v)'.receivers
    BY <1>c, <2>1, <2>2, <2>6 DEF OneStream, Alone, Caller, Handler
  <2> QED
    BY <1>b, <1>c, <2>1, <2>2, <2>3, <2>5, <2>6, <2>7, <2>8, StreamMoves
<1>13. ASSUME NEW w \in Workers, Strip(w) PROVE OneStream'
  <2>1. Removing(w) /\ call[w].at = "strip" /\ UNCHANGED <<current, launch, playing>>
    BY <1>13 DEF Strip, At, StopCurrent, serverVars, Removing, RemovePoints, TeardownPoints
  <2>2. Alone(w) /\ call'[w].handler = call[w].handler /\ call'[w].at \in {"quit", "nullify"}
    BY <1>13, WorkerCalls, IdleType DEF Moves, Ends
  <2>3. /\ call[w].handler = current /\ current \in Offers /\ Stage(current)
        /\ launch[current].at = "running" /\ Handler(w) = handlers[current]
    BY <1>d, <2>1
  <2>4. /\ Stopped <=> call[w].at \in {"forget", "quit", "unmap"}
        /\ Forgotten <=> call[w].at \in {"quit", "unmap"}
        /\ LoopQuit <=> call[w].at = "unmap"
    BY <1>c, <2>1, RemoverAt
  <2>5. /\ Stopped' <=> call'[w].at \in {"forget", "quit", "unmap"}
        /\ Forgotten' <=> call'[w].at \in {"quit", "unmap"}
        /\ LoopQuit' <=> call'[w].at = "unmap"
        /\ \A v \in Workers : Removing(v)' => v = w
    BY <1>c, <2>1, <2>2, RemoverGoesOn
  <2>a. Handler(w).pipeline = current /\ current # 0
    BY <1>b, <2>1, <2>3, <2>4 DEF Stage
  <2>b. call'[w].at = "nullify"
    BY <1>13, <2>a, WorkerCalls DEF Moves
  <2>c. ~SomeAt({"apply"})
    BY <1>13, <2>a, <2>3 DEF Strip, Tidy, Handler
  <2>6. /\ \A n \in Offers : n # current => handlers'[n] = handlers[n]
        /\ handlers'[current].sender = handlers[current].sender
        /\ handlers'[current].receivers = {}
        /\ handlers'[current].pipeline = handlers[current].pipeline
        /\ handlers'[current].loop = handlers[current].loop
        /\ \A n \in Offers : n # current => bins'[n] = bins[n]
        /\ bins'[current] = bins[current] \ ({"recv"} \X handlers[current].receivers)
    BY <1>13, <1>a, <2>a, <2>3 DEF Strip, SetHandler, Handler, HandlerRecords
  <2>7. Stage(current)'
    BY <1>a, <2>1, <2>2, <2>3, <2>4, <2>5, <2>6, <2>b DEF Stage, Whole
  <2>8. \A v \in Workers : call'[v].at = "apply" => Caller(v)' \in Handler(v)'.receivers
    BY <2>2, <2>b, <2>c DEF SomeAt, Alone
  <2> QED
    BY <1>b, <1>c, <2>1, <2>2, <2>b, <2>3, <2>5, <2>6, <2>7, <2>8, StreamMoves
<1>14. ASSUME NEW w \in Workers, StripErases(w) PROVE OneStream'
  BY <1>14, <1>1, CrashFreezes DEF StripErases, Faults
<1>15. ASSUME NEW w \in Workers, Nullify(w) PROVE OneStream'
  <2>1. Removing(w) /\ call[w].at = "nullify" /\ UNCHANGED <<current, handlers, launch, bins>>
    BY <1>15 DEF Nullify, At, StopCurrent, serverVars, Removing, RemovePoints, TeardownPoints
  <2>2. Alone(w) /\ call'[w].at = "forget" /\ call'[w].handler = call[w].handler
    BY <1>15, WorkerCalls, IdleType DEF Moves, Ends
  <2>3. /\ call[w].handler = current /\ current \in Offers /\ Stage(current)
        /\ launch[current].at = "running" /\ Handler(w) = handlers[current]
    BY <1>d, <2>1
  <2>4. /\ Stopped <=> call[w].at \in {"forget", "quit", "unmap"}
        /\ Forgotten <=> call[w].at \in {"quit", "unmap"}
        /\ LoopQuit <=> call[w].at = "unmap"
    BY <1>c, <2>1, RemoverAt
  <2>5. /\ Stopped' <=> call'[w].at \in {"forget", "quit", "unmap"}
        /\ Forgotten' <=> call'[w].at \in {"quit", "unmap"}
        /\ LoopQuit' <=> call'[w].at = "unmap"
        /\ \A v \in Workers : Removing(v)' => v = w
    BY <1>c, <2>1, <2>2, RemoverGoesOn
  <2>6. playing' = playing \ {current}
    BY <1>15, <1>b, <2>1, <2>3, <2>4 DEF Nullify, StopCurrent, Stage
  <2>7. Stage(current)'
    BY <1>a, <2>1, <2>2, <2>3, <2>4, <2>5, <2>6 DEF Stage
  <2>8. \A v \in Workers : call'[v].at = "apply" => Caller(v)' \in Handler(v)'.receivers
    BY <1>c, <2>1, <2>2, <2>6 DEF OneStream, Alone, Caller, Handler
  <2> QED
    BY <1>b, <1>c, <2>1, <2>2, <2>3, <2>5, <2>6, <2>7, <2>8, StreamMoves
<1>16. ASSUME NEW w \in Workers, NullifyTimeout(w) PROVE OneStream'
  BY <1>16 DEF NullifyTimeout, Tidy
<1>17. ASSUME NEW w \in Workers, Forget(w) PROVE OneStream'
  <2>1. Removing(w) /\ call[w].at = "forget" /\ UNCHANGED <<current, launch, bins, playing>>
    BY <1>17 DEF Forget, At, StopCurrent, serverVars, Removing, RemovePoints, TeardownPoints
  <2>2. Alone(w) /\ call'[w].at = "quit" /\ call'[w].handler = call[w].handler
    BY <1>17, WorkerCalls, IdleType DEF Moves, Ends
  <2>3. /\ call[w].handler = current /\ current \in Offers /\ Stage(current)
        /\ launch[current].at = "running" /\ Handler(w) = handlers[current]
    BY <1>d, <2>1
  <2>4. /\ Stopped <=> call[w].at \in {"forget", "quit", "unmap"}
        /\ Forgotten <=> call[w].at \in {"quit", "unmap"}
        /\ LoopQuit <=> call[w].at = "unmap"
    BY <1>c, <2>1, RemoverAt
  <2>5. /\ Stopped' <=> call'[w].at \in {"forget", "quit", "unmap"}
        /\ Forgotten' <=> call'[w].at \in {"quit", "unmap"}
        /\ LoopQuit' <=> call'[w].at = "unmap"
        /\ \A v \in Workers : Removing(v)' => v = w
    BY <1>c, <2>1, <2>2, RemoverGoesOn
  <2>6. /\ \A n \in Offers : n # current => handlers'[n] = handlers[n]
        /\ handlers'[current].sender = handlers[current].sender
        /\ handlers'[current].receivers = handlers[current].receivers
        /\ handlers'[current].pipeline = 0
        /\ handlers'[current].loop = handlers[current].loop
    BY <1>17, <1>a, <2>3 DEF Forget, SetHandler, HandlerRecords
  <2>7. Stage(current)'
    BY <1>a, <2>1, <2>2, <2>3, <2>4, <2>5, <2>6 DEF Stage
  <2>8. \A v \in Workers : call'[v].at = "apply" => Caller(v)' \in Handler(v)'.receivers
    <3> SUFFICES ASSUME NEW v \in Workers, call'[v].at = "apply"
                 PROVE  Caller(v)' \in Handler(v)'.receivers
      OBVIOUS
    <3>1. v # w /\ call'[v] = call[v]
      BY <2>2 DEF Alone
    <3>2. call[v].handler \in Offers /\ Caller(v) \in handlers[call[v].handler].receivers
      BY <1>c, <3>1, CallHandlers DEF OneStream, Handler
    <3> QED
      BY <2>6, <3>1, <3>2 DEF Caller, Handler
  <2> QED
    BY <1>b, <1>c, <2>1, <2>2, <2>3, <2>5, <2>6, <2>7, <2>8, StreamMoves
<1>18. ASSUME NEW w \in Workers, NullifyLate(w) PROVE OneStream'
  <2>1. Removing(w) /\ call[w].at = "nullifyLate"
    BY <1>18 DEF NullifyLate, At, Removing, RemovePoints, TeardownPoints
  <2> QED
    BY <1>c, <2>1 DEF OneStream
<1>19. ASSUME NEW w \in Workers, Quit(w) PROVE OneStream'
  <2>1. CASE Crash("freed")
    BY <2>1, <1>1, CrashFreezes DEF Faults
  <2>2. CASE ~Crash("freed")
    <3>1. Removing(w) /\ call[w].at = "quit" /\ UNCHANGED <<current, handlers, bins, playing>>
      BY <1>19, <2>2 DEF Quit, At, StopCurrent, serverVars, Removing, RemovePoints, TeardownPoints
    <3>2. Alone(w) /\ call'[w].at = "unmap" /\ call'[w].handler = call[w].handler
      BY <1>19, <2>2, WorkerCalls, IdleType DEF Moves, Ends
    <3>3. /\ call[w].handler = current /\ current \in Offers /\ Stage(current)
          /\ launch[current].at = "running" /\ Handler(w) = handlers[current]
      BY <1>d, <3>1
    <3>4. /\ Stopped <=> call[w].at \in {"forget", "quit", "unmap"}
          /\ Forgotten <=> call[w].at \in {"quit", "unmap"}
          /\ LoopQuit <=> call[w].at = "unmap"
      BY <1>c, <3>1, RemoverAt
    <3>5. /\ Stopped' <=> call'[w].at \in {"forget", "quit", "unmap"}
          /\ Forgotten' <=> call'[w].at \in {"quit", "unmap"}
          /\ LoopQuit' <=> call'[w].at = "unmap"
          /\ \A v \in Workers : Removing(v)' => v = w
      BY <1>c, <3>1, <3>2, RemoverGoesOn
    <3>6. /\ \A n \in Offers : n # current => launch'[n] = launch[n]
          /\ launch'[current].at = "over" /\ launch'[current].handler = launch[current].handler
      <4>1. Handler(w).loop = current
        BY <3>3 DEF Stage
      <4> QED
        BY <1>19, <2>2, <1>a, <1>b, <3>3, <4>1 DEF Quit, LaunchRecords
    <3>7. Stage(current)'
      BY <1>a, <3>1, <3>2, <3>3, <3>4, <3>5, <3>6 DEF Stage, BuildPoints
    <3>8. \A v \in Workers : call'[v].at = "apply" => Caller(v)' \in Handler(v)'.receivers
      BY <1>c, <3>1, <3>2, <3>6 DEF OneStream, Alone, Caller, Handler
    <3> QED
      BY <1>b, <1>c, <3>1, <3>2, <3>3, <3>5, <3>6, <3>7, <3>8, StreamMoves
  <2> QED
    BY <2>1, <2>2
<1>20. ASSUME NEW w \in Workers, Unmap(w) PROVE OneStream'
  <2>1. Removing(w) /\ call[w].at = "unmap" /\ current' = 0
        /\ UNCHANGED <<handlers, launch, bins, playing>>
    BY <1>20 DEF Unmap, At, Removing, RemovePoints, TeardownPoints
  <2>2. Ends(w)
    BY <1>20, WorkerCalls
  <2>3. /\ current \in Offers /\ Stage(current) /\ launch[current].at = "over"
    BY <1>d, <2>1
  <2>4. Stopped
    BY <1>c, <2>1, RemoverAt
  <2>5. \A v \in Workers : ~Removing(v)'
    BY <1>c, <2>1, <2>2, IdleType DEF OneStream, Ends, Alone, Removing, RemovePoints,
         TeardownPoints
  <2>6. \A n \in Offers :
           /\ n \notin playing /\ launch[n].at \in {"none", "over"}
           /\ launch[n].at = "none" => handlers[n] = NewHandler /\ bins[n] = {}
    BY <1>c, <2>3, <2>4 DEF OneStream, Stage
  <2>7. \A v \in Workers : call'[v].at = "apply" => Caller(v)' \in Handler(v)'.receivers
    BY <1>c, <2>1, <2>2, IdleType DEF OneStream, Ends, Alone, Caller, Handler
  <2> QED
    BY <2>1, <2>5, <2>6, <2>7 DEF OneStream
<1>21. ASSUME NEW n \in Offers, BusMessage(n) PROVE OneStream'
  <2>1. /\ UNCHANGED <<current, handlers, launch, bins, playing>> /\ n \in playing
        /\ ~Launching /\ ~SomeAt(RemovePoints)
    BY <1>21 DEF BusMessage, Tidy
  <2>2. \A v \in Workers : ~Removing(v)
    BY <2>1 DEF SomeAt, Removing
  <2>3. n = current /\ current # 0 /\ Stage(current) /\ launch[current].at \in {"running", "over"}
    BY <1>b, <1>c, <2>1 DEF OneStream, Launching, Stage
  <2>4. ~Stopped /\ ~Forgotten /\ ~LoopQuit
    BY <2>2, NoRemover
  <2>5. launch[current].handler = current
    BY <2>3, <2>4 DEF Stage
  <2>6. /\ \A v \in Workers : v # BusWorker => call'[v] = call[v]
        /\ call'[BusWorker].at = "free" /\ call'[BusWorker].handler = current
    BY <1>21, <1>a, <2>3, <2>5, WorkerKinds DEF BusMessage, Idle
  <2>7. \A v \in Workers : Removing(v)' => v = BusWorker
    BY <2>2, <2>6 DEF Removing
  <2>8. ~Stopped' /\ ~Forgotten' /\ ~LoopQuit'
    BY <2>2, <2>6 DEF Stopped, Forgotten, LoopQuit, SomeAt, Removing, RemovePoints, TeardownPoints
  <2>9. Stage(current)'
    BY <2>1, <2>3, <2>4, <2>8 DEF Stage
  <2>10. \A v \in Workers : call'[v].at = "apply" => Caller(v)' \in Handler(v)'.receivers
    BY <1>c, <2>1, <2>6 DEF OneStream, Caller, Handler
  <2> QED
    BY <1>c, <2>1, <2>3, <2>6, <2>7, <2>9, <2>10, StreamMoves
<1>22. ASSUME NEW n \in Offers, LaunchFetch(n) PROVE OneStream'
  <2>1. launch[n].at = "fetch" /\ UNCHANGED <<current, call>>
    BY <1>22 DEF LaunchFetch, LaunchAt
  <2>2. /\ n = current /\ current # 0 /\ Stage(n)
        /\ \A w \in Workers : ~Removing(w)
        /\ ~Stopped /\ ~Forgotten /\ ~LoopQuit
    BY <1>e, <2>1 DEF BuildPoints
  <2>3. /\ \A w \in Workers : ~Removing(w)'
        /\ ~Stopped' /\ ~Forgotten' /\ ~LoopQuit'
    BY <2>1, <2>2 DEF Removing, Stopped, Forgotten, LoopQuit, SomeAt
  <2>4. launch[n].handler = n \/ launch[n].at = "fetch"
    BY <2>2 DEF Stage
  <2>5. /\ UNCHANGED <<handlers, bins, playing>>
        /\ launch'[n].at = "build" /\ launch'[n].handler = n
        /\ \A m \in Offers : m # n => launch'[m] = launch[m]
    BY <1>22, <1>a, <2>2 DEF LaunchFetch
  <2>6. Stage(n)'
    BY <1>a, <2>1, <2>2, <2>3, <2>4, <2>5 DEF Stage, BuildPoints
  <2>7. \A v \in Workers : call'[v].at = "apply" => Caller(v)' \in Handler(v)'.receivers
    <3> SUFFICES ASSUME NEW v \in Workers, call'[v].at = "apply"
                 PROVE  Caller(v)' \in Handler(v)'.receivers
      OBVIOUS
    <3>1. call[v].handler \in Offers /\ Caller(v) \in handlers[call[v].handler].receivers
      BY <1>c, <2>1, CallHandlers DEF OneStream, Handler
    <3> QED
      BY <2>1, <2>5, <3>1 DEF Caller, Handler
  <2> QED
    BY <1>c, <2>1, <2>2, <2>3, <2>5, <2>6, <2>7, StreamMoves
<1>23. ASSUME NEW n \in Offers, LaunchBuild(n) PROVE OneStream'
  <2>1. launch[n].at = "build" /\ UNCHANGED <<current, call>>
    BY <1>23 DEF LaunchBuild, LaunchAt
  <2>2. /\ n = current /\ current # 0 /\ Stage(n)
        /\ \A w \in Workers : ~Removing(w)
        /\ ~Stopped /\ ~Forgotten /\ ~LoopQuit
    BY <1>e, <2>1 DEF BuildPoints
  <2>3. /\ \A w \in Workers : ~Removing(w)'
        /\ ~Stopped' /\ ~Forgotten' /\ ~LoopQuit'
    BY <2>1, <2>2 DEF Removing, Stopped, Forgotten, LoopQuit, SomeAt
  <2>4. launch[n].handler = n \/ launch[n].at = "fetch"
    BY <2>2 DEF Stage
  <2>5. /\ launch'[n].at = "receivers" /\ launch'[n].handler = n
        /\ \A m \in Offers : m # n => launch'[m] = launch[m]
        /\ handlers'[n].sender = handlers[n].sender /\ handlers'[n].pipeline = n
        /\ handlers'[n].loop = handlers[n].loop
        /\ \A m \in Offers : handlers'[m].receivers = handlers[m].receivers
        /\ \A m \in Offers : m # n => handlers'[m] = handlers[m] /\ bins'[m] = bins[m]
        /\ bins'[n] = {<<"send", handlers[n].sender>>} /\ UNCHANGED playing
    BY <1>23, <1>a, <2>1, <2>4 DEF LaunchBuild, LaunchTo, SetHandler, HandlerRecords,
         LaunchRecords
  <2>6. Stage(n)'
    BY <1>a, <2>1, <2>2, <2>3, <2>4, <2>5 DEF Stage, BuildPoints
  <2>7. \A v \in Workers : call'[v].at = "apply" => Caller(v)' \in Handler(v)'.receivers
    <3> SUFFICES ASSUME NEW v \in Workers, call'[v].at = "apply"
                 PROVE  Caller(v)' \in Handler(v)'.receivers
      OBVIOUS
    <3>1. call[v].handler \in Offers /\ Caller(v) \in handlers[call[v].handler].receivers
      BY <1>c, <2>1, CallHandlers DEF OneStream, Handler
    <3> QED
      BY <2>1, <2>5, <3>1 DEF Caller, Handler
  <2> QED
    BY <1>c, <2>1, <2>2, <2>3, <2>5, <2>6, <2>7, StreamMoves
<1>24. ASSUME NEW n \in Offers, LaunchReceivers(n) PROVE OneStream'
  <2>1. CASE Crash("assert")
    BY <2>1, <1>1, CrashFreezes DEF Faults
  <2>2. CASE ~Crash("assert")
    <3>1. launch[n].at = "receivers" /\ UNCHANGED <<current, call>>
      BY <1>24, <2>2 DEF LaunchReceivers, LaunchAt
    <3>2. /\ n = current /\ current # 0 /\ Stage(n)
          /\ \A w \in Workers : ~Removing(w)
          /\ ~Stopped /\ ~Forgotten /\ ~LoopQuit
      BY <1>e, <3>1 DEF BuildPoints
    <3>3. /\ \A w \in Workers : ~Removing(w)'
          /\ ~Stopped' /\ ~Forgotten' /\ ~LoopQuit'
      BY <3>1, <3>2 DEF Removing, Stopped, Forgotten, LoopQuit, SomeAt
    <3>4. launch[n].handler = n \/ launch[n].at = "fetch"
      BY <3>2 DEF Stage
    <3>5. /\ launch'[n].at = "play" /\ launch'[n].handler = n
          /\ \A m \in Offers : m # n => launch'[m] = launch[m]
          /\ UNCHANGED <<handlers, playing>>
          /\ \A m \in Offers : m # n => bins'[m] = bins[m]
          /\ bins'[n] = bins[n] \cup ({"recv"} \X handlers[n].receivers)
      <4>1. handlers[n].pipeline = n
        BY <3>1, <3>2 DEF Stage
      <4> QED
        BY <1>24, <2>2, <1>a, <1>b, <3>1, <3>4, <4>1 DEF LaunchReceivers, LaunchTo, LaunchRecords
    <3>6. Stage(n)'
      BY <1>a, <3>1, <3>2, <3>3, <3>4, <3>5 DEF Stage, BuildPoints, Whole
    <3>7. \A v \in Workers : call'[v].at = "apply" => Caller(v)' \in Handler(v)'.receivers
      <4> SUFFICES ASSUME NEW v \in Workers, call'[v].at = "apply"
                   PROVE  Caller(v)' \in Handler(v)'.receivers
        OBVIOUS
      <4>1. call[v].handler \in Offers /\ Caller(v) \in handlers[call[v].handler].receivers
        BY <1>c, <3>1, CallHandlers DEF OneStream, Handler
      <4> QED
        BY <3>1, <3>5, <4>1 DEF Caller, Handler
    <3> QED
      BY <1>c, <3>1, <3>2, <3>3, <3>5, <3>6, <3>7, StreamMoves
  <2> QED
    BY <2>1, <2>2
<1>25. ASSUME NEW n \in Offers, LaunchPlay(n) PROVE OneStream'
  <2>1. launch[n].at = "play" /\ UNCHANGED <<current, call>>
    BY <1>25 DEF LaunchPlay, LaunchAt
  <2>2. /\ n = current /\ current # 0 /\ Stage(n)
        /\ \A w \in Workers : ~Removing(w)
        /\ ~Stopped /\ ~Forgotten /\ ~LoopQuit
    BY <1>e, <2>1 DEF BuildPoints
  <2>3. /\ \A w \in Workers : ~Removing(w)'
        /\ ~Stopped' /\ ~Forgotten' /\ ~LoopQuit'
    BY <2>1, <2>2 DEF Removing, Stopped, Forgotten, LoopQuit, SomeAt
  <2>4. launch[n].handler = n \/ launch[n].at = "fetch"
    BY <2>2 DEF Stage
  <2>5. /\ launch'[n].at = "loop" /\ launch'[n].handler = n
        /\ \A m \in Offers : m # n => launch'[m] = launch[m]
        /\ UNCHANGED <<handlers, bins>> /\ playing' = playing \cup {n}
    <3>1. handlers[n].pipeline = n
      BY <2>1, <2>2 DEF Stage
    <3> QED
      BY <1>25, <1>a, <1>b, <2>1, <2>4, <3>1 DEF LaunchPlay, LaunchTo, LaunchRecords
  <2>6. Stage(n)'
    BY <1>a, <2>1, <2>2, <2>3, <2>4, <2>5 DEF Stage, BuildPoints
  <2>7. \A v \in Workers : call'[v].at = "apply" => Caller(v)' \in Handler(v)'.receivers
    <3> SUFFICES ASSUME NEW v \in Workers, call'[v].at = "apply"
                 PROVE  Caller(v)' \in Handler(v)'.receivers
      OBVIOUS
    <3>1. call[v].handler \in Offers /\ Caller(v) \in handlers[call[v].handler].receivers
      BY <1>c, <2>1, CallHandlers DEF OneStream, Handler
    <3> QED
      BY <2>1, <2>5, <3>1 DEF Caller, Handler
  <2> QED
    BY <1>c, <2>1, <2>2, <2>3, <2>5, <2>6, <2>7, StreamMoves
<1>26. ASSUME NEW n \in Offers, LaunchLoop(n) PROVE OneStream'
  <2>1. launch[n].at = "loop" /\ UNCHANGED <<current, call>>
    BY <1>26 DEF LaunchLoop, LaunchAt
  <2>2. /\ n = current /\ current # 0 /\ Stage(n)
        /\ \A w \in Workers : ~Removing(w)
        /\ ~Stopped /\ ~Forgotten /\ ~LoopQuit
    BY <1>e, <2>1 DEF BuildPoints
  <2>3. /\ \A w \in Workers : ~Removing(w)'
        /\ ~Stopped' /\ ~Forgotten' /\ ~LoopQuit'
    BY <2>1, <2>2 DEF Removing, Stopped, Forgotten, LoopQuit, SomeAt
  <2>4. launch[n].handler = n \/ launch[n].at = "fetch"
    BY <2>2 DEF Stage
  <2>5. /\ launch'[n].at = "running" /\ launch'[n].handler = n
        /\ \A m \in Offers : m # n => launch'[m] = launch[m]
        /\ handlers'[n].sender = handlers[n].sender /\ handlers'[n].loop = n
        /\ handlers'[n].pipeline = handlers[n].pipeline
        /\ \A m \in Offers : handlers'[m].receivers = handlers[m].receivers
        /\ \A m \in Offers : m # n => handlers'[m] = handlers[m]
        /\ UNCHANGED <<bins, playing>>
    BY <1>26, <1>a, <2>1, <2>4 DEF LaunchLoop, LaunchTo, SetHandler, HandlerRecords, LaunchRecords
  <2>6. Stage(n)'
    BY <1>a, <2>1, <2>2, <2>3, <2>4, <2>5 DEF Stage, BuildPoints
  <2>7. \A v \in Workers : call'[v].at = "apply" => Caller(v)' \in Handler(v)'.receivers
    <3> SUFFICES ASSUME NEW v \in Workers, call'[v].at = "apply"
                 PROVE  Caller(v)' \in Handler(v)'.receivers
      OBVIOUS
    <3>1. call[v].handler \in Offers /\ Caller(v) \in handlers[call[v].handler].receivers
      BY <1>c, <2>1, CallHandlers DEF OneStream, Handler
    <3> QED
      BY <2>1, <2>5, <3>1 DEF Caller, Handler
  <2> QED
    BY <1>c, <2>1, <2>2, <2>3, <2>5, <2>6, <2>7, StreamMoves
<1> QED
  BY <1>1, <1>2, <1>3, <1>4, <1>5, <1>6, <1>7, <1>8, <1>9, <1>10, <1>11, <1>12, <1>13,
     <1>14, <1>15, <1>16, <1>17, <1>18, <1>19, <1>20, <1>21, <1>22, <1>23, <1>24,
     <1>25, <1>26
     DEF Next, Step, Proceed, Launch, ClientStep

\* Steps of the browsers and the sessions neither begin nor end a removal.
LEMMA ClientEnding ==
  ASSUME TypeOK, ClientStep
  PROVE  /\ Ending' <=> Ending
         /\ \A w \in Workers : call'[w].at \in TeardownPoints => call'[w] = call[w]
  BY ClientKeeps DEF Ending, SomeAt, TeardownPoints

\* The owner stays one when the lock, the sessions and the sender do, and calls go
\* on, or end and were nobody's offer and not the sender's own.
LEMMA OwnerStays ==
  ASSUME Owner, CallsFit, UNCHANGED <<lock, session, trying, current>>,
         current # 0 => handlers'[current].sender = handlers[current].sender,
         Ending' <=> Ending, NEW w \in Workers, Alone(w),
         \/ call'[w] = call[w]
         \/ /\ call'[w].kind = call[w].kind /\ call'[w].peer = call[w].peer
            /\ call[w].at \in {"unlist", "lookup"} \cup RemovePoints =>
                  call'[w].at \in {"unlist", "lookup"} \cup RemovePoints
         \/ /\ Ends(w) /\ ~Pending(w)
            /\ current # 0 => \A p \in Peers : w = Session(p) /\ Leaving(p) =>
                                                  handlers[current].sender # p,
         w # BusWorker /\ call'[w].at \in TeardownPoints =>
            current # 0 /\ Caller(w)' = handlers[current].sender,
         current = 0 => \A v \in Workers : ~Removing(v),
         current # 0 => handlers[current].sender \in Peers
  PROVE  Owner'
<1>a. \A p \in Peers : Session(p) \in Workers
  BY WorkerKinds
<1>1. \A p \in Peers : Pending(Session(p))' <=> Pending(Session(p))
  BY <1>a, IdleType DEF Pending, Alone, Ends
<1>2. \A p \in Peers : Holding(p)'
  BY <1>1 DEF Owner, Holding, Lost
<1>3. current # 0 => (Leaving(handlers[current].sender) => Leaving(handlers[current].sender)')
  BY <1>a DEF Leaving, Alone
<1>4. current' # 0 => Sending(handlers[current].sender)'
  BY <1>3 DEF Owner, Sending, Lost
<1>5. \A v \in Workers \ {BusWorker} :
         call'[v].at \in TeardownPoints => Caller(v)' = handlers'[current'].sender
  BY DEF Owner, Alone, Caller, Removing, RemovePoints
<1> QED
  BY <1>2, <1>4, <1>5 DEF Owner

\* A removal under way shows in Ending when it is past the VIDEO_RESET.
LEMMA EndingAt ==
  ASSUME OneStream, NEW w \in Workers, Removing(w)
  PROVE  /\ Ending <=> call[w].at \notin {"remove", "free"}
         /\ Alone(w) => (Ending' <=> call'[w].at \in TeardownPoints \ {"free"})
<1>1. \A v \in Workers : v # w => ~Removing(v)
  BY DEF OneStream
<1> QED
  BY <1>1 DEF Ending, SomeAt, Removing, RemovePoints, TeardownPoints, Alone

\* Calls that do not remove do not change it.
LEMMA EndingSame ==
  ASSUME NEW w \in Workers, Alone(w), call[w].at \notin TeardownPoints \ {"free"},
         call'[w].at \notin TeardownPoints \ {"free"}
  PROVE  Ending' <=> Ending
  BY DEF Ending, SomeAt, Alone

\* While nothing overlaps the stream is the lock holder's.
LEMMA NextOwner ==
  ASSUME TypeOK, CallsFit, Launches, Fresh, Sessions, Tidy => OneStream /\ Owner, Tidy',
         [Next]_vars PROVE Owner'
<1>a. /\ call \in [Workers -> CallRecords] /\ handlers \in [Offers -> HandlerRecords]
      /\ current \in 0..MaxOffers /\ launch \in [Offers -> LaunchRecords]
      /\ lock \in Peers \cup {NoPeer} /\ trying \subseteq Peers
      /\ session \in [Peers -> {"new", "open", "broken", "closed", "lost"}]
  BY DEF TypeOK
<1>b. /\ 0..MaxOffers = Offers \cup {0} /\ 0 \notin Offers /\ NoPeer \notin Peers
      /\ \A p \in Peers : Session(p) \in Workers
  BY ChannelAssumption, WorkerKinds DEF Offers
<1>c. Tidy /\ OneStream /\ Owner
  BY TidyBefore
<1>d. /\ current # 0 => current \in Offers /\ handlers[current].sender \in Peers
      /\ current = 0 => \A w \in Workers : ~Removing(w)
  BY <1>a, <1>b, <1>c DEF OneStream, Stage
<1>e. ASSUME UNCHANGED <<lock, session, trying, current, call>>,
             current # 0 => handlers'[current].sender = handlers[current].sender
      PROVE  Owner'
  <2>1. Ending' <=> Ending
    BY <1>e DEF Ending, SomeAt
  <2>2. \A p \in Peers : Holding(p)'
    BY <1>c, <1>e, <2>1 DEF Owner, Holding, Pending, Lost
  <2>3. current # 0 => Sending(handlers[current].sender)'
    BY <1>c, <1>e, <2>1 DEF Owner, Sending, Leaving, Lost
  <2>4. \A w \in Workers \ {BusWorker} :
           call'[w].at \in TeardownPoints => Caller(w)' = handlers'[current'].sender
    BY <1>c, <1>d, <1>e DEF Owner, Caller, Removing, RemovePoints
  <2> QED
    BY <1>e, <2>2, <2>3, <2>4 DEF Owner
<1>f. ASSUME ClientStep, \A p \in Peers : Holding(p)',
             current # 0 => Sending(handlers[current].sender)'
      PROVE  Owner'
  <2>1. /\ UNCHANGED <<current, handlers>>
        /\ \A w \in Workers : call'[w].at \in TeardownPoints => call'[w] = call[w]
    BY <1>f, ClientKeeps, ClientEnding
  <2>2. \A w \in Workers \ {BusWorker} :
           call'[w].at \in TeardownPoints => Caller(w)' = handlers'[current'].sender
    BY <1>c, <2>1 DEF Owner, Caller
  <2> QED
    BY <1>f, <2>1, <2>2 DEF Owner
<1>1. ASSUME Frozen PROVE Owner'
  BY <1>1, <1>e DEF Frozen, clientVars, serverVars
<1>2. CASE UNCHANGED vars
  BY <1>2, <1>1 DEF vars, Frozen, historyVars
<1>3. CASE CallbackAborts \/ LookupRace
  BY <1>3, <1>1, CrashFreezes DEF CallbackAborts, LookupRace, Frozen, Faults
<1>4. ASSUME NEW p \in Peers, Connect(p) PROVE Owner'
  <2>1. UNCHANGED <<lock, current, handlers, call>> /\ (Ending' <=> Ending)
    BY <1>4, ClientKeeps, ClientEnding DEF ClientStep, Client, Connect
  <2>2. \A q \in Peers :
           /\ session'[q] = "open" => session[q] = "open" \/ lock # q
           /\ session'[q] = session[q] \/ session[q] \in {"new", "open"}
           /\ q \in trying => q \in trying'
    BY <1>4, <1>a DEF Connect, Sessions, Ready
  <2>3. \A q \in Peers : Holding(q)'
    BY <1>c, <2>1, <2>2 DEF Owner, Holding, Pending, Lost
  <2>4. current # 0 => Sending(handlers[current].sender)'
    BY <1>c, <1>d, <2>1, <2>2 DEF Owner, Sending, Leaving, Lost
  <2> QED
    BY <1>4, <1>f, <2>3, <2>4 DEF ClientStep, Client
<1>5. ASSUME NEW p \in Peers, Break(p) PROVE Owner'
  <2>1. UNCHANGED <<lock, current, handlers, call>> /\ (Ending' <=> Ending)
    BY <1>5, ClientKeeps, ClientEnding DEF ClientStep, Client, Break
  <2>2. \A q \in Peers :
           /\ session'[q] = "open" => session[q] = "open" \/ lock # q
           /\ session'[q] = session[q] \/ session[q] \in {"new", "open"}
           /\ q \in trying => q \in trying'
    BY <1>5, <1>a DEF Break, Sessions, Ready
  <2>3. \A q \in Peers : Holding(q)'
    BY <1>c, <2>1, <2>2 DEF Owner, Holding, Pending, Lost
  <2>4. current # 0 => Sending(handlers[current].sender)'
    BY <1>c, <1>d, <2>1, <2>2 DEF Owner, Sending, Leaving, Lost
  <2> QED
    BY <1>5, <1>f, <2>3, <2>4 DEF ClientStep, Client
<1>6. ASSUME NEW p \in Peers, Close(p) PROVE Owner'
  <2>1. /\ Alone(Session(p)) /\ call'[Session(p)].at = "unlist" /\ call'[Session(p)].kind = "close"
        /\ UNCHANGED <<current, handlers>> /\ (Ending' <=> Ending)
    BY <1>6, ClientCalls, ClientKeeps, ClientEnding DEF ClientStep, Client, Begins
  <2>2. call[Session(p)].at = "idle" /\ call[Session(p)].kind = "reset"
    BY <1>6, <1>b DEF Close, Unlock, clientVars, Quiet, Session, CallsFit, Fits
  <2>3. ASSUME NEW q \in Peers, q # p PROVE Holding(q)'
    <3>1. call'[Session(q)] = call[Session(q)]
      BY <1>b, <2>1, <2>3, WorkerKinds DEF Alone
    <3>2. session'[q] = session[q] /\ (lock' = q => lock = q) /\ (lock = q => lock' = q)
      BY <1>6, <1>a, <1>b, <2>3 DEF Close, Unlock, clientVars, Quiet, Session
    <3> QED
      BY <1>c, <2>1, <2>3, <3>1, <3>2 DEF Owner, Holding, Pending, Lost
  <2>4. Holding(p)'
    BY <1>6, <1>a, <1>b, <1>c, <2>1, <2>2 DEF Close, Unlock, clientVars, Quiet, Session, Owner,
         Holding, Sending, Pending, Leaving, Lost
  <2>5. current # 0 => Sending(handlers[current].sender)'
    <3> SUFFICES ASSUME current # 0, NEW s \in Peers, s = handlers[current].sender PROVE Sending(s)'
      BY <1>d, <2>1
    <3>1. CASE s = p
      BY <1>6, <1>a, <1>b, <1>c, <2>1, <2>2, <3>1 DEF Close, Unlock, clientVars, Quiet, Session,
           Owner, Sending, Leaving, Lost
    <3>2. CASE s # p
      <4>1. call'[Session(s)] = call[Session(s)]
        BY <1>b, <2>1, <3>2, WorkerKinds DEF Alone
      <4>2. session'[s] = session[s] /\ (lock = s => lock' = s) /\ (s \in trying => s \in trying')
        BY <1>6, <1>a, <1>b, <3>2 DEF Close, Unlock, clientVars, Quiet, Session
      <4> QED
        BY <1>c, <2>1, <4>1, <4>2 DEF Owner, Sending, Leaving, Lost
    <3> QED
      BY <3>1, <3>2
  <2> QED
    BY <1>6, <1>f, <2>3, <2>4, <2>5 DEF ClientStep, Client
<1>7. ASSUME NEW p \in Peers, Offer(p) PROVE Owner'
  <2>1. /\ Alone(Session(p)) /\ call'[Session(p)].at = "lookup" /\ call'[Session(p)].kind = "offer"
        /\ UNCHANGED <<current, handlers>> /\ (Ending' <=> Ending)
    BY <1>7, ClientCalls, ClientKeeps, ClientEnding DEF ClientStep, Client, Begins
  <2>2. call[Session(p)].at = "idle" /\ call[Session(p)].kind = "reset" /\ session[p] = "open"
    BY <1>7, <1>b DEF Offer, Unlock, clientVars, Quiet, Session, CallsFit, Fits
  <2>3. ASSUME NEW q \in Peers, q # p PROVE Holding(q)'
    <3>1. call'[Session(q)] = call[Session(q)]
      BY <1>b, <2>1, <2>3, WorkerKinds DEF Alone
    <3>2. session'[q] = session[q] /\ lock' # q /\ lock # q
      BY <1>7, <1>a, <1>b, <2>3 DEF Offer, Unlock, clientVars, Quiet, Session
    <3> QED
      BY <1>c, <2>1, <2>3, <3>1, <3>2 DEF Owner, Holding, Pending, Lost
  <2>4. Holding(p)'
    <3>1. lock = NoPeer /\ p \notin trying /\ lock' = p
      BY <1>7 DEF Offer
    <3>2. ~Leaving(p)
      BY <2>2 DEF Leaving, RemovePoints, TeardownPoints
    <3>3. current # 0 => handlers[current].sender # p
      BY <1>b, <1>c, <2>2, <3>1, <3>2 DEF Owner, Sending
    <3> QED
      BY <2>1, <3>1, <3>3 DEF Holding, Pending
  <2>5. current # 0 => Sending(handlers[current].sender)'
    <3> SUFFICES ASSUME current # 0, NEW s \in Peers, s = handlers[current].sender PROVE Sending(s)'
      BY <1>d, <2>1
    <3>1. CASE s = p
      BY <1>7, <1>a, <1>b, <1>c, <2>1, <2>2, <3>1 DEF Offer, Unlock, clientVars, Quiet, Session,
           Owner, Sending, Leaving, Lost
    <3>2. CASE s # p
      <4>1. call'[Session(s)] = call[Session(s)]
        BY <1>b, <2>1, <3>2, WorkerKinds DEF Alone
      <4>2. session'[s] = session[s] /\ lock # s /\ (s \in trying => s \in trying')
        BY <1>7, <1>a, <1>b, <3>2 DEF Offer, Unlock, clientVars, Quiet, Session
      <4> QED
        BY <1>c, <2>1, <4>1, <4>2 DEF Owner, Sending, Leaving, Lost
    <3> QED
      BY <3>1, <3>2
  <2> QED
    BY <1>7, <1>f, <2>3, <2>4, <2>5 DEF ClientStep, Client
<1>8. ASSUME NEW p \in Peers, OfferDropped(p) PROVE Owner'
  <2>1. UNCHANGED <<lock, current, handlers, call>> /\ (Ending' <=> Ending)
    BY <1>8, ClientKeeps, ClientEnding DEF ClientStep, Client, OfferDropped
  <2>2. \A q \in Peers :
           /\ session'[q] = "open" => session[q] = "open" \/ lock # q
           /\ session'[q] = session[q] \/ session[q] \in {"new", "open"}
           /\ q \in trying => q \in trying'
    BY <1>8, <1>a DEF OfferDropped, Sessions, Ready
  <2>3. \A q \in Peers : Holding(q)'
    BY <1>c, <2>1, <2>2 DEF Owner, Holding, Pending, Lost
  <2>4. current # 0 => Sending(handlers[current].sender)'
    BY <1>c, <1>d, <2>1, <2>2 DEF Owner, Sending, Leaving, Lost
  <2> QED
    BY <1>8, <1>f, <2>3, <2>4 DEF ClientStep, Client
<1>9. ASSUME NEW p \in Peers, SenderIce(p) PROVE Owner'
  <2>1. /\ Alone(Session(p)) /\ call'[Session(p)].at = "lookup" /\ call'[Session(p)].kind = "ice"
        /\ UNCHANGED <<current, handlers>> /\ (Ending' <=> Ending)
    BY <1>9, ClientCalls, ClientKeeps, ClientEnding DEF ClientStep, Client, Begins
  <2>2. call[Session(p)].at = "idle" /\ call[Session(p)].kind = "reset" /\ session[p] = "open"
    BY <1>9, <1>b DEF SenderIce, Unlock, clientVars, Quiet, Session, CallsFit, Fits
  <2>3. ASSUME NEW q \in Peers, q # p PROVE Holding(q)'
    <3>1. call'[Session(q)] = call[Session(q)]
      BY <1>b, <2>1, <2>3, WorkerKinds DEF Alone
    <3>2. session'[q] = session[q] /\ (lock' = q => lock = q) /\ (lock = q => lock' = q)
      BY <1>9, <1>a, <1>b, <2>3 DEF SenderIce, Unlock, clientVars, Quiet, Session
    <3> QED
      BY <1>c, <2>1, <2>3, <3>1, <3>2 DEF Owner, Holding, Pending, Lost
  <2>4. Holding(p)'
    BY <1>9, <1>a, <1>b, <1>c, <2>1, <2>2 DEF SenderIce, Unlock, clientVars, Quiet, Session,
         Owner, Holding, Sending, Pending, Leaving, Lost
  <2>5. current # 0 => Sending(handlers[current].sender)'
    <3> SUFFICES ASSUME current # 0, NEW s \in Peers, s = handlers[current].sender PROVE Sending(s)'
      BY <1>d, <2>1
    <3>1. CASE s = p
      <4>1. ~Leaving(p) /\ Sending(p)
        BY <1>c, <2>2, <3>1 DEF Leaving, Owner, RemovePoints, TeardownPoints
      <4>2. UNCHANGED <<lock, session, trying>>
        BY <1>9 DEF SenderIce, clientVars
      <4> QED
        BY <2>1, <3>1, <4>1, <4>2 DEF Sending, Lost
    <3>2. CASE s # p
      <4>1. call'[Session(s)] = call[Session(s)]
        BY <1>b, <2>1, <3>2, WorkerKinds DEF Alone
      <4>2. session'[s] = session[s] /\ (lock = s => lock' = s) /\ (s \in trying => s \in trying')
        BY <1>9, <1>a, <1>b, <3>2 DEF SenderIce, Unlock, clientVars, Quiet, Session
      <4> QED
        BY <1>c, <2>1, <4>1, <4>2 DEF Owner, Sending, Leaving, Lost
    <3> QED
      BY <3>1, <3>2
  <2> QED
    BY <1>9, <1>f, <2>3, <2>4, <2>5 DEF ClientStep, Client
<1>10. ASSUME NEW p \in Peers, ReceiverAnswer(p) PROVE Owner'
  <2>1. /\ Alone(Session(p)) /\ call'[Session(p)].at = "lookup" /\ call'[Session(p)].kind = "answer"
        /\ UNCHANGED <<current, handlers>> /\ (Ending' <=> Ending)
    BY <1>10, ClientCalls, ClientKeeps, ClientEnding DEF ClientStep, Client, Begins
  <2>2. call[Session(p)].at = "idle" /\ call[Session(p)].kind = "reset" /\ session[p] = "open"
    BY <1>10, <1>b DEF ReceiverAnswer, Unlock, clientVars, Quiet, Session, CallsFit, Fits
  <2>3. ASSUME NEW q \in Peers, q # p PROVE Holding(q)'
    <3>1. call'[Session(q)] = call[Session(q)]
      BY <1>b, <2>1, <2>3, WorkerKinds DEF Alone
    <3>2. session'[q] = session[q] /\ (lock' = q => lock = q) /\ (lock = q => lock' = q)
      BY <1>10, <1>a, <1>b, <2>3 DEF ReceiverAnswer, Unlock, clientVars, Quiet, Session
    <3> QED
      BY <1>c, <2>1, <2>3, <3>1, <3>2 DEF Owner, Holding, Pending, Lost
  <2>4. Holding(p)'
    BY <1>10, <1>a, <1>b, <1>c, <2>1, <2>2 DEF ReceiverAnswer, Unlock, clientVars, Quiet,
         Session, Owner, Holding, Sending, Pending, Leaving, Lost
  <2>5. current # 0 => Sending(handlers[current].sender)'
    <3> SUFFICES ASSUME current # 0, NEW s \in Peers, s = handlers[current].sender PROVE Sending(s)'
      BY <1>d, <2>1
    <3>1. CASE s = p
      <4>1. ~Leaving(p) /\ Sending(p)
        BY <1>c, <2>2, <3>1 DEF Leaving, Owner, RemovePoints, TeardownPoints
      <4>2. UNCHANGED <<lock, session, trying>>
        BY <1>10 DEF ReceiverAnswer, clientVars
      <4> QED
        BY <2>1, <3>1, <4>1, <4>2 DEF Sending, Lost
    <3>2. CASE s # p
      <4>1. call'[Session(s)] = call[Session(s)]
        BY <1>b, <2>1, <3>2, WorkerKinds DEF Alone
      <4>2. session'[s] = session[s] /\ (lock = s => lock' = s) /\ (s \in trying => s \in trying')
        BY <1>10, <1>a, <1>b, <3>2 DEF ReceiverAnswer, Unlock, clientVars, Quiet, Session
      <4> QED
        BY <1>c, <2>1, <4>1, <4>2 DEF Owner, Sending, Leaving, Lost
    <3> QED
      BY <3>1, <3>2
  <2> QED
    BY <1>10, <1>f, <2>3, <2>4, <2>5 DEF ClientStep, Client
<1>11. ASSUME NEW p \in Peers, ReceiverIce(p) PROVE Owner'
  <2>1. /\ Alone(Session(p)) /\ call'[Session(p)].at = "lookup" /\ call'[Session(p)].kind = "answer"
        /\ UNCHANGED <<current, handlers>> /\ (Ending' <=> Ending)
    BY <1>11, ClientCalls, ClientKeeps, ClientEnding DEF ClientStep, Client, Begins
  <2>2. call[Session(p)].at = "idle" /\ call[Session(p)].kind = "reset" /\ session[p] = "open"
    BY <1>11, <1>b DEF ReceiverIce, Unlock, clientVars, Quiet, Session, CallsFit, Fits
  <2>3. ASSUME NEW q \in Peers, q # p PROVE Holding(q)'
    <3>1. call'[Session(q)] = call[Session(q)]
      BY <1>b, <2>1, <2>3, WorkerKinds DEF Alone
    <3>2. session'[q] = session[q] /\ (lock' = q => lock = q) /\ (lock = q => lock' = q)
      BY <1>11, <1>a, <1>b, <2>3 DEF ReceiverIce, Unlock, clientVars, Quiet, Session
    <3> QED
      BY <1>c, <2>1, <2>3, <3>1, <3>2 DEF Owner, Holding, Pending, Lost
  <2>4. Holding(p)'
    BY <1>11, <1>a, <1>b, <1>c, <2>1, <2>2 DEF ReceiverIce, Unlock, clientVars, Quiet, Session,
         Owner, Holding, Sending, Pending, Leaving, Lost
  <2>5. current # 0 => Sending(handlers[current].sender)'
    <3> SUFFICES ASSUME current # 0, NEW s \in Peers, s = handlers[current].sender PROVE Sending(s)'
      BY <1>d, <2>1
    <3>1. CASE s = p
      <4>1. ~Leaving(p) /\ Sending(p)
        BY <1>c, <2>2, <3>1 DEF Leaving, Owner, RemovePoints, TeardownPoints
      <4>2. UNCHANGED <<lock, session, trying>>
        BY <1>11 DEF ReceiverIce, clientVars
      <4> QED
        BY <2>1, <3>1, <4>1, <4>2 DEF Sending, Lost
    <3>2. CASE s # p
      <4>1. call'[Session(s)] = call[Session(s)]
        BY <1>b, <2>1, <3>2, WorkerKinds DEF Alone
      <4>2. session'[s] = session[s] /\ (lock = s => lock' = s) /\ (s \in trying => s \in trying')
        BY <1>11, <1>a, <1>b, <3>2 DEF ReceiverIce, Unlock, clientVars, Quiet, Session
      <4> QED
        BY <1>c, <2>1, <4>1, <4>2 DEF Owner, Sending, Leaving, Lost
    <3> QED
      BY <3>1, <3>2
  <2> QED
    BY <1>11, <1>f, <2>3, <2>4, <2>5 DEF ClientStep, Client
<1>12. ASSUME NEW p \in Peers, VideoReset(p) PROVE Owner'
  <2>1. /\ Alone(Session(p)) /\ call'[Session(p)].at = "lookup" /\ call'[Session(p)].kind = "reset"
        /\ UNCHANGED <<current, handlers>> /\ (Ending' <=> Ending)
    BY <1>12, ClientCalls, ClientKeeps, ClientEnding DEF ClientStep, Client, Begins
  <2>2. call[Session(p)].at = "idle" /\ call[Session(p)].kind = "reset" /\ session[p] = "open"
    BY <1>12, <1>b DEF VideoReset, Unlock, clientVars, Quiet, Session, CallsFit, Fits
  <2>3. ASSUME NEW q \in Peers, q # p PROVE Holding(q)'
    <3>1. call'[Session(q)] = call[Session(q)]
      BY <1>b, <2>1, <2>3, WorkerKinds DEF Alone
    <3>2. session'[q] = session[q] /\ (lock' = q => lock = q) /\ (lock = q => lock' = q)
      BY <1>12, <1>a, <1>b, <2>3 DEF VideoReset, Unlock, clientVars, Quiet, Session
    <3> QED
      BY <1>c, <2>1, <2>3, <3>1, <3>2 DEF Owner, Holding, Pending, Lost
  <2>4. Holding(p)'
    BY <1>12, <1>a, <1>b, <1>c, <2>1, <2>2 DEF VideoReset, Unlock, clientVars, Quiet, Session,
         Owner, Holding, Sending, Pending, Leaving, Lost
  <2>5. current # 0 => Sending(handlers[current].sender)'
    <3> SUFFICES ASSUME current # 0, NEW s \in Peers, s = handlers[current].sender PROVE Sending(s)'
      BY <1>d, <2>1
    <3>1. CASE s = p
      BY <1>12, <1>a, <1>b, <1>c, <2>1, <2>2, <3>1 DEF VideoReset, Unlock, clientVars, Quiet,
           Session, Owner, Sending, Leaving, Lost
    <3>2. CASE s # p
      <4>1. call'[Session(s)] = call[Session(s)]
        BY <1>b, <2>1, <3>2, WorkerKinds DEF Alone
      <4>2. session'[s] = session[s] /\ (lock = s => lock' = s) /\ (s \in trying => s \in trying')
        BY <1>12, <1>a, <1>b, <3>2 DEF VideoReset, Unlock, clientVars, Quiet, Session
      <4> QED
        BY <1>c, <2>1, <4>1, <4>2 DEF Owner, Sending, Leaving, Lost
    <3> QED
      BY <3>1, <3>2
  <2> QED
    BY <1>12, <1>f, <2>3, <2>4, <2>5 DEF ClientStep, Client
<1>13. ASSUME NEW p \in Peers, CandidateFails(p) PROVE Owner'
  <2>1. /\ UNCHANGED <<lock, session, trying, current, handlers>> /\ (Ending' <=> Ending)
        /\ \A q \in Peers : call'[Session(q)] = call[Session(q)]
    <3>1. \A w \in Workers : w[2] # "failure" => call'[w] = call[w]
      BY <1>13, ClientCalls, WorkerKinds DEF Begins, Alone
    <3> QED
      BY <1>13, <1>b, <3>1, WorkerKinds, ClientKeeps, ClientEnding DEF CandidateFails,
           ClientStep, clientVars
  <2>2. \A q \in Peers : Holding(q)'
    BY <1>c, <2>1 DEF Owner, Holding, Pending, Lost
  <2>3. current # 0 => Sending(handlers[current].sender)'
    BY <1>c, <1>d, <2>1 DEF Owner, Sending, Leaving, Lost
  <2> QED
    BY <1>13, <1>f, <2>2, <2>3 DEF ClientStep
<1>14. ASSUME NEW bin \in Bins, Deliver(bin) PROVE Owner'
  <2>1. /\ UNCHANGED <<lock, session, trying, current, handlers>> /\ (Ending' <=> Ending)
        /\ \A q \in Peers : call'[Session(q)] = call[Session(q)]
    <3>1. \A w \in Workers : w[2] # "failure" => call'[w] = call[w]
      BY <1>14, DeliverCalls, WorkerKinds DEF Begins, Alone
    <3> QED
      BY <1>14, <1>b, <3>1, WorkerKinds, ClientKeeps, ClientEnding DEF Deliver, ClientStep,
           clientVars
  <2>2. \A q \in Peers : Holding(q)'
    BY <1>c, <2>1 DEF Owner, Holding, Pending, Lost
  <2>3. current # 0 => Sending(handlers[current].sender)'
    BY <1>c, <1>d, <2>1 DEF Owner, Sending, Leaving, Lost
  <2> QED
    BY <1>14, <1>f, <2>2, <2>3 DEF ClientStep
<1>15. CASE SignallingRestart
  <2>1. /\ lock' = NoPeer /\ trying' = {} /\ UNCHANGED <<current, handlers>> /\ (Ending' <=> Ending)
        /\ \A q \in Peers :
              session'[q] = IF session[q] \in {"open", "broken"} \/ Unlisting(q) THEN "lost"
                            ELSE session[q]
    BY <1>15, ClientKeeps, ClientEnding DEF SignallingRestart, ClientStep
  <2>2. \A q \in Peers :
           call'[Session(q)] = IF Unlisting(q) THEN Idle ELSE call[Session(q)]
    BY <1>15, <1>b, RestartCalls DEF Unlisting, Session
  <2>3. \A q \in Peers : Holding(q)'
    <3> SUFFICES ASSUME NEW q \in Peers, Pending(Session(q))'
                 PROVE  Lost(q)' /\ (current # 0 => handlers[current].sender # q)
      BY <1>b, <2>1 DEF Holding
    <3>1. Pending(Session(q))
      BY <2>2, IdleType DEF Pending
    <3> QED
      BY <1>c, <2>1, <3>1 DEF Owner, Holding, Pending, Sessions, Ready, Lost
  <2>4. current # 0 => Sending(handlers[current].sender)'
    <3> SUFFICES ASSUME current # 0, NEW s \in Peers, s = handlers[current].sender PROVE Sending(s)'
      BY <1>d, <2>1
    <3>1. Sending(s) /\ Ready(s)
      BY <1>c DEF Owner, Sessions
    <3>2. CASE Unlisting(s)
      BY <2>1, <3>2 DEF Sending, Lost
    <3>3. CASE ~Unlisting(s)
      BY <1>a, <2>1, <2>2, <3>1, <3>3 DEF Sending, Ready, Leaving, Lost
    <3> QED
      BY <3>2, <3>3
  <2> QED
    BY <1>15, <1>f, <2>3, <2>4 DEF ClientStep
<1>16. ASSUME NEW w \in Workers, Unlist(w) PROVE Owner'
  <2>1. Moves(w, "lookup") /\ call[w].at = "unlist"
        /\ UNCHANGED <<lock, session, trying, current, handlers>>
    BY <1>16, WorkerCalls DEF Unlist, At, serverVars
  <2>2. Ending' <=> Ending
    BY <2>1, EndingSame DEF Moves, TeardownPoints
  <2> QED
    BY <1>c, <1>d, <2>1, <2>2, OwnerStays DEF Moves, TeardownPoints
<1>17. ASSUME NEW w \in Workers, Lookup(w) PROVE Owner'
  <2>1. call[w].at = "lookup" /\ UNCHANGED <<lock, session, trying, current, handlers>>
    BY <1>17 DEF Lookup, At, clientVars, serverVars
  <2>2. call[w].kind \in Kinds \ {"bus"}
    BY <1>17, <1>a, <2>1 DEF CallRecords, CallsFit, Fits, TeardownPoints
  <2>3. CASE Ends(w) /\ current = 0 /\ ~Pending(w)
    <3>1. Ending' <=> Ending
      BY <2>1, <2>3, EndingSame, IdleType DEF Ends, TeardownPoints
    <3> QED
      BY <1>c, <1>d, <2>1, <2>3, <3>1, OwnerStays, IdleType DEF Ends, TeardownPoints
  <2>4. CASE ~(Ends(w) /\ current = 0 /\ ~Pending(w))
    <3>1. /\ Alone(w) /\ call'[w].at = Found(call[w].kind)
          /\ call'[w].kind = call[w].kind /\ call'[w].peer = call[w].peer
      BY <1>17, <2>4, WorkerCalls DEF Pending
    <3>2. call'[w].at \in {"create", "ice", "answer", "remove"}
      BY <2>2, <3>1 DEF Found, Kinds
    <3>3. Ending' <=> Ending
      BY <2>1, <3>1, <3>2, EndingSame DEF TeardownPoints
    <3>4. CASE call[w].kind \in {"reset", "close"}
      <4>1. call'[w].at = "remove"
        BY <3>1, <3>4 DEF Found
      <4> QED
        BY <1>c, <1>d, <2>1, <3>1, <3>3, <4>1, OwnerStays DEF RemovePoints, TeardownPoints
    <3>5. CASE call[w].kind \notin {"reset", "close"}
      <4>1. \A p \in Peers : Pending(Session(p))' <=> Pending(Session(p))
        BY <1>b, <3>1 DEF Pending, Alone
      <4>2. \A p \in Peers : Leaving(p) => Leaving(p)'
        BY <1>b, <3>1, <3>5 DEF Leaving, Alone
      <4>3. \A p \in Peers : Holding(p)'
        BY <1>c, <2>1, <3>3, <4>1 DEF Owner, Holding, Lost
      <4>4. current # 0 => Sending(handlers[current].sender)'
        BY <1>c, <1>d, <2>1, <3>3, <4>2 DEF Owner, Sending, Lost
      <4>5. \A v \in Workers \ {BusWorker} :
               call'[v].at \in TeardownPoints => Caller(v)' = handlers[current].sender
        BY <1>c, <2>1, <3>1, <3>2 DEF Owner, Alone, Caller, TeardownPoints
      <4> QED
        BY <2>1, <4>3, <4>4, <4>5 DEF Owner
    <3> QED
      BY <3>4, <3>5
  <2> QED
    BY <2>3, <2>4
<1>18. ASSUME NEW w \in Workers, Create(w) PROVE Owner'
  <2> DEFINE p == Caller(w)
  <2>0. PICK n \in Offers : n = call[w].offer
    BY <1>18, OfferPending DEF Create, At
  <2>1. /\ call[w].handler = 0 /\ current = 0 /\ current' = n
        /\ ~SomeAt(RemovePoints) /\ UNCHANGED <<lock, session, trying>>
    BY <1>18, <1>a, <2>0 DEF Create, Tidy, clientVars
  <2>2. call[w].at = "create" /\ call[w].kind = "offer"
    BY <1>18, OfferPending DEF Create, At
  <2>3. w = Session(p) /\ p \in Peers
    <3>1. w # BusWorker /\ w[2] # "failure" /\ Caller(w) = w[1]
      BY <2>2 DEF CallsFit, Fits, Caller
    <3> QED
      BY <3>1, WorkerKinds
  <2>4. Ends(w)
    BY <1>18, WorkerCalls
  <2>5. handlers'[n].sender = p
    BY <1>18, <1>a, <2>0, <2>1 DEF Create, SetHandler, HandlerRecords
  <2>6. ~Ending /\ ~Ending'
    BY <2>1, <2>4, IdleType DEF Ending, SomeAt, Ends, Alone, RemovePoints, TeardownPoints
  <2>7. (lock = p \/ Lost(p)) /\ (p \in trying \/ Lost(p))
    BY <1>c, <2>2, <2>3 DEF Owner, Holding, Pending, Sessions, Ready
  <2>8. PICK q \in Peers : q = p
    BY <2>3
  <2> HIDE DEF p
  <2>9. \A r \in Peers : Holding(r)'
    <3> SUFFICES ASSUME NEW r \in Peers PROVE Holding(r)'
      OBVIOUS
    <3>1. CASE r = q
      BY <1>b, <2>1, <2>3, <2>4, <2>5, <2>6, <2>8, <3>1, IdleType DEF Holding, Pending, Ends
    <3>2. CASE r # q
      <4>1. call'[Session(r)] = call[Session(r)]
        BY <1>b, <2>3, <2>4, <2>8, <3>2, WorkerKinds DEF Ends, Alone
      <4> QED
        BY <1>b, <1>c, <2>1, <2>5, <2>8, <3>2, <4>1 DEF Owner, Holding, Pending, Lost
    <3> QED
      BY <3>1, <3>2
  <2>10. Sending(q)'
    BY <2>1, <2>7, <2>8 DEF Sending, Lost
  <2>11. \A v \in Workers : call'[v].at \notin TeardownPoints
    BY <2>1, <2>4, IdleType DEF SomeAt, Ends, Alone, RemovePoints, TeardownPoints
  <2> QED
    BY <2>1, <2>5, <2>8, <2>9, <2>10, <2>11 DEF Owner
<1>19. ASSUME NEW w \in Workers, Ice(w) PROVE Owner'
  <2>1. call[w].at = "ice" /\ UNCHANGED <<lock, session, trying, current, handlers>>
    BY <1>19 DEF Ice, At, clientVars, serverVars
  <2>2. Alone(w) /\ (Ends(w) \/ Moves(w, "apply"))
    BY <1>19, WorkerCalls DEF Ends, Moves
  <2>3. ~Pending(w) /\ \A p \in Peers : w = Session(p) => ~Leaving(p)
    BY <2>1 DEF CallsFit, Fits, Pending, Leaving, RemovePoints, TeardownPoints
  <2>4. Ending' <=> Ending
    BY <2>1, <2>2, EndingSame, IdleType DEF Ends, Moves, TeardownPoints
  <2> QED
    BY <1>c, <1>d, <2>1, <2>2, <2>3, <2>4, OwnerStays, IdleType DEF Ends, Moves, RemovePoints,
         TeardownPoints
<1>20. ASSUME NEW w \in Workers, Answer(w) PROVE Owner'
  <2>1. call[w].at = "answer" /\ UNCHANGED <<lock, session, trying, current, handlers>>
    BY <1>20 DEF Answer, At, clientVars, serverVars
  <2>2. Alone(w) /\ (Ends(w) \/ Moves(w, "apply"))
    BY <1>20, WorkerCalls DEF Ends, Moves
  <2>3. ~Pending(w) /\ \A p \in Peers : w = Session(p) => ~Leaving(p)
    BY <2>1 DEF CallsFit, Fits, Pending, Leaving, RemovePoints, TeardownPoints
  <2>4. Ending' <=> Ending
    BY <2>1, <2>2, EndingSame, IdleType DEF Ends, Moves, TeardownPoints
  <2> QED
    BY <1>c, <1>d, <2>1, <2>2, <2>3, <2>4, OwnerStays, IdleType DEF Ends, Moves, RemovePoints,
         TeardownPoints
<1>21. ASSUME NEW w \in Workers, Apply(w) PROVE Owner'
  <2>1. CASE Crash("freed")
    BY <2>1, <1>1, CrashFreezes DEF Faults
  <2>2. CASE ~Crash("freed")
    <3>1. call[w].at = "apply" /\ UNCHANGED <<lock, session, trying, current, handlers>>
      BY <1>21, <2>2 DEF Apply, At, clientVars, serverVars
    <3>2. Alone(w) /\ (Ends(w) \/ Moves(w, "apply"))
      BY <1>21, <2>2, WorkerCalls DEF Ends, Moves
    <3>3. ~Pending(w) /\ \A p \in Peers : w = Session(p) => ~Leaving(p)
      BY <3>1 DEF CallsFit, Fits, Pending, Leaving, RemovePoints, TeardownPoints
    <3>4. Ending' <=> Ending
      BY <3>1, <3>2, EndingSame, IdleType DEF Ends, Moves, TeardownPoints
    <3> QED
      BY <1>c, <1>d, <3>1, <3>2, <3>3, <3>4, OwnerStays, IdleType DEF Ends, Moves, RemovePoints,
           TeardownPoints
  <2> QED
    BY <2>1, <2>2
<1>22. ASSUME NEW w \in Workers, Remove(w) PROVE Owner'
  <2>1. /\ Removing(w) /\ call[w].at = "remove"
        /\ UNCHANGED <<lock, session, trying, current>>
    BY <1>22 DEF Remove, At, Removing, RemovePoints, TeardownPoints, clientVars
  <2>2. /\ current \in Offers /\ call[w].handler = current /\ Handler(w) = handlers[current]
        /\ handlers[current].sender \in Peers
    BY <1>c, <1>d, <2>1 DEF OneStream, Handler
  <2>3. handlers'[current].sender = handlers[current].sender
    BY <1>22, <1>a, <2>2 DEF Remove, SetHandler, HandlerRecords
  <2>4. w # BusWorker /\ Caller(w) = w[1] /\ call[w].kind \in {"reset", "close"}
    <3>1. w # BusWorker
      BY <2>1, CallHandlers DEF TeardownPoints
    <3> QED
      BY <2>1, <3>1 DEF CallsFit, Fits, Caller, RemovePoints, TeardownPoints
  <2>5. CASE Caller(w) # handlers[current].sender
    <3>1. Ends(w)
      BY <1>22, <2>2, <2>5, WorkerCalls
    <3>2. ~Pending(w) /\ \A p \in Peers : w = Session(p) => handlers[current].sender # p
      BY <2>4, <2>5, WorkerKinds DEF Pending
    <3>3. Ending' <=> Ending
      BY <2>1, <3>1, EndingSame, IdleType DEF Ends, TeardownPoints
    <3> QED
      BY <1>c, <1>d, <2>1, <2>3, <3>1, <3>2, <3>3, OwnerStays, IdleType DEF Ends, TeardownPoints
  <2>6. CASE Caller(w) = handlers[current].sender
    <3> DEFINE s == handlers[current].sender
    <3>1. Moves(w, "strip")
      BY <1>22, <2>2, <2>6, WorkerCalls
    <3>2. ~Ending /\ Ending'
      BY <1>c, <2>1, <3>1, EndingAt DEF Moves, TeardownPoints
    <3>3. \A p \in Peers : Pending(Session(p))' <=> Pending(Session(p))
      BY <1>b, <3>1 DEF Pending, Moves, Alone
    <3>4. \A p \in Peers : Leaving(p) => Leaving(p)'
      BY <1>b, <3>1 DEF Leaving, Moves, Alone, RemovePoints, TeardownPoints
    <3>5. lock # s \/ session[s] # "open"
      <4>1. w \in {Session(s), Failure(s)}
        <5>1. w[1] = s
          BY <2>4, <2>6
        <5>2. w \in {Session(w[1]), Failure(w[1])}
          BY <2>4, WorkerKinds
        <5> QED
          BY <5>1, <5>2
      <4>2. Ready(s)
        BY <2>2 DEF Sessions
      <4> QED
        BY <2>1, <2>4, <4>1, <4>2 DEF Ready
    <3>6. ASSUME NEW p \in Peers PROVE Holding(p)'
      <4>1. Holding(p)
        BY <1>c DEF Owner
      <4> QED
        BY <1>b, <2>1, <2>2, <2>3, <3>3, <3>5, <4>1 DEF Holding, Lost
    <3>7. Sending(handlers[current].sender)'
      BY <1>b, <1>c, <2>1, <2>2, <2>3, <3>2, <3>4 DEF Owner, Sending, Lost
    <3>8. \A v \in Workers \ {BusWorker} :
            call'[v].at \in TeardownPoints => Caller(v)' = handlers[current].sender
      BY <1>c, <2>1, <2>6, <3>1 DEF Owner, Moves, Alone, Caller, TeardownPoints
    <3> QED
      BY <2>1, <2>3, <3>6, <3>7, <3>8 DEF Owner
  <2> QED
    BY <2>5, <2>6
<1>23. ASSUME NEW w \in Workers, Free(w) PROVE Owner'
  <2>1. /\ Removing(w) /\ call[w].at = "free"
        /\ UNCHANGED <<session, trying, current, handlers>>
    BY <1>23 DEF Free, At, Removing, RemovePoints, TeardownPoints, serverVars
  <2>2. Moves(w, "strip")
    BY <1>23, WorkerCalls
  <2>3. current \in Offers /\ call[w].handler = current /\ handlers[current].sender \in Peers
    BY <1>c, <1>d, <2>1 DEF OneStream
  <2>4. ~Ending /\ Ending'
    BY <1>c, <2>1, <2>2, EndingAt DEF Moves, TeardownPoints
  <2>5. lock' = (IF lock = handlers[current].sender THEN NoPeer ELSE lock)
    BY <1>23, <2>3 DEF Free, Unlock, Handler
  <2>6. \A p \in Peers : Pending(Session(p))' <=> Pending(Session(p))
    BY <1>b, <2>2 DEF Pending, Moves, Alone
  <2>7. \A p \in Peers : Leaving(p) => Leaving(p)'
    BY <1>b, <2>2 DEF Leaving, Moves, Alone, RemovePoints, TeardownPoints
  <2>8. ASSUME NEW p \in Peers PROVE Holding(p)'
    <3>1. Holding(p)
      BY <1>c DEF Owner
    <3>2. lock' = p => lock = p /\ handlers[current].sender # p
      BY <1>b, <2>5
    <3>3. lock = p => lock' = p \/ handlers[current].sender = p
      BY <2>5
    <3> QED
      BY <1>b, <2>1, <2>3, <2>6, <3>1, <3>2, <3>3 DEF Holding, Lost
  <2>9. Sending(handlers[current].sender)'
    BY <1>b, <1>c, <2>1, <2>3, <2>4, <2>7 DEF Owner, Sending
  <2>10. \A v \in Workers \ {BusWorker} :
            call'[v].at \in TeardownPoints => Caller(v)' = handlers[current].sender
    BY <1>c, <2>1, <2>2 DEF Owner, Moves, Alone, Caller, TeardownPoints
  <2> QED
    BY <2>1, <2>8, <2>9, <2>10 DEF Owner
<1>24. ASSUME NEW w \in Workers, Strip(w) PROVE Owner'
  <2>1. /\ Removing(w) /\ call[w].at = "strip"
        /\ UNCHANGED <<lock, session, trying, current>>
    BY <1>24 DEF Strip, At, Removing, RemovePoints, TeardownPoints, clientVars
  <2>2. /\ Alone(w) /\ call'[w].at \in {"quit", "nullify"}
        /\ call'[w].kind = call[w].kind /\ call'[w].peer = call[w].peer
    BY <1>24, WorkerCalls DEF Moves
  <2>3. current \in Offers /\ call[w].handler = current
    BY <1>c, <1>d, <2>1 DEF OneStream
  <2>4. handlers'[current].sender = handlers[current].sender
    BY <1>24, <1>a, <2>3 DEF Strip, SetHandler, Handler, HandlerRecords
  <2>5. Ending' <=> Ending
    BY <1>c, <2>1, <2>2, EndingAt DEF TeardownPoints
  <2>6. w # BusWorker => Caller(w)' = handlers[current].sender
    BY <1>c, <2>1, <2>2 DEF Owner, Caller, TeardownPoints
  <2> QED
    BY <1>b, <1>c, <1>d, <2>1, <2>2, <2>3, <2>4, <2>5, <2>6, OwnerStays DEF RemovePoints,
         TeardownPoints
<1>25. ASSUME NEW w \in Workers, StripErases(w) PROVE Owner'
  BY <1>25, <1>1, CrashFreezes DEF StripErases, Faults
<1>26. ASSUME NEW w \in Workers, Nullify(w) PROVE Owner'
  <2>1. /\ Removing(w) /\ call[w].at = "nullify"
        /\ UNCHANGED <<lock, session, trying, current>>
    BY <1>26 DEF Nullify, At, Removing, RemovePoints, TeardownPoints, clientVars
  <2>2. /\ Alone(w) /\ call'[w].at \in {"forget"}
        /\ call'[w].kind = call[w].kind /\ call'[w].peer = call[w].peer
    BY <1>26, WorkerCalls DEF Moves
  <2>3. current \in Offers /\ call[w].handler = current
    BY <1>c, <1>d, <2>1 DEF OneStream
  <2>4. handlers'[current].sender = handlers[current].sender
    BY <1>26, <1>a, <2>3 DEF Nullify
  <2>5. Ending' <=> Ending
    BY <1>c, <2>1, <2>2, EndingAt DEF TeardownPoints
  <2>6. w # BusWorker => Caller(w)' = handlers[current].sender
    BY <1>c, <2>1, <2>2 DEF Owner, Caller, TeardownPoints
  <2> QED
    BY <1>b, <1>c, <1>d, <2>1, <2>2, <2>3, <2>4, <2>5, <2>6, OwnerStays DEF RemovePoints,
         TeardownPoints
<1>27. ASSUME NEW w \in Workers, NullifyTimeout(w) PROVE Owner'
  BY <1>27 DEF NullifyTimeout, Tidy
<1>28. ASSUME NEW w \in Workers, Forget(w) PROVE Owner'
  <2>1. /\ Removing(w) /\ call[w].at = "forget"
        /\ UNCHANGED <<lock, session, trying, current>>
    BY <1>28 DEF Forget, At, Removing, RemovePoints, TeardownPoints, clientVars
  <2>2. /\ Alone(w) /\ call'[w].at \in {"quit"}
        /\ call'[w].kind = call[w].kind /\ call'[w].peer = call[w].peer
    BY <1>28, WorkerCalls DEF Moves
  <2>3. current \in Offers /\ call[w].handler = current
    BY <1>c, <1>d, <2>1 DEF OneStream
  <2>4. handlers'[current].sender = handlers[current].sender
    BY <1>28, <1>a, <2>3 DEF Forget, SetHandler, Handler, HandlerRecords
  <2>5. Ending' <=> Ending
    BY <1>c, <2>1, <2>2, EndingAt DEF TeardownPoints
  <2>6. w # BusWorker => Caller(w)' = handlers[current].sender
    BY <1>c, <2>1, <2>2 DEF Owner, Caller, TeardownPoints
  <2> QED
    BY <1>b, <1>c, <1>d, <2>1, <2>2, <2>3, <2>4, <2>5, <2>6, OwnerStays DEF RemovePoints,
         TeardownPoints
<1>29. ASSUME NEW w \in Workers, NullifyLate(w) PROVE Owner'
  <2>1. Removing(w) /\ call[w].at = "nullifyLate"
    BY <1>29 DEF NullifyLate, At, Removing, RemovePoints, TeardownPoints
  <2> QED
    BY <1>c, <2>1 DEF OneStream
<1>30. ASSUME NEW w \in Workers, Quit(w) PROVE Owner'
  <2>1. CASE Crash("freed")
    BY <2>1, <1>1, CrashFreezes DEF Faults
  <2>2. CASE ~Crash("freed")
    <3>1. /\ Removing(w) /\ call[w].at = "quit"
          /\ UNCHANGED <<lock, session, trying, current>>
      BY <1>30, <2>2 DEF Quit, At, Removing, RemovePoints, TeardownPoints, clientVars
    <3>2. /\ Alone(w) /\ call'[w].at \in {"unmap"}
          /\ call'[w].kind = call[w].kind /\ call'[w].peer = call[w].peer
      BY <1>30, <2>2, WorkerCalls DEF Moves
    <3>3. current \in Offers /\ call[w].handler = current
      BY <1>c, <1>d, <3>1 DEF OneStream
    <3>4. handlers'[current].sender = handlers[current].sender
      BY <1>30, <2>2, <1>a, <3>3 DEF Quit
    <3>5. Ending' <=> Ending
      BY <1>c, <3>1, <3>2, EndingAt DEF TeardownPoints
    <3>6. w # BusWorker => Caller(w)' = handlers[current].sender
      BY <1>c, <3>1, <3>2 DEF Owner, Caller, TeardownPoints
    <3> QED
      BY <1>b, <1>c, <1>d, <3>1, <3>2, <3>3, <3>4, <3>5, <3>6, OwnerStays DEF RemovePoints,
           TeardownPoints
  <2> QED
    BY <2>1, <2>2
<1>31. ASSUME NEW w \in Workers, Unmap(w) PROVE Owner'
  <2>1. /\ Removing(w) /\ call[w].at = "unmap" /\ current' = 0
        /\ UNCHANGED <<lock, session, trying>>
    BY <1>31 DEF Unmap, At, Removing, RemovePoints, TeardownPoints, clientVars
  <2>2. Ends(w)
    BY <1>31, WorkerCalls
  <2>3. Ending
    BY <1>c, <2>1, EndingAt
  <2>4. ~Pending(w)
    BY <2>1 DEF CallsFit, Fits, Pending, RemovePoints, TeardownPoints
  <2>5. \A p \in Peers : Pending(Session(p))' <=> Pending(Session(p))
    BY <1>b, <2>2, <2>4, IdleType DEF Pending, Ends, Alone
  <2>6. \A p \in Peers : Holding(p)'
    BY <1>b, <1>c, <2>1, <2>3, <2>5 DEF Owner, Holding, Lost
  <2>7. \A v \in Workers : call'[v].at \notin TeardownPoints
    BY <1>c, <2>1, <2>2, IdleType DEF OneStream, Ends, Alone, Removing, RemovePoints,
         TeardownPoints
  <2> QED
    BY <2>1, <2>6, <2>7 DEF Owner
<1>32. ASSUME NEW n \in Offers, BusMessage(n) PROVE Owner'
  <2>1. UNCHANGED <<lock, session, trying, current, handlers>>
    BY <1>32 DEF BusMessage, clientVars
  <2>2. /\ Alone(BusWorker) /\ call[BusWorker].at = "idle" /\ call'[BusWorker].at = "free"
    BY <1>32, <1>a, WorkerKinds DEF BusMessage, Idle, Alone
  <2>3. Ending' <=> Ending
    BY <2>2, WorkerKinds, EndingSame DEF TeardownPoints
  <2>4. \A p \in Peers : call'[Session(p)] = call[Session(p)]
    BY <1>b, <2>2, WorkerKinds DEF Alone
  <2>5. \A p \in Peers : Holding(p)'
    BY <1>c, <2>1, <2>3, <2>4 DEF Owner, Holding, Pending, Lost
  <2>6. current # 0 => Sending(handlers[current].sender)'
    BY <1>c, <1>d, <2>1, <2>3, <2>4 DEF Owner, Sending, Leaving, Lost
  <2>7. \A v \in Workers \ {BusWorker} :
           call'[v].at \in TeardownPoints => Caller(v)' = handlers[current].sender
    BY <1>c, <2>1, <2>2 DEF Owner, Alone, Caller
  <2> QED
    BY <2>1, <2>5, <2>6, <2>7 DEF Owner
<1>33. ASSUME NEW n \in Offers, LaunchFetch(n) PROVE Owner'
  <2>1. UNCHANGED <<lock, session, trying, current, call>>
    BY <1>33 DEF LaunchFetch, clientVars
  <2>2. current # 0 => handlers'[current].sender = handlers[current].sender
    BY <1>33, <1>a, <1>d DEF LaunchFetch, SetHandler, HandlerRecords
  <2> QED
    BY <1>e, <2>1, <2>2
<1>34. ASSUME NEW n \in Offers, LaunchBuild(n) PROVE Owner'
  <2>1. UNCHANGED <<lock, session, trying, current, call>>
    BY <1>34 DEF LaunchBuild, clientVars
  <2>2. current # 0 => handlers'[current].sender = handlers[current].sender
    BY <1>34, <1>a, <1>d DEF LaunchBuild, SetHandler, HandlerRecords
  <2> QED
    BY <1>e, <2>1, <2>2
<1>35. ASSUME NEW n \in Offers, LaunchReceivers(n) PROVE Owner'
  <2>1. CASE Crash("assert")
    BY <2>1, <1>1, CrashFreezes DEF Faults
  <2>2. CASE ~Crash("assert")
    <3>1. UNCHANGED <<lock, session, trying, current, call>>
      BY <1>35, <2>2 DEF LaunchReceivers, clientVars
    <3>2. current # 0 => handlers'[current].sender = handlers[current].sender
      BY <1>35, <2>2, <1>a, <1>d DEF LaunchReceivers, SetHandler, HandlerRecords
    <3> QED
      BY <1>e, <3>1, <3>2
  <2> QED
    BY <2>1, <2>2
<1>36. ASSUME NEW n \in Offers, LaunchPlay(n) PROVE Owner'
  <2>1. UNCHANGED <<lock, session, trying, current, call>>
    BY <1>36 DEF LaunchPlay, clientVars
  <2>2. current # 0 => handlers'[current].sender = handlers[current].sender
    BY <1>36, <1>a, <1>d DEF LaunchPlay, SetHandler, HandlerRecords
  <2> QED
    BY <1>e, <2>1, <2>2
<1>37. ASSUME NEW n \in Offers, LaunchLoop(n) PROVE Owner'
  <2>1. UNCHANGED <<lock, session, trying, current, call>>
    BY <1>37 DEF LaunchLoop, clientVars
  <2>2. current # 0 => handlers'[current].sender = handlers[current].sender
    BY <1>37, <1>a, <1>d DEF LaunchLoop, SetHandler, HandlerRecords
  <2> QED
    BY <1>e, <2>1, <2>2
<1> QED
  BY <1>1, <1>2, <1>3, <1>4, <1>5, <1>6, <1>7, <1>8, <1>9, <1>10, <1>11, <1>12, <1>13,
     <1>14, <1>15, <1>16, <1>17, <1>18, <1>19, <1>20, <1>21, <1>22, <1>23, <1>24,
     <1>25, <1>26, <1>27, <1>28, <1>29, <1>30, <1>31, <1>32, <1>33, <1>34, <1>35,
     <1>36, <1>37
     DEF Next, Step, Proceed, Launch, Client

\* Nothing the media server dies of happens while nothing has overlapped.
LEMMA NextFaults ==
  ASSUME IInv, [Next]_vars PROVE FaultNeedsOverlap'
<1> SUFFICES ASSUME Tidy', fault' # "none" PROVE FALSE
  BY DEF FaultNeedsOverlap, Up, Tidy
<1>a. Tidy /\ OneStream /\ fault = "none"
  <2>1. Tidy
    BY TidyBefore DEF IInv
  <2> QED
    BY <2>1 DEF IInv, FaultNeedsOverlap, Up, Tidy
<1>b. /\ handlers \in [Offers -> HandlerRecords] /\ current \in 0..MaxOffers
      /\ playing \subseteq Offers /\ CallsFit /\ TypeOK
      /\ 0..MaxOffers = Offers \cup {0} /\ 0 \notin Offers
  BY ChannelAssumption DEF IInv, TypeOK, Offers
<1>c. ASSUME NEW w \in Workers, Removing(w)
      PROVE  /\ call[w].handler = current /\ current \in Offers /\ Stage(current)
             /\ Handler(w) = handlers[current]
             /\ Forgotten <=> call[w].at \in {"quit", "unmap"}
             /\ LoopQuit <=> call[w].at = "unmap"
             /\ launch[current].at \in {"running", "over"}
  <2>1. current # 0
    BY <1>a, <1>c DEF OneStream
  <2> QED
    BY <1>a, <1>b, <1>c, <2>1, RemoverAt DEF OneStream, Handler
<1>1. UNCHANGED fault => FALSE
  BY <1>a
<1>2. CASE UNCHANGED vars \/ ClientStep
  BY <1>1, <1>2, <1>b, ClientKeeps DEF vars, historyVars
<1>3. ASSUME NEW w \in Workers,
       Unlist(w) \/ Lookup(w) \/ Create(w) \/ Ice(w) \/ Answer(w) \/ Remove(w) \/ Free(w)
             \/ Strip(w) \/ Nullify(w) \/ NullifyTimeout(w) \/ Forget(w) \/ NullifyLate(w) \/ Unmap(w)
      PROVE  FALSE
  BY <1>1, <1>3 DEF Unlist, Lookup, Create, Ice, Answer, Remove, Free, Strip, Nullify,
       NullifyTimeout, Forget, NullifyLate, Unmap, historyVars
<1>4. ASSUME NEW w \in Workers, Apply(w) PROVE FALSE
  <2>1. Caller(w) \in Handler(w).receivers
    BY <1>4, <1>a DEF Apply, At, OneStream
  <2> QED
    BY <1>1, <1>4, <2>1 DEF Apply, historyVars
<1>5. ASSUME NEW w \in Workers, StripErases(w) PROVE FALSE
  <2>1. Removing(w) /\ call[w].at = "strip"
    BY <1>5 DEF StripErases, At, Removing, RemovePoints, TeardownPoints
  <2>2. /\ Handler(w) = handlers[current] /\ Stage(current) /\ ~Forgotten /\ ~LoopQuit
        /\ launch[current].at = "running" /\ current \in Offers
    BY <1>c, <2>1 DEF Stage
  <2>3. /\ handlers[current].pipeline = current
        /\ bins[current] = Whole(handlers[current].sender, handlers[current].receivers)
    BY <2>2 DEF Stage
  <2>4. \A r \in handlers[current].receivers : <<"recv", r>> \in bins[current]
    BY <2>3 DEF Whole
  <2> QED
    BY <1>5, <2>2, <2>3, <2>4 DEF StripErases
<1>6. ASSUME NEW w \in Workers, Quit(w) PROVE FALSE
  <2>1. Removing(w) /\ call[w].at = "quit"
    BY <1>6 DEF Quit, At, Removing, RemovePoints, TeardownPoints
  <2>2. Handler(w) = handlers[current] /\ launch[current].at = "running" /\ Stage(current)
    BY <1>c, <2>1 DEF Stage
  <2>3. Handler(w).loop = current
    BY <2>2 DEF Stage
  <2> QED
    BY <1>1, <1>6, <2>2, <2>3 DEF Quit, historyVars
<1>7. ASSUME NEW n \in Offers, LaunchReceivers(n) PROVE FALSE
  <2>1. n = current /\ Stage(n) /\ launch[n].at = "receivers" /\ ~Forgotten
    <3>1. launch[n].at = "receivers"
      BY <1>7 DEF LaunchReceivers, LaunchAt
    <3>2. n = current /\ current # 0 /\ Stage(n)
      BY <1>a, <1>b, <3>1 DEF OneStream
    <3>3. \A w \in Workers : ~Removing(w)
      BY <1>a, <3>1, <3>2 DEF OneStream
    <3> QED
      BY <3>1, <3>2, <3>3, NoRemover
  <2>2. handlers[n].pipeline = n /\ launch[n].handler = n /\ bins[n] = {<<"send", handlers[n].sender>>}
    BY <2>1 DEF Stage
  <2>3. Linkable(n)
    BY <1>b, <2>2 DEF Linkable
  <2> QED
    BY <1>1, <1>7, <2>2, <2>3 DEF LaunchReceivers, historyVars
<1>8. ASSUME NEW n \in Offers, \/ BusMessage(n) \/ LaunchFetch(n) \/ LaunchBuild(n)
                               \/ LaunchPlay(n) \/ LaunchLoop(n)
      PROVE  FALSE
  BY <1>1, <1>8 DEF BusMessage, LaunchFetch, LaunchBuild, LaunchPlay, LaunchLoop, historyVars
<1>9. CASE CallbackAborts
  <2>1. current = 0 /\ playing # {}
    BY <1>9 DEF CallbackAborts
  <2> QED
    BY <1>a, <1>b, <2>1 DEF OneStream
<1>10. CASE LookupRace
  BY <1>10 DEF LookupRace, Tidy
<1> QED
  BY <1>2, <1>3, <1>4, <1>5, <1>6, <1>7, <1>8, <1>9, <1>10
     DEF Next, Step, ClientStep, Proceed, Launch

\* At the start nothing is there.
LEMMA InitIInv ==
  ASSUME Init PROVE IInv
<1>1. TypeOK
  <2>1. Idle \in CallRecords /\ NewHandler \in HandlerRecords /\ NoLaunch \in LaunchRecords
    BY ChannelAssumption, IdleType
       DEF HandlerRecords, LaunchRecords, NewHandler, NoLaunch, LaunchPoints
  <2>2. 0 \in 0..MaxOffers /\ 0 \in 0..MaxRestarts /\ "none" \in Faults
    BY ChannelAssumption DEF Faults
  <2> QED
    BY <2>1, <2>2 DEF Init, TypeOK
<1>2. \A w \in Workers : /\ call[w].at = "idle" /\ call[w].kind = "reset" /\ call[w].invited = {}
                         /\ ~Removing(w) /\ ~Pending(w)
  BY IdleType DEF Init, Removing, RemovePoints, TeardownPoints, Pending, Idle
<1>3. \A n \in Offers : /\ launch[n].at = "none" /\ launch[n].handler = 0
                        /\ handlers[n] = NewHandler /\ bins[n] = {}
  BY DEF Init, NoLaunch
<1>4. CallsFit
  BY <1>2 DEF CallsFit, Fits, RemovePoints, TeardownPoints
<1>5. Launches
  BY <1>3 DEF Launches, Init, NewHandler
<1>6. Fresh
  BY <1>2, <1>3 DEF Fresh
<1>7. Sessions
  BY <1>2, ChannelAssumption, WorkerKinds DEF Sessions, Ready, Init
<1>8. Strangers
  BY <1>2, <1>3, ChannelAssumption DEF Strangers, Unknown, Init, NewHandler
<1>9. OneStream
  BY <1>2, <1>3 DEF OneStream, Init
<1>10. Owner
  BY <1>2, ChannelAssumption, WorkerKinds DEF Owner, Holding, Init, TeardownPoints
<1>11. FaultNeedsOverlap
  BY DEF Init, FaultNeedsOverlap, Up
<1> QED
  BY <1>1, <1>4, <1>5, <1>6, <1>7, <1>8, <1>9, <1>10, <1>11 DEF IInv

\* Every step keeps it.
LEMMA NextIInv ==
  ASSUME IInv, [Next]_vars PROVE IInv'
<1>1. TypeOK /\ CallsFit /\ Launches /\ Fresh /\ Sessions /\ Strangers /\ (Tidy => OneStream /\ Owner)
  BY DEF IInv
<1>2. TypeOK' /\ CallsFit' /\ Launches' /\ Fresh' /\ Sessions' /\ Strangers'
  BY <1>1, NextTypes, NextCallsFit, NextLaunches, NextFresh, NextSessions, NextStrangers
<1>3. Tidy' => OneStream' /\ Owner'
  BY <1>1, NextOneStream, NextOwner
<1>4. FaultNeedsOverlap'
  BY NextFaults
<1> QED
  BY <1>2, <1>3, <1>4 DEF IInv

\* Whatever the browsers, the sessions, the signalling server's restarts and the
\* media server's threads do, and in whatever order: the lock, the handler in the
\* map, its launch and its removal fit together until two of them overlap.
THEOREM Invariance == Spec => []IInv
<1>1. Init => IInv
  BY InitIInv
<1>2. IInv /\ [Next]_vars => IInv'
  BY NextIInv
<1> QED
  BY <1>1, <1>2, PTL DEF Spec

\* Every variable keeps its type: no lock nobody has, no handler or pipeline that
\* no offer has made.
THEOREM TypesKept == Spec => []TypeOK
<1>1. IInv => TypeOK
  BY DEF IInv
<1> QED
  BY <1>1, Invariance, PTL

\* While nothing overlaps, what plays is the pipeline of the handler in the map,
\* for a sender that has the lock, is being removed or lost its session.
THEOREM StreamHeld == Spec => []StreamIsHolders
<1>1. ASSUME IInv PROVE StreamIsHolders
  <2> SUFFICES ASSUME Orderly, NEW n \in playing
               PROVE  /\ current # 0
                      /\ handlers[current].pipeline = n
                      /\ \A p \in Peers : <<"send", p>> \in bins[n] =>
                            p = handlers[current].sender /\ (lock = p \/ BeingRemoved(p) \/ Lost(p))
    BY DEF StreamIsHolders
  <2>1. OneStream /\ Owner /\ CallsFit /\ n \in Offers
    BY <1>1 DEF IInv, Orderly, Tidy, TypeOK
  <2>2. n = current /\ current # 0
    BY <2>1, ChannelAssumption DEF OneStream, Offers
  <2>3. Stage(n) /\ (Forgotten => Stopped)
    BY <2>1, <2>2 DEF OneStream, Forgotten, Stopped, SomeAt
  <2>4. launch[n].at \in {"loop", "running"} /\ ~Stopped
    BY <2>3 DEF Stage
  <2>5. /\ handlers[n].pipeline = n /\ handlers[n].sender \in Peers
        /\ bins[n] = Whole(handlers[n].sender, handlers[n].receivers)
    BY <2>3, <2>4 DEF Stage
  <2>6. ASSUME NEW p \in Peers, <<"send", p>> \in bins[n]
        PROVE  p = handlers[n].sender /\ (lock = p \/ BeingRemoved(p) \/ Lost(p))
    <3>1. p = handlers[n].sender
      BY <2>5, <2>6 DEF Whole
    <3>2. Sending(p)
      BY <2>1, <2>2, <3>1 DEF Owner
    <3>3. Leaving(p) => BeingRemoved(p)
      <4>1. Session(p) \in Workers /\ Session(p) # BusWorker /\ Session(p)[1] = p
        BY WorkerKinds
      <4>2. Leaving(p) => Caller(Session(p)) = p /\ call[Session(p)].kind \in {"reset", "close"}
        BY <2>1, <4>1 DEF Leaving, CallsFit, Fits, Caller, RemovePoints, TeardownPoints
      <4> QED
        BY <4>1, <4>2 DEF BeingRemoved
    <3>4. Ending => BeingRemoved(p)
      <4> SUFFICES ASSUME NEW w \in Workers, call[w].at \in TeardownPoints \ {"free"}
                   PROVE  BeingRemoved(p)
        BY DEF Ending, SomeAt
      <4>1. Removing(w) /\ Fits(w) /\ call[w].at # "idle"
        BY <2>1 DEF Removing, RemovePoints, CallsFit, TeardownPoints
      <4>2. CASE w = BusWorker
        <5>1. call[w].handler = current /\ call[w].kind = "bus"
          BY <2>1, <4>1, <4>2 DEF OneStream, Fits
        <5> QED
          BY <2>2, <3>1, <5>1 DEF BeingRemoved, Handler
      <4>3. CASE w # BusWorker
        <5>1. call[w].kind \in {"reset", "close"}
          BY <4>1, <4>3 DEF Fits, Removing
        <5>2. Caller(w) = p
          BY <2>1, <2>2, <3>1, <4>3 DEF Owner
        <5> QED
          BY <5>1, <5>2 DEF BeingRemoved
      <4> QED
        BY <4>2, <4>3
    <3> QED
      BY <3>1, <3>2, <3>3, <3>4 DEF Sending
  <2> QED
    BY <2>2, <2>5, <2>6
<1> QED
  BY <1>1, Invariance, PTL

\* At rest, a connected peer that has the lock streams to the receivers its
\* handler knows.
THEOREM HolderIsStreaming == Spec => []HolderStreams
<1>1. ASSUME IInv PROVE HolderStreams
  <2> SUFFICES ASSUME Orderly, AtRest, lock # NoPeer, session[lock] = "open"
               PROVE  /\ current # 0
                      /\ handlers[current].sender = lock
                      /\ handlers[current].pipeline \in playing
                      /\ bins[handlers[current].pipeline] =
                            {<<"send", lock>>} \cup ({"recv"} \X handlers[current].receivers)
                      /\ lock \notin handlers[current].receivers
    BY DEF HolderStreams
  <2>1. OneStream /\ Owner /\ CallsFit /\ lock \in Peers /\ current \in 0..MaxOffers
    BY <1>1 DEF IInv, Orderly, Tidy, TypeOK
  <2>2. \A w \in Workers : ~Removing(w) /\ ~Pending(w)
    BY <2>1 DEF AtRest, CallsFit, Fits, Removing, RemovePoints, TeardownPoints, Pending
  <2>3. ~Stopped /\ ~Forgotten /\ ~LoopQuit
    BY <2>2, NoRemover
  <2>4. Holding(lock) /\ Session(lock) \in Workers
    BY <2>1, WorkerKinds DEF Owner
  <2>5. current # 0 /\ handlers[current].sender = lock
    BY <2>2, <2>4 DEF Holding
  <2>6. Stage(current) /\ current \in Offers
    BY <2>1, <2>5, ChannelAssumption DEF OneStream, Offers
  <2>7. launch[current].at = "running"
    BY <2>3, <2>6 DEF Stage, AtRest, Launching
  <2> QED
    BY <2>3, <2>5, <2>6, <2>7 DEF Stage, Whole
<1> QED
  BY <1>1, Invariance, PTL

\* At rest, a free channel has no pipeline that plays and no handler a later sender
\* could find, but the one of a sender whose session a restart has lost.
THEOREM FreeChannelQuiet == Spec => []FreeIsQuiet
<1>1. ASSUME IInv PROVE FreeIsQuiet
  <2> SUFFICES ASSUME Orderly, AtRest, lock = NoPeer
               PROVE  \/ playing = {} /\ current = 0
                      \/ current # 0 /\ Lost(handlers[current].sender)
    BY DEF FreeIsQuiet
  <2>1. OneStream /\ Owner /\ playing \subseteq Offers /\ current \in 0..MaxOffers
    BY <1>1 DEF IInv, Orderly, Tidy, TypeOK
  <2>2. CASE current = 0
    BY <2>1, <2>2, ChannelAssumption DEF OneStream, Offers
  <2>3. CASE current # 0
    <3> DEFINE s == handlers[current].sender
    <3>1. Sending(s) /\ s \in Peers
      BY <2>1, <2>3 DEF Owner, OneStream, Stage
    <3>2. ~Ending
      BY DEF Ending, SomeAt, AtRest, TeardownPoints
    <3>3. ~Leaving(s)
      BY <3>1, WorkerKinds DEF Leaving, AtRest, RemovePoints, TeardownPoints
    <3>4. lock # s
      BY <3>1, ChannelAssumption
    <3> QED
      BY <2>3, <3>1, <3>2, <3>3, <3>4 DEF Sending
  <2> QED
    BY <2>2, <2>3
<1> QED
  BY <1>1, Invariance, PTL

\* The media server dies only after an overlap, or a teardown that did not wait.
THEOREM DeathNeedsOverlap == Spec => []FaultNeedsOverlap
<1>1. IInv => FaultNeedsOverlap
  BY DEF IInv
<1> QED
  BY <1>1, Invariance, PTL

\* The sender of the pipeline that plays.
Playing == IF current # 0 /\ current \in playing THEN handlers[current].sender ELSE NoPeer

\* While nothing overlaps, the peer whose pipeline plays is that sender.
LEMMA StreamerIsPlaying ==
  ASSUME IInv, Tidy PROVE Streamer = Playing
<1> DEFINE streaming == {p \in Peers : \E n \in playing : <<"send", p>> \in bins[n]}
<1>1. OneStream /\ playing \subseteq Offers
  BY DEF IInv, TypeOK
<1>2. \A n \in playing : n = current /\ current # 0
  BY <1>1, ChannelAssumption DEF OneStream, Offers
<1>3. CASE current # 0 /\ current \in playing
  <2> DEFINE s == handlers[current].sender
  <2>1. /\ s \in Peers
        /\ bins[current] = Whole(s, handlers[current].receivers)
    BY <1>1, <1>3 DEF OneStream, Stage
  <2>2. streaming = {s}
    BY <1>2, <1>3, <2>1 DEF Whole
  <2>3. Cardinality({s}) = 1
    BY FS_Singleton
  <2>4. Streamer = CHOOSE p \in {s} : TRUE
    BY <2>2, <2>3 DEF Streamer
  <2> QED
    BY <1>3, <2>4 DEF Playing
<1>4. CASE ~(current # 0 /\ current \in playing)
  <2>1. streaming = {}
    BY <1>2, <1>4
  <2> QED
    BY <1>4, <2>1 DEF Streamer, Playing
<1> QED
  BY <1>3, <1>4

\* The stream stays whose it is, begins or ends.
PlayingStep ==
    \/ Playing' = Playing
    \/ Playing = NoPeer /\ Playing' \in Peers
    \/ Playing \in Peers /\ Playing' = NoPeer

\* A stream begins only where there is none, and none takes the place of another.
LEMMA StreamSteps ==
  ASSUME TypeOK, CallsFit, Launches, Fresh, OneStream, Tidy', [Next]_vars PROVE PlayingStep
<1>a. /\ handlers \in [Offers -> HandlerRecords] /\ current \in 0..MaxOffers
      /\ playing \subseteq Offers /\ launch \in [Offers -> LaunchRecords]
      /\ 0..MaxOffers = Offers \cup {0} /\ 0 \notin Offers
  BY ChannelAssumption DEF TypeOK, Offers
<1>b. \A n \in Offers : n # current => n \notin playing
  BY DEF OneStream
<1>c. current # 0 => Stage(current) /\ handlers[current].sender \in Peers
  BY DEF OneStream, Stage
<1>d. ASSUME UNCHANGED <<current, playing>>,
             current # 0 => handlers'[current].sender = handlers[current].sender
      PROVE  PlayingStep
  BY <1>d DEF PlayingStep, Playing
<1>1. ASSUME Frozen PROVE PlayingStep
  BY <1>1, <1>d DEF Frozen, serverVars
<1>2. CASE UNCHANGED vars
  BY <1>2, <1>1 DEF vars, Frozen, historyVars
<1>3. CASE CallbackAborts \/ LookupRace
  BY <1>3, <1>1, CrashFreezes DEF CallbackAborts, LookupRace, Frozen, Faults
<1>4. CASE ClientStep
  BY <1>4, <1>d, ClientKeeps
<1>5. ASSUME NEW w \in Workers, Unlist(w) PROVE PlayingStep
  BY <1>5, <1>d DEF Unlist, serverVars
<1>6. ASSUME NEW w \in Workers, Lookup(w) PROVE PlayingStep
  BY <1>6, <1>d DEF Lookup, serverVars
<1>7. ASSUME NEW w \in Workers, Create(w) PROVE PlayingStep
  <2>1. PICK n \in Offers : n = call[w].offer
    BY <1>7, OfferPending DEF Create, At
  <2>2. current = 0 /\ current' = n /\ UNCHANGED playing
    BY <1>7, <1>a, <2>1 DEF Create, Tidy
  <2>3. n \notin playing
    BY <1>a, <1>b, <2>2
  <2> QED
    BY <2>2, <2>3 DEF PlayingStep, Playing
<1>8. ASSUME NEW w \in Workers, Ice(w) PROVE PlayingStep
  BY <1>8, <1>d DEF Ice, serverVars
<1>9. ASSUME NEW w \in Workers, Answer(w) PROVE PlayingStep
  BY <1>9, <1>d DEF Answer, serverVars
<1>10. ASSUME NEW w \in Workers, Apply(w) PROVE PlayingStep
  <2>1. CASE Crash("freed")
    BY <2>1, <1>1, CrashFreezes DEF Faults
  <2>2. CASE ~Crash("freed")
    BY <1>10, <2>2, <1>d DEF Apply, serverVars
  <2> QED
    BY <2>1, <2>2
<1>11. ASSUME NEW w \in Workers, Remove(w) PROVE PlayingStep
  <2>1. call[w].handler \in Offers /\ Handler(w) \in HandlerRecords
    BY <1>11, CallHandlers DEF Remove, At
  <2>2. \A n \in Offers : handlers'[n].sender = handlers[n].sender
    BY <1>11, <1>a, <2>1 DEF Remove, SetHandler, Handler, HandlerRecords
  <2> QED
    BY <1>11, <1>a, <1>d, <2>2 DEF Remove
<1>12. ASSUME NEW w \in Workers, Free(w) PROVE PlayingStep
  BY <1>12, <1>d DEF Free, serverVars
<1>13. ASSUME NEW w \in Workers, Strip(w) PROVE PlayingStep
  <2>1. call[w].handler \in Offers /\ Handler(w) \in HandlerRecords
    BY <1>13, CallHandlers DEF Strip, At
  <2>2. \A n \in Offers : handlers'[n].sender = handlers[n].sender
    BY <1>13, <1>a, <2>1 DEF Strip, SetHandler, Handler, HandlerRecords
  <2> QED
    BY <1>13, <1>a, <1>d, <2>2 DEF Strip
<1>14. ASSUME NEW w \in Workers, StripErases(w) PROVE PlayingStep
  BY <1>14, <1>1, CrashFreezes DEF StripErases, Faults
<1>15. ASSUME NEW w \in Workers, Nullify(w) PROVE PlayingStep
  <2>1. UNCHANGED <<current, handlers>> /\ playing' \subseteq playing
    BY <1>15 DEF Nullify, StopCurrent
  <2> QED
    BY <1>c, <2>1 DEF PlayingStep, Playing
<1>16. ASSUME NEW w \in Workers, NullifyTimeout(w) PROVE PlayingStep
  <2>1. call[w].handler \in Offers /\ Handler(w) \in HandlerRecords
    BY <1>16, CallHandlers DEF NullifyTimeout, At
  <2>2. \A n \in Offers : handlers'[n].sender = handlers[n].sender
    BY <1>16, <1>a, <2>1 DEF NullifyTimeout, SetHandler, Handler, HandlerRecords
  <2> QED
    BY <1>16, <1>a, <1>d, <2>2 DEF NullifyTimeout
<1>17. ASSUME NEW w \in Workers, Forget(w) PROVE PlayingStep
  <2>1. call[w].handler \in Offers /\ Handler(w) \in HandlerRecords
    BY <1>17, CallHandlers DEF Forget, At
  <2>2. \A n \in Offers : handlers'[n].sender = handlers[n].sender
    BY <1>17, <1>a, <2>1 DEF Forget, SetHandler, Handler, HandlerRecords
  <2> QED
    BY <1>17, <1>a, <1>d, <2>2 DEF Forget
<1>18. ASSUME NEW w \in Workers, NullifyLate(w) PROVE PlayingStep
  <2>1. UNCHANGED <<current, handlers>> /\ playing' \subseteq playing
    BY <1>18 DEF NullifyLate, StopCurrent
  <2> QED
    BY <1>c, <2>1 DEF PlayingStep, Playing
<1>19. ASSUME NEW w \in Workers, Quit(w) PROVE PlayingStep
  <2>1. CASE Crash("freed")
    BY <2>1, <1>1, CrashFreezes DEF Faults
  <2>2. CASE ~Crash("freed")
    BY <1>19, <2>2, <1>d DEF Quit, serverVars
  <2> QED
    BY <2>1, <2>2
<1>20. ASSUME NEW w \in Workers, Unmap(w) PROVE PlayingStep
  <2>1. current' = 0 /\ Removing(w) /\ call[w].at = "unmap"
    BY <1>20 DEF Unmap, At, Removing, RemovePoints, TeardownPoints
  <2>2. Stopped
    BY <2>1, RemoverAt
  <2>3. current # 0 => current \notin playing
    BY <1>c, <2>2 DEF Stage
  <2> QED
    BY <2>1, <2>3 DEF PlayingStep, Playing
<1>21. ASSUME NEW n \in Offers, BusMessage(n) PROVE PlayingStep
  BY <1>21, <1>d DEF BusMessage, serverVars
<1>22. ASSUME NEW n \in Offers, LaunchFetch(n) PROVE PlayingStep
  BY <1>22, <1>d DEF LaunchFetch, serverVars
<1>23. ASSUME NEW n \in Offers, LaunchBuild(n) PROVE PlayingStep
  <2>1. \A m \in Offers : handlers'[m].sender = handlers[m].sender
    BY <1>23, <1>a DEF LaunchBuild, SetHandler, HandlerRecords
  <2> QED
    BY <1>23, <1>a, <1>d, <2>1 DEF LaunchBuild
<1>24. ASSUME NEW n \in Offers, LaunchReceivers(n) PROVE PlayingStep
  <2>1. CASE Crash("assert")
    BY <2>1, <1>1, CrashFreezes DEF Faults
  <2>2. CASE ~Crash("assert")
    BY <1>24, <2>2, <1>d DEF LaunchReceivers, serverVars
  <2> QED
    BY <2>1, <2>2
<1>25. ASSUME NEW n \in Offers, LaunchPlay(n) PROVE PlayingStep
  <2>1. launch[n].at = "play" /\ UNCHANGED <<current, handlers>>
    BY <1>25 DEF LaunchPlay, LaunchAt
  <2>2. n = current /\ current # 0 /\ current \notin playing
    <3>1. n = current /\ current # 0
      BY <1>a, <2>1 DEF OneStream
    <3> QED
      BY <1>c, <2>1, <3>1 DEF Stage
  <2> QED
    BY <1>c, <2>1, <2>2 DEF PlayingStep, Playing
<1>26. ASSUME NEW n \in Offers, LaunchLoop(n) PROVE PlayingStep
  <2>1. \A m \in Offers : handlers'[m].sender = handlers[m].sender
    BY <1>26, <1>a DEF LaunchLoop, SetHandler, HandlerRecords
  <2> QED
    BY <1>26, <1>a, <1>d, <2>1 DEF LaunchLoop
<1> QED
  BY <1>1, <1>2, <1>3, <1>4, <1>5, <1>6, <1>7, <1>8, <1>9, <1>10, <1>11, <1>12, <1>13,
     <1>14, <1>15, <1>16, <1>17, <1>18, <1>19, <1>20, <1>21, <1>22, <1>23, <1>24,
     <1>25, <1>26
     DEF Next, Step, Proceed, Launch, ClientStep

\* The orderly behaviours are behaviours in which nothing has overlapped.
LEMMA OrderlyIsTidy == OrderlySpec => [](IInv /\ Tidy) /\ [][Next]_vars
<1>1. Init => IInv /\ Tidy
  BY InitIInv DEF Init, Tidy
<1>2. [OrderlyNext]_vars => [Next]_vars
  BY DEF OrderlyNext, Next
<1>3. IInv /\ Tidy /\ [OrderlyNext]_vars => IInv' /\ Tidy'
  <2> SUFFICES ASSUME IInv, Tidy, [OrderlyNext]_vars PROVE IInv' /\ Tidy'
    OBVIOUS
  <2>1. IInv'
    BY <1>2, NextIInv
  <2>2. Tidy'
    BY DEF OrderlyNext, Tidy, SignallingRestart, historyVars, vars
  <2> QED
    BY <2>1, <2>2
<1> QED
  BY <1>1, <1>2, <1>3, PTL DEF OrderlySpec

\* The media server survives every orderly behaviour, with restarts of the
\* signalling server during a stream: in particular no assertion of
\* create_receivers_for_video fails.
THEOREM OrderlySurvives == OrderlySpec => []Up
<1>1. IInv /\ Tidy => Up
  BY DEF IInv, FaultNeedsOverlap, Tidy
<1> QED
  BY <1>1, OrderlyIsTidy, PTL

\* Up to the first overlap the stream itself is an exclusive lock: it passes from
\* one sender to the next only through a channel on which nothing plays.
THEOREM StreamRefinement == Spec => ImplementsExclusiveStream
<1>1. Init => Tidy
  BY DEF Init, Tidy
<1>2. Init /\ (Streamer = Playing) => Stream!Init
  BY DEF Init, Playing, Stream!Init
<1>3. IInv /\ Tidy => Streamer = Playing
  BY StreamerIsPlaying
<1>4. IInv /\ Tidy' /\ [Next]_vars => Tidy /\ PlayingStep
  BY TidyBefore, StreamSteps DEF IInv
<1>5. (Streamer = Playing) /\ (Streamer = Playing)' /\ PlayingStep => [Stream!Next]_Streamer
  BY DEF PlayingStep, Stream!Next, Stream!Acquire, Stream!Release
<1>6. [Stream!Next]_Streamer \/ ~Tidy' => [Stream!Next \/ overlapped' \/ slow']_Streamer
  BY DEF Tidy
<1> QED
  BY <1>1, <1>2, <1>3, <1>4, <1>5, <1>6, Invariance, PTL DEF Spec, ImplementsExclusiveStream

\* In an orderly behaviour it is one to the end.
THEOREM OrderlyRefinement == OrderlySpec => Stream!Spec
<1>1. IInv /\ Tidy /\ Tidy' /\ [Next]_vars => PlayingStep
  BY StreamSteps DEF IInv
<1>2. (Streamer = Playing) /\ (Streamer = Playing)' /\ PlayingStep => [Stream!Next]_Streamer
  BY DEF PlayingStep, Stream!Next, Stream!Acquire, Stream!Release
<1>3. IInv /\ Tidy => Streamer = Playing
  BY StreamerIsPlaying
<1>4. Init /\ (Streamer = Playing) => Stream!Init
  BY DEF Init, Playing, Stream!Init
<1> QED
  BY <1>1, <1>2, <1>3, <1>4, OrderlyIsTidy, PTL DEF OrderlySpec, Stream!Spec

----------------------------------------------------------------------------
(* The wait for the sender's webrtcbin.                                     *)

\* A handler has its sender's webrtcbin from when its launch has made it, and a
\* candidate waits at a handler that has had a launch.
Kept ==
    /\ \A n \in Offers : handlers[n].sends <=> launch[n].at \notin {"none", "fetch", "build"}
    /\ \A w \in Workers : call[w].at = "ice" => launch[call[w].handler].at # "none"

\* Steps that leave the launches, and what the handlers have, alone.
LEMMA StaysKept ==
  ASSUME Kept, UNCHANGED launch,
         \A n \in Offers : handlers'[n].sends = handlers[n].sends,
         \A w \in Workers : call'[w].at = "ice" =>
            call'[w] = call[w] \/ launch[call'[w].handler].at # "none"
  PROVE  Kept'
  BY DEF Kept

\* While nothing overlaps, every step keeps that.
LEMMA NextKept ==
  ASSUME IInv, Kept, Tidy, Tidy', [Next]_vars PROVE Kept'
<1>a. /\ call \in [Workers -> CallRecords] /\ handlers \in [Offers -> HandlerRecords]
      /\ launch \in [Offers -> LaunchRecords] /\ current \in 0..MaxOffers
      /\ TypeOK /\ CallsFit /\ Launches /\ Fresh /\ OneStream
  BY DEF IInv, TypeOK
<1>b. 0..MaxOffers = Offers \cup {0} /\ 0 \notin Offers
  BY ChannelAssumption DEF Offers
<1>c. ASSUME NEW n \in Offers, launch[n].at \in BuildPoints
      PROVE  n = current /\ current # 0 /\ Stage(n)
  BY <1>a, <1>b, <1>c DEF OneStream, BuildPoints
<1>d. ASSUME NEW w \in Workers, Alone(w), call'[w].at # "ice",
             UNCHANGED launch, \A n \in Offers : handlers'[n].sends = handlers[n].sends
      PROVE  Kept'
  BY <1>d, StaysKept DEF Alone
<1>e. ASSUME NEW h \in Offers, NEW r, SetHandler(h, r), r.sends = handlers[h].sends
      PROVE  \A n \in Offers : handlers'[n].sends = handlers[n].sends
  BY <1>a, <1>e DEF SetHandler
<1>1. ASSUME Frozen PROVE Kept'
  BY <1>1, StaysKept DEF Frozen, serverVars
<1>2. CASE UNCHANGED vars
  BY <1>2, StaysKept DEF vars, serverVars
<1>3. CASE CallbackAborts \/ LookupRace
  BY <1>3, <1>1, CrashFreezes DEF CallbackAborts, LookupRace, Frozen, Faults
<1>4. CASE ClientStep
  <2>1. /\ UNCHANGED <<handlers, launch>>
        /\ \A w \in Workers : call'[w] = call[w] \/ call'[w].at # "ice"
    BY <1>4, <1>a, ClientKeeps
  <2> QED
    BY <2>1, StaysKept
<1>5. ASSUME NEW w \in Workers, Unlist(w) PROVE Kept'
  BY <1>5, <1>a, <1>d, WorkerCalls DEF Unlist, serverVars, Moves
<1>6. ASSUME NEW w \in Workers, Lookup(w) PROVE Kept'
  <2>1. UNCHANGED <<handlers, launch>> /\ call[w].at = "lookup"
    BY <1>6 DEF Lookup, At, serverVars
  <2>2. CASE Ends(w)
    BY <2>1, <2>2, <1>d, IdleType DEF Ends
  <2>3. CASE ~Ends(w)
    <3>1. /\ Alone(w) /\ call'[w].at = Found(call[w].kind) /\ call'[w].handler = current
          /\ current # 0 \/ call[w].kind = "offer"
      BY <1>6, <1>a, <2>3, WorkerCalls
    <3>2. CASE call[w].kind = "offer"
      BY <1>d, <2>1, <3>1, <3>2 DEF Found
    <3>3. CASE call[w].kind # "offer"
      <4>1. Stage(current)
        BY <1>a, <3>1, <3>3 DEF OneStream
      <4>2. launch[call'[w].handler].at # "none"
        BY <3>1, <4>1 DEF Stage, BuildPoints
      <4> QED
        BY <2>1, <3>1, <4>2, StaysKept DEF Alone
    <3> QED
      BY <3>2, <3>3
  <2> QED
    BY <2>2, <2>3
<1>7. ASSUME NEW w \in Workers, Create(w) PROVE Kept'
  <2>0. PICK n \in Offers : n = call[w].offer
    BY <1>7, <1>a, OfferPending DEF Create, At
  <2>1. call[w].handler = 0 /\ Ends(w)
    BY <1>7, <1>a, WorkerCalls DEF Create, Tidy
  <2>2. /\ handlers'[n].sends = FALSE
        /\ \A m \in Offers : m # n => handlers'[m] = handlers[m]
    BY <1>7, <1>a, <2>0, <2>1 DEF Create, SetHandler, HandlerRecords
  <2>3. /\ launch'[n].at = "fetch"
        /\ \A m \in Offers : m # n => launch'[m] = launch[m]
    BY <1>7, <1>a, <2>0 DEF Create, LaunchRecords
  <2>4. \A m \in Offers : handlers'[m].sends <=> launch'[m].at \notin {"none", "fetch", "build"}
    BY <2>2, <2>3 DEF Kept
  <2>5. ASSUME NEW v \in Workers, call'[v].at = "ice"
        PROVE  launch'[call'[v].handler].at # "none"
    <3>1. call'[v] = call[v]
      BY <2>1, <2>5, IdleType DEF Ends, Alone
    <3>2. call[v].handler \in Offers /\ launch[call[v].handler].at # "none"
      BY <1>a, <2>5, <3>1, CallHandlers DEF Kept, TeardownPoints
    <3> QED
      BY <2>3, <3>1, <3>2
  <2> QED
    BY <2>4, <2>5 DEF Kept
<1>8. ASSUME NEW w \in Workers, Ice(w) \/ Unmap(w) PROVE Kept'
  BY <1>8, <1>a, <1>d, WorkerCalls, IdleType DEF Ice, Unmap, serverVars, Ends
<1>9. ASSUME NEW w \in Workers, Answer(w) PROVE Kept'
  BY <1>9, <1>a, <1>d, WorkerCalls, IdleType DEF Answer, serverVars, Ends, Moves
<1>10. ASSUME NEW w \in Workers, Apply(w) PROVE Kept'
  <2>1. CASE Crash("freed")
    BY <2>1, <1>1, CrashFreezes DEF Faults
  <2>2. CASE ~Crash("freed")
    BY <1>10, <2>2, <1>a, <1>d, WorkerCalls, IdleType DEF Apply, serverVars, Ends
  <2> QED
    BY <2>1, <2>2
<1>11. ASSUME NEW w \in Workers, Remove(w) PROVE Kept'
  <2>1. call[w].handler \in Offers /\ Handler(w) \in HandlerRecords
    BY <1>11, <1>a, CallHandlers DEF Remove, At
  <2>2. Alone(w) /\ call'[w].at # "ice" /\ UNCHANGED launch
    BY <1>11, <1>a, WorkerCalls, IdleType DEF Remove, Moves, Ends
  <2>3. \A n \in Offers : handlers'[n].sends = handlers[n].sends
    <3>1. CASE UNCHANGED handlers
      BY <3>1
    <3>2. CASE SetHandler(call[w].handler, [Handler(w) EXCEPT !.receivers = @ \ {Caller(w)}])
      BY <2>1, <3>2, <1>e DEF Handler, HandlerRecords
    <3> QED
      BY <1>11, <3>1, <3>2 DEF Remove, Handler
  <2> QED
    BY <1>d, <2>2, <2>3
<1>12. ASSUME NEW w \in Workers, Free(w) PROVE Kept'
  BY <1>12, <1>a, <1>d, WorkerCalls DEF Free, serverVars, Moves
<1>13. ASSUME NEW w \in Workers, Strip(w) PROVE Kept'
  <2>1. call[w].handler \in Offers /\ Handler(w) \in HandlerRecords
    BY <1>13, <1>a, CallHandlers DEF Strip, At
  <2>2. Alone(w) /\ call'[w].at # "ice" /\ UNCHANGED launch
    BY <1>13, <1>a, WorkerCalls DEF Strip, Moves
  <2>3. \A n \in Offers : handlers'[n].sends = handlers[n].sends
    <3>1. CASE UNCHANGED handlers
      BY <3>1
    <3>2. CASE SetHandler(call[w].handler, [Handler(w) EXCEPT !.receivers = {}])
      BY <2>1, <3>2, <1>e DEF Handler, HandlerRecords
    <3> QED
      BY <1>13, <3>1, <3>2 DEF Strip, Handler
  <2> QED
    BY <1>d, <2>2, <2>3
<1>14. ASSUME NEW w \in Workers, StripErases(w) PROVE Kept'
  BY <1>14, <1>1, CrashFreezes DEF StripErases, Faults
<1>15. ASSUME NEW w \in Workers, Nullify(w) \/ NullifyLate(w) PROVE Kept'
  BY <1>15, <1>a, <1>d, WorkerCalls DEF Nullify, NullifyLate, Moves
<1>16. ASSUME NEW w \in Workers, NullifyTimeout(w) PROVE Kept'
  BY <1>16 DEF NullifyTimeout, Tidy
<1>17. ASSUME NEW w \in Workers, Forget(w) PROVE Kept'
  <2>1. call[w].handler \in Offers /\ Handler(w) \in HandlerRecords
    BY <1>17, <1>a, CallHandlers DEF Forget, At
  <2>2. Alone(w) /\ call'[w].at # "ice" /\ UNCHANGED launch
    BY <1>17, <1>a, WorkerCalls DEF Forget, Moves
  <2>3. \A n \in Offers : handlers'[n].sends = handlers[n].sends
    BY <1>17, <2>1, <1>e DEF Forget, Handler, HandlerRecords
  <2> QED
    BY <1>d, <2>2, <2>3
<1>18. ASSUME NEW w \in Workers, Quit(w) PROVE Kept'
  <2>1. CASE Crash("freed")
    BY <2>1, <1>1, CrashFreezes DEF Faults
  <2>2. CASE ~Crash("freed")
    <3>1. Alone(w) /\ call'[w].at = "unmap" /\ call[w].at = "quit" /\ UNCHANGED handlers
      BY <1>18, <1>a, <2>2, WorkerCalls DEF Quit, At, Moves
    <3>2. /\ current # 0 /\ call[w].handler = current /\ Stage(current)
          /\ launch[current].at \in {"running", "over"}
      BY <1>a, <3>1 DEF OneStream, Removing, RemovePoints, TeardownPoints
    <3>3. Handler(w).loop = current /\ current \in Offers
      BY <1>a, <1>b, <3>2 DEF Stage, Handler
    <3>4. /\ launch'[current].at = "over"
          /\ \A n \in Offers : n # current => launch'[n] = launch[n]
      BY <1>18, <1>a, <1>b, <2>2, <3>3 DEF Quit, LaunchRecords
    <3>5. \A v \in Workers : call'[v].at = "ice" =>
             call'[v] = call[v] /\ call[v].handler \in Offers
      BY <1>a, <3>1, CallHandlers DEF Alone
    <3> QED
      BY <3>1, <3>2, <3>3, <3>4, <3>5 DEF Kept
  <2> QED
    BY <2>1, <2>2
<1>19. ASSUME NEW n \in Offers, BusMessage(n) PROVE Kept'
  <2>1. /\ UNCHANGED <<handlers, launch>> /\ call'[BusWorker].at = "free"
        /\ Alone(BusWorker) /\ BusWorker \in Workers
    BY <1>19, <1>a, WorkerKinds DEF BusMessage, Idle, Alone
  <2> QED
    BY <1>d, <2>1
<1>f. ASSUME NEW n \in Offers, UNCHANGED call, NEW point, launch[n].at # "none",
             launch'[n].at = point, point # "none",
             handlers'[n].sends <=> point \notin {"fetch", "build"},
             \A m \in Offers : m # n => launch'[m] = launch[m] /\ handlers'[m].sends = handlers[m].sends
      PROVE  Kept'
  <2>1. \A w \in Workers : call[w].at = "ice" => call[w].handler \in Offers
    BY <1>a, CallHandlers
  <2> QED
    BY <1>f, <2>1 DEF Kept
<1>20. ASSUME NEW n \in Offers, LaunchFetch(n) PROVE Kept'
  <2>1. launch[n].at = "fetch" /\ UNCHANGED <<call, handlers>> /\ current # 0
    BY <1>20, <1>c DEF LaunchFetch, LaunchAt, BuildPoints
  <2>2. /\ launch'[n].at = "build"
        /\ \A m \in Offers : m # n => launch'[m] = launch[m]
    BY <1>20, <1>a, <2>1 DEF LaunchFetch
  <2>3. ~handlers[n].sends
    BY <2>1 DEF Kept
  <2> QED
    BY <1>f, <2>1, <2>2, <2>3
<1>21. ASSUME NEW n \in Offers, LaunchBuild(n) PROVE Kept'
  <2>1. launch[n].at = "build" /\ UNCHANGED call /\ launch[n].handler = n
    BY <1>21, <1>c DEF LaunchBuild, LaunchAt, BuildPoints, Stage
  <2>2. /\ launch'[n].at = "receivers"
        /\ \A m \in Offers : m # n => launch'[m] = launch[m]
    BY <1>21, <1>a DEF LaunchBuild, LaunchTo, LaunchRecords
  <2>3. /\ handlers'[n].sends
        /\ \A m \in Offers : m # n => handlers'[m].sends = handlers[m].sends
    BY <1>21, <1>a, <2>1 DEF LaunchBuild, SetHandler, HandlerRecords
  <2> QED
    BY <1>f, <2>1, <2>2, <2>3
<1>22. ASSUME NEW n \in Offers, LaunchReceivers(n) PROVE Kept'
  <2>1. CASE Crash("assert")
    BY <2>1, <1>1, CrashFreezes DEF Faults
  <2>2. CASE ~Crash("assert")
    <3>1. /\ launch[n].at = "receivers" /\ UNCHANGED <<call, handlers>>
          /\ launch'[n].at = "play"
          /\ \A m \in Offers : m # n => launch'[m] = launch[m]
      BY <1>22, <1>a, <2>2 DEF LaunchReceivers, LaunchAt, LaunchTo, LaunchRecords
    <3>2. handlers[n].sends
      BY <3>1 DEF Kept
    <3> QED
      BY <1>f, <3>1, <3>2
  <2> QED
    BY <2>1, <2>2
<1>23. ASSUME NEW n \in Offers, LaunchPlay(n) PROVE Kept'
  <2>1. /\ launch[n].at = "play" /\ UNCHANGED <<call, handlers>>
        /\ launch'[n].at \in {"over", "loop"}
        /\ \A m \in Offers : m # n => launch'[m] = launch[m]
    BY <1>23, <1>a DEF LaunchPlay, LaunchAt, LaunchTo, LaunchRecords
  <2>2. handlers[n].sends
    BY <2>1 DEF Kept
  <2> QED
    BY <1>f, <2>1, <2>2
<1>24. ASSUME NEW n \in Offers, LaunchLoop(n) PROVE Kept'
  <2>1. launch[n].at = "loop" /\ UNCHANGED call /\ launch[n].handler = n
    BY <1>24, <1>c DEF LaunchLoop, LaunchAt, BuildPoints, Stage
  <2>2. /\ launch'[n].at = "running"
        /\ \A m \in Offers : m # n => launch'[m] = launch[m]
    BY <1>24, <1>a DEF LaunchLoop, LaunchTo, LaunchRecords
  <2>3. \A m \in Offers : handlers'[m].sends = handlers[m].sends
    BY <1>24, <1>a, <1>e, <2>1 DEF LaunchLoop, HandlerRecords
  <2>4. handlers[n].sends
    BY <2>1 DEF Kept
  <2> QED
    BY <1>f, <2>1, <2>2, <2>3, <2>4
<1> QED
  BY <1>1, <1>2, <1>3, <1>4, <1>5, <1>6, <1>7, <1>8, <1>9, <1>10, <1>11, <1>12, <1>13,
     <1>14, <1>15, <1>16, <1>17, <1>18, <1>19, <1>20, <1>21, <1>22, <1>23, <1>24
     DEF Next, Step, Proceed, Launch, ClientStep

\* A candidate of the sender that came before its webrtcbin waits in a loop in
\* apply_webrtc_video_sender_ice: while nothing overlaps, a launch is always on
\* its way to make that webrtcbin.
THEOREM IceNeverForgotten == Spec => []IceAwaitsLaunch
<1>1. Init => (Tidy => Kept)
  <2> SUFFICES ASSUME Init PROVE Kept
    OBVIOUS
  <2>1. \A w \in Workers : call[w].at = "idle"
    BY IdleType DEF Init
  <2> QED
    BY <2>1 DEF Init, Kept, NewHandler, NoLaunch
<1>2. IInv /\ (Tidy => Kept) /\ [Next]_vars => (Tidy => Kept)'
  <2> SUFFICES ASSUME IInv, Tidy => Kept, [Next]_vars, Tidy' PROVE Kept'
    OBVIOUS
  <2>1. Tidy
    BY TidyBefore DEF IInv
  <2> QED
    BY <2>1, NextKept
<1>3. ASSUME IInv, Tidy => Kept PROVE IceAwaitsLaunch
  <2> SUFFICES ASSUME Orderly, NEW w \in Workers, call[w].at = "ice", ~Handler(w).sends
               PROVE  \E n \in Offers :
                         \/ launch[n].at = "fetch" /\ current = call[w].handler
                         \/ launch[n].at = "build" /\ launch[n].handler = call[w].handler
    BY DEF IceAwaitsLaunch
  <2> DEFINE h == call[w].handler
  <2>1. Kept /\ OneStream
    BY <1>3 DEF Orderly, Tidy, IInv
  <2>2. h \in Offers
    BY <1>3, CallHandlers DEF IInv
  <2>3. launch[h].at \in {"fetch", "build"}
    BY <2>1, <2>2 DEF Kept, Handler
  <2>4. h = current /\ Stage(h)
    BY <2>1, <2>2, <2>3, ChannelAssumption DEF OneStream, Offers
  <2>5. launch[h].at = "build" => launch[h].handler = h
    BY <2>3, <2>4 DEF Stage
  <2> QED
    BY <2>2, <2>3, <2>4, <2>5
<1>4. IInv /\ (Tidy => Kept) => IceAwaitsLaunch
  BY <1>3
<1> QED
  BY <1>1, <1>2, <1>4, Invariance, PTL DEF Spec

----------------------------------------------------------------------------
(* The receivers that have left.                                            *)

\* LeaverNoticed, for as long as nothing overlaps.
Noticed ==
    restarts = 0 /\ current # 0 =>
        \A p \in handlers[current].receivers : session[p] = "closed" => Noticing(p)

\* Steps after which the receivers are no more than before, and what would notice
\* that they have left is still there.
LEMMA StaysNoticed ==
  ASSUME Noticed, current' = current, restarts' = restarts,
         \A p \in handlers'[current].receivers : current # 0 /\ session'[p] = "closed" =>
            \/ Noticing(p)'
            \/ /\ p \in handlers[current].receivers /\ session[p] = "closed"
               /\ Noticing(p) => Noticing(p)'
  PROVE  Noticed'
  BY DEF Noticed

\* ... those of calls, which leave launches and deliveries alone ...
LEMMA CallNotices ==
  ASSUME Noticed, NEW w \in Workers, Alone(w),
         UNCHANGED <<current, restarts, session, launch, toDeliver>>,
         current # 0 =>
            /\ handlers'[current].receivers \subseteq handlers[current].receivers
            /\ \A p \in handlers'[current].receivers : Reports(w, p) => Reports(w, p)'
  PROVE  Noticed'
<1>1. ASSUME NEW p \in handlers'[current].receivers, current # 0, Noticing(p)
      PROVE  Noticing(p)'
  <2>1. \A v \in Workers : Reports(v, p) => Reports(v, p)'
    BY <1>1 DEF Alone, Reports, Caller
  <2> QED
    BY <1>1, <2>1 DEF Noticing
<1> QED
  BY <1>1, StaysNoticed

\* ... and those of the browsers, the sessions and the deliveries, which end no call.
LEMMA ClientEndsNothing ==
  ASSUME TypeOK, ClientStep, ~SignallingRestart
  PROVE  \A w \in Workers : call[w].at # "idle" => call'[w] = call[w]
<1> DEFINE Keeps == \A w \in Workers : call[w].at # "idle" => call'[w] = call[w]
<1>1. ASSUME NEW p \in Peers, Connect(p) \/ Break(p) \/ OfferDropped(p) PROVE Keeps
  BY <1>1 DEF Connect, Break, OfferDropped
<1>2. ASSUME NEW p \in Peers,
             Close(p) \/ Offer(p) \/ SenderIce(p) \/ ReceiverAnswer(p) \/ ReceiverIce(p) \/ VideoReset(p)
      PROVE  Keeps
  <2>1. Alone(Session(p))
    BY <1>2, ClientCalls DEF Begins
  <2>2. call[Session(p)].at = "idle"
    BY <1>2 DEF Close, Offer, SenderIce, ReceiverAnswer, ReceiverIce, VideoReset, Quiet, Session
  <2> QED
    BY <2>1, <2>2 DEF Alone
<1>3. ASSUME NEW p \in Peers, CandidateFails(p) PROVE Keeps
  <2>1. Alone(Failure(p)) /\ call[Failure(p)].at = "idle"
    BY <1>3, ClientCalls DEF CandidateFails, Begins, Failure
  <2> QED
    BY <2>1 DEF Alone
<1>4. ASSUME NEW bin \in Bins, Deliver(bin) PROVE Keeps
  BY <1>4, DeliverCalls DEF Begins, Alone
<1> QED
  BY <1>1, <1>2, <1>3, <1>4 DEF ClientStep, Client

LEMMA ClientNotices ==
  ASSUME IInv, Noticed, ClientStep PROVE Noticed'
<1>a. /\ session \in [Peers -> {"new", "open", "broken", "closed", "lost"}]
      /\ restarts \in Nat /\ toDeliver \subseteq Bins /\ TypeOK
  BY ChannelAssumption DEF IInv, TypeOK
<1>b. UNCHANGED <<current, handlers, launch>>
  BY <1>a, ClientKeeps
<1>c. current # 0 => handlers[current].receivers \subseteq Peers
  BY <1>a, ChannelAssumption DEF TypeOK, HandlerRecords, Offers
<1>1. CASE SignallingRestart
  BY <1>a, <1>1 DEF SignallingRestart, Noticed
<1>2. CASE ~SignallingRestart
  <2>1. \A w \in Workers : call[w].at # "idle" => call'[w] = call[w]
    BY <1>2, <1>a, ClientEndsNothing
  <2>2. \A w \in Workers : \A p \in Peers : Reports(w, p) => Reports(w, p)'
    BY <2>1 DEF Reports, Caller
  <2>3. ASSUME NEW p \in Peers, <<"recv", p>> \in toDeliver => Noticing(p)', Noticing(p)
        PROVE  Noticing(p)'
    BY <1>b, <2>2, <2>3 DEF Noticing
  <2>4. ASSUME UNCHANGED <<session, restarts, toDeliver>> PROVE Noticed'
    <3>1. \A p \in Peers : <<"recv", p>> \in toDeliver => Noticing(p)'
      BY <2>4 DEF Noticing
    <3> QED
      BY <1>b, <1>c, <2>3, <2>4, <3>1, StaysNoticed
  <2>5. ASSUME NEW q \in Peers, NEW status, session' = [session EXCEPT ![q] = status],
               status = "closed" => Noticing(q)', UNCHANGED <<restarts, toDeliver>>
        PROVE  Noticed'
    <3>1. \A p \in Peers : <<"recv", p>> \in toDeliver => Noticing(p)'
      BY <2>5 DEF Noticing
    <3>2. \A p \in Peers : session'[p] = "closed" => session[p] = "closed" \/ Noticing(p)'
      BY <1>a, <2>5
    <3> QED
      BY <1>b, <1>c, <2>3, <2>5, <3>1, <3>2, StaysNoticed
  <2>6. ASSUME NEW p \in Peers, Connect(p) \/ Break(p) PROVE Noticed'
    BY <2>5, <2>6 DEF Connect, Break, serverVars
  <2>7. ASSUME NEW p \in Peers, Close(p) PROVE Noticed'
    <3>1. Reports(Session(p), p)' /\ Session(p) \in Workers
      BY <1>a, <2>7, ClientCalls, WorkerKinds DEF Begins, Reports, Caller
    <3>2. Noticing(p)'
      BY <3>1 DEF Noticing
    <3> QED
      BY <2>5, <2>7, <3>2 DEF Close, serverVars
  <2>8. ASSUME NEW p \in Peers,
               Offer(p) \/ OfferDropped(p) \/ SenderIce(p) \/ ReceiverIce(p) \/ VideoReset(p)
                  \/ CandidateFails(p)
        PROVE  Noticed'
    BY <2>4, <2>8 DEF Offer, OfferDropped, SenderIce, ReceiverIce, VideoReset, CandidateFails,
         clientVars, serverVars
  <2>9. ASSUME NEW q \in Peers, ReceiverAnswer(q) PROVE Noticed'
    <3>1. /\ UNCHANGED <<session, restarts>> /\ session[q] = "open"
          /\ toDeliver' = toDeliver \ {<<"recv", q>>}
      BY <2>9 DEF ReceiverAnswer, clientVars
    <3>2. \A p \in Peers : session[p] = "closed" /\ <<"recv", p>> \in toDeliver => Noticing(p)'
      BY <3>1 DEF Noticing
    <3> QED
      BY <1>b, <1>c, <2>3, <3>1, <3>2, StaysNoticed
  <2>10. ASSUME NEW bin \in Bins, Deliver(bin) PROVE Noticed'
    <3>1. /\ UNCHANGED <<session, restarts>> /\ toDeliver' = toDeliver \ {bin}
          /\ bin[2] \in Peers
          /\ session[bin[2]] = "closed" => Report(bin[2])
      BY <1>a, <2>10, DeliverCalls DEF Deliver, clientVars
    <3>2. session[bin[2]] = "closed" => Noticing(bin[2])'
      <4>1. SUFFICES ASSUME session[bin[2]] = "closed" PROVE Noticing(bin[2])'
        OBVIOUS
      <4>2. Reports(Failure(bin[2]), bin[2])' /\ Failure(bin[2]) \in Workers
        <5>1. Failure(bin[2]) \in Workers
          BY <3>1, WorkerKinds
        <5>2. call[Failure(bin[2])] \in CallRecords
          BY <1>a, <5>1 DEF TypeOK
        <5>3. Begins(Failure(bin[2]), "lookup", "close", bin[2], 0, {})
          BY <1>a, <3>1, <4>1, <5>1, CloseBegins DEF Report, Failure, Points, TypeOK
        <5> QED
          BY <5>1, <5>3 DEF Begins, Reports, Caller
      <4> QED
        BY <4>2 DEF Noticing
    <3>3. \A p \in Peers : session[p] = "closed" /\ <<"recv", p>> \in toDeliver => Noticing(p)'
      BY <3>1, <3>2 DEF Noticing
    <3> QED
      BY <1>b, <1>c, <2>3, <3>1, <3>3, StaysNoticed
  <2> QED
    BY <1>2, <2>6, <2>7, <2>8, <2>9, <2>10 DEF ClientStep, Client
<1> QED
  BY <1>1, <1>2

\* While nothing overlaps, no step forgets a receiver that has left.
LEMMA NextNoticed ==
  ASSUME IInv, Noticed, Tidy, Tidy', [Next]_vars PROVE Noticed'
<1>a. /\ call \in [Workers -> CallRecords] /\ handlers \in [Offers -> HandlerRecords]
      /\ bins \in [Offers -> SUBSET Bins]
      /\ launch \in [Offers -> LaunchRecords] /\ current \in 0..MaxOffers
      /\ TypeOK /\ CallsFit /\ Launches /\ Fresh /\ OneStream
  BY DEF IInv, TypeOK
<1>b. 0..MaxOffers = Offers \cup {0} /\ 0 \notin Offers
  BY ChannelAssumption DEF Offers
<1>c. ASSUME NEW n \in Offers, launch[n].at \in BuildPoints
      PROVE  n = current /\ current # 0 /\ Stage(n) /\ ~Forgotten
  <2>1. n = current /\ current # 0 /\ Stage(n)
    BY <1>a, <1>b, <1>c DEF OneStream, BuildPoints
  <2>2. \A w \in Workers : ~Removing(w)
    BY <1>a, <1>c, <2>1 DEF OneStream, BuildPoints
  <2> QED
    BY <2>1, <2>2, NoRemover
<1>d. ASSUME NEW w \in Workers, Alone(w), call[w].kind = "close" => call[w].at \notin {"unlist", "lookup", "remove"},
             UNCHANGED <<current, restarts, session, launch, toDeliver>>,
             current # 0 => handlers'[current].receivers \subseteq handlers[current].receivers
      PROVE  Noticed'
  <2>1. \A p : ~Reports(w, p)
    BY <1>d DEF Reports
  <2> QED
    BY <1>a, <1>d, <2>1, CallNotices
<1>1. ASSUME Frozen PROVE Noticed'
  <2>1. UNCHANGED <<current, restarts, session, launch, toDeliver, handlers, call>>
    BY <1>1 DEF Frozen, serverVars, clientVars
  <2> QED
    BY <2>1 DEF Noticed, Noticing, Reports, Caller
<1>2. CASE UNCHANGED vars
  BY <1>2, <1>1 DEF vars, Frozen, historyVars
<1>3. CASE CallbackAborts \/ LookupRace
  BY <1>3, <1>1, CrashFreezes DEF CallbackAborts, LookupRace, Frozen, Faults
<1>4. CASE ClientStep
  BY <1>4, ClientNotices
<1>5. ASSUME NEW w \in Workers, Unlist(w) PROVE Noticed'
  <2>1. Moves(w, "lookup") /\ UNCHANGED <<current, restarts, session, launch, toDeliver, handlers>>
    BY <1>5, <1>a, WorkerCalls DEF Unlist, serverVars
  <2>2. \A p : Reports(w, p) => Reports(w, p)'
    BY <2>1 DEF Moves, Reports, Caller
  <2> QED
    BY <2>1, <2>2, CallNotices DEF Moves
<1>6. ASSUME NEW w \in Workers, Lookup(w) PROVE Noticed'
  <2>1. UNCHANGED <<current, restarts, session, launch, toDeliver, handlers>>
    BY <1>6 DEF Lookup, serverVars, clientVars
  <2>2. Alone(w)
    BY <1>6, <1>a, WorkerCalls DEF Ends
  <2>3. current # 0 => \A p : Reports(w, p) => Reports(w, p)'
    <3>1. SUFFICES ASSUME current # 0, NEW p, Reports(w, p) PROVE Reports(w, p)'
      OBVIOUS
    <3>2. /\ call'[w].at = Found(call[w].kind)
          /\ call'[w].kind = call[w].kind /\ call'[w].peer = call[w].peer
      BY <1>6, <1>a, <3>1, WorkerCalls
    <3> QED
      BY <3>1, <3>2 DEF Reports, Caller, Found
  <2> QED
    BY <2>1, <2>2, <2>3, CallNotices
<1>7. ASSUME NEW w \in Workers, Create(w) PROVE Noticed'
  <2>1. call[w].handler = 0 /\ current' = call[w].offer
    BY <1>7, <1>a DEF Create, Tidy
  <2>2. launch'[current'].at = "fetch"
    BY <1>7, <1>a, <2>1, OfferPending DEF Create, At, LaunchRecords
  <2> QED
    BY <2>2 DEF Noticed, Noticing
<1>8. ASSUME NEW w \in Workers, Ice(w) \/ Answer(w) PROVE Noticed'
  <2>1. /\ Alone(w) /\ call[w].at \in {"ice", "answer"}
        /\ UNCHANGED <<current, restarts, session, launch, toDeliver, handlers>>
    BY <1>8, <1>a, WorkerCalls DEF Ice, Answer, At, serverVars, clientVars, Ends, Moves
  <2> QED
    BY <1>d, <2>1
<1>9. ASSUME NEW w \in Workers, Unmap(w) PROVE Noticed'
  BY <1>9 DEF Unmap, Noticed
<1>10. ASSUME NEW w \in Workers, Apply(w) PROVE Noticed'
  <2>1. CASE Crash("freed")
    BY <2>1, <1>1, CrashFreezes DEF Faults
  <2>2. CASE ~Crash("freed")
    <3>1. /\ Alone(w) /\ call[w].at = "apply"
          /\ UNCHANGED <<current, restarts, session, launch, toDeliver, handlers>>
      BY <1>10, <1>a, <2>2, WorkerCalls DEF Apply, At, serverVars, clientVars, Ends
    <3> QED
      BY <1>d, <3>1
  <2> QED
    BY <2>1, <2>2
<1>11. ASSUME NEW w \in Workers, Remove(w) PROVE Noticed'
  <2>1. /\ Alone(w) /\ UNCHANGED <<current, restarts, session, launch, toDeliver>>
        /\ call[w].at = "remove"
    BY <1>11, <1>a, WorkerCalls DEF Remove, At, Moves, Ends, clientVars
  <2>2. call[w].handler = current /\ current \in Offers /\ Stage(current)
    BY <1>a, <1>b, <2>1 DEF OneStream, Removing, RemovePoints
  <2>3. CASE Caller(w) = handlers[current].sender
    <3>1. UNCHANGED handlers
      BY <1>11, <2>2, <2>3 DEF Remove
    <3>2. \A p \in handlers[current].receivers : ~Reports(w, p)
      BY <2>2, <2>3 DEF Reports, Stage
    <3> QED
      BY <2>1, <3>1, <3>2, CallNotices
  <2>4. CASE Caller(w) # handlers[current].sender
    <3>1. handlers'[current].receivers = handlers[current].receivers \ {Caller(w)}
      BY <1>11, <1>a, <2>2, <2>4 DEF Remove, SetHandler, HandlerRecords
    <3>2. \A p \in handlers'[current].receivers : ~Reports(w, p)
      BY <3>1 DEF Reports
    <3> QED
      BY <2>1, <3>1, <3>2, CallNotices
  <2> QED
    BY <2>3, <2>4
<1>12. ASSUME NEW w \in Workers, Free(w) PROVE Noticed'
  <2>1. /\ Alone(w) /\ call[w].at = "free"
        /\ UNCHANGED <<current, restarts, session, launch, toDeliver, handlers>>
    BY <1>12, <1>a, WorkerCalls DEF Free, At, serverVars, Moves
  <2> QED
    BY <1>d, <2>1
<1>13. ASSUME NEW w \in Workers, Strip(w) PROVE Noticed'
  <2>1. /\ Alone(w) /\ call[w].at = "strip"
        /\ UNCHANGED <<current, restarts, session, launch, toDeliver>>
    BY <1>13, <1>a, WorkerCalls DEF Strip, At, clientVars, Moves
  <2>2. call[w].handler = current /\ current \in Offers
    BY <1>a, <1>b, <2>1 DEF OneStream, Removing, RemovePoints, TeardownPoints
  <2>3. handlers'[current].receivers \subseteq handlers[current].receivers
    BY <1>13, <1>a, <2>2 DEF Strip, SetHandler, HandlerRecords
  <2> QED
    BY <1>d, <2>1, <2>3
<1>14. ASSUME NEW w \in Workers, StripErases(w) PROVE Noticed'
  BY <1>14, <1>1, CrashFreezes DEF StripErases, Faults
<1>15. ASSUME NEW w \in Workers, Nullify(w) \/ NullifyLate(w) PROVE Noticed'
  <2>1. /\ Alone(w) /\ call[w].at \in {"nullify", "nullifyLate"}
        /\ UNCHANGED <<current, restarts, session, launch, toDeliver, handlers>>
    BY <1>15, <1>a, WorkerCalls DEF Nullify, NullifyLate, At, clientVars, Moves
  <2> QED
    BY <1>d, <2>1
<1>16. ASSUME NEW w \in Workers, NullifyTimeout(w) PROVE Noticed'
  BY <1>16 DEF NullifyTimeout, Tidy
<1>17. ASSUME NEW w \in Workers, Forget(w) PROVE Noticed'
  <2>1. /\ Alone(w) /\ call[w].at = "forget"
        /\ UNCHANGED <<current, restarts, session, launch, toDeliver>>
    BY <1>17, <1>a, WorkerCalls DEF Forget, At, clientVars, Moves
  <2>2. call[w].handler = current /\ current \in Offers
    BY <1>a, <1>b, <2>1 DEF OneStream, Removing, RemovePoints, TeardownPoints
  <2>3. handlers'[current].receivers = handlers[current].receivers
    BY <1>17, <1>a, <2>2 DEF Forget, SetHandler, Handler, HandlerRecords
  <2> QED
    BY <1>d, <2>1, <2>3
<1>18. ASSUME NEW w \in Workers, Quit(w) PROVE Noticed'
  <2>1. CASE Crash("freed")
    BY <2>1, <1>1, CrashFreezes DEF Faults
  <2>2. CASE ~Crash("freed")
    <3>1. /\ Alone(w) /\ call[w].at = "quit"
          /\ UNCHANGED <<current, restarts, session, toDeliver, handlers>>
      BY <1>18, <1>a, <2>2, WorkerCalls DEF Quit, At, clientVars, Moves
    <3>2. launch[current].at \in {"running", "over"}
      BY <1>a, <3>1 DEF OneStream, Removing, RemovePoints, TeardownPoints
    <3>3. \A p : Noticing(p) => Noticing(p)'
      BY <3>1, <3>2 DEF Noticing, Reports, Caller, Alone
    <3> QED
      BY <3>1, <3>3, StaysNoticed
  <2> QED
    BY <2>1, <2>2
<1>19. ASSUME NEW n \in Offers, BusMessage(n) PROVE Noticed'
  <2>1. /\ UNCHANGED <<current, restarts, session, launch, toDeliver, handlers>>
        /\ Alone(BusWorker) /\ BusWorker \in Workers /\ call[BusWorker].at = "idle"
    BY <1>19, <1>a, WorkerKinds DEF BusMessage, Alone, clientVars
  <2> QED
    BY <1>d, <2>1
<1>e. ASSUME UNCHANGED <<current, restarts, session, call>>, toDeliver \subseteq toDeliver',
             current # 0 => handlers'[current].receivers = handlers[current].receivers,
             launch[current].at \in {"fetch", "build", "receivers", "play"} =>
                \/ launch'[current].at \in {"fetch", "build", "receivers", "play"}
                \/ \A p \in handlers[current].receivers : <<"recv", p>> \in toDeliver'
      PROVE  Noticed'
  <2>1. ASSUME NEW p \in handlers[current].receivers, Noticing(p) PROVE Noticing(p)'
    BY <1>e, <2>1 DEF Noticing, Reports, Caller
  <2> QED
    BY <1>e, <2>1, StaysNoticed
<1>20. ASSUME NEW n \in Offers, LaunchFetch(n) PROVE Noticed'
  <2>1. /\ UNCHANGED <<current, restarts, session, call, toDeliver, handlers>>
        /\ n = current /\ current # 0
    BY <1>20, <1>c DEF LaunchFetch, LaunchAt, BuildPoints, clientVars
  <2>2. launch'[current].at = "build"
    BY <1>20, <1>a, <2>1 DEF LaunchFetch
  <2> QED
    BY <1>e, <2>1, <2>2
<1>21. ASSUME NEW n \in Offers, LaunchBuild(n) PROVE Noticed'
  <2>1. /\ UNCHANGED <<current, restarts, session, call, toDeliver>>
        /\ n = current /\ current # 0 /\ launch[n].handler = n
    BY <1>21, <1>c DEF LaunchBuild, LaunchAt, BuildPoints, Stage, clientVars
  <2>2. launch'[current].at = "receivers"
    BY <1>21, <1>a, <2>1 DEF LaunchBuild, LaunchTo, LaunchRecords
  <2>3. handlers'[current].receivers = handlers[current].receivers
    BY <1>21, <1>a, <2>1 DEF LaunchBuild, SetHandler, HandlerRecords
  <2> QED
    BY <1>e, <2>1, <2>2, <2>3
<1>22. ASSUME NEW n \in Offers, LaunchReceivers(n) PROVE Noticed'
  <2>1. CASE Crash("assert")
    BY <2>1, <1>1, CrashFreezes DEF Faults
  <2>2. CASE ~Crash("assert")
    <3>1. /\ UNCHANGED <<current, restarts, session, call, toDeliver, handlers>>
          /\ n = current /\ current # 0
      BY <1>22, <1>c, <2>2 DEF LaunchReceivers, LaunchAt, BuildPoints, clientVars
    <3>2. launch'[current].at = "play"
      BY <1>22, <1>a, <2>2, <3>1 DEF LaunchReceivers, LaunchTo, LaunchRecords
    <3> QED
      BY <1>e, <3>1, <3>2
  <2> QED
    BY <2>1, <2>2
<1>23. ASSUME NEW n \in Offers, LaunchPlay(n) PROVE Noticed'
  <2>1. /\ UNCHANGED <<current, restarts, session, call, handlers>>
        /\ n = current /\ current # 0 /\ launch[n].at = "play" /\ Stage(n) /\ ~Forgotten
    BY <1>23, <1>c DEF LaunchPlay, LaunchAt, BuildPoints, clientVars
  <2>2. launch[n].handler = n /\ handlers[n].pipeline = n
        /\ bins[n] = Whole(handlers[n].sender, handlers[n].receivers)
    BY <2>1 DEF Stage
  <2>3. toDeliver' = toDeliver \cup bins[n]
    BY <1>23, <2>1, <2>2 DEF LaunchPlay
  <2>4. \A p \in handlers[current].receivers : <<"recv", p>> \in toDeliver'
    BY <2>1, <2>2, <2>3 DEF Whole
  <2> QED
    BY <1>e, <2>1, <2>3, <2>4
<1>24. ASSUME NEW n \in Offers, LaunchLoop(n) PROVE Noticed'
  <2>1. /\ UNCHANGED <<current, restarts, session, call, toDeliver>>
        /\ n = current /\ current # 0 /\ launch[n].handler = n /\ launch[n].at = "loop"
    BY <1>24, <1>c DEF LaunchLoop, LaunchAt, BuildPoints, Stage, clientVars
  <2>2. handlers'[current].receivers = handlers[current].receivers
    BY <1>24, <1>a, <2>1 DEF LaunchLoop, SetHandler, HandlerRecords
  <2> QED
    BY <1>e, <2>1, <2>2
<1> QED
  BY <1>1, <1>2, <1>3, <1>4, <1>5, <1>6, <1>7, <1>8, <1>9, <1>10, <1>11, <1>12, <1>13,
     <1>14, <1>15, <1>16, <1>17, <1>18, <1>19, <1>20, <1>21, <1>22, <1>23, <1>24
     DEF Next, Step, Proceed, Launch, ClientStep

\* A peer that leaves between the offer's list of receivers and the handler is
\* not forgotten among the receivers: while nothing overlaps, its invitation or
\* its own closing is still to remove it.
THEOREM LeaversNeverForgotten == Spec => []LeaverNoticed
<1>1. Init => (Tidy => Noticed)
  BY DEF Init, Noticed
<1>2. IInv /\ (Tidy => Noticed) /\ [Next]_vars => (Tidy => Noticed)'
  <2> SUFFICES ASSUME IInv, Tidy => Noticed, [Next]_vars, Tidy' PROVE Noticed'
    OBVIOUS
  <2>1. Tidy
    BY TidyBefore DEF IInv
  <2> QED
    BY <2>1, NextNoticed
<1>3. (Tidy => Noticed) => LeaverNoticed
  BY DEF LeaverNoticed, Orderly, Tidy, Noticed
<1> QED
  BY <1>1, <1>2, <1>3, Invariance, PTL DEF Spec
=============================================================================
