--------------------------- MODULE CollectorProofs --------------------------
(***************************************************************************)
(* Machine-checked proofs about modules DnstapServer and Collector, for    *)
(* all sets of connections, frames, workers and partitions, and all sizes  *)
(* of the channels and batches: where each frame is, that the parts behave *)
(* as their own modules specify, so that what ProducerProofs says of the   *)
(* topic holds here, and that the two stages in a row are an event relay.  *)
(***************************************************************************)
EXTENDS Collector, ChannelLemmas, TLAPS

-----------------------------------------------------------------------------
(* The server on its own *)

LEMMA ServerInit == Init => ServerInv
BY ServerAssumption
   DEF Init, ServerInv, TypeOK, Points, OneLateFrame, OfferedOnce, NoSpin

\* A handler that moves between two points, none of which is Decode or Deliver
\* unless Stop has not begun, with its frame and its count as they are.
LEMMA MoveInv ==
  ASSUME ServerInv, NEW c \in Conns, NEW from, NEW to \in Points \ {"deliver"},
         from # "deliver", Goto(c, from, to), to = "decode" => ~Cancelled,
         UNCHANGED <<stop, acceptor, frame, delivered, late>>
  PROVE  ServerInv'
<1> USE DEF ServerInv, Goto
<1>1. TypeOK'
  BY DEF TypeOK
<1>2. handler'[c] = to /\ \A d \in Conns : d # c => handler'[d] = handler[d]
  BY DEF TypeOK
<1>3. OneLateFrame'
  BY <1>2 DEF OneLateFrame, Cancelled
<1>4. OfferedOnce'
  BY <1>2 DEF OfferedOnce
<1>5. NoSpin'
  BY DEF NoSpin, Cancelled
<1> QED
  BY <1>1, <1>3, <1>4, <1>5

\* A frame that is new everywhere comes into the hands of one handler.
LEMMA DecodeInv ==
  ASSUME ServerInv, NEW c \in Conns, NEW e \in Events, Decode(c, e)
  PROVE  ServerInv'
<1> USE DEF ServerInv, Decode, Goto
<1>1. handler[c] = "decode" /\ late[c] = 0 /\ frame[c] = NoFrame
  BY DEF OneLateFrame, OfferedOnce
<1>2. \A d \in Conns : d # c => /\ handler'[d] = handler[d] /\ frame'[d] = frame[d]
                                /\ late'[d] = late[d]
  BY DEF TypeOK
<1>3. TypeOK'
  BY DEF TypeOK, Points
<1>4. OneLateFrame'
  BY <1>1, <1>2 DEF TypeOK, OneLateFrame, Cancelled
<1>5. OfferedOnce'
  <2>1. CASE e \in Empty
    BY <1>1, <1>2, <2>1 DEF OfferedOnce, TypeOK
  <2>2. CASE e \notin Empty
    <3>1. frame'[c] = e /\ handler'[c] = "deliver" /\ e # NoFrame
      BY <2>2, ServerAssumption DEF TypeOK
    <3>2. e \notin delivered /\ \A d \in Conns : frame[d] # e
      BY DEF Arrived
    <3> QED
      BY <1>2, <3>1, <3>2 DEF OfferedOnce
  <2> QED
    BY <2>1, <2>2
<1>6. NoSpin'
  BY DEF NoSpin, Cancelled
<1> QED
  BY <1>3, <1>4, <1>5, <1>6

\* The frame leaves the hands of the only handler that has it.
LEMMA DeliverInv ==
  ASSUME ServerInv, NEW c \in Conns, Deliver(c)
  PROVE  /\ ServerInv'
         /\ frame[c] \in Events \ delivered
<1> USE DEF ServerInv, Deliver, Goto
<1>1. frame[c] # NoFrame /\ frame[c] \in Events \ delivered
  BY DEF OfferedOnce, TypeOK
<1>2. /\ handler'[c] = "check" /\ frame'[c] = NoFrame
      /\ \A d \in Conns : d # c => handler'[d] = handler[d] /\ frame'[d] = frame[d]
  BY DEF TypeOK
<1>3. TypeOK' /\ OneLateFrame'
  BY <1>1, <1>2 DEF TypeOK, Points, OneLateFrame, Cancelled
<1>4. OfferedOnce'
  BY <1>1, <1>2, ServerAssumption DEF OfferedOnce, TypeOK
<1>5. NoSpin'
  BY DEF NoSpin, Cancelled
<1> QED
  BY <1>1, <1>3, <1>4, <1>5

\* The accept loop, Stop, and steps that change nothing
LEMMA AcceptorInv ==
  ASSUME ServerInv, AcceptFails \/ CancelServer \/ CloseListener \/ UNCHANGED vars
  PROVE  ServerInv'
<1> USE DEF ServerInv
<1>1. /\ UNCHANGED <<handler, frame, delivered, late>>
      /\ acceptor' \in {"accepting", "returned"} /\ stop \subseteq stop'
      /\ acceptor' = "accepting" => acceptor = "accepting"
  BY DEF AcceptFails, CancelServer, CloseListener, vars, TypeOK
<1>2. stop' \subseteq {"context", "listener"} /\ NoSpin'
  BY DEF AcceptFails, CancelServer, CloseListener, vars, TypeOK, NoSpin, Cancelled
<1>3. TypeOK'
  BY <1>1, <1>2 DEF TypeOK
<1>4. OneLateFrame' /\ OfferedOnce'
  BY <1>1 DEF OneLateFrame, OfferedOnce, Cancelled
<1> QED
  BY <1>2, <1>3, <1>4

LEMMA AcceptInv == ASSUME ServerInv, NEW c \in Conns, Accept(c) PROVE ServerInv'
<1>1. Goto(c, "absent", "handshake")
  BY DEF Accept, Goto
<1> QED
  BY <1>1, MoveInv DEF Accept, Points

LEMMA HandshakeInv == ASSUME ServerInv, NEW c \in Conns, Handshake(c) PROVE ServerInv'
<1>1. \E to \in {"check", "returned"} : Goto(c, "handshake", to)
  BY DEF Handshake
<1> QED
  BY <1>1, MoveInv DEF Handshake, Points

LEMMA CheckInv == ASSUME ServerInv, NEW c \in Conns, Check(c) PROVE ServerInv'
<1>1. \E to \in {"decode", "returned"} : Goto(c, "check", to) /\ (to = "decode" => ~Cancelled)
  BY DEF Check
<1> QED
  BY <1>1, MoveInv DEF Check, Points

LEMMA DecodeFailsInv == ASSUME ServerInv, NEW c \in Conns, DecodeFails(c) PROVE ServerInv'
BY MoveInv DEF DecodeFails, Points

LEMMA ServerStep == ServerInv /\ [Next]_vars => ServerInv'
BY AcceptInv, HandshakeInv, CheckInv, DecodeFailsInv, DecodeInv, DeliverInv, AcceptorInv
   DEF Next, Handler, Quiet

\* A handler passes each frame on once, and at most one of them after Stop, and the
\* accept loop does not outlive the context with its listener closed.
THEOREM ServerInvariance == Spec => []ServerInv
BY ServerInit, ServerStep, PTL DEF Spec

-----------------------------------------------------------------------------
(* The three parts together *)

CollectorInv == ServerInv /\ NoWriteDuringClose /\ ToTheProducer

LEMMA SysInitInv == SysInit => CollectorInv
<1> SUFFICES ASSUME SysInit PROVE CollectorInv
  OBVIOUS
<1> USE DEF SysInit, P!Init, K!Init, Init
<1>1. ServerInv
  BY ServerInit
<1>2. P!TypeOK
  <2>1. queue \in Seq(Events) /\ Len(queue) = 0
    OBVIOUS
  <2>2. Len(queue) <= QueueSize
    BY <2>1, CollectorAssumption DEF P!PipelineAssumption
  <2> QED
    BY <2>1, <2>2 DEF P!TypeOK, P!Phases, P!Points
<1>3. P!PhaseInv /\ P!HeldInv
  BY DEF P!PhaseInv, P!Rested, P!HeldInv
<1>4. DOMAIN queue = {} /\ DOMAIN order = {} /\ DOMAIN arrival = {} /\ Received = 0
  BY DEF Received
<1>5. Range(queue) = {} /\ Range(order) = {} /\ Range(arrival) = {} /\ P!Held = {}
  BY <1>4 DEF Range, P!Held
<1>6. IsInjective(queue) /\ IsInjective(arrival)
  BY <1>4 DEF IsInjective
<1>7. SingleWorkerKeepsOrder
  BY <1>4 DEF SingleWorkerKeepsOrder
<1>8. InOnePlace
  BY <1>5, <1>6 DEF InOnePlace, AtProducer
<1>9. ToTheProducer
  BY <1>2, <1>3, <1>5, <1>6, <1>7, <1>8 DEF ToTheProducer, AtProducer
<1> QED
  BY <1>1, <1>9 DEF CollectorInv, NoWriteDuringClose

\* What the accounts depend on
accountVars == <<queue, closed, die, cancelled, phase, pc, held, accepted, refused, written,
                 crashed, order, krefused, delivered, arrival>>

LEMMA Undisturbed ==
  ASSUME ToTheProducer, UNCHANGED accountVars
  PROVE  ToTheProducer'
BY DEF ToTheProducer, accountVars, P!TypeOK, P!PhaseInv, P!Rested, P!HeldInv, P!Held, InOnePlace,
       AtProducer, SingleWorkerKeepsOrder, Received

\* An event that has come from a handler is put behind those that came before it, or
\* given to a worker that waits, or turned away.
LEMMA OfferInv ==
  ASSUME CollectorInv, NEW c \in Conns, Offer(c)
  PROVE  CollectorInv'
<1> DEFINE e == frame[c]
<1>1. ServerInv' /\ e \in Events /\ e \notin delivered /\ delivered' = delivered \cup {e}
  BY DeliverInv DEF CollectorInv, Offer, Deliver
<1>2. P!Process(e) /\ UNCHANGED <<order, krefused, done>>
      /\ arrival' = IF e \in accepted' THEN Append(arrival, e) ELSE arrival
  BY DEF Offer, producerVars
<1> HIDE DEF e
<1>3. ToTheProducer /\ NoWriteDuringClose /\ QueueSize \in Nat /\ NoFrame \notin Events
  BY CollectorAssumption DEF CollectorInv, P!PipelineAssumption
<1>4. /\ e \notin accepted /\ e \notin refused /\ e \notin Range(queue) /\ e \notin P!Held
      /\ e \notin AtProducer /\ e \notin Range(arrival) /\ e # NoFrame
  BY <1>1, <1>3 DEF ToTheProducer, InOnePlace
<1>5. arrival \in Seq(Events) /\ queue \in Seq(Events) /\ order \in Seq(Events)
      /\ Len(queue) <= QueueSize
  BY <1>3 DEF ToTheProducer, P!TypeOK
<1>6. \A w \in Workers : held[w] # e
  BY <1>4 DEF P!Held
<1>7. AtProducer' = AtProducer
  BY <1>2 DEF AtProducer
<1>8. ASSUME e \in accepted'
      PROVE  /\ arrival' = Append(arrival, e) /\ arrival' \in Seq(Events)
             /\ Range(arrival') = Range(arrival) \cup {e} /\ IsInjective(arrival')
             /\ Len(arrival') = Len(arrival) + 1 /\ arrival'[Len(arrival) + 1] = e
             /\ DOMAIN arrival' = 1..(Len(arrival) + 1)
             /\ \A k \in DOMAIN arrival : arrival'[k] = arrival[k]
             /\ Len(arrival) \in Nat /\ DOMAIN arrival = 1..Len(arrival)
  <2>1. arrival' = Append(arrival, e)
    BY <1>2, <1>8
  <2>2. Range(arrival') = Range(arrival) \cup {e} /\ IsInjective(arrival')
    BY <1>1, <1>3, <1>4, <1>5, <2>1, SendContents, SendDistinct DEF ToTheProducer
  <2>3. /\ arrival' \in Seq(Events) /\ Len(arrival') = Len(arrival) + 1
        /\ arrival'[Len(arrival) + 1] = e /\ DOMAIN arrival' = 1..(Len(arrival) + 1)
        /\ Len(arrival) \in Nat /\ DOMAIN arrival = 1..Len(arrival)
    BY <1>1, <1>5, <2>1
  <2>4. \A k \in 1..Len(arrival) : arrival'[k] = arrival[k]
    BY <1>1, <1>5, <2>1
  <2> QED
    BY <2>1, <2>2, <2>3, <2>4
<1>9. ASSUME e \in accepted', NEW i \in DOMAIN order, NEW k \in DOMAIN arrival',
             order[i] = arrival'[k]
      PROVE  k \in DOMAIN arrival /\ arrival[k] = order[i]
  <2>1. order[i] # e
    BY <1>4 DEF AtProducer, Range
  <2>2. k = Len(arrival) + 1 \/ k \in 1..Len(arrival)
    BY <1>8, <1>9
  <2> QED
    BY <1>8, <1>9, <2>1, <2>2
<1>10. CASE P!Enqueue(e)
  <2>1. /\ Len(queue) < QueueSize /\ queue' = Append(queue, e)
        /\ accepted' = accepted \cup {e}
        /\ UNCHANGED <<refused, closed, die, cancelled, phase, pc, held, written, crashed>>
    BY <1>10 DEF P!Enqueue, P!Admit
  <2>2. /\ queue' \in Seq(Events) /\ Len(queue') = Len(queue) + 1 /\ Len(queue') <= QueueSize
        /\ DOMAIN queue = 1..Len(queue) /\ DOMAIN queue' = 1..(Len(queue) + 1)
        /\ Len(queue) \in Nat /\ queue'[Len(queue) + 1] = e
        /\ \A i \in DOMAIN queue : queue'[i] = queue[i]
    BY <1>1, <1>3, <1>5, <2>1
  <2>3. Range(queue') = Range(queue) \cup {e} /\ IsInjective(queue')
    BY <1>1, <1>3, <1>4, <1>5, <2>1, SendContents, SendDistinct DEF ToTheProducer, InOnePlace
  <2>4. P!TypeOK' /\ P!PhaseInv' /\ P!HeldInv' /\ P!Held' = P!Held
    BY <1>1, <1>3, <2>1, <2>2 DEF ToTheProducer, P!TypeOK, P!PhaseInv, P!Rested, P!HeldInv, P!Held
  <2>5. InOnePlace'
    BY <1>3, <1>4, <1>7, <2>1, <2>3, <2>4 DEF ToTheProducer, InOnePlace
  <2>6. Received' = Received
    BY <1>5, <1>8, <2>1, <2>2 DEF Received
  <2>7. SingleWorkerKeepsOrder'
    <3> SUFFICES ASSUME NEW w \in Workers, Workers = {w}
                 PROVE  /\ Received \in Nat
                        /\ \A i \in DOMAIN queue' : queue'[i] = arrival'[Received + i]
                        /\ held[w] # NoFrame => Received > 0 /\ held[w] = arrival'[Received]
                        /\ \A i, j \in DOMAIN order, k, l \in DOMAIN arrival' :
                             i < j /\ order[i] = arrival'[k] /\ order[j] = arrival'[l] => k < l
      BY <1>2, <2>1, <2>6 DEF SingleWorkerKeepsOrder
    <3>1. /\ Received \in Nat /\ Received + Len(queue) = Len(arrival)
          /\ \A i \in DOMAIN queue : queue[i] = arrival[Received + i]
          /\ held[w] # NoFrame => Received > 0 /\ held[w] = arrival[Received]
          /\ \A i, j \in DOMAIN order, k, l \in DOMAIN arrival :
               i < j /\ order[i] = arrival[k] /\ order[j] = arrival[l] => k < l
      BY <1>3, <1>5 DEF ToTheProducer, SingleWorkerKeepsOrder, Received
    <3>2. ASSUME NEW i \in DOMAIN queue' PROVE queue'[i] = arrival'[Received + i]
      <4>1. CASE i = Len(queue) + 1
        <5>1. Received + i = Len(arrival) + 1
          BY <2>2, <3>1, <4>1
        <5> QED
          BY <1>8, <2>1, <2>2, <4>1, <5>1
      <4>2. CASE i \in DOMAIN queue
        <5>1. Received + i \in DOMAIN arrival
          BY <1>8, <2>1, <2>2, <3>1, <4>2
        <5> QED
          BY <1>8, <2>1, <2>2, <3>1, <4>2, <5>1
      <4> QED
        BY <2>2, <4>1, <4>2
    <3>3. held[w] # NoFrame => Received > 0 /\ held[w] = arrival'[Received]
      BY <1>8, <2>1, <2>2, <3>1
    <3> QED
      BY <1>9, <2>1, <3>1, <3>2, <3>3
  <2>8. ToTheProducer'
    BY <1>1, <1>2, <1>3, <1>7, <1>8, <2>1, <2>4, <2>5, <2>7 DEF ToTheProducer
  <2>9. NoWriteDuringClose'
    BY <1>2, <1>3, <2>1 DEF NoWriteDuringClose
  <2> QED
    BY <1>1, <2>8, <2>9 DEF CollectorInv
<1>11. ASSUME NEW w \in Workers, P!HandOver(e, w) PROVE CollectorInv'
  <2>1. /\ QueueSize = 0 /\ accepted' = accepted \cup {e} /\ pc[w] = "select"
        /\ pc' = [pc EXCEPT ![w] = "correlate"] /\ held' = [held EXCEPT ![w] = e]
        /\ UNCHANGED <<queue, refused, closed, die, cancelled, phase, written, crashed>>
    BY <1>11 DEF P!HandOver, P!Admit, P!Take
  <2>2. /\ held[w] = NoFrame /\ held'[w] = e
        /\ \A v \in Workers : v # w => held'[v] = held[v] /\ pc'[v] = pc[v]
    BY <1>3, <2>1 DEF ToTheProducer, P!HeldInv, P!TypeOK
  <2>3. P!TypeOK' /\ P!PhaseInv' /\ P!HeldInv'
    <3>1. P!TypeOK'
      BY <1>1, <1>3, <2>1 DEF ToTheProducer, P!TypeOK, P!Points
    <3>2. P!HeldInv'
      BY <1>3, <1>4, <2>1, <2>2 DEF ToTheProducer, P!HeldInv, P!TypeOK
    <3>3. P!PhaseInv'
      BY <1>3, <2>1 DEF ToTheProducer, P!PhaseInv, P!Rested
    <3> QED
      BY <3>1, <3>2, <3>3
  <2>4. P!Held' = P!Held \cup {e}
    BY <1>4, <2>2 DEF P!Held
  <2>5. InOnePlace'
    <3>1. \A u, v \in Workers : held'[u] = held'[v] /\ held'[u] # NoFrame => u = v
      BY <1>3, <1>6, <2>2 DEF ToTheProducer, InOnePlace
    <3> QED
      BY <1>3, <1>4, <1>7, <2>1, <2>4, <3>1 DEF ToTheProducer, InOnePlace
  <2>6. /\ Len(queue) = 0 /\ DOMAIN queue = {}
        /\ Received' = Len(arrival) + 1 /\ Len(arrival) \in Nat
    BY <1>5, <1>8, <2>1 DEF Received
  <2>7. SingleWorkerKeepsOrder'
    <3> SUFFICES ASSUME NEW v \in Workers, Workers = {v}
                 PROVE  /\ Received' \in Nat /\ Received' > 0 /\ held'[v] = arrival'[Received']
                        /\ \A i, j \in DOMAIN order, k, l \in DOMAIN arrival' :
                             i < j /\ order[i] = arrival'[k] /\ order[j] = arrival'[l] => k < l
      BY <1>2, <2>1, <2>6 DEF SingleWorkerKeepsOrder
    <3>1. held'[v] = arrival'[Received']
      BY <1>8, <2>1, <2>2, <2>6
    <3>2. \A i, j \in DOMAIN order, k, l \in DOMAIN arrival :
               i < j /\ order[i] = arrival[k] /\ order[j] = arrival[l] => k < l
      BY <1>3 DEF ToTheProducer, SingleWorkerKeepsOrder
    <3> QED
      BY <1>9, <2>1, <2>6, <3>1, <3>2
  <2>8. ToTheProducer'
    BY <1>1, <1>2, <1>3, <1>7, <1>8, <2>1, <2>3, <2>5, <2>7 DEF ToTheProducer
  <2>9. NoWriteDuringClose'
    BY <1>2, <1>3, <2>1 DEF NoWriteDuringClose
  <2> QED
    BY <1>1, <2>8, <2>9 DEF CollectorInv
<1>12. CASE P!RefuseDying(e) \/ P!DropFull(e) \/ P!SendOnClosed(e)
  <2>1. /\ refused' = refused \cup {e}
        /\ UNCHANGED <<queue, accepted, closed, die, cancelled, phase, pc, held, written,
                       crashed>>
    BY <1>12 DEF P!RefuseDying, P!DropFull, P!SendOnClosed, P!TurnAway
  <2>2. arrival' = arrival
    BY <1>2, <1>4, <2>1
  <2>3. ToTheProducer'
    BY <1>1, <1>2, <1>3, <2>1, <2>2 DEF ToTheProducer, P!TypeOK, P!PhaseInv, P!Rested, P!HeldInv,
       P!Held, InOnePlace, AtProducer, SingleWorkerKeepsOrder, Received
  <2>4. NoWriteDuringClose'
    BY <1>2, <1>3, <2>1 DEF NoWriteDuringClose
  <2> QED
    BY <1>1, <2>3, <2>4 DEF CollectorInv
<1> QED
  BY <1>2, <1>10, <1>11, <1>12 DEF P!Process

\* A worker takes the oldest event of the channel, or goes on with the one it has.
LEMMA WorkInv ==
  ASSUME CollectorInv, NEW w \in Workers, Work(w)
  PROVE  CollectorInv'
<1>1. /\ UNCHANGED vars
      /\ UNCHANGED <<order, krefused, done, arrival, delivered>>
      /\ UNCHANGED <<closed, die, cancelled, phase, accepted, refused, written, crashed>>
  BY DEF Work, vars, producerVars, P!Receive, P!ExitCancelled, P!ExitClosed, P!Exit,
         P!Correlate, P!Enrich, P!Panics
<1>2. ServerInv' /\ AtProducer' = AtProducer
  BY <1>1, ServerStep DEF CollectorInv, AtProducer
<1>3. ToTheProducer /\ NoWriteDuringClose /\ QueueSize \in Nat /\ NoFrame \notin Events
  BY CollectorAssumption DEF CollectorInv, P!PipelineAssumption
<1>4. CASE P!Receive(w)
  <2> DEFINE e == Head(queue)
  <2>1. /\ queue # <<>> /\ queue' = Tail(queue) /\ pc[w] = "select"
        /\ pc' = [pc EXCEPT ![w] = "correlate"] /\ held' = [held EXCEPT ![w] = e]
    BY <1>4 DEF P!Receive, P!Take
  <2>2. queue \in Seq(Events) /\ Len(queue) <= QueueSize /\ IsInjective(queue)
    BY <1>3 DEF ToTheProducer, P!TypeOK, InOnePlace
  <2>3. /\ e \in Events /\ queue' \in Seq(Events) /\ Len(queue') = Len(queue) - 1
        /\ Range(queue) = {e} \cup Range(queue')
        /\ IsInjective(queue') /\ e \notin Range(queue')
    BY <2>1, <2>2, ReceiveContents, ReceiveDistinct
  <2>4. /\ e = queue[1] /\ Len(queue) \in Nat \ {0}
        /\ DOMAIN queue = 1..Len(queue) /\ DOMAIN queue' = 1..(Len(queue) - 1)
        /\ \A i \in 1..(Len(queue) - 1) : queue'[i] = queue[i + 1]
    BY <2>1, <2>2
  <2> HIDE DEF e
  <2>5. Len(queue') <= QueueSize
    BY <1>3, <2>2, <2>3, <2>4
  <2>6. /\ held[w] = NoFrame /\ held'[w] = e /\ pc'[w] = "correlate" /\ e # NoFrame
        /\ \A v \in Workers : v # w => held'[v] = held[v] /\ pc'[v] = pc[v]
    BY <1>3, <2>1, <2>3 DEF ToTheProducer, P!HeldInv, P!TypeOK
  <2>7. P!TypeOK'
    BY <1>1, <1>3, <2>1, <2>3, <2>5 DEF ToTheProducer, P!TypeOK, P!Points
  <2>8. P!PhaseInv' /\ P!HeldInv'
    BY <1>1, <1>3, <2>1, <2>6 DEF ToTheProducer, P!PhaseInv, P!Rested, P!HeldInv
  <2>9. P!Held' = P!Held \cup {e}
    BY <2>6 DEF P!Held
  <2>10. InOnePlace'
    <3>1. \A v \in Workers : held[v] # e
      BY <1>3, <2>3, <2>6 DEF ToTheProducer, InOnePlace, P!Held
    <3>2. \A u, v \in Workers : held'[u] = held'[v] /\ held'[u] # NoFrame => u = v
      BY <1>3, <2>6, <3>1 DEF ToTheProducer, InOnePlace
    <3> QED
      BY <1>1, <1>2, <1>3, <2>3, <2>9, <3>2 DEF ToTheProducer, InOnePlace
  <2>11. SingleWorkerKeepsOrder'
    <3> SUFFICES ASSUME NEW v \in Workers, Workers = {v}
                 PROVE  /\ Received' \in Nat /\ Received' > 0 /\ held'[v] = arrival[Received']
                        /\ \A i \in DOMAIN queue' : queue'[i] = arrival[Received' + i]
                        /\ \A i, j \in DOMAIN order, k, l \in DOMAIN arrival :
                             i < j /\ order[i] = arrival[k] /\ order[j] = arrival[l] => k < l
      BY <1>1 DEF SingleWorkerKeepsOrder
    <3>1. /\ Received \in Nat /\ v = w
          /\ \A i \in DOMAIN queue : queue[i] = arrival[Received + i]
          /\ \A i, j \in DOMAIN order, k, l \in DOMAIN arrival :
               i < j /\ order[i] = arrival[k] /\ order[j] = arrival[l] => k < l
      BY <1>3 DEF ToTheProducer, SingleWorkerKeepsOrder
    <3>2. Received' = Received + 1
      BY <1>1, <1>3, <2>3, <2>4 DEF ToTheProducer, Received
    <3>3. held'[v] = arrival[Received + 1]
      BY <2>4, <2>6, <3>1
    <3>4. ASSUME NEW i \in DOMAIN queue' PROVE queue'[i] = arrival[Received + 1 + i]
      <4>1. i + 1 \in DOMAIN queue /\ queue'[i] = queue[i + 1] /\ i \in Nat
        BY <2>4
      <4>2. Received + (i + 1) = Received + 1 + i
        BY <3>1, <4>1
      <4> QED
        BY <3>1, <4>1, <4>2
    <3> QED
      BY <3>1, <3>2, <3>3, <3>4
  <2>12. ToTheProducer'
    BY <1>1, <1>2, <1>3, <2>7, <2>8, <2>10, <2>11 DEF ToTheProducer
  <2>13. NoWriteDuringClose'
    BY <1>1, <1>3, <2>1 DEF NoWriteDuringClose
  <2> QED
    BY <1>2, <2>12, <2>13 DEF CollectorInv
<1>5. CASE P!ExitCancelled(w) \/ P!ExitClosed(w) \/ P!Correlate(w) \/ P!Enrich(w)
  <2>1. /\ UNCHANGED <<queue, held>>
        /\ \E p \in {"enrich", "write", "exited"} :
             /\ pc' = [pc EXCEPT ![w] = p]
             /\ p = "exited" => pc[w] = "select"
             /\ p # "exited" => pc[w] \in {"correlate", "enrich"}
    BY <1>5 DEF P!ExitCancelled, P!ExitClosed, P!Exit, P!Correlate, P!Enrich, P!Panics
  <2>2. P!TypeOK' /\ P!PhaseInv' /\ P!HeldInv' /\ P!Held' = P!Held
    BY <1>1, <1>3, <2>1 DEF ToTheProducer, P!TypeOK, P!Points, P!PhaseInv, P!Rested, P!HeldInv,
       P!Held
  <2>3. InOnePlace' /\ SingleWorkerKeepsOrder'
    BY <1>1, <1>2, <1>3, <2>1, <2>2 DEF ToTheProducer, InOnePlace, SingleWorkerKeepsOrder, Received
  <2>4. ToTheProducer'
    BY <1>1, <1>2, <1>3, <2>2, <2>3 DEF ToTheProducer
  <2>5. NoWriteDuringClose'
    BY <1>1, <1>3, <2>1 DEF NoWriteDuringClose, ToTheProducer, P!TypeOK
  <2> QED
    BY <1>2, <2>4, <2>5 DEF CollectorInv
<1> QED
  BY <1>4, <1>5 DEF Work

\* The event a worker had is the producer's; behind the events it got before, if it
\* has room for it.
LEMMA StoreInv ==
  ASSUME CollectorInv, NEW w \in Workers, Store(w)
  PROVE  CollectorInv'
<1> DEFINE e == held[w]
<1>1. /\ pc[w] = "write" /\ pc' = [pc EXCEPT ![w] = "select"]
      /\ held' = [held EXCEPT ![w] = NoFrame] /\ written' = written \cup {e}
      /\ UNCHANGED vars /\ UNCHANGED <<delivered, arrival, done>>
      /\ UNCHANGED <<queue, closed, die, cancelled, phase, accepted, refused, crashed>>
      /\ \/ order' = Append(order, e) /\ krefused' = krefused
         \/ order' = order /\ krefused' = krefused \cup {e}
  BY DEF Store, P!WriteStorages, K!Write, vars
<1>2. ServerInv'
  BY <1>1, ServerStep DEF CollectorInv
<1>3. ToTheProducer /\ NoWriteDuringClose /\ NoFrame \notin Events
  BY CollectorAssumption DEF CollectorInv, P!PipelineAssumption
<1>4. /\ e \in Events /\ e # NoFrame
      /\ e \in P!Held /\ e \in accepted /\ e \notin Range(queue) /\ e \notin AtProducer
  BY <1>1, <1>3 DEF ToTheProducer, P!TypeOK, P!HeldInv, P!Held, InOnePlace
<1>5. /\ held'[w] = NoFrame /\ pc'[w] = "select"
      /\ \A v \in Workers : v # w => held'[v] = held[v] /\ pc'[v] = pc[v]
  BY <1>1, <1>3 DEF ToTheProducer, P!TypeOK
<1> HIDE DEF e
<1>6. P!Held' = P!Held \ {e}
  BY <1>1, <1>3, <1>4, <1>5 DEF ToTheProducer, InOnePlace, P!Held, e
<1>7. order \in Seq(Events) /\ order' \in Seq(Events) /\ AtProducer' = AtProducer \cup {e}
  <2>1. order \in Seq(Events)
    BY <1>3 DEF ToTheProducer
  <2>2. Range(Append(order, e)) = Range(order) \cup {e}
    BY <1>4, <2>1, SendContents
  <2>3. order' \in Seq(Events)
    BY <1>1, <1>4, <2>1
  <2> QED
    BY <1>1, <2>1, <2>2, <2>3 DEF AtProducer
<1>8. P!TypeOK' /\ P!PhaseInv' /\ P!HeldInv'
  <2>1. P!TypeOK'
    BY <1>1, <1>3, <1>4 DEF ToTheProducer, P!TypeOK, P!Points
  <2>2. P!PhaseInv'
    BY <1>1, <1>3, <1>5 DEF ToTheProducer, P!PhaseInv, P!Rested
  <2>3. P!HeldInv'
    BY <1>1, <1>3, <1>5 DEF ToTheProducer, P!HeldInv
  <2> QED
    BY <2>1, <2>2, <2>3
<1>9. InOnePlace'
  <2>1. \A u, v \in Workers : held'[u] = held'[v] /\ held'[u] # NoFrame => u = v
    BY <1>3, <1>5 DEF ToTheProducer, InOnePlace
  <2> QED
    BY <1>1, <1>3, <1>4, <1>6, <1>7, <2>1 DEF ToTheProducer, InOnePlace
<1>10. SingleWorkerKeepsOrder'
  <2> SUFFICES ASSUME NEW v \in Workers, Workers = {v}
               PROVE  /\ Received \in Nat
                      /\ \A i \in DOMAIN queue : queue[i] = arrival[Received + i]
                      /\ held'[v] = NoFrame
                      /\ \A i, j \in DOMAIN order', k, l \in DOMAIN arrival :
                           i < j /\ order'[i] = arrival[k] /\ order'[j] = arrival[l] => k < l
    BY <1>1 DEF SingleWorkerKeepsOrder, Received
  <2>1. /\ Received \in Nat /\ Received > 0 /\ v = w /\ e = arrival[Received]
        /\ \A i \in DOMAIN queue : queue[i] = arrival[Received + i]
        /\ \A i, j \in DOMAIN order, k, l \in DOMAIN arrival :
             i < j /\ order[i] = arrival[k] /\ order[j] = arrival[l] => k < l
    BY <1>3, <1>4 DEF ToTheProducer, SingleWorkerKeepsOrder, e
  <2>2. /\ arrival \in Seq(Events) /\ DOMAIN arrival = 1..Len(arrival) /\ Len(arrival) \in Nat
        /\ queue \in Seq(Events) /\ DOMAIN queue = 1..Len(queue) /\ Len(queue) \in Nat
        /\ IsInjective(arrival)
    BY <1>3 DEF ToTheProducer, P!TypeOK
  <2>3. Received \in DOMAIN arrival /\ Received + Len(queue) = Len(arrival)
    BY <2>1, <2>2 DEF Received
  <2>4. CASE order' = order
    BY <1>5, <2>1, <2>4
  <2>5. CASE order' = Append(order, e)
    <3>1. /\ DOMAIN order = 1..Len(order) /\ Len(order) \in Nat
          /\ DOMAIN order' = 1..(Len(order) + 1) /\ order'[Len(order) + 1] = e
      BY <1>4, <1>7, <2>5
    <3>2. \A i \in 1..Len(order) : order'[i] = order[i]
      BY <1>4, <1>7, <2>5
    <3>3. ASSUME NEW i \in DOMAIN order', NEW j \in DOMAIN order', NEW k \in DOMAIN arrival,
                 NEW l \in DOMAIN arrival, i < j, order'[i] = arrival[k],
                 order'[j] = arrival[l]
          PROVE  k < l
      <4>1. i \in DOMAIN order /\ order'[i] = order[i]
        BY <3>1, <3>2, <3>3
      <4>2. CASE j \in DOMAIN order
        BY <2>1, <3>1, <3>2, <3>3, <4>1, <4>2
      <4>3. CASE j = Len(order) + 1
        <5>1. l = Received
          BY <2>1, <2>2, <2>3, <3>1, <3>3, <4>3 DEF IsInjective
        <5>2. arrival[k] \in AtProducer
          BY <3>3, <4>1 DEF AtProducer, Range
        <5>3. k # Received
          BY <1>4, <2>1, <5>2
        <5>4. ~(k > Received)
          <6> SUFFICES ASSUME k > Received PROVE FALSE
            OBVIOUS
          <6>1. k - Received \in DOMAIN queue
            BY <2>2, <2>3, <2>1
          <6>2. Received + (k - Received) = k
            BY <2>1, <2>2
          <6>3. arrival[k] \in Range(queue)
            BY <2>1, <6>1, <6>2 DEF Range
          <6> QED
            BY <1>3, <5>2, <6>3 DEF ToTheProducer, InOnePlace
        <5> QED
          BY <2>1, <2>2, <5>1, <5>3, <5>4
      <4> QED
        BY <3>1, <4>2, <4>3
    <3> QED
      BY <1>5, <2>1, <3>3
  <2> QED
    BY <1>1, <2>4, <2>5
<1>11. ToTheProducer'
  BY <1>1, <1>3, <1>4, <1>7, <1>8, <1>9, <1>10 DEF ToTheProducer
<1>12. NoWriteDuringClose'
  BY <1>1, <1>3 DEF NoWriteDuringClose
<1> QED
  BY <1>2, <1>11, <1>12 DEF CollectorInv

\* The producer's own steps, those of the server, and main's.
LEMMA FlushInv == ASSUME CollectorInv, Flush PROVE CollectorInv'
<1>1. UNCHANGED <<order, krefused, done>>
  BY DEF Flush, K!Flusher, K!Broker, K!Take, K!TickFlush, K!Due, K!SeeDone, K!LeaveTo,
         K!Attempt, K!Succeed, K!Acknowledged, K!Retry, K!GiveUp, K!Failed, K!Timeout, K!Expire,
         K!Serve, K!historyVars
<1>2. UNCHANGED accountVars /\ UNCHANGED vars
  BY <1>1 DEF Flush, accountVars, pipelineVars, vars
<1> QED
  BY <1>1, <1>2, Undisturbed, ServerStep DEF CollectorInv, NoWriteDuringClose, accountVars

LEMMA ServerAloneInv ==
  ASSUME CollectorInv, Server \/ Signal \/ StopServer \/ UNCHANGED sysVars
  PROVE  CollectorInv'
<1>1. [Next]_vars
  BY DEF Server, Signal, StopServer, Next, Handler, sysVars
<1>2. delivered' = delivered
  BY DEF Server, Signal, StopServer, AcceptFails, Accept, Handshake, Check, DecodeFails, Decode,
         CancelServer, CloseListener, sysVars, vars
<1>3. UNCHANGED accountVars /\ done' = done
  BY <1>2 DEF Server, Signal, StopServer, sysVars, accountVars, pipelineVars, producerVars
<1> QED
  BY <1>1, <1>3, Undisturbed, ServerStep DEF CollectorInv, NoWriteDuringClose, accountVars

LEMMA MainInv ==
  ASSUME CollectorInv, BeginShutdown \/ GoOnShuttingDown \/ CloseProducer \/ EndShutdown
  PROVE  CollectorInv'
<1>1. /\ UNCHANGED vars
      /\ UNCHANGED <<queue, pc, held, accepted, refused, written, crashed, order, krefused,
                     delivered, arrival>>
  BY DEF BeginShutdown, GoOnShuttingDown, CloseProducer, EndShutdown, producerVars,
         pipelineVars, vars, P!Cancel, P!CloseDie, P!CloseQueue, P!WaitWorkers,
         P!StopCorrelator, P!CloseStorages, P!RestUnchanged, K!BeginClose, K!EndClose,
         K!historyVars
<1>2. ToTheProducer /\ NoWriteDuringClose
  BY DEF CollectorInv
<1>3. P!PhaseInv' /\ P!TypeOK'
  <2>1. CASE BeginShutdown
    BY <1>1, <1>2, <2>1 DEF BeginShutdown, P!Cancel, P!Advance, ToTheProducer, P!PhaseInv,
       P!Rested, P!TypeOK, P!Phases
  <2>2. CASE GoOnShuttingDown
    <3>1. /\ phase' \in {"dying", "closed", "waited", "correlator_stopped"}
          /\ phase # "running" /\ cancelled' = cancelled
          /\ die' \in BOOLEAN /\ closed' \in BOOLEAN
          /\ closed' <=> (phase' = "closed" \/ P!Rested')
          /\ P!Rested' => P!Rested \/ \A w \in Workers : pc[w] = "exited"
      <4>1. P!PhaseInv /\ die \in BOOLEAN /\ closed \in BOOLEAN
        BY <1>2 DEF ToTheProducer, P!TypeOK
      <4>2. CASE P!CloseDie
        BY <4>1, <4>2 DEF P!CloseDie, P!Advance, P!PhaseInv, P!Rested
      <4>3. CASE P!CloseQueue
        BY <4>1, <4>3 DEF P!CloseQueue, P!Advance, P!PhaseInv, P!Rested
      <4>4. CASE P!WaitWorkers
        BY <4>1, <4>4 DEF P!WaitWorkers, P!RestUnchanged, P!Advance, P!PhaseInv, P!Rested
      <4>5. CASE P!StopCorrelator
        BY <4>1, <4>5 DEF P!StopCorrelator, P!RestUnchanged, P!Advance, P!PhaseInv, P!Rested
      <4> QED
        BY <2>2, <4>2, <4>3, <4>4, <4>5 DEF GoOnShuttingDown
    <3>2. P!PhaseInv'
      BY <1>1, <1>2, <3>1 DEF ToTheProducer, P!PhaseInv
    <3>3. P!TypeOK'
      BY <1>1, <1>2, <3>1 DEF ToTheProducer, P!TypeOK, P!Phases
    <3> QED
      BY <3>2, <3>3
  <2>3. CASE CloseProducer
    BY <1>1, <1>2, <2>3 DEF CloseProducer, pipelineVars, ToTheProducer, P!PhaseInv,
       P!Rested, P!TypeOK
  <2>4. CASE EndShutdown
    BY <1>1, <1>2, <2>4 DEF EndShutdown, P!CloseStorages, P!RestUnchanged, P!Advance, ToTheProducer,
       P!PhaseInv, P!Rested, P!TypeOK, P!Phases
  <2> QED
    BY <2>1, <2>2, <2>3, <2>4
<1>4. ToTheProducer'
  BY <1>1, <1>2, <1>3 DEF ToTheProducer, P!HeldInv, P!Held, InOnePlace, AtProducer,
     SingleWorkerKeepsOrder, Received
<1>5. NoWriteDuringClose'
  <2>1. CASE CloseProducer
    BY <1>1, <1>2, <2>1 DEF CloseProducer, ToTheProducer, P!PhaseInv, P!Rested, P!HeldInv,
       NoWriteDuringClose
  <2>2. CASE ~CloseProducer
    BY <1>1, <1>2, <2>2 DEF BeginShutdown, GoOnShuttingDown, EndShutdown, K!EndClose,
       producerVars, NoWriteDuringClose
  <2> QED
    BY <2>1, <2>2
<1> QED
  BY <1>1, <1>4, <1>5, ServerStep DEF CollectorInv

LEMMA SysNextInv == CollectorInv /\ [SysNext]_sysVars => CollectorInv'
BY OfferInv, WorkInv, StoreInv, FlushInv, ServerAloneInv, MainInv DEF SysNext, SysEnded, Main

-----------------------------------------------------------------------------
(* The producer's accounts *)

\* What module Producer takes from Functions is the same here.
LEMMA SameOperators == \A s : K!Range(s) = Range(s) /\ K!IsInjective(s) = IsInjective(s)
BY DEF K!Range, Range, K!IsInjective, IsInjective

Accounted ==
  /\ Range(order) = Range(kqueue) \cup Range(messages) \cup acked \cup gaveUp
  /\ Range(kqueue) \cap (Range(messages) \cup acked \cup gaveUp) = {}
  /\ Range(messages) \cap (acked \cup gaveUp) = {}
  /\ acked \cap gaveUp = {}
  /\ IsInjective(order) /\ IsInjective(kqueue) /\ IsInjective(messages)
  /\ Range(order) \cap krefused = {}

Accounts ==
  /\ kqueue \in Seq(Events) /\ messages \in Seq(Events)
  /\ acked \subseteq Events /\ gaveUp \subseteq Events
  /\ Accounted

LEMMA AccountsHold == Accounts => AtTheProducer
<1>1. Accounted => K!Conservation
  BY SameOperators DEF Accounted, K!Conservation
<1> QED
  BY <1>1 DEF Accounts, AtTheProducer

\* The event moves from a worker to the channel of the producer, or is turned away.
LEMMA StoreAccounts ==
  ASSUME Accounts, CollectorInv, NEW w \in Workers, Store(w)
  PROVE  Accounts'
<1> DEFINE e == held[w]
<1>1. K!Write(e) /\ e \in Events
  BY DEF Store, P!WriteStorages, CollectorInv, ToTheProducer, P!HeldInv, P!TypeOK
<1> HIDE DEF e
<1>2. /\ e \notin Range(order) /\ e \notin krefused
      /\ UNCHANGED <<messages, acked, gaveUp>>
      /\ \/ /\ kqueue' = Append(kqueue, e) /\ order' = Append(order, e)
            /\ krefused' = krefused
         \/ kqueue' = kqueue /\ order' = order /\ krefused' = krefused \cup {e}
  BY <1>1, SameOperators DEF K!Write, K!New
<1>3. kqueue \in Seq(Events) /\ order \in Seq(Events)
  BY DEF Accounts, CollectorInv, ToTheProducer
<1>4. e \notin Range(kqueue) /\ e \notin Range(messages) /\ e \notin acked /\ e \notin gaveUp
  BY <1>2 DEF Accounts, Accounted
<1>5. CASE kqueue' = Append(kqueue, e) /\ order' = Append(order, e) /\ krefused' = krefused
  <2>1. kqueue' \in Seq(Events)
    BY <1>1, <1>3, <1>5
  <2>2. Range(kqueue') = Range(kqueue) \cup {e} /\ Range(order') = Range(order) \cup {e}
    BY <1>1, <1>3, <1>5, SendContents
  <2>3. IsInjective(kqueue') /\ IsInjective(order')
    BY <1>1, <1>2, <1>3, <1>4, <1>5, SendDistinct DEF Accounts, Accounted
  <2>4. Accounted'
    BY <1>2, <1>4, <1>5, <2>2, <2>3 DEF Accounts, Accounted
  <2> QED
    BY <1>2, <2>1, <2>4 DEF Accounts
<1>6. CASE kqueue' = kqueue /\ order' = order /\ krefused' = krefused \cup {e}
  <2>1. Accounted'
    BY <1>2, <1>6 DEF Accounts, Accounted
  <2> QED
    BY <1>2, <1>6, <2>1 DEF Accounts
<1> QED
  BY <1>2, <1>5, <1>6

\* What the flusher does to the channel, the batch and the fates of events, and the
\* rest of what it might do, which moves no event
Settles(S) ==
  /\ S \subseteq Range(order) \ (acked \cup gaveUp)
  /\ \/ acked' = acked \cup S /\ gaveUp' = gaveUp
     \/ acked' = acked /\ gaveUp' = gaveUp \cup S

LEMMA FlushMoves ==
  ASSUME Accounts, Flush
  PROVE  /\ UNCHANGED <<order, krefused>>
         /\ \/ UNCHANGED <<kqueue, messages, acked, gaveUp>>
            \/ /\ kqueue # <<>> /\ kqueue' = Tail(kqueue)
               /\ messages' = Append(messages, Head(kqueue))
               /\ UNCHANGED <<acked, gaveUp>>
            \/ /\ UNCHANGED kqueue /\ messages' = <<>>
               /\ Settles(Range(messages))
<1>1. UNCHANGED <<order, krefused>>
  BY DEF Flush, K!Flusher, K!Broker, K!Take, K!TickFlush, K!Due, K!SeeDone, K!LeaveTo,
         K!Attempt, K!Succeed, K!Acknowledged, K!Retry, K!GiveUp, K!Failed, K!Timeout, K!Expire,
         K!Serve, K!historyVars
<1>2. CASE K!Take
  BY <1>1, <1>2 DEF K!Take
<1>3. CASE K!Succeed \/ K!GiveUp \/ K!Timeout
  <2>1. UNCHANGED kqueue /\ messages' = <<>>
    BY <1>3 DEF K!Succeed, K!Acknowledged, K!GiveUp, K!Failed, K!Timeout, K!Expire, K!Finished
  <2>2. \/ acked' = acked \cup Range(messages) /\ gaveUp' = gaveUp
        \/ acked' = acked /\ gaveUp' = gaveUp \cup Range(messages)
    BY <1>3, SameOperators DEF K!Succeed, K!Acknowledged, K!GiveUp, K!Failed, K!Timeout, K!Expire
  <2>3. Range(messages) \subseteq Range(order) \ (acked \cup gaveUp)
    BY DEF Accounts, Accounted
  <2> QED
    BY <1>1, <2>1, <2>2, <2>3 DEF Settles
<1>4. CASE \/ K!TickFlush \/ K!SeeDone \/ K!Attempt \/ K!Retry
           \/ \E p \in Partitions : K!Broker(p)
  <2>1. UNCHANGED <<kqueue, messages, acked, gaveUp>>
    BY <1>4 DEF K!TickFlush, K!Due, K!SeeDone, K!LeaveTo, K!Attempt, K!Retry, K!Broker, K!Serve
  <2> QED
    BY <1>1, <2>1
<1> QED
  BY <1>2, <1>3, <1>4 DEF Flush, K!Flusher

LEMMA FlushAccounts == ASSUME Accounts, order \in Seq(Events), Flush PROVE Accounts'
<1>1. /\ kqueue \in Seq(Events) /\ messages \in Seq(Events) /\ Accounted
      /\ acked \subseteq Events /\ gaveUp \subseteq Events
  BY DEF Accounts
<1>2. UNCHANGED <<order, krefused>>
  BY FlushMoves
<1>3. CASE UNCHANGED <<kqueue, messages, acked, gaveUp>>
  BY <1>1, <1>2, <1>3 DEF Accounts, Accounted
<1>4. CASE /\ kqueue # <<>> /\ kqueue' = Tail(kqueue)
           /\ messages' = Append(messages, Head(kqueue))
           /\ UNCHANGED <<acked, gaveUp>>
  <2> DEFINE e == Head(kqueue)
  <2>1. /\ e \in Events /\ kqueue' \in Seq(Events)
        /\ Range(kqueue) = {e} \cup Range(kqueue')
    BY <1>1, <1>4, ReceiveContents
  <2>2. IsInjective(kqueue') /\ e \notin Range(kqueue')
    BY <1>1, <1>4, ReceiveDistinct DEF Accounted
  <2>3. e \notin Range(messages)
    BY <1>1, <2>1 DEF Accounted
  <2>4. messages' = Append(messages, e)
    BY <1>4
  <2> HIDE DEF e
  <2>5. messages' \in Seq(Events) /\ Range(messages') = Range(messages) \cup {e}
    BY <1>1, <2>1, <2>4, SendContents
  <2>6. IsInjective(messages')
    BY <1>1, <2>1, <2>3, <2>4, SendDistinct DEF Accounted
  <2>7. Accounted'
    BY <1>1, <1>2, <1>4, <2>1, <2>2, <2>5, <2>6 DEF Accounted
  <2> QED
    BY <1>1, <1>4, <2>1, <2>5, <2>7 DEF Accounts
<1>5. CASE UNCHANGED kqueue /\ messages' = <<>> /\ Settles(Range(messages))
  <2>1. messages' \in Seq(Events) /\ Range(messages') = {} /\ IsInjective(messages')
    BY <1>5 DEF Range, IsInjective
  <2>2. Range(messages) \subseteq Events
    BY <1>1 DEF Range
  <2>3. Accounted'
    BY <1>1, <1>2, <1>5, <2>1 DEF Accounted, Settles
  <2> QED
    BY <1>1, <1>5, <2>1, <2>2, <2>3 DEF Accounts, Settles
<1> QED
  BY <1>2, <1>3, <1>4, <1>5, FlushMoves

LEMMA AccountsInit == SysInit => Accounts
<1> SUFFICES ASSUME SysInit PROVE Accounts
  OBVIOUS
<1>1. kqueue = <<>> /\ messages = <<>> /\ order = <<>> /\ krefused = {} /\ acked = {} /\ gaveUp = {}
  BY DEF SysInit, K!Init
<1>2. Range(<<>>) = {} /\ IsInjective(<<>>)
  BY DEF Range, IsInjective
<1> QED
  BY <1>1, <1>2 DEF Accounts, Accounted

LEMMA AccountsNext ==
  ASSUME Accounts, CollectorInv, [SysNext]_sysVars
  PROVE  Accounts'
<1>1. CASE UNCHANGED <<kqueue, messages, order, krefused, acked, gaveUp>>
  BY <1>1 DEF Accounts, Accounted
<1>2. CASE Flush
  BY <1>2, FlushAccounts DEF CollectorInv, ToTheProducer
<1>3. CASE \E w \in Workers : Store(w)
  BY <1>3, StoreAccounts
<1>4. \/ UNCHANGED <<kqueue, messages, order, krefused, acked, gaveUp>>
      \/ Flush
      \/ \E w \in Workers : Store(w)
  BY DEF SysNext, SysEnded, sysVars, Server, Offer, Work, Signal, Main, StopServer,
         BeginShutdown, GoOnShuttingDown, CloseProducer, EndShutdown, K!BeginClose, K!EndClose,
         K!historyVars, producerVars
<1> QED
  BY <1>1, <1>2, <1>3, <1>4

\* The accounts add up in every state of the collector: no frame is lost, written
\* twice, or put out of order by a single worker, between a connection and the
\* producer, and nobody writes to the producer once its Close has begun.
THEOREM SysInvariance == SysSpec => [](ServerInv /\ NoWriteDuringClose /\ EndToEnd)
<1>1. CollectorInv /\ Accounts => ServerInv /\ NoWriteDuringClose /\ EndToEnd
  BY AccountsHold DEF CollectorInv, EndToEnd
<1> QED
  BY <1>1, SysInitInv, SysNextInv, AccountsInit, AccountsNext, PTL DEF SysSpec

-----------------------------------------------------------------------------
(* The parts run as their own modules say *)

\* Nothing brings the process down: without a GeoIP database no lookup can panic.
LEMMA NoCrash ==
  ASSUME ~crashed, [SysNext]_sysVars
  PROVE  ~crashed'
<1>1. ASSUME NEW w \in Workers, P!Enrich(w)
      PROVE  ~crashed'
  BY <1>1 DEF P!Enrich, P!Panics
<1>2. ASSUME NEW c \in Conns, Offer(c)
      PROVE  UNCHANGED crashed
  BY <1>2 DEF Offer, P!Process, P!Enqueue, P!HandOver, P!RefuseDying, P!DropFull, P!SendOnClosed
<1>3. ASSUME NEW w \in Workers, Work(w) \/ Store(w), ~P!Enrich(w)
      PROVE  UNCHANGED crashed
  BY <1>3 DEF Work, Store, P!Receive, P!ExitCancelled, P!ExitClosed, P!Exit, P!Correlate,
       P!WriteStorages
<1>4. ASSUME Server \/ Flush \/ Signal \/ Main \/ UNCHANGED sysVars
      PROVE  UNCHANGED crashed
  BY <1>4 DEF Server, Flush, Signal, Main, StopServer, BeginShutdown, GoOnShuttingDown,
     CloseProducer, EndShutdown, sysVars, pipelineVars, P!Cancel, P!CloseDie, P!CloseQueue,
     P!WaitWorkers, P!StopCorrelator, P!CloseStorages, P!RestUnchanged
<1> QED
  BY <1>1, <1>2, <1>3, <1>4 DEF SysNext, SysEnded

\* Each step is one of the server's, ...
LEMMA ServerRuns == [SysNext]_sysVars => [Next]_vars
BY DEF SysNext, SysEnded, sysVars, vars, Server, Flush, Offer, Work, Store, Signal, Main,
       StopServer, BeginShutdown, GoOnShuttingDown, CloseProducer, EndShutdown, Next, Handler

\* ... one of the pipeline's, ...
LEMMA PipelineRuns == ~crashed /\ CollectorInv /\ [SysNext]_sysVars => [P!Next]_(P!vars)
<1> SUFFICES ASSUME ~crashed, CollectorInv, [SysNext]_sysVars
             PROVE  [P!Next]_(P!vars)
  OBVIOUS
<1>1. ASSUME NEW c \in Conns, Offer(c)
      PROVE  P!Next
  <2>1. handler[c] = "deliver"
    BY <1>1 DEF Offer, Deliver, Goto
  <2>2. frame[c] \in Events
    BY <2>1 DEF CollectorInv, ServerInv, TypeOK, OfferedOnce
  <2> QED
    BY <1>1, <2>2 DEF Offer, P!Next
<1>2. ASSUME NEW w \in Workers, Work(w) \/ Store(w)
      PROVE  P!Next
  BY <1>2 DEF Work, Store, P!Next, P!Worker
<1>3. ASSUME BeginShutdown \/ GoOnShuttingDown \/ EndShutdown
      PROVE  P!Next
  BY <1>3 DEF BeginShutdown, GoOnShuttingDown, EndShutdown, P!Next, P!Shutdown, P!Finishing
<1>4. ASSUME Server \/ Flush \/ Signal \/ StopServer \/ CloseProducer \/ UNCHANGED sysVars
      PROVE  UNCHANGED P!vars
  BY <1>4 DEF Server, Flush, Signal, StopServer, CloseProducer, sysVars, pipelineVars, P!vars
<1> QED
  BY <1>1, <1>2, <1>3, <1>4 DEF SysNext, SysEnded, Main

\* ... and one of the producer's, which is written to only before its Close.
LEMMA ProducerRuns == CollectorInv /\ [SysNext]_sysVars => [K!Next]_(K!vars)
<1> SUFFICES ASSUME CollectorInv, [SysNext]_sysVars
             PROVE  [K!Next]_(K!vars)
  OBVIOUS
<1>1. ASSUME NEW w \in Workers, Store(w)
      PROVE  K!Next
  <2>1. pc[w] = "write"
    BY <1>1 DEF Store, P!WriteStorages
  <2>2. held[w] \in Events
    BY <2>1 DEF CollectorInv, ToTheProducer, P!TypeOK, P!HeldInv
  <2>3. ~done
    BY <2>1 DEF CollectorInv, NoWriteDuringClose
  <2> QED
    BY <1>1, <2>2, <2>3 DEF Store, K!Next
<1>2. ASSUME Flush \/ CloseProducer \/ EndShutdown
      PROVE  K!Next
  BY <1>2 DEF Flush, CloseProducer, EndShutdown, K!Next
<1>3. ASSUME NEW c \in Conns, Offer(c)
      PROVE  UNCHANGED K!vars
  BY <1>3 DEF Offer, producerVars, K!vars
<1>4. ASSUME NEW w \in Workers, Work(w)
      PROVE  UNCHANGED K!vars
  BY <1>4 DEF Work, producerVars, K!vars
<1>5. ASSUME Server \/ Signal \/ StopServer \/ BeginShutdown \/ GoOnShuttingDown \/ UNCHANGED sysVars
      PROVE  UNCHANGED K!vars
  BY <1>5 DEF Server, Signal, StopServer, BeginShutdown, GoOnShuttingDown, sysVars, producerVars,
     K!vars
<1> QED
  BY <1>1, <1>2, <1>3, <1>4, <1>5 DEF SysNext, SysEnded, Main

\* Server, pipeline and producer behave in the collector as their modules specify: what
\* Producer asks of its caller, no Write once Close has begun, is what the order of main's
\* shutdown and the wait for the workers see to.
THEOREM PartsAreAsSpecified == SysSpec => Spec /\ P!Spec /\ K!Spec
<1>1. SysInit => Init /\ P!Init /\ K!Init /\ ~crashed
  BY DEF SysInit, P!Init
<1>2. ~crashed /\ [SysNext]_sysVars => ~crashed'
  BY NoCrash
<1> QED
  BY <1>1, <1>2, ServerRuns, PipelineRuns, ProducerRuns, SysInitInv, SysNextInv, PTL
     DEF SysSpec, Spec, P!Spec, K!Spec

\* What is proved of the producer on its own
KP == INSTANCE ProducerProofs
        WITH queue <- kqueue, closed <- kclosed, refused <- krefused, Unencodable <- {}

\* It is the producer of the collector.
LEMMA SameProducer ==
  /\ K!Spec <=> KP!Spec
  /\ K!AckedIsStored <=> KP!AckedIsStored
  /\ K!OrderAcrossBatches <=> KP!OrderAcrossBatches
<1>1. \A s : K!Range(s) = KP!Range(s)
  BY DEF K!Range, KP!Range
<1>2. K!vars = KP!vars
  BY DEF K!vars, KP!vars
<1>3. K!Init <=> KP!Init
  BY DEF K!Init, KP!Init
<1>4. \A e \in Events : K!Write(e) <=> KP!Write(e)
  BY <1>1 DEF K!Write, KP!Write, K!New, KP!New, K!historyVars, KP!historyVars, K!writerVars, KP!writerVars
<1>5. /\ K!Take <=> KP!Take
      /\ K!TickFlush <=> KP!TickFlush
      /\ K!SeeDone <=> KP!SeeDone
  BY DEF K!Take, KP!Take, K!TickFlush, KP!TickFlush, K!SeeDone, KP!SeeDone, K!Due, KP!Due,
         K!LeaveTo, KP!LeaveTo, K!historyVars, KP!historyVars, K!writerVars, KP!writerVars
<1>6. \A p : K!BatchFor(p) = KP!BatchFor(p)
  BY DEF K!BatchFor, KP!BatchFor
<1>7. K!Targets = KP!Targets
  BY <1>6 DEF K!Targets, KP!Targets
<1>8. K!Attempt <=> KP!Attempt
  BY <1>6, <1>7 DEF K!Attempt, KP!Attempt, K!historyVars, KP!historyVars
<1>9. (K!Answered <=> KP!Answered) /\ (K!Finished <=> KP!Finished)
       /\ (K!Retriable <=> KP!Retriable)
  BY DEF K!Answered, KP!Answered, K!Finished, KP!Finished, K!Retriable, KP!Retriable
<1>10. K!Succeed <=> KP!Succeed
  BY <1>1, <1>9 DEF K!Succeed, KP!Succeed, K!Acknowledged, KP!Acknowledged, K!historyVars,
     KP!historyVars, K!writerVars, KP!writerVars
<1>11. K!Retry <=> KP!Retry
  BY <1>9 DEF K!Retry, KP!Retry, K!historyVars, KP!historyVars, K!writerVars, KP!writerVars
<1>12. K!GiveUp <=> KP!GiveUp
  BY <1>1, <1>9 DEF K!GiveUp, KP!GiveUp, K!Failed, KP!Failed, K!historyVars, KP!historyVars,
     K!writerVars, KP!writerVars
<1>13. K!Timeout <=> KP!Timeout
  BY <1>1, <1>9 DEF K!Timeout, KP!Timeout, K!Expire, KP!Expire, K!historyVars, KP!historyVars
<1>14. \A p \in Partitions : K!Broker(p) <=> KP!Broker(p)
  <2>1. \A s : K!Cut(s) = KP!Cut(s)
    BY DEF K!Cut, KP!Cut
  <2>2. \A p, outcome, n : K!Serve(p, outcome, n) <=> KP!Serve(p, outcome, n)
    BY DEF K!Serve, KP!Serve, K!historyVars, KP!historyVars
  <2> QED
    BY <2>1, <2>2 DEF K!Broker, KP!Broker
<1>15. (K!BeginClose <=> KP!BeginClose) /\ (K!EndClose <=> KP!EndClose)
  BY DEF K!BeginClose, KP!BeginClose, K!EndClose, KP!EndClose, K!historyVars, KP!historyVars,
         K!writerVars, KP!writerVars
<1>16. [K!Next]_(K!vars) <=> [KP!Next]_(KP!vars)
  <2>1. (UNCHANGED K!vars) <=> (UNCHANGED KP!vars)
    BY DEF K!vars, KP!vars
  <2>2. K!Ended <=> KP!Ended
    BY <2>1 DEF K!Ended, KP!Ended
  <2>3. K!Flusher <=> KP!Flusher
    BY <1>5, <1>8, <1>10, <1>11, <1>12, <1>13 DEF K!Flusher, KP!Flusher
  <2>4. K!Next <=> KP!Next
    BY <1>4, <1>14, <1>15, <2>2, <2>3 DEF K!Next, KP!Next
  <2> QED
    BY <2>1, <2>4
<1>17. K!AckedIsStored <=> KP!AckedIsStored
  BY <1>1 DEF K!AckedIsStored, KP!AckedIsStored
<1> DEFINE InOrder(p, f, e) ==
             \/ K!Precedes(log'[p], e, f)
             \/ e \in gaveUp \ K!From(1, pending'[p])
             \/ {e, f} \subseteq K!Range(messages) /\ errs # {}
           Stored ==
             \A p \in Partitions : \A f \in K!Range(log'[p]) \ K!Range(log[p]) :
               \A e \in K!Earlier(order, f) \cap K!OfPartition(p) : InOrder(p, f, e)
           KPInOrder(p, f, e) ==
             \/ KP!Precedes(log'[p], e, f)
             \/ e \in gaveUp \ KP!From(1, pending'[p])
             \/ {e, f} \subseteq KP!Range(messages) /\ errs # {}
           KPStored ==
             \A p \in Partitions : \A f \in KP!Range(log'[p]) \ KP!Range(log[p]) :
               \A e \in KP!Earlier(order, f) \cap KP!OfPartition(p) : KPInOrder(p, f, e)
<1>18. /\ \A o, f : K!Earlier(o, f) = KP!Earlier(o, f)
       /\ \A p : K!OfPartition(p) = KP!OfPartition(p)
       /\ \A s, e, f : K!Precedes(s, e, f) <=> KP!Precedes(s, e, f)
       /\ \A k, calls : K!From(k, calls) = KP!From(k, calls)
  BY <1>1 DEF K!Earlier, KP!Earlier, K!OfPartition, KP!OfPartition, K!Precedes, KP!Precedes,
     K!From, KP!From
<1>19. [Stored]_(K!vars) <=> [KPStored]_(KP!vars)
  <2>1. \A p, f, e : InOrder(p, f, e) <=> KPInOrder(p, f, e)
    BY <1>1, <1>18
  <2>2. \A p : K!Range(log'[p]) \ K!Range(log[p]) = KP!Range(log'[p]) \ KP!Range(log[p])
    BY <1>1
  <2>3. \A p, f : K!Earlier(order, f) \cap K!OfPartition(p)
                   = KP!Earlier(order, f) \cap KP!OfPartition(p)
    BY <1>18
  <2> HIDE DEF InOrder, KPInOrder
  <2>4. Stored <=> KPStored
    BY <2>1, <2>2, <2>3
  <2>5. (UNCHANGED K!vars) <=> (UNCHANGED KP!vars)
    BY DEF K!vars, KP!vars
  <2> HIDE DEF Stored, KPStored
  <2> QED
    BY <2>4, <2>5
<1>20. K!OrderAcrossBatches <=> KP!OrderAcrossBatches
  BY <1>19, PTL DEF K!OrderAcrossBatches, KP!OrderAcrossBatches
<1> QED
  BY <1>3, <1>16, <1>17, <1>20, PTL DEF K!Spec, KP!Spec

\* So the topic of the collector has every event that was reported as flushed, and those
\* of different batches in the order in which the workers handed them over, whatever the
\* server, the workers and the shutdown do meanwhile.
THEOREM TopicFollowsWorkers == SysSpec => []K!AckedIsStored /\ K!OrderAcrossBatches
<1>1. KP!Spec => [](KP!ProducerInv /\ KP!AckedIsStored) /\ KP!OrderAcrossBatches
  BY KP!Invariance, KP!OrderHoldsAcrossBatches, CollectorAssumption DEF K!ProducerAssumption
<1> QED
  BY <1>1, PartsAreAsSpecified, SameProducer, PTL

-----------------------------------------------------------------------------
(* The two stages in a row implement the event relay *)

statusBar == [e \in Events |-> Outcome(e)]

\* Who knows an event: the pipeline whatever the producer knows, and the producer
\* nothing that it has refused.
LEMMA Ranks ==
  ASSUME CollectorInv, Accounts
  PROVE  /\ Range(order) \cup krefused \subseteq accepted /\ Range(order) \cap krefused = {}
         /\ acked \cup gaveUp \subseteq Range(order) /\ acked \cap gaveUp = {}
BY DEF CollectorInv, ToTheProducer, InOnePlace, AtProducer, Accounts, Accounted

LEMMA RelayInit == SysInit => Relay!Init
<1> SUFFICES ASSUME SysInit PROVE Relay!Init
  OBVIOUS
<1>1. \A e \in Events : Outcome(e) = "new"
  BY DEF SysInit, P!Init, K!Init, Outcome
<1>2. Mode = "open"
  BY DEF SysInit, P!Init, Mode, Alive
<1> QED
  BY <1>1, <1>2 DEF Relay!Init

\* Steps that change the fate of no event and do not end a phase of the relay
LEMMA RelayStutters ==
  ASSUME UNCHANGED <<refused, acked, krefused, gaveUp, accepted, cancelled>>, Alive' = Alive
  PROVE  UNCHANGED Relay!vars
<1>1. Mode' = Mode
  BY DEF Mode
<1>2. \A e \in Events : Outcome(e)' = Outcome(e)
  BY DEF Outcome
<1> QED
  BY <1>1, <1>2 DEF Relay!vars

LEMMA RelayOffer ==
  ASSUME CollectorInv, Accounts, Alive, NEW c \in Conns, Offer(c)
  PROVE  Relay!Next
<1> DEFINE e == frame[c]
<1>1. e \in Events /\ P!Process(e) /\ UNCHANGED <<acked, krefused, gaveUp>>
  BY DeliverInv DEF CollectorInv, Offer, producerVars
<1> HIDE DEF e
<1>2. /\ e \notin accepted /\ e \notin refused /\ UNCHANGED <<phase, cancelled>>
      /\ \/ accepted' = accepted \cup {e} /\ refused' = refused
         \/ accepted' = accepted /\ refused' = refused \cup {e}
  BY <1>1 DEF P!Process, P!New, P!Enqueue, P!HandOver, P!RefuseDying, P!DropFull,
     P!SendOnClosed, P!Admit, P!TurnAway
<1>3. e \notin acked /\ e \notin gaveUp /\ e \notin krefused
  BY <1>2, Ranks
<1>4. Mode # "closed" /\ Mode' = Mode /\ Alive'
  BY <1>2 DEF Mode, Alive
<1>5. Outcome(e) = "new"
  BY <1>2, <1>3 DEF Outcome
<1>6. CASE accepted' = accepted \cup {e} /\ refused' = refused
  <2>1. \A f \in Events : Outcome(f)' = IF f \in {e} THEN "accepted" ELSE Outcome(f)
    BY <1>1, <1>2, <1>3, <1>4, <1>6 DEF Outcome
  <2>2. statusBar' = [f \in Events |-> IF f \in {e} THEN "accepted" ELSE statusBar[f]]
    BY <2>1 DEF statusBar
  <2>3. Relay!Accept(e)
    BY <1>1, <1>4, <1>5, <2>2 DEF statusBar, Relay!Accept, Relay!Move
  <2> QED
    BY <1>1, <2>3 DEF Relay!Next
<1>7. CASE accepted' = accepted /\ refused' = refused \cup {e}
  <2>1. \A f \in Events : Outcome(f)' = IF f \in {e} THEN "refused" ELSE Outcome(f)
    BY <1>1, <1>4, <1>7 DEF Outcome
  <2>2. statusBar' = [f \in Events |-> IF f \in {e} THEN "refused" ELSE statusBar[f]]
    BY <2>1 DEF statusBar
  <2>3. Relay!Refuse(e)
    BY <1>1, <1>4, <1>5, <2>2 DEF statusBar, Relay!Refuse, Relay!Move
  <2> QED
    BY <1>1, <2>3 DEF Relay!Next
<1> QED
  BY <1>2, <1>6, <1>7

\* Accepted events that the producer acknowledges, reports or refuses
LEMMA RelaySettles ==
  ASSUME CollectorInv, Accounts, Alive, NEW S, S \subseteq accepted \ (acked \cup gaveUp \cup krefused),
         S \subseteq Events,
         UNCHANGED <<refused, accepted, cancelled, phase>>,
         \/ acked' = acked \cup S /\ UNCHANGED <<gaveUp, krefused>>
         \/ gaveUp' \cup krefused' = gaveUp \cup krefused \cup S /\ acked' = acked
  PROVE  [Relay!Next]_(Relay!vars)
<1> DEFINE R == S \ refused
<1>1. Mode # "closed" /\ Mode' = Mode /\ Alive'
  BY DEF Mode, Alive
<1>2. \A e \in R : Outcome(e) = "accepted"
  BY DEF Outcome
<1>3. R \in SUBSET Relay!With("accepted")
  BY <1>2 DEF Relay!With
<1>4. acked \cap (gaveUp \cup krefused) = {}
  BY Ranks
<1>5. ASSUME acked' = acked \cup S, UNCHANGED <<gaveUp, krefused>>
      PROVE  statusBar' = [e \in Events |-> IF e \in R THEN "relayed" ELSE statusBar[e]]
  <2>1. \A e \in Events : Outcome(e)' = IF e \in R THEN "relayed" ELSE Outcome(e)
    BY <1>1, <1>5 DEF Outcome
  <2> QED
    BY <2>1 DEF statusBar
<1>6. ASSUME gaveUp' \cup krefused' = gaveUp \cup krefused \cup S, acked' = acked
      PROVE  statusBar' = [e \in Events |-> IF e \in R THEN "reported" ELSE statusBar[e]]
  <2>1. \A e \in Events : Outcome(e)' = IF e \in R THEN "reported" ELSE Outcome(e)
    BY <1>1, <1>6 DEF Outcome
  <2> QED
    BY <2>1 DEF statusBar
<1> HIDE DEF R
<1>7. CASE R = {}
  <2>1. statusBar' = [e \in Events |-> statusBar[e]]
    BY <1>5, <1>6, <1>7
  <2> QED
    BY <1>1, <2>1 DEF statusBar, Relay!vars
<1>8. CASE R # {} /\ acked' = acked \cup S /\ UNCHANGED <<gaveUp, krefused>>
  <2>1. Relay!Relay(R)
    BY <1>1, <1>5, <1>8 DEF statusBar, Relay!Relay, Relay!Move
  <2> QED
    BY <1>3, <2>1 DEF Relay!Next
<1>9. CASE R # {} /\ gaveUp' \cup krefused' = gaveUp \cup krefused \cup S /\ acked' = acked
  <2>1. Relay!Report(R)
    BY <1>1, <1>6, <1>9 DEF statusBar, Relay!Report, Relay!Move
  <2> QED
    BY <1>3, <2>1 DEF Relay!Next
<1> QED
  BY <1>7, <1>8, <1>9

LEMMA RelayStore ==
  ASSUME CollectorInv, Accounts, Alive, NEW w \in Workers, Store(w)
  PROVE  [Relay!Next]_(Relay!vars)
<1> DEFINE e == held[w]
<1>1. /\ UNCHANGED <<refused, accepted, cancelled, phase, acked, gaveUp>>
      /\ krefused' = krefused \/ krefused' = krefused \cup {e}
  BY DEF Store, P!WriteStorages, K!Write
<1>2. /\ e \in Events /\ e \in accepted /\ e \notin Range(order) /\ e \notin krefused
  BY DEF Store, P!WriteStorages, CollectorInv, ToTheProducer, P!TypeOK, P!HeldInv, P!Held,
     InOnePlace, AtProducer
<1> HIDE DEF e
<1>3. CASE krefused' = krefused
  BY <1>1, <1>3, RelayStutters DEF Alive
<1>4. CASE krefused' = krefused \cup {e}
  <2>1. {e} \subseteq accepted \ (acked \cup gaveUp \cup krefused) /\ {e} \subseteq Events
    BY <1>2, Ranks
  <2> QED
    BY <1>1, <1>4, <2>1, RelaySettles
<1> QED
  BY <1>1, <1>3, <1>4

LEMMA RelayFlush ==
  ASSUME CollectorInv, Accounts, Alive, Flush
  PROVE  [Relay!Next]_(Relay!vars)
<1>1. UNCHANGED <<refused, accepted, cancelled, phase, krefused>>
  BY FlushMoves DEF Flush, pipelineVars
<1>2. CASE UNCHANGED <<acked, gaveUp>>
  BY <1>1, <1>2, RelayStutters DEF Alive
<1>3. CASE Settles(Range(messages))
  <2>1. Range(messages) \subseteq accepted \ (acked \cup gaveUp \cup krefused)
    BY <1>3, Ranks DEF Settles
  <2>2. Range(messages) \subseteq Events
    BY DEF Accounts, Range
  <2> QED
    BY <1>1, <1>3, <2>1, <2>2, RelaySettles DEF Settles
<1> QED
  BY <1>2, <1>3, FlushMoves

LEMMA RelayMain ==
  ASSUME CollectorInv, Alive, BeginShutdown \/ GoOnShuttingDown \/ CloseProducer \/ EndShutdown
  PROVE  [Relay!Next]_(Relay!vars)
<1>1. UNCHANGED <<refused, accepted, acked, gaveUp, krefused>>
  BY DEF BeginShutdown, GoOnShuttingDown, CloseProducer, EndShutdown, producerVars,
         pipelineVars, P!Cancel, P!CloseDie, P!CloseQueue, P!WaitWorkers,
         P!StopCorrelator, P!CloseStorages, P!RestUnchanged, K!BeginClose, K!EndClose,
         K!historyVars
<1>2. CASE BeginShutdown
  <2>1. phase = "running" /\ ~cancelled /\ phase' = "cancelled" /\ cancelled'
    BY <1>2 DEF BeginShutdown, P!Cancel, P!Advance, CollectorInv, ToTheProducer, P!PhaseInv
  <2>2. Mode = "open" /\ Mode' = "draining" /\ Alive /\ Alive'
    BY <2>1 DEF Mode, Alive
  <2>3. \A e \in Events : Outcome(e)' = Outcome(e)
    BY <1>1, <2>2 DEF Outcome
  <2>4. Relay!Drain
    BY <2>2, <2>3 DEF Relay!Drain
  <2> QED
    BY <2>4 DEF Relay!Next
<1>3. CASE GoOnShuttingDown \/ CloseProducer
  <2>1. cancelled' = cancelled /\ Alive'
    BY <1>3 DEF GoOnShuttingDown, CloseProducer, pipelineVars, P!CloseDie, P!CloseQueue,
       P!WaitWorkers, P!StopCorrelator, P!RestUnchanged, P!Advance, Alive
  <2> QED
    BY <1>1, <2>1, RelayStutters
<1>4. CASE EndShutdown
  <2>1. ~Alive' /\ Mode # "closed" /\ Mode' = "closed"
    BY <1>4 DEF EndShutdown, P!CloseStorages, P!Advance, Mode, Alive
  <2>2. \A e \in Events : Outcome(e)' = IF Outcome(e) = "accepted" THEN "abandoned" ELSE Outcome(e)
    BY <1>1, <2>1 DEF Outcome
  <2>3. statusBar' = [e \in Events |-> IF e \in Relay!With("accepted") THEN "abandoned"
                                        ELSE statusBar[e]]
    BY <2>2 DEF statusBar, Relay!With
  <2>4. Relay!Finish
    BY <2>1, <2>3 DEF Relay!Finish, Relay!Move, statusBar
  <2> QED
    BY <2>4 DEF Relay!Next
<1> QED
  BY <1>2, <1>3, <1>4

\* Pipeline and producer in a row are an event relay: what the pipeline accepts is
\* acknowledged by the cluster or reported, once, or lost when main returns.
THEOREM Refinement == SysSpec => ImplementsRelay
<1>1. CollectorInv /\ Accounts /\ [SysNext]_sysVars => [Relay!Next]_(Relay!vars)
  <2> SUFFICES ASSUME CollectorInv, Accounts, [SysNext]_sysVars
               PROVE  [Relay!Next]_(Relay!vars)
    OBVIOUS
  <2>1. CASE UNCHANGED <<refused, acked, krefused, gaveUp, accepted, cancelled, phase>>
    BY <2>1, RelayStutters DEF Alive
  <2>2. CASE Alive /\ \E c \in Conns : Offer(c)
    BY <2>2, RelayOffer
  <2>3. CASE Alive /\ \E w \in Workers : Store(w)
    BY <2>3, RelayStore
  <2>4. CASE Alive /\ Flush
    BY <2>4, RelayFlush
  <2>5. CASE Alive /\ (BeginShutdown \/ GoOnShuttingDown \/ CloseProducer \/ EndShutdown)
    BY <2>5, RelayMain
  <2>6. ASSUME Server \/ Signal \/ StopServer \/ (\E w \in Workers : Work(w)) \/ UNCHANGED sysVars
        PROVE  UNCHANGED <<refused, acked, krefused, gaveUp, accepted, cancelled, phase>>
    BY <2>6 DEF Server, Signal, StopServer, Work, sysVars, pipelineVars, producerVars,
       P!Receive, P!ExitCancelled, P!ExitClosed, P!Exit, P!Correlate, P!Enrich
  <2> QED
    BY <2>1, <2>2, <2>3, <2>4, <2>5, <2>6 DEF SysNext, SysEnded, Main
<1> QED
  BY <1>1, RelayInit, SysInitInv, SysNextInv, AccountsInit, AccountsNext, PTL
     DEF SysSpec, ImplementsRelay, Relay!Spec
=============================================================================
