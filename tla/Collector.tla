----------------------------- MODULE Collector ------------------------------
(***************************************************************************)
(* The collector half of the process that cmd/dns-flow/main.go assembles:  *)
(* the DNSTAP server feeds the pipeline, the pipeline's workers write to   *)
(* the Kafka producer, and a signal makes main stop the three, front to    *)
(* back.  The components are those of DnstapServer, Pipeline and Producer; *)
(* this module says which of their steps are one and the same step.        *)
(***************************************************************************)
EXTENDS DnstapServer, Sequences, Functions

CONSTANTS Workers, QueueSize, Partitions, Partition, Capacity, BatchSize, MaxAttempts, Splits,
          Faults

VARIABLES
  queue, closed, die, cancelled, phase, pc, held, accepted, refused, written, crashed,
  kqueue, messages, flusher, attempt, leaving, owed, errs, pending, log, done, kclosed,
  order, krefused, acked, gaveUp,
  arrival      \* the events the pipeline has accepted, oldest first

\* A database that fails to load and an event that cannot be encoded change
\* nothing in how the parts interact.
P == INSTANCE Pipeline WITH GeoIP <- "off", Resolvable <- {}, NoEvent <- NoFrame
K == INSTANCE Producer WITH queue <- kqueue, closed <- kclosed, refused <- krefused,
                            Unencodable <- {}

ASSUME CollectorAssumption == P!PipelineAssumption /\ K!ProducerAssumption

pipelineVars == <<queue, closed, die, cancelled, phase, pc, held, accepted, refused,
                  written, crashed>>
producerVars == <<kqueue, messages, flusher, attempt, leaving, owed, errs, pending, log,
                  done, kclosed, order, krefused, acked, gaveUp>>

sysVars == <<vars, pipelineVars, producerVars, arrival>>

SysInit == Init /\ P!Init /\ K!Init /\ arrival = <<>>

-----------------------------------------------------------------------------
\* Connections, and workers between two calls, move on their own.
Server ==
  /\ \/ AcceptFails
     \/ \E c \in Conns :
          \/ Accept(c) \/ Handshake(c) \/ Check(c) \/ DecodeFails(c)
          \/ \E e \in Events : Decode(c, e)
  /\ UNCHANGED <<pipelineVars, producerVars, arrival>>

\* handleConn calls pipeline.Process
Offer(c) ==
  /\ Deliver(c)
  /\ P!Process(frame[c])
  /\ arrival' = IF frame[c] \in accepted' THEN Append(arrival, frame[c]) ELSE arrival
  /\ UNCHANGED producerVars

Work(w) ==
  /\ P!Receive(w) \/ P!ExitCancelled(w) \/ P!ExitClosed(w) \/ P!Correlate(w) \/ P!Enrich(w)
  /\ UNCHANGED <<vars, producerVars, arrival>>

StoreUnlessCancelled(w) ==   \* mutant of Store: the context is looked at before the write
  /\ P!WriteStorages(w)
  /\ IF cancelled THEN UNCHANGED producerVars ELSE K!Write(held[w])
  /\ UNCHANGED <<vars, arrival>>

\* processEvent calls Write of the one storage, the producer
Store(w) ==
  /\ P!WriteStorages(w)
  /\ K!Write(held[w])
  /\ UNCHANGED <<vars, arrival>>

Flush ==
  /\ K!Flusher \/ \E p \in Partitions : K!Broker(p)
  /\ UNCHANGED <<vars, pipelineVars, arrival>>

-----------------------------------------------------------------------------
(* main, on SIGINT or SIGTERM: dnstapServer.Stop, then collectorPipeline.Shutdown *)

Signal == CancelServer /\ UNCHANGED <<pipelineVars, producerVars, arrival>>

StopServer == CloseListener /\ UNCHANGED <<pipelineVars, producerVars, arrival>>

BeginShutdownAfterHandlers ==   \* mutant of BeginShutdown: waits for the handlers too
  /\ Stopped
  /\ \A c \in Conns : handler[c] \in {"absent", "returned"}
  /\ P!Cancel
  /\ UNCHANGED <<vars, producerVars, arrival>>

BeginShutdown ==
  /\ Stopped
  /\ P!Cancel
  /\ UNCHANGED <<vars, producerVars, arrival>>

GoOnShuttingDown ==
  /\ P!CloseDie \/ P!CloseQueue \/ P!WaitWorkers \/ P!StopCorrelator
  /\ UNCHANGED <<vars, producerVars, arrival>>

CloseProducerEarly ==   \* mutant of CloseProducer: storages closed before the wait
  /\ phase = "closed"
  /\ K!BeginClose
  /\ UNCHANGED <<vars, pipelineVars, arrival>>

\* s.Close() of the producer begins, ...
CloseProducer ==
  /\ phase = "correlator_stopped"
  /\ K!BeginClose
  /\ UNCHANGED <<vars, pipelineVars, arrival>>

\* ... and returns, and with it Shutdown and main
EndShutdown ==
  /\ K!EndClose
  /\ P!CloseStorages
  /\ UNCHANGED <<vars, arrival>>

Main == StopServer \/ BeginShutdown \/ GoOnShuttingDown \/ CloseProducer \/ EndShutdown

-----------------------------------------------------------------------------
\* When main returns the process ends, and every goroutine with it.
Alive == phase # "stopped"

SysEnded == ~Alive /\ UNCHANGED sysVars

SysNext ==
  \/ /\ Alive
     /\ \/ Server \/ Flush
        \/ \E c \in Conns : Offer(c)
        \/ \E w \in Workers : Work(w) \/ Store(w)
        \/ Signal \/ Main
  \/ SysEnded

SysSpec == SysInit /\ [][SysNext]_sysVars

\* As long as a goroutine of the process can run, one of them is run: a handler
\* that has an event, a worker, the flusher and the kafka writer, or a main that
\* has begun to shut down.  No client is obliged to send or to hang up, so nothing
\* makes Decode return, and no signal need arrive.
Progress ==
  /\ Alive
  /\ \/ Main \/ Flush
     \/ \E w \in Workers : Work(w) \/ Store(w)
     \/ \E c \in Conns : Offer(c)

Fairness == WF_sysVars(Progress)

FairSpec == SysSpec /\ Fairness

-----------------------------------------------------------------------------
(* Properties *)

\* Nobody writes to the producer once its Close has begun, although connection
\* handlers may still be running: what Producer assumes of its caller.
NoWriteDuringClose == done => \A w \in Workers : pc[w] = "exited" /\ held[w] = NoFrame

\* What arrived before what the channel still has
Received == Len(arrival) - Len(queue)

\* With a single worker the events reach the topic in the order in which the
\* pipeline accepted them: the channel has the last ones, the worker the one before,
\* and the topic gets those before that in turn, but for what the producer has
\* refused.  (docs/architecture.md:219 promises no order for parallel workers.)
SingleWorkerKeepsOrder ==
  \A w \in Workers : Workers = {w} =>
    /\ Received \in Nat
    /\ \A i \in DOMAIN queue : queue[i] = arrival[Received + i]
    /\ held[w] # NoFrame => Received > 0 /\ held[w] = arrival[Received]
    /\ \A i, j \in DOMAIN order, k, l \in DOMAIN arrival :
         i < j /\ order[i] = arrival[k] /\ order[j] = arrival[l] => k < l

AtProducer == Range(order) \cup krefused

\* From the frame to the topic, every event the pipeline accepted is in exactly
\* one place: once in the channel, in the hands of one worker, or known to the
\* producer, and the producer knows no event the pipeline did not accept.
InOnePlace ==
  /\ accepted = Range(queue) \cup P!Held \cup AtProducer
  /\ Range(queue) \cap P!Held = {} /\ (Range(queue) \cup P!Held) \cap AtProducer = {}
  /\ IsInjective(queue)
  /\ \A v, w \in Workers : held[v] = held[w] /\ held[v] # NoFrame => v = w

\* That, in the order of the topic with one worker, and with the accounts of the
\* parts: the pipeline's of its callers, of its phases, and of what it wrote.
ToTheProducer ==
  /\ P!TypeOK /\ P!PhaseInv /\ P!HeldInv /\ order \in Seq(Events) /\ arrival \in Seq(Events)
  /\ InOnePlace
  /\ accepted = Range(arrival) /\ IsInjective(arrival)
  /\ accepted \cup refused = delivered
  /\ written = AtProducer
  /\ SingleWorkerKeepsOrder

\* Behind it the producer has each event that it took in exactly one place too.
AtTheProducer ==
  /\ kqueue \in Seq(Events) /\ messages \in Seq(Events)
  /\ acked \subseteq Events /\ gaveUp \subseteq Events
  /\ K!Conservation

\* Both halves of the way from the frame to the topic
EndToEnd == ToTheProducer /\ AtTheProducer

\* main returns after a signal although connection handlers are never waited
\* for and may be blocked in Decode for good, and whatever the cluster answers.
ShutdownReturns == Cancelled ~> phase = "stopped"

\* The two stages in a row are an event relay again.
Outcome(e) ==
  IF e \in refused THEN "refused"
  ELSE IF e \in acked THEN "relayed"
  ELSE IF e \in krefused \cup gaveUp THEN "reported"
  ELSE IF e \notin accepted THEN "new"
  ELSE IF Alive THEN "accepted" ELSE "abandoned"

Mode == IF ~Alive THEN "closed" ELSE IF cancelled THEN "draining" ELSE "open"

Relay == INSTANCE EventRelay
           WITH status <- [e \in Events |-> Outcome(e)], mode <- Mode, MayReport <- TRUE

ImplementsRelay == Relay!Spec

-----------------------------------------------------------------------------
(* What the documentation says and the code does not do *)

\* README.md:27 "Graceful shutdown - zero data loss on SIGINT/SIGTERM": with a
\* healthy cluster, every event the pipeline and the producer took is stored
\* when main has returned.
SigtermLosesNothing ==
  Faults = {} /\ ~Alive => \A e \in accepted \ krefused : e \in Range(log[Partition[e]])
=============================================================================
