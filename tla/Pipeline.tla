------------------------------ MODULE Pipeline ------------------------------
(***************************************************************************)
(* The collector pipeline of internal/usecase/pipeline.go: a bounded Go    *)
(* channel between the DNSTAP connection handlers, which call Process, and *)
(* a pool of worker goroutines, which correlate, enrich and write every    *)
(* event; and Shutdown, which main runs against both.                      *)
(*                                                                         *)
(* An event is an opaque identity: one decoded DNSTAP frame, offered once. *)
(* Every action is one statement or one select of one goroutine that other *)
(* goroutines can observe.                                                 *)
(***************************************************************************)
EXTENDS Naturals, Sequences, Functions

CONSTANTS
  Events,      \* the decoded events that handlers may pass to Process
  Workers,     \* the worker goroutines, worker_count of them
  QueueSize,   \* capacity of the channel p.queue; 0 when the key is omitted
  GeoIP,       \* "off", "loaded", or "nil_pointer" (see Enrich)
  Resolvable,  \* events with a parseable address to look up
  NoEvent      \* what a worker holds between two events

ASSUME PipelineAssumption ==
  /\ QueueSize \in Nat
  /\ GeoIP \in {"off", "loaded", "nil_pointer"}
  /\ Resolvable \subseteq Events
  /\ NoEvent \notin Events

VARIABLES
  queue,       \* the events buffered in p.queue
  closed,      \* p.queue is closed
  die,         \* p.die is closed
  cancelled,   \* the workers' context is cancelled
  phase,       \* how far Shutdown has got
  pc,          \* where each worker is in worker / processEvent
  held,        \* the event each worker is processing
  accepted,    \* events Process put on the channel
  refused,     \* events Process returned from without queueing them
  written,     \* events handed to the storages
  crashed      \* a goroutine panicked and nothing recovered

vars == <<queue, closed, die, cancelled, phase, pc, held,
          accepted, refused, written, crashed>>

Phases == {"running", "cancelled", "dying", "closed", "waited",
           "correlator_stopped", "stopped"}

Points == {"select", "correlate", "enrich", "write", "exited"}

Held == {held[w] : w \in Workers} \ {NoEvent}

TypeOK ==
  /\ queue \in Seq(Events) /\ Len(queue) <= QueueSize
  /\ closed \in BOOLEAN /\ die \in BOOLEAN /\ cancelled \in BOOLEAN
  /\ phase \in Phases
  /\ pc \in [Workers -> Points]
  /\ held \in [Workers -> Events \cup {NoEvent}]
  /\ accepted \subseteq Events /\ refused \subseteq Events
  /\ written \subseteq Events
  /\ crashed \in BOOLEAN

\* Run has started the correlator and the workers.
Init ==
  /\ queue = <<>>
  /\ closed = FALSE /\ die = FALSE /\ cancelled = FALSE
  /\ phase = "running"
  /\ pc = [w \in Workers |-> "select"]
  /\ held = [w \in Workers |-> NoEvent]
  /\ accepted = {} /\ refused = {} /\ written = {}
  /\ crashed = FALSE

-----------------------------------------------------------------------------
(* Process: one select with a default.  The cases that are ready compete,  *)
(* and the default runs only when none is.                                 *)

New(e) == e \notin accepted \cup refused

\* A worker parked in its select can take an event without any buffer.
Take(w, e) ==
  /\ pc[w] = "select"
  /\ pc' = [pc EXCEPT ![w] = "correlate"]
  /\ held' = [held EXCEPT ![w] = e]

Admit(e) == accepted' = accepted \cup {e} /\ UNCHANGED refused

TurnAway(e) == refused' = refused \cup {e} /\ UNCHANGED accepted

\* case p.queue <- event, with room in the buffer
Enqueue(e) ==
  /\ ~closed
  /\ Len(queue) < QueueSize
  /\ queue' = Append(queue, e)
  /\ Admit(e)
  /\ UNCHANGED <<closed, die, cancelled, phase, pc, held, written, crashed>>

\* case p.queue <- event on an unbuffered channel: straight to a parked worker
HandOver(e, w) ==
  /\ QueueSize = 0
  /\ ~closed /\ ~cancelled
  /\ Take(w, e)
  /\ Admit(e)
  /\ UNCHANGED <<queue, closed, die, cancelled, phase, written, crashed>>

\* case <-p.die
RefuseDying(e) ==
  /\ die
  /\ TurnAway(e)
  /\ UNCHANGED <<queue, closed, die, cancelled, phase, pc, held, written, crashed>>

\* default: the queue is full, or nobody is parked on the unbuffered channel
DropOldest(e) ==   \* mutant of DropFull: make room by discarding the head
  /\ ~closed /\ ~die
  /\ QueueSize > 0 /\ Len(queue) = QueueSize
  /\ queue' = Append(Tail(queue), e)
  /\ Admit(e)
  /\ UNCHANGED <<closed, die, cancelled, phase, pc, held, written, crashed>>

DropFull(e) ==
  /\ ~closed /\ ~die
  /\ Len(queue) = QueueSize
  /\ TurnAway(e)
  /\ UNCHANGED <<queue, closed, die, cancelled, phase, pc, held, written, crashed>>

\* case p.queue <- event on the closed channel panics; the deferred recover
\* turns the panic into a return
SendOnClosed(e) ==
  /\ closed
  /\ TurnAway(e)
  /\ UNCHANGED <<queue, closed, die, cancelled, phase, pc, held, written, crashed>>

Process(e) ==
  /\ ~crashed
  /\ New(e)
  /\ \/ Enqueue(e)
     \/ \E w \in Workers : HandOver(e, w)
     \/ RefuseDying(e)
     \/ DropFull(e)
     \/ SendOnClosed(e)

-----------------------------------------------------------------------------
(* worker and processEvent *)

ReceiveTwo(w) ==   \* mutant of Receive: waits for a second event
  /\ Len(queue) > 1
  /\ Take(w, Head(queue))
  /\ queue' = Tail(queue)
  /\ UNCHANGED <<closed, die, cancelled, phase, accepted, refused, written, crashed>>

\* case event := <-p.queue; buffered events are readable after the close too
Receive(w) ==
  /\ queue # <<>>
  /\ Take(w, Head(queue))
  /\ queue' = Tail(queue)
  /\ UNCHANGED <<closed, die, cancelled, phase, accepted, refused, written, crashed>>

Exit(w) ==
  /\ pc[w] = "select"
  /\ pc' = [pc EXCEPT ![w] = "exited"]
  /\ UNCHANGED <<queue, closed, die, cancelled, phase, held, accepted, refused,
                 written, crashed>>

\* case <-ctx.Done(): competes with the receive above, so events may be left
ExitCancelled(w) == cancelled /\ Exit(w)

\* case event, ok := <-p.queue with ok false
ExitClosed(w) == closed /\ queue = <<>> /\ Exit(w)

\* correlator.Lookup or correlator.Store; the map itself is in module Correlator
Correlate(w) ==
  /\ pc[w] = "correlate"
  /\ pc' = [pc EXCEPT ![w] = "enrich"]
  /\ UNCHANGED <<queue, closed, die, cancelled, phase, held, accepted, refused,
                 written, crashed>>

\* initGeoIP returns the *MaxMindResolver of a failed NewMaxMindResolver inside
\* a non-nil interface, so the p.geoip != nil test passes and the first lookup
\* of a parseable address dereferences nil: no recover on this stack.
Panics(w) == GeoIP = "nil_pointer" /\ held[w] \in Resolvable

Enrich(w) ==
  /\ pc[w] = "enrich"
  /\ IF Panics(w)
     THEN crashed' = TRUE /\ UNCHANGED pc
     ELSE pc' = [pc EXCEPT ![w] = "write"] /\ UNCHANGED crashed
  /\ UNCHANGED <<queue, closed, die, cancelled, phase, held, accepted, refused, written>>

\* s.Write(event) for the storages of the pipeline; main configures one, the
\* Kafka producer, whose Write never fails
WriteStorages(w) ==
  /\ pc[w] = "write"
  /\ written' = written \cup {held[w]}
  /\ pc' = [pc EXCEPT ![w] = "select"]
  /\ held' = [held EXCEPT ![w] = NoEvent]
  /\ UNCHANGED <<queue, closed, die, cancelled, phase, accepted, refused, crashed>>

Worker(w) ==
  /\ ~crashed
  /\ \/ Receive(w)
     \/ ExitCancelled(w)
     \/ ExitClosed(w)
     \/ Correlate(w)
     \/ Enrich(w)
     \/ WriteStorages(w)

-----------------------------------------------------------------------------
(* Shutdown, run once by main *)

Advance(from, to) == phase = from /\ phase' = to

Cancel ==
  /\ Advance("running", "cancelled")
  /\ cancelled' = TRUE
  /\ UNCHANGED <<queue, closed, die, pc, held, accepted, refused, written, crashed>>

CloseDie ==
  /\ Advance("cancelled", "dying")
  /\ die' = TRUE
  /\ UNCHANGED <<queue, closed, cancelled, pc, held, accepted, refused, written, crashed>>

CloseQueue ==
  /\ Advance("dying", "closed")
  /\ closed' = TRUE
  /\ UNCHANGED <<queue, die, cancelled, pc, held, accepted, refused, written, crashed>>

RestUnchanged ==
  UNCHANGED <<queue, closed, die, cancelled, pc, held, accepted, refused, written, crashed>>

NoWait == Advance("closed", "waited") /\ RestUnchanged   \* mutant of WaitWorkers

WaitDrained ==   \* mutant of WaitWorkers: polls until the channel is empty
  /\ phase = "closed"
  /\ \A w \in Workers : pc[w] = "exited"
  /\ phase' = IF queue = <<>> THEN "waited" ELSE phase
  /\ RestUnchanged

\* p.wg.Wait()
WaitWorkers ==
  /\ \A w \in Workers : pc[w] = "exited"
  /\ Advance("closed", "waited")
  /\ RestUnchanged

StopCorrelator == Advance("waited", "correlator_stopped") /\ RestUnchanged

CloseStorages == Advance("correlator_stopped", "stopped") /\ RestUnchanged

Finishing == CloseDie \/ CloseQueue \/ WaitWorkers \/ StopCorrelator \/ CloseStorages

Shutdown == ~crashed /\ (Cancel \/ Finishing)

-----------------------------------------------------------------------------
\* The process is gone: Shutdown has returned to main, or a panic ended it.
Ended == (phase = "stopped" \/ crashed) /\ UNCHANGED vars

Next ==
  \/ \E e \in Events : Process(e)
  \/ \E w \in Workers : Worker(w)
  \/ Shutdown
  \/ Ended

Spec == Init /\ [][Next]_vars

\* Goroutines that can run are run by the Go scheduler; a Shutdown that has
\* begun carries on.  Nothing obliges a handler to offer an event, and nothing
\* obliges a signal to arrive.
Fairness ==
  /\ \A w \in Workers : WF_vars(Worker(w))
  /\ WF_vars(~crashed /\ Finishing)

FairSpec == Spec /\ Fairness

-----------------------------------------------------------------------------
(* Properties *)

\* An accepted event is in exactly one place: once in the channel, in the hands
\* of one worker, or written, whatever the interleaving of handlers, workers
\* and Shutdown.  So no event is lost or written twice between Process and the
\* storages; what is left in the channel is the only way to lose one.
ExactlyOnce ==
  /\ accepted = Range(queue) \cup Held \cup written
  /\ Range(queue) \cap (Held \cup written) = {}
  /\ Held \cap written = {}
  /\ IsInjective(queue)
  /\ \A v, w \in Workers : held[v] = held[w] /\ held[v] # NoEvent => v = w

\* No worker is still in processEvent when Shutdown stops the correlator and
\* closes the storages it uses.
SafeTeardown ==
  \A w \in Workers :
    pc[w] \in {"correlate", "enrich", "write"} =>
      phase \in {"running", "cancelled", "dying", "closed"}

\* How Shutdown's progress shows in the channel, the context and the workers:
\* the context is cancelled first, the channel closed before the wait, and
\* nothing runs in a worker once the wait is over.
Rested == phase \in {"waited", "correlator_stopped", "stopped"}

PhaseInv ==
  /\ cancelled <=> phase # "running"
  /\ closed <=> (phase = "closed" \/ Rested)
  /\ Rested => \A w \in Workers : pc[w] = "exited"

\* A worker holds an event exactly while it is in processEvent.
HeldInv == \A w \in Workers : held[w] = NoEvent <=> pc[w] \in {"select", "exited"}

\* Process never both queues an event and turns it away.
Admission == accepted \cap refused = {}

\* The inductive invariant on which the proofs of PipelineProofs rest.
PipelineInv == TypeOK /\ PhaseInv /\ HeldInv /\ Admission /\ ExactlyOnce

\* A Shutdown that has begun returns.
ShutdownCompletes == cancelled ~> (phase = "stopped" \/ crashed)

\* As long as nobody asks for a shutdown and no worker panics, every accepted event
\* reaches the storages.
AcceptedIsWritten ==
  \A e \in Events : e \in accepted ~> (e \in written \/ cancelled \/ crashed)

\* The pipeline is an event relay that never gives up on an event: all it does
\* not relay is what remains in the channel once every worker has exited.
Outcome(e) ==
  IF e \in refused THEN "refused"
  ELSE IF e \in written THEN "relayed"
  ELSE IF e \notin accepted THEN "new"
  ELSE IF Rested THEN "abandoned"
  ELSE "accepted"

Mode ==
  IF Rested THEN "closed"
  ELSE IF cancelled THEN "draining"
  ELSE "open"

Relay == INSTANCE EventRelay
           WITH status <- [e \in Events |-> Outcome(e)], mode <- Mode, MayReport <- FALSE

ImplementsRelay == Relay!Spec

-----------------------------------------------------------------------------
(* What the documentation says and the code does not do *)

\* docs/architecture.md:228 "Failure mode: Warn + skip enrichment (non-fatal)":
\* a GeoIP database that did not load does not stop the process.
GeoIPFailureNonFatal == ~crashed
=============================================================================
