----------------------------- MODULE Correlation ----------------------------
(***************************************************************************)
(* The pipeline and its correlator together: which worker calls Store or   *)
(* Lookup for which event, and when, and how Shutdown stops the correlator *)
(* between the workers and the storages (pipeline.go).  The components are *)
(* those of Pipeline and Correlator, and the events those that the server  *)
(* decodes from messages: see Decode.                                      *)
(***************************************************************************)
EXTENDS Correlator, Decode

CONSTANTS
  Workers,     \* the pipeline's workers
  QueueSize,   \* the capacity of the pipeline's channel
  Messages,    \* DNSTAP messages
  Message      \* the one that each event is decoded from

VARIABLES
  queue, closed, die, cancelled, phase, pc, held, accepted, refused, written, crashed,
  arrival      \* the events the pipeline has accepted, oldest first

Events == Queries \cup Responses

P == INSTANCE Pipeline WITH GeoIP <- "off", Resolvable <- {}, NoEvent <- NoQuery

\* Decoding says which events are responses, and the key of each.
ASSUME CorrelationAssumption ==
  /\ P!PipelineAssumption
  /\ Message \in [Events -> Messages]
  /\ \A m \in Messages : IsMessage(m)
  /\ \A e \in Events :
       LET event == DecodeToEvent(Message[e], 1)
       IN (e \in Responses) = ("QR" \in event.flags) /\ Key[e] = <<event.ip, event.id>>

pipelineVars == <<queue, closed, die, cancelled, phase, pc, held, accepted, refused,
                  written, crashed>>

sysVars == <<pipelineVars, vars, arrival>>

SysInit == P!Init /\ Init /\ arrival = <<>>

-----------------------------------------------------------------------------
Offer(e) ==
  /\ P!Process(e)
  /\ arrival' = IF e \in accepted' THEN Append(arrival, e) ELSE arrival
  /\ UNCHANGED vars

CorrelateUnlessCancelled(w) ==   \* mutant of Correlate: no new entries once cancelled
  /\ P!Correlate(w)
  /\ IF held[w] \in Responses THEN Lookup(held[w])
     ELSE IF cancelled THEN UNCHANGED vars ELSE Store(held[w])
  /\ UNCHANGED arrival

\* if event.DNS.Flags.QR
Correlate(w) ==
  /\ P!Correlate(w)
  /\ IF held[w] \in Responses THEN Lookup(held[w]) ELSE Store(held[w])
  /\ UNCHANGED arrival

Work(w) ==
  /\ \/ P!Receive(w) \/ P!ExitCancelled(w) \/ P!ExitClosed(w)
     \/ P!Enrich(w) \/ P!WriteStorages(w)
  /\ UNCHANGED <<vars, arrival>>

EvictLoop ==
  /\ Tick \/ EndLoop \/ TimePasses
  /\ UNCHANGED <<pipelineVars, arrival>>

StopCorrelatorEarly ==   \* mutant of StopCorrelator: before the wait for the workers
  /\ phase = "closed"
  /\ BeginStop
  /\ UNCHANGED <<pipelineVars, arrival>>

\* p.correlator.Stop(): close(qc.done), ...
StopCorrelator ==
  /\ phase = "waited"
  /\ BeginStop
  /\ UNCHANGED <<pipelineVars, arrival>>

\* ... and qc.wg.Wait()
CorrelatorStopped ==
  /\ loop = "stopped"
  /\ P!StopCorrelator
  /\ UNCHANGED <<vars, arrival>>

Shutdown ==
  \/ /\ P!Cancel \/ P!CloseDie \/ P!CloseQueue \/ P!WaitWorkers \/ P!CloseStorages
     /\ UNCHANGED <<vars, arrival>>
  \/ StopCorrelator
  \/ CorrelatorStopped

SysEnded == phase = "stopped" /\ UNCHANGED sysVars

SysNext ==
  \/ \E e \in Events : Offer(e)
  \/ \E w \in Workers : Correlate(w) \/ Work(w)
  \/ EvictLoop
  \/ Shutdown
  \/ SysEnded

SysSpec == SysInit /\ [][SysNext]_sysVars

-----------------------------------------------------------------------------
(* Properties *)

\* The pipeline uses the correlator as module Correlator expects: no worker
\* stores or looks up an event once Stop has begun, and nothing but its own
\* methods touches the table.
UsesCorrelator == Spec

AllDecodedAsSent == \A m \in Messages : DecodedAsSent(m)

\* No message has a response for its query, or the other way round.  The code does not
\* look: QR alone decides whether Lookup or Store is called.
LabelledTruly ==
  \A e \in Events :
    /\ Readable(Message[e].query) => "QR" \notin Message[e].query.flags
    /\ Readable(Message[e].response) => "QR" \in Message[e].response.flags

\* Events are what their messages say (see Decode), and so pairs are what the clients
\* sent: the query of a pair carries no readable response, although it may be an
\* unreadable one, the response carries one, and the two are of one client and id, as
\* long as the messages are LabelledTruly.
PairsAreAsSent ==
  /\ AllDecodedAsSent
  /\ \A r \in Responses : matched[r] # NoQuery =>
       LET asked == Message[matched[r]]
           answered == Message[r]
           last == IF Readable(asked.query) THEN asked.query ELSE asked.response
       IN /\ Readable(answered.response) /\ ~Readable(asked.response)
          /\ asked.ip = answered.ip
          /\ answered.response.id = IF Readable(last) THEN last.id ELSE 0

\* The correlator is stopped when the last worker has exited.
StopsLast ==
  /\ loop # "running" => P!Rested
  /\ P!Rested => \A w \in Workers : pc[w] = "exited"

\* What arrived before what the channel still has
Received == Len(arrival) - Len(queue)

\* A single worker stores and looks up events in the order in which they were
\* accepted: the channel has the last ones, the worker the one before, and the
\* queries among those before that have been stored.
ServedInOrder ==
  \A w \in Workers : Workers = {w} =>
    /\ Received \in Nat
    /\ \A i \in DOMAIN queue : queue[i] = arrival[Received + i]
    /\ pc[w] = "correlate" => Received > 0 /\ held[w] = arrival[Received]
    /\ \A i \in 1..Received :
         /\ pc[w] = "correlate" => i # Received
         /\ arrival[i] \in Queries
         => fate[arrival[i]] # "unseen"

Before(e, f) == \E i, j \in DOMAIN arrival : i < j /\ arrival[i] = e /\ arrival[j] = f

\* With a single worker, no response is called orphaned while its query, accepted
\* before it, is in the table or still on its way there, to be reported as
\* unanswered later.  (Two workers that hold the query and its response may call
\* Lookup before Store; docs/architecture.md:219 promises no order for them.)
NoFalseOrphan ==
  \A w \in Workers : Workers = {w} =>
    \A r \in orphaned :
      /\ r \in accepted
      /\ Before(Answers[r], r) => fate[Answers[r]] \notin {"unseen", "waiting"}

\* All three, with the types of the pipeline: no false orphan, because the worker
\* serves the events in order, and the table outlives the workers.  The inductive
\* invariant on which the proofs of CorrelationProofs rest.
CorrelationInv ==
  /\ P!TypeOK /\ P!HeldInv /\ arrival \in Seq(Events) /\ accepted = Range(arrival) /\ IsInjective(arrival)
  /\ StopsLast /\ ServedInOrder /\ NoFalseOrphan
=============================================================================
