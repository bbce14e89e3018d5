--------------------------- MODULE PipelineProofs ---------------------------
(***************************************************************************)
(* Machine-checked proofs about module Pipeline, for every set of events,  *)
(* every worker pool and every queue size.                                 *)
(***************************************************************************)
EXTENDS Pipeline, ChannelLemmas, TLAPS

-----------------------------------------------------------------------------
(* The inductive invariant *)

LEMMA InitInv == Init => PipelineInv
<1> SUFFICES ASSUME Init PROVE PipelineInv
  OBVIOUS
<1> USE DEF Init
<1>1. TypeOK
  <2>1. queue \in Seq(Events) /\ Len(queue) = 0
    OBVIOUS
  <2>2. Len(queue) <= QueueSize
    BY <2>1, PipelineAssumption
  <2>3. phase \in Phases
    BY DEF Phases
  <2>4. pc \in [Workers -> Points]
    BY DEF Points
  <2>5. held \in [Workers -> Events \cup {NoEvent}]
    OBVIOUS
  <2> QED
    BY <2>1, <2>2, <2>3, <2>4, <2>5 DEF TypeOK
<1>2. PhaseInv
  BY DEF PhaseInv, Rested
<1>3. HeldInv
  BY DEF HeldInv
<1>4. Admission
  BY DEF Admission
<1>5. ExactlyOnce
  <2>1. Range(queue) = {} /\ Held = {}
    BY DEF Range, Held
  <2>2. IsInjective(queue)
    BY DEF IsInjective
  <2> QED
    BY <2>1, <2>2 DEF ExactlyOnce
<1> QED
  BY <1>1, <1>2, <1>3, <1>4, <1>5 DEF PipelineInv

\* A worker that begins an event: what Take does to the set of events in hand.
LEMMA TakeHeld ==
  ASSUME TypeOK, HeldInv, NEW w \in Workers, NEW e \in Events, Take(w, e)
  PROVE  /\ pc' \in [Workers -> Points]
         /\ held' \in [Workers -> Events \cup {NoEvent}]
         /\ HeldInv'
         /\ Held' = Held \cup {e}
         /\ held[w] = NoEvent
         /\ \A v \in Workers : v # w => held'[v] = held[v]
         /\ held'[w] = e
<1>1. held[w] = NoEvent /\ e # NoEvent
  BY PipelineAssumption DEF HeldInv, Take
<1>2. pc' \in [Workers -> Points] /\ held' \in [Workers -> Events \cup {NoEvent}]
  BY DEF Take, TypeOK, Points
<1>3. \A v \in Workers : v # w => held'[v] = held[v] /\ pc'[v] = pc[v]
  BY DEF Take, TypeOK
<1>4. held'[w] = e /\ pc'[w] = "correlate"
  BY DEF Take, TypeOK
<1>5. HeldInv'
  BY <1>1, <1>3, <1>4 DEF HeldInv
<1>6. Held' = Held \cup {e}
  BY <1>1, <1>3, <1>4 DEF Held
<1> QED
  BY <1>1, <1>2, <1>3, <1>4, <1>5, <1>6

\* An event on the channel has been accepted, and is in nobody's hands.
LEMMA ProcessInv ==
  ASSUME PipelineInv, NEW e \in Events, Process(e)
  PROVE  PipelineInv'
<1> USE DEF PipelineInv
<1>1. e \notin accepted /\ e \notin refused /\ e \notin Range(queue) /\ e \notin Held
      /\ e \notin written
  BY DEF Process, New, ExactlyOnce
<1>2. CASE Enqueue(e)
  <2> USE <1>2 DEF Enqueue, Admit
  <2>1. TypeOK'
    <3>1. queue' \in Seq(Events) /\ Len(queue') = Len(queue) + 1
      BY DEF TypeOK
    <3>2. Len(queue') <= QueueSize
      BY <3>1, PipelineAssumption DEF TypeOK
    <3> QED
      BY <3>1, <3>2 DEF TypeOK
  <2>2. PhaseInv' /\ HeldInv' /\ Held' = Held
    BY DEF PhaseInv, Rested, HeldInv, Held
  <2>3. Admission'
    BY <1>1 DEF Admission
  <2>4. Range(queue') = Range(queue) \cup {e} /\ IsInjective(queue')
    BY <1>1, SendContents, SendDistinct DEF TypeOK, ExactlyOnce
  <2>5. ExactlyOnce'
    BY <1>1, <2>2, <2>4 DEF ExactlyOnce
  <2> QED
    BY <2>1, <2>2, <2>3, <2>5
<1>3. ASSUME NEW w \in Workers, HandOver(e, w)
      PROVE  PipelineInv'
  <2> USE <1>3 DEF HandOver, Admit
  <2>1. /\ pc' \in [Workers -> Points]
        /\ held' \in [Workers -> Events \cup {NoEvent}]
        /\ HeldInv'
        /\ Held' = Held \cup {e}
        /\ held[w] = NoEvent
        /\ \A v \in Workers : v # w => held'[v] = held[v]
        /\ held'[w] = e
    BY TakeHeld
  <2>2. TypeOK'
    BY <2>1 DEF TypeOK
  <2>3. PhaseInv'
    BY DEF PhaseInv, Rested
  <2>4. Admission'
    BY <1>1 DEF Admission
  <2>5. ExactlyOnce'
    <3>1. \A v \in Workers : held[v] # e
      BY <1>1, PipelineAssumption DEF Held
    <3>2. \A u, v \in Workers : held'[u] = held'[v] /\ held'[u] # NoEvent => u = v
      BY <2>1, <3>1 DEF ExactlyOnce
    <3>3. /\ accepted' = Range(queue') \cup Held' \cup written'
          /\ Range(queue') \cap (Held' \cup written') = {}
          /\ Held' \cap written' = {}
      BY <1>1, <2>1 DEF ExactlyOnce
    <3> QED
      BY <3>2, <3>3 DEF ExactlyOnce
  <2> QED
    BY <2>1, <2>2, <2>3, <2>4, <2>5
<1>4. CASE RefuseDying(e) \/ DropFull(e) \/ SendOnClosed(e)
  <2>1. /\ TurnAway(e)
        /\ UNCHANGED <<queue, closed, die, cancelled, phase, pc, held, written, crashed>>
    BY <1>4 DEF RefuseDying, DropFull, SendOnClosed
  <2>2. TypeOK'
    BY <2>1 DEF TurnAway, TypeOK
  <2>3. PhaseInv' /\ HeldInv' /\ Held' = Held
    BY <2>1 DEF PhaseInv, Rested, HeldInv, Held
  <2>4. Admission' /\ ExactlyOnce'
    BY <1>1, <2>1, <2>3 DEF TurnAway, Admission, ExactlyOnce
  <2> QED
    BY <2>2, <2>3, <2>4
<1> QED
  BY <1>2, <1>3, <1>4 DEF Process

LEMMA WorkerInv ==
  ASSUME PipelineInv, NEW w \in Workers, Worker(w)
  PROVE  PipelineInv'
<1> USE DEF PipelineInv
<1>1. CASE Receive(w)
  <2> USE <1>1 DEF Receive
  <2> DEFINE e == Head(queue)
  <2>1. /\ e \in Events
        /\ queue' \in Seq(Events)
        /\ Len(queue') = Len(queue) - 1
        /\ Range(queue) = {e} \cup Range(queue')
        /\ IsInjective(queue')
        /\ e \notin Range(queue')
    BY ReceiveContents, ReceiveDistinct DEF TypeOK, ExactlyOnce
  <2> HIDE DEF e
  <2>2. /\ pc' \in [Workers -> Points]
        /\ held' \in [Workers -> Events \cup {NoEvent}]
        /\ HeldInv'
        /\ Held' = Held \cup {e}
        /\ held[w] = NoEvent
        /\ \A v \in Workers : v # w => held'[v] = held[v]
        /\ held'[w] = e
    BY <2>1, TakeHeld DEF e
  <2>3. TypeOK'
    <3>1. Len(queue') <= QueueSize
      BY <2>1, PipelineAssumption DEF TypeOK
    <3> QED
      BY <2>1, <2>2, <3>1 DEF TypeOK
  <2>4. PhaseInv'
    <3>1. ~Rested
      BY DEF PhaseInv, Take
    <3> QED
      BY <3>1 DEF PhaseInv, Rested
  <2>5. Admission'
    BY DEF Admission
  <2>6. ExactlyOnce'
    <3>1. e \notin Held /\ e \notin written
      BY <2>1 DEF ExactlyOnce
    <3>2. \A v \in Workers : held[v] # e
      BY <2>1, <3>1, PipelineAssumption DEF Held
    <3>3. \A u, v \in Workers : held'[u] = held'[v] /\ held'[u] # NoEvent => u = v
      BY <2>2, <3>2 DEF ExactlyOnce
    <3>4. /\ accepted' = Range(queue') \cup Held' \cup written'
          /\ Range(queue') \cap (Held' \cup written') = {}
          /\ Held' \cap written' = {}
      BY <2>1, <2>2, <3>1 DEF ExactlyOnce
    <3> QED
      BY <2>1, <3>3, <3>4 DEF ExactlyOnce
  <2> QED
    BY <2>2, <2>3, <2>4, <2>5, <2>6
<1>2. CASE ExitCancelled(w) \/ ExitClosed(w)
  <2> USE <1>2 DEF ExitCancelled, ExitClosed, Exit
  <2>1. TypeOK'
    BY DEF TypeOK, Points
  <2>2. PhaseInv'
    BY DEF PhaseInv, Rested, TypeOK
  <2>3. HeldInv' /\ Held' = Held
    BY DEF HeldInv, Held, TypeOK
  <2>4. Admission' /\ ExactlyOnce'
    BY <2>3 DEF Admission, ExactlyOnce
  <2> QED
    BY <2>1, <2>2, <2>3, <2>4
<1>3. CASE Correlate(w) \/ Enrich(w)
  <2> USE <1>3 DEF Correlate, Enrich
  <2>1. TypeOK'
    BY DEF TypeOK, Points
  <2>2. PhaseInv'
    BY DEF PhaseInv, Rested, TypeOK
  <2>3. HeldInv' /\ Held' = Held
    BY DEF HeldInv, Held, TypeOK
  <2>4. Admission' /\ ExactlyOnce'
    BY <2>3 DEF Admission, ExactlyOnce
  <2> QED
    BY <2>1, <2>2, <2>3, <2>4
<1>4. CASE WriteStorages(w)
  <2> USE <1>4 DEF WriteStorages
  <2> DEFINE e == held[w]
  <2>1. e \in Events /\ e \in Held /\ e # NoEvent
    BY DEF HeldInv, TypeOK, Held
  <2>2. /\ \A v \in Workers : v # w => held'[v] = held[v] /\ pc'[v] = pc[v]
        /\ held'[w] = NoEvent
        /\ pc'[w] = "select"
    BY DEF TypeOK
  <2>3. Held' = Held \ {e}
    BY <2>1, <2>2 DEF Held, ExactlyOnce
  <2>4. TypeOK'
    BY <2>1 DEF TypeOK, Points
  <2>5. PhaseInv'
    BY DEF PhaseInv, Rested
  <2>6. HeldInv'
    BY <2>2 DEF HeldInv
  <2>7. Admission'
    BY DEF Admission
  <2>8. ExactlyOnce'
    <3>1. \A u, v \in Workers : held'[u] = held'[v] /\ held'[u] # NoEvent => u = v
      BY <2>2 DEF ExactlyOnce
    <3>2. /\ accepted' = Range(queue') \cup Held' \cup written'
          /\ Range(queue') \cap (Held' \cup written') = {}
          /\ Held' \cap written' = {}
      BY <2>1, <2>3 DEF ExactlyOnce
    <3> QED
      BY <3>1, <3>2 DEF ExactlyOnce
  <2> QED
    BY <2>4, <2>5, <2>6, <2>7, <2>8
<1> QED
  BY <1>1, <1>2, <1>3, <1>4 DEF Worker

LEMMA ShutdownInv ==
  ASSUME PipelineInv, Shutdown
  PROVE  PipelineInv'
<1> USE DEF PipelineInv
<1>1. UNCHANGED <<queue, pc, held, accepted, refused, written, crashed>>
  BY DEF Shutdown, Finishing, Cancel, CloseDie, CloseQueue, WaitWorkers, StopCorrelator,
         CloseStorages, RestUnchanged
<1>2. TypeOK'
  BY DEF TypeOK, Phases, Shutdown, Finishing, Cancel, CloseDie, CloseQueue, WaitWorkers,
         StopCorrelator, CloseStorages, RestUnchanged, Advance
<1>3. PhaseInv'
  BY DEF PhaseInv, Rested, Shutdown, Finishing, Cancel, CloseDie, CloseQueue, WaitWorkers,
         StopCorrelator, CloseStorages, RestUnchanged, Advance
<1>4. HeldInv' /\ Held' = Held
  BY <1>1 DEF HeldInv, Held
<1>5. Admission' /\ ExactlyOnce'
  BY <1>1, <1>4 DEF Admission, ExactlyOnce
<1> QED
  BY <1>2, <1>3, <1>4, <1>5

LEMMA StutterInv ==
  ASSUME PipelineInv, UNCHANGED vars
  PROVE  PipelineInv'
<1>1. Held' = Held
  BY DEF vars, Held
<1> QED
  BY <1>1 DEF vars, PipelineInv, TypeOK, PhaseInv, Rested, HeldInv, Admission, ExactlyOnce

\* PipelineInv holds in every reachable state, whatever the events, the worker
\* pool, the queue size and the state of the GeoIP resolver.
THEOREM Invariance == Spec => []PipelineInv
<1>1. PipelineInv /\ [Next]_vars => PipelineInv'
  BY ProcessInv, WorkerInv, ShutdownInv, StutterInv DEF Next, Ended
<1> QED
  BY <1>1, InitInv, PTL DEF Spec

\* Every accepted event is in exactly one place: the channel, one worker's
\* hands, or the storages (Process, worker and processEvent of pipeline.go).
THEOREM EventsAreNeverDuplicated == Spec => []ExactlyOnce
<1>1. PipelineInv => ExactlyOnce
  BY DEF PipelineInv
<1> QED
  BY <1>1, Invariance, PTL

\* No worker runs after Shutdown's wait: correlator.Stop and the Close of the
\* storages find nobody inside processEvent.
THEOREM TeardownIsSafe == Spec => []SafeTeardown
<1>1. PipelineInv => SafeTeardown
  BY DEF PipelineInv, PhaseInv, Rested, TypeOK, Phases, SafeTeardown
<1> QED
  BY <1>1, Invariance, PTL

-----------------------------------------------------------------------------
(* The pipeline implements the event relay *)

statusBar == [e \in Events |-> Outcome(e)]

\* What moves one event of the relay, and leaves the others where they are.
LEMMA MoveOne ==
  ASSUME NEW e \in Events, NEW s,
         Outcome(e)' = s,
         \A f \in Events : f # e => Outcome(f)' = Outcome(f)
  PROVE  statusBar' = [f \in Events |-> IF f \in {e} THEN s ELSE statusBar[f]]
BY DEF statusBar

LEMMA RelayInit == Init => Relay!Init
<1> SUFFICES ASSUME Init PROVE Relay!Init
  OBVIOUS
<1>1. \A e \in Events : Outcome(e) = "new"
  BY DEF Init, Outcome
<1>2. Mode = "open"
  BY DEF Init, Mode, Rested
<1> QED
  BY <1>1, <1>2 DEF Relay!Init

LEMMA RelayProcess ==
  ASSUME PipelineInv, NEW e \in Events, Process(e)
  PROVE  Relay!Next
<1> USE DEF PipelineInv
<1>1. e \notin accepted /\ e \notin refused /\ e \notin written
  BY DEF Process, New, ExactlyOnce
<1>2. Outcome(e) = "new"
  BY <1>1 DEF Outcome
<1>3. UNCHANGED <<phase, cancelled, written>>
  BY DEF Process, Enqueue, HandOver, RefuseDying, DropFull, SendOnClosed
<1>4. Mode' = Mode
  BY <1>3 DEF Mode, Rested
<1>5. ASSUME Admit(e), ~closed
      PROVE  Relay!Next
  <2>1. ~Rested /\ Mode # "closed"
    BY <1>5 DEF PhaseInv, Mode
  <2>2. Outcome(e)' = "accepted"
    BY <1>1, <1>3, <1>5, <2>1 DEF Outcome, Admit, Rested
  <2>3. \A f \in Events : f # e => Outcome(f)' = Outcome(f)
    BY <1>3, <1>5 DEF Outcome, Admit, Rested
  <2>4. statusBar' = [f \in Events |-> IF f \in {e} THEN "accepted" ELSE statusBar[f]]
    BY <2>2, <2>3, MoveOne
  <2>5. Relay!Accept(e)
    BY <1>2, <1>4, <2>1, <2>4 DEF statusBar, Relay!Accept, Relay!Move
  <2> QED
    BY <2>5 DEF Relay!Next
<1>6. ASSUME TurnAway(e)
      PROVE  Relay!Next
  <2>1. Outcome(e)' = "refused"
    BY <1>6 DEF Outcome, TurnAway
  <2>2. \A f \in Events : f # e => Outcome(f)' = Outcome(f)
    BY <1>3, <1>6 DEF Outcome, TurnAway, Rested
  <2>3. statusBar' = [f \in Events |-> IF f \in {e} THEN "refused" ELSE statusBar[f]]
    BY <2>1, <2>2, MoveOne
  <2>4. Relay!Refuse(e)
    BY <1>2, <1>4, <2>3 DEF statusBar, Relay!Refuse, Relay!Move
  <2> QED
    BY <2>4 DEF Relay!Next
<1> QED
  BY <1>5, <1>6 DEF Process, Enqueue, HandOver, RefuseDying, DropFull, SendOnClosed

LEMMA RelayWorker ==
  ASSUME PipelineInv, NEW w \in Workers, Worker(w)
  PROVE  [Relay!Next]_(Relay!vars)
<1> USE DEF PipelineInv
<1>1. UNCHANGED <<accepted, refused, phase, cancelled>>
  BY DEF Worker, Receive, ExitCancelled, ExitClosed, Exit, Correlate, Enrich, WriteStorages
<1>2. Mode' = Mode
  BY <1>1 DEF Mode, Rested
<1>3. CASE written' = written
  <2>1. \A e \in Events : Outcome(e)' = Outcome(e)
    BY <1>1, <1>3 DEF Outcome, Rested
  <2> QED
    BY <1>2, <2>1 DEF Relay!vars
<1>4. CASE WriteStorages(w)
  <2>a. held[w] \in Events
    BY <1>4 DEF WriteStorages, HeldInv, TypeOK
  <2>b. PICK e \in Events : e = held[w]
    BY <2>a
  <2>1. e \in Held /\ written' = written \cup {e} /\ ~Rested
    BY <1>4, <2>b, PipelineAssumption DEF WriteStorages, TypeOK, Held, PhaseInv
  <2>2. e \in accepted /\ e \notin refused /\ e \notin written
    BY <2>1 DEF ExactlyOnce, Admission
  <2>3. Outcome(e) = "accepted" /\ Mode # "closed"
    BY <2>1, <2>2 DEF Outcome, Mode
  <2>4. Outcome(e)' = "relayed"
    BY <1>1, <2>1, <2>2 DEF Outcome
  <2>5. \A f \in Events : f # e => Outcome(f)' = Outcome(f)
    BY <1>1, <2>1 DEF Outcome, Rested
  <2>6. statusBar' = [f \in Events |-> IF f \in {e} THEN "relayed" ELSE statusBar[f]]
    BY <2>1, <2>4, <2>5, MoveOne
  <2>7. {e} \in SUBSET Relay!With("accepted")
    BY <2>1, <2>3 DEF Relay!With
  <2>8. Relay!Relay({e})
    BY <1>2, <2>3, <2>6 DEF statusBar, Relay!Relay, Relay!Move
  <2> QED
    BY <2>7, <2>8 DEF Relay!Next
<1> QED
  BY <1>3, <1>4 DEF Worker, Receive, ExitCancelled, ExitClosed, Exit, Correlate, Enrich

LEMMA RelayShutdown ==
  ASSUME PipelineInv, Shutdown
  PROVE  [Relay!Next]_(Relay!vars)
<1> USE DEF PipelineInv
<1>1. UNCHANGED <<queue, pc, held, accepted, refused, written>>
  BY DEF Shutdown, Finishing, Cancel, CloseDie, CloseQueue, WaitWorkers, StopCorrelator,
         CloseStorages, RestUnchanged
<1>2. CASE Cancel
  <2>1. Mode = "open" /\ Mode' = "draining" /\ (Rested' <=> Rested)
    BY <1>2 DEF Cancel, Advance, Mode, Rested, PhaseInv
  <2>2. \A e \in Events : Outcome(e)' = Outcome(e)
    BY <1>1, <2>1 DEF Outcome
  <2>3. Relay!Drain
    BY <2>1, <2>2 DEF Relay!Drain
  <2> QED
    BY <2>3 DEF Relay!Next
<1>3. CASE WaitWorkers
  <2>1. ~Rested /\ Rested' /\ Mode = "draining" /\ Mode' = "closed"
    BY <1>3 DEF WaitWorkers, Advance, Rested, Mode, PhaseInv
  <2>2. \A e \in Events : Outcome(e)' = IF Outcome(e) = "accepted" THEN "abandoned" ELSE Outcome(e)
    BY <1>1, <2>1 DEF Outcome
  <2>3. statusBar' = [e \in Events |-> IF e \in Relay!With("accepted") THEN "abandoned"
                                        ELSE statusBar[e]]
    BY <2>2 DEF statusBar, Relay!With
  <2>4. Relay!Finish
    BY <2>1, <2>3 DEF Relay!Finish, Relay!Move, statusBar
  <2> QED
    BY <2>4 DEF Relay!Next
<1>4. CASE CloseDie \/ CloseQueue \/ StopCorrelator \/ CloseStorages
  <2>1. (Rested' <=> Rested) /\ UNCHANGED cancelled
    BY <1>4 DEF CloseDie, CloseQueue, StopCorrelator, CloseStorages, Advance, RestUnchanged, Rested
  <2>2. Mode' = Mode /\ \A e \in Events : Outcome(e)' = Outcome(e)
    BY <1>1, <2>1 DEF Outcome, Mode
  <2> QED
    BY <2>2 DEF Relay!vars
<1> QED
  BY <1>2, <1>3, <1>4 DEF Shutdown, Finishing

\* The pipeline implements EventRelay with MayReport FALSE: everything it
\* accepts it hands to the storages once, except what is in the channel when
\* the last worker exits during Shutdown.
THEOREM Refinement == Spec => ImplementsRelay
<1>1. PipelineInv /\ [Next]_vars => [Relay!Next]_(Relay!vars)
  <2> SUFFICES ASSUME PipelineInv, [Next]_vars
               PROVE  [Relay!Next]_(Relay!vars)
    OBVIOUS
  <2>1. CASE UNCHANGED vars
    BY <2>1 DEF vars, Relay!vars, Outcome, Mode, Rested
  <2> QED
    BY <2>1, RelayProcess, RelayWorker, RelayShutdown DEF Next, Ended
<1> QED
  BY <1>1, RelayInit, Invariance, PTL DEF Spec, ImplementsRelay, Relay!Spec
=============================================================================
