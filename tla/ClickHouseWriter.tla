-------------------------- MODULE ClickHouseWriter --------------------------
(***************************************************************************)
(* The ClickHouse output of internal/adapter/outbound/clickhouse/writer.go: *)
(* a bounded channel in front of one flusher, which writes each batch to    *)
(* two tables, dns_raw and dns_answers, one after the other.  A batch is    *)
(* tried once; an error is logged and the batch is dropped.  The process may *)
(* end at any time and be started again; the tables outlive it, what the     *)
(* channel and the flusher hold does not, and main calls Close of no output. *)
(*                                                                         *)
(* External: the server, and the connection pool of clickhouse-go.  A batch *)
(* holds a connection from PrepareBatch until it is sent or an Append to it *)
(* fails; flushBatch never aborts the batch it gives up on, so that         *)
(* connection is gone.  PrepareBatch waits for a free connection up to the  *)
(* dial timeout, and then fails.                                            *)
(***************************************************************************)
EXTENDS Naturals, Sequences, FiniteSets, Functions

CONSTANTS
  Events,      \* the events that may be written, in the order in which they may be
  Offset,      \* the message of the topic each is decoded from
  Poison,      \* messages whose event Append refuses (a time DateTime64 cannot hold)
  Capacity,    \* of the channel; 100000 in NewWriter
  BatchSize,   \* 1000 in startFlusher
  Conns,       \* connections of the pool; 10 by default
  MaxRuns,     \* bound on the starts of the process
  Faults       \* what the server may do besides storing and answering

ASSUME ClickHouseAssumption ==
  /\ Events \subseteq Nat \ {0} /\ Offset \in [Events -> Nat] /\ Poison \subseteq Nat
  /\ {Capacity, BatchSize, Conns, MaxRuns} \subseteq Nat \ {0}
  /\ Faults \subseteq {"migrate", "prepare", "send", "unanswered"}

VARIABLES
  process,    \* "up" or "down"
  run,        \* the number of its present start
  group,      \* whether the consumer of the process has a group_id
  queue,      \* w.queue
  batch,      \* the flusher's events
  flusher,    \* "new", "absent" after a failed Migrate, "select", then the
              \* points of flushBatch "flush", "prepared", "sent"; or "exited"
  leaving,    \* the flusher has taken <-w.done
  free,       \* free connections of the pool
  raw,        \* dns_raw: the events, in the order of insertion
  answers,    \* dns_answers: the events whose records are there, in that order
  done,       \* w.done is closed
  closed,     \* Close has returned
  writtenIn,  \* the run in which each event was passed to Write, 0 before
  order,      \* the events accepted, in the order of the channel
  refused,    \* events Write dropped because the channel was full
  flushed,    \* events of batches flushed without an error
  reported    \* events of batches whose flush has been logged as failed

tableVars == <<raw, answers>>
processVars == <<process, run, group>>
closeVars == <<done, closed>>
historyVars == <<writtenIn, order, refused>>
vars == <<processVars, queue, batch, flusher, leaving, free, tableVars, closeVars,
          historyVars, flushed, reported>>

TypeOK ==
  /\ process \in {"up", "down"} /\ run \in 1..MaxRuns /\ group \in BOOLEAN
  /\ queue \in Seq(Events) /\ Len(queue) <= Capacity
  /\ batch \in Seq(Events) /\ Len(batch) <= BatchSize
  /\ flusher \in {"new", "absent", "select", "flush", "prepared", "sent", "exited"}
  /\ free \in 0..Conns
  /\ raw \in Seq(Events) /\ answers \in Seq(Events) /\ order \in Seq(Events)
  /\ {leaving, done, closed} \subseteq BOOLEAN
  /\ writtenIn \in [Events -> 0..run]
  /\ refused \subseteq Events /\ flushed \subseteq Events /\ reported \subseteq Events

Init ==
  /\ process = "up" /\ run = 1 /\ group \in BOOLEAN
  /\ queue = <<>> /\ batch = <<>>
  /\ flusher = "new" /\ leaving = FALSE /\ free = Conns
  /\ raw = <<>> /\ answers = <<>>
  /\ done = FALSE /\ closed = FALSE
  /\ writtenIn = [e \in Events |-> 0]
  /\ order = <<>> /\ refused = {} /\ flushed = {} /\ reported = {}

-----------------------------------------------------------------------------
\* startFlusher comes last: an error before it (connect, ping, create the database)
\* leaves the writer without one.  main warns, and uses the writer all the same.
Migrate ==
  /\ flusher = "new"
  /\ flusher' \in {"select"} \cup (IF "migrate" \in Faults THEN {"absent"} ELSE {})
  /\ UNCHANGED <<processVars, queue, batch, leaving, free, tableVars, closeVars,
                 historyVars, flushed, reported>>

\* Of one start the consumer hands over every message at most once, in the order of the
\* topic, and may skip some; with a group that is so over all starts, without one every
\* start begins at the first message again: see Consumer.
New(e) ==
  /\ \A f \in Events : f >= e => writtenIn[f] = 0
  /\ \A f \in Events :
       writtenIn[f] = run \/ (group /\ writtenIn[f] # 0) => Offset[f] < Offset[e]

\* w.queue <- event, or the default; Write returns nil either way.
Write(e) ==
  /\ flusher # "new" /\ New(e)
  /\ writtenIn' = [writtenIn EXCEPT ![e] = run]
  /\ IF Len(queue) < Capacity
     THEN queue' = Append(queue, e) /\ order' = Append(order, e) /\ UNCHANGED refused
     ELSE refused' = refused \cup {e} /\ UNCHANGED <<queue, order>>
  /\ UNCHANGED <<processVars, batch, flusher, leaving, free, tableVars, closeVars,
                 flushed, reported>>

-----------------------------------------------------------------------------
(* The flusher's select *)

\* case evt := <-w.queue
Take ==
  /\ flusher = "select" /\ queue # <<>>
  /\ queue' = Tail(queue) /\ batch' = Append(batch, Head(queue))
  /\ flusher' = IF Len(batch) + 1 >= BatchSize THEN "flush" ELSE "select"
  /\ UNCHANGED <<processVars, leaving, free, tableVars, closeVars, historyVars, flushed,
                 reported>>

Due(n) ==
  /\ flusher = "select" /\ Len(batch) >= n
  /\ flusher' = "flush"
  /\ UNCHANGED <<processVars, queue, batch, leaving, free, tableVars, closeVars,
                 historyVars, flushed, reported>>

TickWhenFull == Due(BatchSize)   \* mutant of Tick: a partial batch is left alone

\* case <-ticker.C
Tick == Due(1)

\* case <-w.done: a last flush of the batch; the channel is not read again
SeeDone ==
  /\ flusher = "select" /\ done
  /\ leaving' = TRUE
  /\ flusher' = IF batch = <<>> THEN "exited" ELSE "flush"
  /\ UNCHANGED <<processVars, queue, batch, free, tableVars, closeVars, historyVars,
                 flushed, reported>>

-----------------------------------------------------------------------------
(* flushBatch *)

FlushUnchanged == UNCHANGED <<processVars, queue, closeVars, historyVars, leaving>>

\* flushBatch has returned, and the batch is emptied.
Return == batch' = <<>> /\ flusher' = IF leaving THEN "exited" ELSE "select"

GiveUpSilently(connections) ==   \* mutant of GiveUp: the error is not looked at
  /\ Return
  /\ free' = connections
  /\ UNCHANGED <<flushed, reported>> /\ FlushUnchanged

\* It has returned an error.  The connections left behind are never released.
GiveUp(connections) ==
  /\ Return
  /\ reported' = reported \cup Range(batch)
  /\ free' = connections
  /\ UNCHANGED flushed /\ FlushUnchanged

Poisoned == \E e \in Range(batch) : Offset[e] \in Poison

\* Two times PrepareBatch, and Append to both for every event
Prepare ==
  /\ flusher = "flush"
  /\ free >= 2 /\ ~Poisoned
  /\ flusher' = "prepared" /\ free' = free - 2
  /\ UNCHANGED <<batch, tableVars, flushed, reported>> /\ FlushUnchanged

PrepareWaits ==   \* mutant of PrepareFails: PrepareBatch waits without a timeout
  /\ flusher = "flush"
  /\ \/ free < 2 /\ UNCHANGED vars
     \/ /\ free >= 2
        /\ \/ "prepare" \in Faults /\ GiveUp(free)
           \/ Poisoned /\ GiveUp(free - 1)
        /\ UNCHANGED tableVars

\* The first PrepareBatch fails, the second one, or an Append, which gives back the
\* connection of the batch it is for.
PrepareFails ==
  /\ flusher = "flush"
  /\ \/ /\ "prepare" \in Faults \/ free = 0
        /\ GiveUp(free)
     \/ /\ free >= 1
        /\ "prepare" \in Faults \/ free = 1
        /\ GiveUp(free - 1)
     \/ free >= 2 /\ Poisoned /\ GiveUp(free - 1)
  /\ UNCHANGED tableVars

\* rawBatch.Send
SendRaw ==
  /\ flusher = "prepared"
  /\ raw' = raw \o batch /\ UNCHANGED answers
  /\ flusher' = "sent" /\ free' = free + 1
  /\ UNCHANGED <<batch, flushed, reported>> /\ FlushUnchanged

\* "unanswered" is an insert whose answer is lost.
RawUnsent ==
  /\ flusher = "prepared"
  /\ \/ "send" \in Faults /\ UNCHANGED raw
     \/ "unanswered" \in Faults /\ raw' = raw \o batch
  /\ UNCHANGED answers

\* rawBatch.Send fails
SendRawFails == RawUnsent /\ GiveUp(free + 1)

\* flushBatch returns nil.
Succeed ==
  /\ Return
  /\ flushed' = flushed \cup Range(batch)
  /\ free' = free + 1
  /\ UNCHANGED reported /\ FlushUnchanged

\* ansBatch.Send
SendAnswers ==
  /\ flusher = "sent"
  /\ answers' = answers \o batch /\ UNCHANGED raw
  /\ Succeed

AnswersUnsent ==
  /\ flusher = "sent"
  /\ \/ "send" \in Faults /\ UNCHANGED answers
     \/ "unanswered" \in Faults /\ answers' = answers \o batch
  /\ UNCHANGED raw

SendAnswersUnchecked == AnswersUnsent /\ Succeed   \* mutant of SendAnswersFails: no if err

\* ansBatch.Send fails
SendAnswersFails == AnswersUnsent /\ GiveUp(free + 1)

Flusher ==
  \/ Take \/ Tick \/ SeeDone
  \/ Prepare \/ PrepareFails
  \/ SendRaw \/ SendRawFails
  \/ SendAnswers \/ SendAnswersFails

-----------------------------------------------------------------------------
(* Close *)

\* close(w.done)
BeginClose ==
  /\ flusher # "new" /\ ~done
  /\ done' = TRUE
  /\ UNCHANGED <<processVars, queue, batch, flusher, leaving, free, tableVars, closed,
                 historyVars, flushed, reported>>

CloseReturns ==
  /\ done /\ ~closed
  /\ closed' = TRUE
  /\ UNCHANGED <<processVars, queue, batch, flusher, leaving, free, tableVars, done,
                 historyVars, flushed, reported>>

EndCloseUnwaited == CloseReturns   \* mutant of EndClose: does not wait for the flusher

\* w.wg.Wait(), which nothing holds up when there is no flusher
EndClose == flusher \in {"absent", "exited"} /\ CloseReturns

-----------------------------------------------------------------------------
\* The process crashes, or main returns.
End ==
  /\ process = "up"
  /\ process' = "down"
  /\ UNCHANGED <<run, group, queue, batch, flusher, leaving, free, tableVars, closeVars,
                 historyVars, flushed, reported>>

\* NewWriter, in the next process
Restart ==
  /\ process = "down" /\ run < MaxRuns
  /\ process' = "up" /\ run' = run + 1
  /\ queue' = <<>> /\ batch' = <<>>
  /\ flusher' = "new" /\ leaving' = FALSE /\ free' = Conns
  /\ done' = FALSE /\ closed' = FALSE
  /\ UNCHANGED <<group, tableVars, historyVars, flushed, reported>>

Ended == process = "down" /\ run = MaxRuns /\ UNCHANGED vars

\* Nobody writes during or after a Close.
Next ==
  \/ /\ process = "up"
     /\ \/ Migrate
        \/ ~done /\ \E e \in Events : Write(e)
        \/ Flusher
        \/ BeginClose \/ EndClose
        \/ End
  \/ Restart \/ Ended

Spec == Init /\ [][Next]_vars

\* The flusher's goroutine is scheduled, its ticker fires, and the calls it makes to
\* the driver return, if only with an error; a Close that has begun carries on.
Fairness == WF_vars(process = "up" /\ Flusher) /\ WF_vars(process = "up" /\ EndClose)

FairSpec == Spec /\ Fairness

-----------------------------------------------------------------------------
(* Properties *)

\* Accepted events that neither the flusher nor the channel of this process has any
\* more, and whose batch has not been settled
Lost ==
  {e \in Range(order) \ (flushed \cup reported) : writtenIn[e] < run \/ process = "down"}

\* The two tables agree but for batches reported as failed, for the batch between
\* the two inserts, and for one that the end of the process left there: records
\* never come without their event, and an event whose records are missing has been
\* reported or lost.
TablesAgree ==
  /\ Range(answers) \subseteq Range(raw)
  /\ Range(raw) \ Range(answers)
       \subseteq reported \cup Lost \cup (IF flusher = "sent" THEN Range(batch) ELSE {})
  /\ flushed \subseteq Range(answers)

Ascending(s) == \A i, j \in DOMAIN s : i < j => s[i] < s[j]
Before(A, B) == \A a \in A, b \in B : a < b

\* With a group neither table gets a message twice or out of the order of the topic, also
\* when an insert has succeeded and its answer is lost, and over restarts.  Without one
\* the topic is inserted again by every start, and the same is true of the rows of each
\* start: those of an earlier one come first.
StoredOnceInOrder ==
  \A s \in {raw, answers} :
    /\ Ascending(s)
    /\ \A i, j \in DOMAIN s : i < j =>
         \/ Offset[s[i]] < Offset[s[j]]
         \/ ~group /\ writtenIn[s[i]] < writtenIn[s[j]]

\* Of two events handed over the later one is a later message, or one of a later start
\* without a group.
HandedOverInTurn ==
  \A e, f \in Events : e < f /\ writtenIn[e] # 0 /\ writtenIn[f] # 0 =>
    Offset[e] < Offset[f] \/ (~group /\ writtenIn[e] < writtenIn[f])

\* What each point of the flusher has the batch and the pool in, and Close
FlusherKeepsBounds ==
  /\ flusher = "select" => Len(batch) < BatchSize
  /\ flusher = "prepared" => free + 2 <= Conns
  /\ flusher = "sent" => free < Conns /\ Range(batch) \subseteq Range(raw)
  /\ flusher \in {"new", "absent", "exited"} => batch = <<>>
  /\ closed => done /\ flusher \in {"absent", "exited"}

Settled == flushed \cup reported
Unsettled(r) == {e \in Range(order) \ Settled : writtenIn[e] = r}

\* An event handed over is accepted or refused, and an accepted one settled at most once.
HandedOver ==
  /\ {e \in Events : writtenIn[e] # 0} = Range(order) \cup refused
  /\ Range(order) \cap refused = {}
  /\ Settled \subseteq Range(order) /\ flushed \cap reported = {}
  /\ Range(raw) \subseteq Range(order)

\* Batch and channel hold, in the order of the topic, what this run has accepted and
\* not settled, which is behind all that is settled or stored.
HeldInOrder ==
  /\ Unsettled(run) = Range(batch) \cup Range(queue)
  /\ Ascending(batch) /\ Ascending(queue) /\ Before(Range(batch), Range(queue))
  /\ Before(Settled \cup Range(answers), Range(batch) \cup Range(queue))
  /\ Before(Range(raw), Range(queue) \cup (IF flusher = "sent" THEN {} ELSE Range(batch)))

\* Of every run, the events that are not settled come last and are few.
UnsettledAreLast ==
  \A r \in 1..MaxRuns :
    /\ Before({e \in Settled : writtenIn[e] = r}, Unsettled(r))
    /\ IsFiniteSet(Unsettled(r)) /\ Cardinality(Unsettled(r)) <= Capacity + BatchSize

\* All of them, with the types and the bounds of channel, batch and pool: the inductive
\* invariant of ClickHouseProofs.
ClickHouseInv ==
  /\ TypeOK /\ FlusherKeepsBounds /\ HandedOver /\ HandedOverInTurn /\ HeldInOrder
  /\ UnsettledAreLast /\ TablesAgree /\ StoredOnceInOrder

\* Nothing flushes the writer when its process ends (main calls no Close), and no
\* one reports what it held.  That is all that is ever lost without a report: the
\* events of a run that are lost come last in it, and fit the channel and the batch.
OnlyTheLastAreLost ==
  \A e \in Lost :
    LET after == {f \in Range(order) : f >= e /\ writtenIn[f] = writtenIn[e]}
    IN after \subseteq Lost /\ Cardinality(after) <= Capacity + BatchSize

\* With a flusher, every accepted event is flushed or reported as long as nobody
\* closes the writer and its process lives: neither a partial batch nor a pool
\* without connections holds it up for ever.  (Without one, after a failed Migrate,
\* it stays in the channel.)
AcceptedIsSettled ==
  \A e \in Events :
    e \in Range(order) \ Lost /\ flusher # "absent"
      ~> (e \in flushed \cup reported \/ done \/ process = "down")

\* A Close that has begun returns: with a batch in flight, with an exhausted pool,
\* and after a failed Migrate.
CloseCompletes == done ~> (closed \/ process = "down")

\* In its first run, and in its last, the writer is an event relay that may give up on an event; what
\* it still has when Close returns, or when the process ends, is abandoned.
Outcome(e, r) ==
  IF writtenIn[e] # r THEN "new"
  ELSE IF e \in refused THEN "refused"
  ELSE IF e \in flushed THEN "relayed"
  ELSE IF e \in reported THEN "reported"
  ELSE IF closed \/ e \in Lost THEN "abandoned"
  ELSE "accepted"

Mode(r) ==
  IF run > r \/ (run = r /\ (closed \/ process = "down")) THEN "closed"
  ELSE IF run = r /\ done THEN "draining"
  ELSE "open"

First == INSTANCE EventRelay
           WITH status <- [e \in Events |-> Outcome(e, 1)], mode <- Mode(1),
                MayReport <- TRUE
Last == INSTANCE EventRelay
          WITH status <- [e \in Events |-> Outcome(e, MaxRuns)], mode <- Mode(MaxRuns),
               MayReport <- TRUE

ImplementsRelay == First!Spec /\ Last!Spec
=============================================================================
