------------------------------ MODULE Producer ------------------------------
(***************************************************************************)
(* The Kafka producer of internal/adapter/outbound/kafka/producer.go, once *)
(* Migrate has set up the writer and started the flusher: a bounded        *)
(* channel in front of one goroutine that batches events, writes each      *)
(* batch with up to MaxAttempts attempts, and gives up on it after that.   *)
(*                                                                         *)
(* The kafka-go Writer and the cluster behind it are external.  The writer *)
(* keeps one queue per partition and sends what is in it one batch after   *)
(* the other, each settled by itself.  It makes batches of at most         *)
(* BatchSize messages and of at most BatchBytes, 1 MiB, which Migrate does *)
(* not set: what one WriteMessages has for a partition may be cut into     *)
(* several batches.  WriteMessages waits for the answers to all of its own *)
(* batches, or until its context expires, in which case they stay with the *)
(* writer.                                                                 *)
(***************************************************************************)
EXTENDS Naturals, Sequences, Functions

CONSTANTS
  Events,       \* the events that may be written
  Partitions,   \* the partitions of the topic
  Partition,    \* the partition of each event: the hash of its qname
  Unencodable,  \* events json.Marshal refuses (a timestamp beyond year 9999)
  Capacity,     \* of the channel; 100000 in NewProducer
  BatchSize,    \* batch_size; 0 when the key is omitted
  MaxAttempts,  \* 3 in flushBatch
  Splits,       \* whether the messages of a call may exceed one kafka-go batch
  Faults        \* what the cluster may do besides storing and acknowledging

ASSUME ProducerAssumption ==
  /\ Partition \in [Events -> Partitions]
  /\ Unencodable \subseteq Events
  /\ Capacity \in Nat \ {0}
  /\ BatchSize \in Nat
  /\ MaxAttempts \in Nat \ {0}
  /\ Splits \in BOOLEAN
  /\ Faults \subseteq {"retriable", "fatal", "unacked", "timeout"}

VARIABLES
  queue,      \* p.queue
  messages,   \* the flusher's batch
  flusher,    \* "select", "flush", "awaiting" WriteMessages, or "exited"
  attempt,    \* attempts begun on the batch
  leaving,    \* the flusher has taken <-p.done
  owed,       \* partitions whose answer the current attempt waits for
  errs,       \* errors the current attempt has got
  pending,    \* per partition and call, the messages the kafka writer has yet to settle
  log,        \* per partition, what the cluster has stored
  done,       \* p.done is closed
  closed,     \* Close has returned
  order,      \* the events accepted, in the order of the channel
  refused,    \* events Write dropped because the channel was full
  acked,      \* events of batches written without an error
  gaveUp      \* events reported in an error log and dropped

vars == <<queue, messages, flusher, attempt, leaving, owed, errs, pending, log,
          done, closed, order, refused, acked, gaveUp>>

writerVars == <<owed, errs, pending, log>>
historyVars == <<order, refused>>

TypeOK ==
  /\ queue \in Seq(Events) /\ Len(queue) <= Capacity
  /\ messages \in Seq(Events \ Unencodable)
  /\ flusher \in {"select", "flush", "awaiting", "exited"}
  /\ attempt \in 0..MaxAttempts
  /\ leaving \in BOOLEAN /\ done \in BOOLEAN /\ closed \in BOOLEAN
  /\ owed \subseteq Partitions
  /\ errs \subseteq Faults
  /\ pending \in [Partitions -> Seq(Seq(Events))]
  /\ log \in [Partitions -> Seq(Events)]
  /\ order \in Seq(Events)
  /\ refused \subseteq Events /\ acked \subseteq Events /\ gaveUp \subseteq Events

Init ==
  /\ queue = <<>> /\ messages = <<>>
  /\ flusher = "select" /\ attempt = 0 /\ leaving = FALSE
  /\ owed = {} /\ errs = {}
  /\ pending = [p \in Partitions |-> <<>>]
  /\ log = [p \in Partitions |-> <<>>]
  /\ done = FALSE /\ closed = FALSE
  /\ order = <<>> /\ refused = {} /\ acked = {} /\ gaveUp = {}

-----------------------------------------------------------------------------
New(e) == e \notin Range(order) \cup refused

\* p.queue <- event, or the default; Write returns nil either way, and its caller
\* cannot tell the two apart.
Write(e) ==
  /\ New(e)
  /\ IF Len(queue) < Capacity
     THEN queue' = Append(queue, e) /\ order' = Append(order, e) /\ UNCHANGED refused
     ELSE refused' = refused \cup {e} /\ UNCHANGED <<queue, order>>
  /\ UNCHANGED <<messages, flusher, attempt, leaving, writerVars, done, closed,
                 acked, gaveUp>>

-----------------------------------------------------------------------------
(* The flusher's select *)

\* case evt := <-p.queue
Take ==
  /\ flusher = "select" /\ queue # <<>>
  /\ queue' = Tail(queue)
  /\ LET e == Head(queue) IN
       IF e \in Unencodable
       THEN /\ gaveUp' = gaveUp \cup {e}
            /\ UNCHANGED <<messages, flusher>>
       ELSE /\ messages' = Append(messages, e)
            /\ flusher' = IF Len(messages) + 1 >= BatchSize THEN "flush" ELSE "select"
            /\ UNCHANGED gaveUp
  /\ UNCHANGED <<attempt, leaving, writerVars, done, closed, historyVars, acked>>

Due(n) ==
  /\ flusher = "select" /\ Len(messages) >= n
  /\ flusher' = "flush"
  /\ UNCHANGED <<queue, messages, attempt, leaving, writerVars, done, closed,
                 historyVars, acked, gaveUp>>

\* mutant of TickFlush: a partial batch is left alone
TickWhenFull == messages # <<>> /\ Due(BatchSize)

\* case <-ticker.C
TickFlush == Due(1)

LeaveTo(next) ==
  /\ flusher = "select" /\ done
  /\ leaving' = (next # "select")
  /\ flusher' = next
  /\ UNCHANGED <<queue, messages, attempt, writerVars, done, closed, historyVars,
                 acked, gaveUp>>

SeeDoneIfBatch ==   \* mutant of SeeDone: goes on with an empty batch
  LeaveTo(IF messages = <<>> THEN "select" ELSE "flush")

\* case <-p.done: a last flush of the batch; the channel is not read again
SeeDone == LeaveTo(IF messages = <<>> THEN "exited" ELSE "flush")

-----------------------------------------------------------------------------
(* flushBatch *)

\* The messages of partition p in their order, those of the first n messages at a time
BatchFor(p) ==
  LET upTo[n \in 0..Len(messages)] ==
        IF n = 0 THEN <<>>
        ELSE IF Partition[messages[n]] = p THEN Append(upTo[n - 1], messages[n])
        ELSE upTo[n - 1]
  IN upTo[Len(messages)]

Targets == {p \in Partitions : BatchFor(p) # <<>>}

\* One WriteMessages, with a queue of batches for each partition (see Serve); the
\* wait between two attempts is any delay.
Attempt ==
  /\ flusher = "flush"
  /\ attempt' = attempt + 1
  /\ pending' = [p \in Partitions |->
                   IF p \in Targets THEN Append(pending[p], BatchFor(p)) ELSE pending[p]]
  /\ owed' = Targets
  /\ errs' = {}
  /\ flusher' = "awaiting"
  /\ UNCHANGED <<queue, messages, leaving, log, done, closed, historyVars, acked, gaveUp>>

\* isRetriable: one message with such an error is enough
Retriable == errs \cap {"retriable", "unacked"} # {}

\* The batch is over, one way or another.
Finished ==
  /\ messages' = <<>>
  /\ attempt' = 0
  /\ flusher' = IF leaving THEN "exited" ELSE "select"

Answered == flusher = "awaiting" /\ owed = {}

Acknowledged ==
  /\ Answered /\ errs = {}
  /\ acked' = acked \cup Range(messages)
  /\ UNCHANGED <<queue, leaving, writerVars, done, closed, historyVars, gaveUp>>

SucceedAgain ==   \* mutant of Succeed: the batch is not emptied
  /\ Acknowledged
  /\ attempt' = 0
  /\ flusher' = IF leaving THEN "exited" ELSE "select"
  /\ UNCHANGED messages

Succeed == Acknowledged /\ Finished

\* Every message is written again, those already stored included.
Retry ==
  /\ Answered
  /\ Retriable /\ attempt < MaxAttempts
  /\ flusher' = "flush"
  /\ UNCHANGED <<queue, messages, attempt, leaving, writerVars, done, closed,
                 historyVars, acked, gaveUp>>

\* The last attempt has failed, or one in a way that is not retried.
Failed ==
  /\ Answered /\ errs # {}
  /\ ~Retriable \/ attempt = MaxAttempts
  /\ Finished
  /\ UNCHANGED <<leaving, writerVars, done, closed, historyVars>>

GiveUpAsSuccess ==   \* mutant of GiveUp: the last error is overwritten
  Failed /\ acked' = acked \cup Range(messages) /\ UNCHANGED <<queue, gaveUp>>

GiveUpRequeues ==   \* mutant of GiveUp: a failed batch goes back to the channel
  Failed /\ queue' = queue \o messages /\ UNCHANGED <<acked, gaveUp>>

\* The error is logged and the batch dropped.
GiveUp == Failed /\ gaveUp' = gaveUp \cup Range(messages) /\ UNCHANGED <<queue, acked>>

Expire ==
  /\ "timeout" \in Faults
  /\ flusher = "awaiting" /\ owed # {}
  /\ gaveUp' = gaveUp \cup Range(messages)
  /\ owed' = {}
  /\ UNCHANGED <<queue, leaving, errs, pending, log, done, closed, historyVars, acked>>

TimeoutRetries ==   \* mutant of Timeout: reported, and tried again all the same
  /\ Expire /\ attempt < MaxAttempts
  /\ flusher' = "flush"
  /\ UNCHANGED <<messages, attempt>>

\* The context of the attempt expires: context.DeadlineExceeded is not
\* retriable, and what the writer still holds it may yet send.
Timeout == Expire /\ Finished

-----------------------------------------------------------------------------
(* External: the kafka-go Writer and the cluster *)

\* How many of the messages s go into one batch of the kafka writer
Cut(s) == IF Splits THEN 1..Len(s) ELSE {Len(s)}

\* The next batch of a partition, the first n messages of its oldest call, is
\* settled, and later ones are sent whatever becomes of it.  "unacked" is a batch
\* stored whose acknowledgement is lost, as with RequestTimedOut; "fatal" is an error
\* that is not retried, a message beyond the limits of writer or broker included.
Serve(p, outcome, n) ==
  LET calls == pending[p]
      left == SubSeq(Head(calls), n + 1, Len(Head(calls)))
      whole == n = Len(Head(calls))
  IN
    /\ pending' = [pending EXCEPT ![p] = IF whole THEN Tail(@) ELSE [@ EXCEPT ![1] = left]]
    /\ log' = IF outcome \in {"ok", "unacked"}
              THEN [log EXCEPT ![p] = @ \o SubSeq(Head(calls), 1, n)] ELSE log
    /\ IF p \in owed /\ Len(calls) = 1
       THEN /\ owed' = IF whole THEN owed \ {p} ELSE owed
            /\ errs' = errs \cup ({outcome} \ {"ok"})
       ELSE UNCHANGED <<owed, errs>>
    /\ UNCHANGED <<queue, messages, flusher, attempt, leaving, done, closed, historyVars,
                   acked, gaveUp>>

Broker(p) ==
  /\ pending[p] # <<>>
  /\ \E outcome \in {"ok"} \cup (Faults \ {"timeout"}), n \in Cut(Head(pending[p])) :
       Serve(p, outcome, n)

-----------------------------------------------------------------------------
(* Close *)

\* close(p.done)
BeginClose ==
  /\ ~done
  /\ done' = TRUE
  /\ UNCHANGED <<queue, messages, flusher, attempt, leaving, writerVars, closed,
                 historyVars, acked, gaveUp>>

\* p.wg.Wait(), then p.writer.Close(), which waits for the writer's batches
EndClose ==
  /\ done /\ ~closed
  /\ flusher = "exited"
  /\ \A p \in Partitions : pending[p] = <<>>
  /\ closed' = TRUE
  /\ UNCHANGED <<queue, messages, flusher, attempt, leaving, writerVars, done,
                 historyVars, acked, gaveUp>>

-----------------------------------------------------------------------------
Flusher == Take \/ TickFlush \/ SeeDone \/ Attempt \/ Succeed \/ Retry \/ GiveUp \/ Timeout

Ended == closed /\ UNCHANGED vars

\* The pipeline closes the producer after its last worker has exited, so there
\* is no Write during or after Close (see Collector).
Next ==
  \/ ~done /\ \E e \in Events : Write(e)
  \/ Flusher
  \/ \E p \in Partitions : Broker(p)
  \/ BeginClose \/ EndClose
  \/ Ended

Spec == Init /\ [][Next]_vars

\* The flusher's goroutine is scheduled and its ticker fires; the kafka writer
\* settles every batch in the end, since its own attempts and timeouts are
\* bounded; a Close that has begun carries on.
Fairness ==
  /\ WF_vars(Flusher)
  /\ \A p \in Partitions : WF_vars(Broker(p))
  /\ WF_vars(EndClose)

FairSpec == Spec /\ Fairness

-----------------------------------------------------------------------------
(* Properties *)

\* An accepted event is in exactly one place: the channel, the batch, a batch
\* that was acknowledged, or an error log.  So everything the flusher takes is
\* accounted for, whatever the answers, and only the channel can swallow an
\* event silently.
Conservation ==
  /\ Range(order) = Range(queue) \cup Range(messages) \cup acked \cup gaveUp
  /\ Range(queue) \cap (Range(messages) \cup acked \cup gaveUp) = {}
  /\ Range(messages) \cap (acked \cup gaveUp) = {}
  /\ acked \cap gaveUp = {}
  /\ \A s \in {order, queue, messages} : IsInjective(s)
  /\ Range(order) \cap refused = {}

\* A batch gets MaxAttempts attempts at most, and the next one starts from none.
AttemptsAreBounded ==
  /\ flusher = "flush" => attempt < MaxAttempts
  /\ flusher \in {"select", "exited"} => attempt = 0

\* Call k of a partition is the present one: WriteMessages waits for it.
Present(p, k) == p \in owed /\ k = Len(pending[p])

\* The messages of the present call that have no answer yet
Unsettled(p) == IF p \in owed THEN Range(pending[p][Len(pending[p])]) ELSE {}

\* The answers that an attempt waits for are those to its own messages, the last that
\* the kafka writer has for the partition; and as long as none was an error, what has
\* been answered is stored.
AnswersAreOfTheBatch ==
  /\ flusher # "awaiting" => owed = {}
  /\ flusher = "awaiting" =>
       /\ owed \subseteq Targets
       /\ \A p \in owed :
            /\ pending[p] # <<>>
            /\ Unsettled(p) \subseteq Range(BatchFor(p))
            /\ ~Splits => pending[p][Len(pending[p])] = BatchFor(p)
       /\ errs = {} =>
            \A p \in Targets : Range(BatchFor(p)) \subseteq Range(log[p]) \cup Unsettled(p)

\* The events of calls, from the k-th call on
From(k, calls) == UNION {Range(calls[l]) : l \in k..Len(calls)}

\* The kafka writer holds nothing twice, and besides the present call only messages
\* that have been given up.
HeldOnce ==
  \A p \in Partitions : \A k \in DOMAIN pending[p] :
    /\ IsInjective(pending[p][k])
    /\ Range(pending[p][k]) \cap From(k + 1, pending[p]) = {}
    /\ Present(p, k) \/ Range(pending[p][k]) \subseteq gaveUp

\* The events that o has before f
Earlier(o, f) ==
  {e \in Range(o) : \E i, j \in DOMAIN o : i < j /\ o[i] = e /\ o[j] = f}

\* In s an event comes behind all those of S that o has before it, but for some.
InTurn(o, s, S, some) ==
  \A n \in DOMAIN s : Earlier(o, s[n]) \cap S \subseteq {s[m] : m \in 1..(n - 1)} \cup some

OfPartition(p) == {e \in Events : Partition[e] = p}

\* The messages of which a part may have been settled in front of call k
Underway(p, k) == IF Present(p, k) THEN Range(messages) ELSE {}

\* All the way to the kafka writer an event is behind those accepted earlier, or they
\* are settled and do not come any more, or settled for the present attempt.  Where no
\* call is cut the same is true of the log: an earlier event is missing there only if
\* it has been reported.
EverythingInTurn ==
  /\ InTurn(order, queue, Events, Range(messages) \cup acked \cup gaveUp)
  /\ InTurn(order, messages, Events, acked \cup gaveUp)
  /\ \A p \in Partitions :
       /\ \A k \in DOMAIN pending[p] :
            InTurn(order, pending[p][k], OfPartition(p),
                   (acked \cup gaveUp \cup Underway(p, k)) \ From(k, pending[p]))
       /\ ~Splits => InTurn(order, log[p], OfPartition(p),
                            gaveUp \ (Range(log[p]) \cup From(1, pending[p])))
       /\ Range(log[p]) \cup From(1, pending[p]) \subseteq Range(order)

\* The flusher is gone when Close returns.
ClosedAtRest == closed => done /\ flusher = "exited"

\* All six, with the types and the bound of the channel: the inductive invariant of
\* ProducerProofs.
ProducerInv ==
  /\ TypeOK /\ Conservation /\ AttemptsAreBounded /\ AnswersAreOfTheBatch /\ ClosedAtRest
  /\ HeldOnce /\ EverythingInTurn

\* A batch reported as flushed is in the log, every message of it, however many
\* attempts it took and whichever partition failed in between.
AckedIsStored == \A e \in acked : e \in Range(log[Partition[e]])

Precedes(s, e, f) == \E i \in DOMAIN s : s[i] = e /\ \A j \in 1..i : s[j] # f

\* When an event of a partition is stored for the first time, those that Write has
\* accepted before it are stored, or have been reported and do not come any more.  The
\* one exception is two events of one batch, in an attempt that has failed for a part of
\* it: retries, lost acknowledgements and expired attempts never exchange the events of
\* two batches.
OrderAcrossBatches ==
  [][\A p \in Partitions : \A f \in Range(log'[p]) \ Range(log[p]) :
       \A e \in Earlier(order, f) \cap OfPartition(p) :
         \/ Precedes(log'[p], e, f)
         \/ e \in gaveUp \ From(1, pending'[p])
         \/ {e, f} \subseteq Range(messages) /\ errs # {}]_vars

\* As long as nobody closes the producer, every accepted event is acknowledged
\* or reported: no batch waits forever for a full batch or for an answer.
AcceptedIsSettled == \A e \in Events : e \in Range(order) ~> (e \in acked \cup gaveUp \/ done)

\* A Close that has begun returns, with a batch in flight too, and whatever
\* the cluster answers.
CloseCompletes == done ~> closed

\* The producer is an event relay that may give up on an event while it runs;
\* what it still has when Close returns is what the channel holds.
Outcome(e) ==
  IF e \in refused THEN "refused"
  ELSE IF e \in acked THEN "relayed"
  ELSE IF e \in gaveUp THEN "reported"
  ELSE IF e \notin Range(order) THEN "new"
  ELSE IF closed THEN "abandoned"
  ELSE "accepted"

Mode ==
  IF closed THEN "closed"
  ELSE IF done THEN "draining"
  ELSE "open"

Relay == INSTANCE EventRelay
           WITH status <- [e \in Events |-> Outcome(e)], mode <- Mode, MayReport <- TRUE

ImplementsRelay == Relay!Spec


-----------------------------------------------------------------------------
(* What the documentation says *)

InLog(e) == e \in Range(log[Partition[e]])

FirstAt(e) == CHOOSE i \in DOMAIN log[Partition[e]] :
                /\ log[Partition[e]][i] = e
                /\ \A j \in 1..(i - 1) : log[Partition[e]][j] # e

\* docs/architecture.md:159 "ordering per-domain guaranteed": events of one qname reach
\* their partition in the order in which Write accepted them, and one is skipped only
\* when it has been reported.  True where a batch is one batch for kafka-go as well; a
\* larger one may lose its first part to a retry that stores it behind the second.
PartitionOrder ==
  \A i, j \in DOMAIN order :
    LET e == order[i]  f == order[j] IN
      i < j /\ Partition[e] = Partition[f] /\ InLog(f) =>
        IF InLog(e) THEN FirstAt(e) < FirstAt(f) ELSE e \in gaveUp
=============================================================================
