------------------------------ MODULE Consumer ------------------------------
(***************************************************************************)
(* The Kafka consumer of internal/adapter/inbound/kafka/consumer.go: Start, *)
(* which main runs in a goroutine of its own, the read loop it launches,    *)
(* and Stop, over the crashes and restarts of the process.                  *)
(*                                                                         *)
(* The topic has one partition, as Migrate creates it, and the group one    *)
(* consumer; messages are their offsets, 1 to N.  The kafka-go Reader is    *)
(* external: ReadMessage fetches a message, commits its offset for the      *)
(* group, and only then returns it.  Without a group id (the configuration  *)
(* has no default for it) nothing is committed, and every start of the      *)
(* process reads the topic from its first message.                          *)
(***************************************************************************)
EXTENDS Naturals, Sequences, FiniteSets, Functions

CONSTANTS
  N,           \* messages in the topic
  Malformed,   \* those json.Unmarshal refuses
  Storages,    \* cfg.Storages, a sequence
  MaxRuns      \* bound on the starts of the process

ASSUME ConsumerAssumption ==
  /\ N \in Nat /\ MaxRuns \in Nat \ {0}
  /\ Malformed \subseteq 1..N
  /\ Storages \in Seq(Range(Storages)) /\ IsInjective(Storages)
  /\ Storages # <<>>   \* Validate asks for at least one output

VARIABLES
  group,       \* cfg.GroupID is set; the same at every start
  process,     \* "up" or "down"
  runs,        \* starts of the process
  starter,     \* Start: "new", "waiting" for the topic, "topic" found, "reader", "returned"
  canceller,   \* c.cancel: "nil", "set", or "called"
  reader,      \* c.reader: "nil", "open" or "closed"
  loop,        \* "absent", "reading", "committing", "dispatching" or "exited"
  msg,         \* the message loop has in hand
  next,        \* index of the storage that gets it next
  stopper,     \* Stop: "idle", "cancelling", "closing", "waiting", "returned"
  position,    \* last offset the reader has fetched
  committed,   \* last offset committed for the group
  handed,      \* per storage, the messages its Write took, in order
  failed,      \* per storage, the messages its Write returned an error for
  skipped,     \* messages whose ReadMessage returned an error after the fetch
  lost         \* messages committed and being dispatched when the process ended

startVars == <<starter, canceller, reader>>
loopVars == <<loop, msg, next>>
topicVars == <<position, committed>>
resultVars == <<handed, failed, skipped, lost>>
vars == <<group, process, runs, startVars, loopVars, stopper, topicVars, resultVars>>

TypeOK ==
  /\ group \in BOOLEAN /\ process \in {"up", "down"} /\ runs \in 1..MaxRuns
  /\ starter \in {"new", "waiting", "topic", "reader", "returned"}
  /\ canceller \in {"nil", "set", "called"}
  /\ reader \in {"nil", "open", "closed"}
  /\ loop \in {"absent", "reading", "committing", "dispatching", "exited"}
  /\ msg \in 0..N /\ next \in 1..Len(Storages)
  /\ stopper \in {"idle", "cancelling", "closing", "waiting", "returned"}
  /\ position \in 0..N /\ committed \in 0..N
  /\ handed \in [Range(Storages) -> Seq(1..N)]
  /\ failed \in [Range(Storages) -> SUBSET (1..N)]
  /\ skipped \subseteq 1..N /\ lost \subseteq 1..N

Init ==
  /\ group \in BOOLEAN /\ process = "up" /\ runs = 1
  /\ starter = "new" /\ canceller = "nil" /\ reader = "nil"
  /\ loop = "absent" /\ msg = 0 /\ next = 1
  /\ stopper = "idle"
  /\ position = 0 /\ committed = 0
  /\ handed = [s \in Range(Storages) |-> <<>>]
  /\ failed = [s \in Range(Storages) |-> {}]
  /\ skipped = {} /\ lost = {}

-----------------------------------------------------------------------------
(* Start *)

StartUnchanged ==
  UNCHANGED <<group, process, runs, msg, next, stopper, topicVars, resultVars>>

\* c.cancel = cancel
SetCancel ==
  /\ starter = "new"
  /\ starter' = "waiting" /\ canceller' = "set"
  /\ UNCHANGED <<reader, loop>> /\ StartUnchanged

\* waitForTopic returns: the topic is there, or the context is cancelled
TopicReady ==
  /\ starter = "waiting"
  /\ starter' = "topic"
  /\ UNCHANGED <<canceller, reader, loop>> /\ StartUnchanged

\* c.reader = kafka.NewReader(...), which resumes behind the committed offset, 0 if
\* there is none
NewReader ==
  /\ starter = "topic"
  /\ starter' = "reader" /\ reader' = "open" /\ position' = committed
  /\ UNCHANGED <<group, process, runs, canceller, loopVars, stopper, committed, resultVars>>

\* c.wg.Add(1); go c.loop(ctx)
LaunchLoop ==
  /\ starter = "reader"
  /\ starter' = "returned" /\ loop' = "reading"
  /\ UNCHANGED <<canceller, reader>> /\ StartUnchanged

Start == SetCancel \/ TopicReady \/ NewReader \/ LaunchLoop

-----------------------------------------------------------------------------
(* loop *)

\* ReadMessage takes the next message.  It does so with a cancelled context too
\* when one is at hand, and no more once the reader is closed.
Fetch ==
  /\ loop = "reading" /\ reader = "open" /\ position < N
  /\ position' = position + 1
  /\ msg' = position + 1
  /\ loop' = "committing"
  /\ UNCHANGED <<group, process, runs, startVars, next, stopper, committed, resultVars>>

\* ReadMessage returns the message, and one that cannot be decoded is logged and left.
Return(offset, malformed) ==
  /\ loop = "committing"
  /\ committed' = offset
  /\ loop' = IF msg \in Malformed THEN malformed ELSE "dispatching"
  /\ next' = 1
  /\ UNCHANGED <<group, process, runs, startVars, msg, stopper, position, resultVars>>

Offset == IF group THEN msg ELSE committed

CommitNothing == Return(committed, "reading")   \* mutant of Commit: no offset to resume from

StopAtMalformed == Return(Offset, "exited")   \* mutant of Commit: return instead of continue

\* The offset is committed before any storage has seen the message.
Commit == Return(Offset, "reading")

\* The commit fails, with or without effect: ReadMessage returns an error and
\* drops the message it had fetched.  After an error the loop looks at its context.
CommitFails ==
  /\ loop = "committing" /\ group
  /\ committed' \in {committed, msg}
  /\ skipped' = skipped \cup {msg}
  /\ loop' = IF canceller = "called" THEN "exited" ELSE "reading"
  /\ UNCHANGED <<group, process, runs, startVars, msg, next, stopper, position,
                 handed, failed, lost>>

ReadFailsOn ==   \* mutant of ReadFails: the loop does not look at its context
  /\ loop = "reading"
  /\ UNCHANGED vars

\* Any other error of ReadMessage, io.EOF from a closed reader included
ReadFails ==
  /\ loop = "reading"
  /\ loop' = IF canceller = "called" THEN "exited" ELSE "reading"
  /\ UNCHANGED <<group, process, runs, startVars, msg, next, stopper, topicVars, resultVars>>

\* s.Write(event) for the storage whose turn it is; an error is only logged
Dispatch(ok, more) ==
  /\ loop = "dispatching"
  /\ LET s == Storages[next] IN
       IF ok THEN handed' = [handed EXCEPT ![s] = Append(@, msg)] /\ UNCHANGED failed
             ELSE failed' = [failed EXCEPT ![s] = @ \cup {msg}] /\ UNCHANGED handed
  /\ IF more
     THEN next' = next + 1 /\ UNCHANGED loop
     ELSE loop' = "reading" /\ UNCHANGED next
  /\ UNCHANGED <<group, process, runs, startVars, msg, stopper, topicVars, skipped, lost>>

\* mutant of Write: the first error ends the range loop
WriteBreaks(ok) == Dispatch(ok, next < Len(Storages) /\ ok)

\* one storage after the other
Write(ok) == Dispatch(ok, next < Len(Storages))

Loop == Fetch \/ Commit \/ CommitFails \/ ReadFails \/ \E ok \in BOOLEAN : Write(ok)

-----------------------------------------------------------------------------
(* Stop *)

StopUnchanged == UNCHANGED <<group, process, runs, starter, loopVars, topicVars, resultVars>>

Signal ==
  /\ stopper = "idle"
  /\ stopper' = "cancelling"
  /\ UNCHANGED <<canceller, reader>> /\ StopUnchanged

\* if c.cancel != nil { c.cancel() }
CallCancel ==
  /\ stopper = "cancelling"
  /\ stopper' = "closing"
  /\ canceller' = IF canceller = "nil" THEN "nil" ELSE "called"
  /\ UNCHANGED reader /\ StopUnchanged

\* if c.reader != nil { c.reader.Close() }
CloseReader ==
  /\ stopper = "closing"
  /\ stopper' = "waiting"
  /\ reader' = IF reader = "nil" THEN "nil" ELSE "closed"
  /\ UNCHANGED canceller /\ StopUnchanged

StopEnds ==
  /\ stopper = "waiting"
  /\ stopper' = "returned"
  /\ UNCHANGED <<canceller, reader>> /\ StopUnchanged

DoNotWait == StopEnds   \* mutant of Wait: Stop does not wait for the loop

\* c.wg.Wait()
Wait == loop \in {"absent", "exited"} /\ StopEnds

Stop == CallCancel \/ CloseReader \/ Wait

-----------------------------------------------------------------------------
(* The process *)

\* The process crashes, or main returns some time after Stop, and only what the group
\* has committed and the storages have got is left.
End ==
  /\ process = "up"
  /\ process' = "down"
  /\ lost' = IF loop = "dispatching" THEN lost \cup {msg} ELSE lost
  /\ starter' = "new" /\ canceller' = "nil" /\ reader' = "nil"
  /\ loop' = "absent" /\ msg' = 0 /\ next' = 1
  /\ stopper' = "idle" /\ position' = 0
  /\ UNCHANGED <<group, runs, committed, handed, failed, skipped>>

Restart ==
  /\ process = "down" /\ runs < MaxRuns
  /\ process' = "up" /\ runs' = runs + 1
  /\ UNCHANGED <<group, startVars, loopVars, stopper, topicVars, resultVars>>

Ended == process = "down" /\ runs = MaxRuns /\ UNCHANGED vars

Next ==
  \/ process = "up" /\ (Start \/ Loop \/ Signal \/ Stop)
  \/ End \/ Restart \/ Ended

Spec == Init /\ [][Next]_vars

\* The goroutines are scheduled, and the cluster has the topic and answers in the
\* end, if only with errors.  No signal need arrive and no process need end or be
\* started again.
Fairness ==
  /\ WF_vars(process = "up" /\ Start)
  /\ WF_vars(process = "up" /\ Loop)
  /\ WF_vars(process = "up" /\ Stop)

FairSpec == Spec /\ Fairness

-----------------------------------------------------------------------------
(* Properties *)

\* The places in a sequence of messages where it goes back, or repeats one
Back(q) == {i \in DOMAIN q : i > 1 /\ q[i] <= q[i - 1]}

\* No storage gets a message twice or out of order, over any number of crashes and
\* restarts: the price is paid in lost messages, see SkippedIsExplained.  Without a
\* group every restart may begin again, and nothing else goes back.
NoUnexplainedRepeat ==
  \A s \in Range(Storages) :
    Cardinality(Back(handed[s])) <= IF group THEN 0 ELSE runs - 1

\* How far Start has come, and what the loop has in hand
Launched ==
  /\ (loop = "absent") <=> (starter # "returned")
  /\ (reader = "nil") <=> (starter \in {"new", "waiting", "topic"})
  /\ process = "down" => starter = "new"
  /\ loop \in {"committing", "dispatching"} => msg = position /\ msg # 0

\* The loop is behind what the group has committed only while it commits.
Offsets ==
  /\ ~group => committed = 0
  /\ reader = "nil" => position = 0
  /\ reader # "nil" => committed <= position
  /\ group /\ loop = "committing" => committed < msg
  /\ group /\ loop = "dispatching" => committed = msg

Newest(q) == IF q = <<>> THEN 0 ELSE q[Len(q)]

\* The i-th storage has not got what the loop has in hand.
ToCome(i) == loop = "committing" \/ (loop = "dispatching" /\ i >= next)

\* What a storage has got last is committed, or was read by this process or an
\* earlier one, and is never what the loop has yet to hand to it.
HandedIsBehind ==
  \A i \in DOMAIN Storages :
    LET last == Newest(handed[Storages[i]])
        behind == last <= IF ToCome(i) THEN position - 1 ELSE position
    IN IF group THEN last <= committed /\ (ToCome(i) => behind)
       ELSE process = "down" \/ behind \/ Cardinality(Back(handed[Storages[i]])) + 1 < runs

Kept(m, s) == m \in Range(handed[s]) \cup failed[s]
Skipped(m) == m \in Malformed \cup skipped \cup lost
InHand(m) == loop \in {"committing", "dispatching"} /\ m = msg

\* A message that has been read is with every storage, up to the one whose turn it is
\* for the message in hand, or it was skipped or lost.
ReadIsKept ==
  /\ \A s \in Range(Storages), m \in 1..(IF reader = "nil" THEN committed ELSE position) :
       Kept(m, s) \/ Skipped(m) \/ InHand(m)
  /\ loop = "dispatching" => \A i \in 1..(next - 1) : Kept(msg, Storages[i])

\* The same with the types and what it rests on: the inductive invariant of
\* ProcessProofs.
ConsumerInv ==
  TypeOK /\ Launched /\ Offsets /\ NoUnexplainedRepeat /\ HandedIsBehind /\ ReadIsKept

\* A message that the group, or without one this process, will not read again has
\* reached a storage unless it cannot be decoded, is in the loop's hands, was in the
\* hands of a process that ended, was dropped with a failed commit, or was refused by
\* that very storage: a storage that fails keeps nothing from the others.
SkippedIsExplained ==
  \A s \in Range(Storages), m \in 1..(IF group THEN committed ELSE position) :
    Kept(m, s) \/ Skipped(m) \/ InHand(m)

\* Stop waits for the dispatch in progress: once it has returned, having closed the
\* reader, no storage is written to any more.  (When Stop comes before Start has
\* made the reader there is nothing to close, and the loop starts all the same.)
QuietAfterStop ==
  stopper = "returned" /\ reader = "closed" => loop \notin {"committing", "dispatching"}

\* Stop returns, wherever Start and the loop are, provided that Start has set
\* c.cancel before Stop looks at it.  (Otherwise a loop whose reader is closed and
\* whose context is not cancelled reads errors for ever, and Stop waits for it.)
StopReturns ==
  stopper = "cancelling" /\ canceller = "set" ~> (stopper = "returned" \/ process = "down")

\* A consumer that is left alone reads the topic to its end, past messages that
\* cannot be decoded, failed commits and failing storages.
TopicIsRead == <>(position = N \/ process = "down" \/ stopper # "idle")
=============================================================================
