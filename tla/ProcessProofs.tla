---------------------------- MODULE ProcessProofs ----------------------------
(***************************************************************************)
(* Machine-checked proofs about modules Consumer and Process, for every    *)
(* topic, list of storages, configuration and number of starts.            *)
(***************************************************************************)
EXTENDS Process, ChannelLemmas, FiniteSetTheorems, TLAPS

-----------------------------------------------------------------------------
(* What a storage gets *)

\* A message goes back if it is not behind the newest one.
LEMMA SendBack ==
  ASSUME NEW q \in Seq(1..N), NEW m \in 1..N
  PROVE  /\ IsFiniteSet(Back(q)) /\ Cardinality(Back(q)) \in Nat
         /\ Newest(q) \in Nat /\ Newest(Append(q, m)) = m
         /\ Cardinality(Back(Append(q, m))) =
              IF m <= Newest(q) THEN Cardinality(Back(q)) + 1 ELSE Cardinality(Back(q))
<1> DEFINE t == Append(q, m)
<1>1. /\ Len(q) \in Nat /\ DOMAIN q = 1..Len(q) /\ DOMAIN t = 1..(Len(q) + 1)
      /\ t[Len(q) + 1] = m /\ Len(t) = Len(q) + 1 /\ t # <<>>
  OBVIOUS
<1>2. \A i \in DOMAIN q : t[i] = q[i]
  BY <1>1
<1>3. IsFiniteSet(Back(q)) /\ Cardinality(Back(q)) \in Nat
  <2>1. IsFiniteSet(1..Len(q)) /\ Back(q) \in SUBSET (1..Len(q))
    BY <1>1, FS_Interval DEF Back
  <2> QED
    BY <2>1, FS_Subset, FS_CardinalityType
<1>4. Newest(q) \in Nat /\ Newest(t) = m
  <2>1. q # <<>> => Len(q) \in DOMAIN q
    BY <1>1
  <2>2. q # <<>> => q[Len(q)] \in Nat
    <3>1. ASSUME NEW S, NEW u \in Seq(S), NEW i \in DOMAIN u
          PROVE  u[i] \in S
      OBVIOUS
    <3>2. \A i \in DOMAIN q : q[i] \in 1..N
      BY <3>1
    <3>3. \A i \in 1..N : i \in Nat
      OBVIOUS
    <3> QED
      BY <2>1, <3>2, <3>3
  <2>3. t[Len(t)] = m
    BY <1>1
  <2> QED
    BY <1>1, <2>2, <2>3 DEF Newest
<1> HIDE DEF t
<1>5. \A i \in DOMAIN q : i \in Back(t) <=> i \in Back(q)
  <2> TAKE i \in DOMAIN q
  <2>1. i \in DOMAIN t /\ t[i] = q[i]
    BY <1>1, <1>2
  <2>2. i > 1 => t[i - 1] = q[i - 1]
    <3>1. i > 1 => i - 1 \in DOMAIN q
      BY <1>1
    <3> QED
      BY <1>2, <3>1
  <2> QED
    BY <2>1, <2>2 DEF Back
<1>6. Len(q) + 1 \in Back(t) <=> m <= Newest(q)
  <2>1. CASE q = <<>>
    BY <1>1, <2>1 DEF Back, Newest
  <2>2. CASE q # <<>>
    <3>1. Len(q) >= 1 /\ Len(q) \in DOMAIN q /\ (Len(q) + 1) - 1 = Len(q) /\ Len(q) + 1 > 1
      BY <1>1, <2>2
    <3>2. t[(Len(q) + 1) - 1] = q[Len(q)] /\ Newest(q) = q[Len(q)]
      BY <1>2, <2>2, <3>1 DEF Newest
    <3>3. Len(q) + 1 \in DOMAIN t
      BY <1>1
    <3> QED
      BY <1>1, <3>1, <3>2, <3>3 DEF Back
  <2> QED
    BY <2>1, <2>2
<1>7. Back(t) \subseteq DOMAIN q \cup {Len(q) + 1} /\ Back(q) \subseteq DOMAIN q
      /\ Len(q) + 1 \notin DOMAIN q
  BY <1>1 DEF Back
<1>8. Back(t) = IF m <= Newest(q) THEN Back(q) \cup {Len(q) + 1} ELSE Back(q)
  <2>1. CASE m <= Newest(q)
    BY <1>5, <1>6, <1>7, <2>1
  <2>2. CASE ~(m <= Newest(q))
    <3>1. Back(t) \subseteq DOMAIN q
      BY <1>6, <1>7, <2>2
    <3>2. \A i : i \in Back(t) <=> i \in Back(q)
      BY <1>5, <1>7, <3>1
    <3>3. Back(t) = Back(q)
      BY <3>2, <1>7, <3>1
    <3> QED
      BY <2>2, <3>3
  <2> QED
    BY <2>1, <2>2
<1>9. Cardinality(Back(q) \cup {Len(q) + 1}) = Cardinality(Back(q)) + 1
  BY <1>3, <1>7, FS_AddElement
<1> QED
  BY <1>3, <1>4, <1>8, <1>9 DEF t

-----------------------------------------------------------------------------
(* The consumer *)

LEMMA StoragesListed ==
  /\ Len(Storages) \in Nat /\ Len(Storages) >= 1 /\ DOMAIN Storages = 1..Len(Storages)
  /\ \A i \in DOMAIN Storages : Storages[i] \in Range(Storages)
  /\ \A s \in Range(Storages) : \E i \in DOMAIN Storages : Storages[i] = s
  /\ \A i, j \in DOMAIN Storages : Storages[i] = Storages[j] => i = j
<1>1. Len(Storages) \in Nat /\ DOMAIN Storages = 1..Len(Storages) /\ Len(Storages) # 0
  BY ConsumerAssumption
<1> QED
  BY <1>1, ConsumerAssumption DEF Range, IsInjective

LEMMA ConsumerInit == Init => ConsumerInv
<1> SUFFICES ASSUME Init PROVE ConsumerInv
  OBVIOUS
<1>1. \A q : q = <<>> => q \in Seq(1..N) /\ Newest(q) = 0 /\ Back(q) = {} /\ Range(q) = {}
  BY DEF Newest, Back, Range
<1>2. N \in Nat /\ 1 \in 1..MaxRuns /\ 1 \in 1..Len(Storages) /\ 0 \in 0..N
  BY ConsumerAssumption, StoragesListed
<1>3. TypeOK
  BY <1>1, <1>2 DEF Init, TypeOK
<1>4. \A s \in Range(Storages) : handed[s] = <<>>
  BY DEF Init
<1>5. NoUnexplainedRepeat
  <2>1. Cardinality({}) = 0 /\ runs = 1
    BY FS_EmptySet DEF Init
  <2>2. \A s \in Range(Storages) : Cardinality(Back(handed[s])) = 0
    <3>1. \A s \in Range(Storages) : Back(handed[s]) = {}
      BY <1>1, <1>4
    <3> QED
      BY <2>1, <3>1
  <2> QED
    BY <2>1, <2>2 DEF NoUnexplainedRepeat
<1>6. HandedIsBehind
  BY <1>1, <1>4, StoragesListed DEF Init, HandedIsBehind, ToCome
<1>7. Launched /\ Offsets /\ ReadIsKept
  <2>1. 1..0 = {}
    OBVIOUS
  <2> QED
    BY <2>1 DEF Init, Launched, Offsets, ReadIsKept
<1> QED
  BY <1>3, <1>5, <1>6, <1>7 DEF ConsumerInv

\* Start, Stop, and errors of ReadMessage, which touch no message
LEMMA TurnInv ==
  ASSUME ConsumerInv,
         \/ process = "up" /\ (SetCancel \/ TopicReady \/ LaunchLoop \/ ReadFails \/ Signal \/ Stop)
         \/ UNCHANGED vars
  PROVE  ConsumerInv'
<1>1. /\ UNCHANGED <<group, process, runs, msg, next, position, committed, handed, failed,
                     skipped, lost>>
      /\ (reader' = "nil") <=> (reader = "nil")
      /\ loop' = loop \/ {loop, loop'} \cap {"committing", "dispatching"} = {}
  BY DEF SetCancel, TopicReady, LaunchLoop, ReadFails, Signal, Stop, CallCancel, CloseReader, Wait,
         StopEnds, StartUnchanged, StopUnchanged, topicVars, resultVars, loopVars, startVars, vars,
         ConsumerInv, Launched
<1>2. TypeOK /\ Launched /\ Offsets /\ NoUnexplainedRepeat /\ HandedIsBehind /\ ReadIsKept
  BY DEF ConsumerInv
<1>3. TypeOK'
  <2>1. /\ starter' \in {"new", "waiting", "topic", "reader", "returned"}
        /\ canceller' \in {"nil", "set", "called"} /\ reader' \in {"nil", "open", "closed"}
        /\ loop' \in {"absent", "reading", "committing", "dispatching", "exited"}
        /\ stopper' \in {"idle", "cancelling", "closing", "waiting", "returned"}
    BY <1>2 DEF SetCancel, TopicReady, LaunchLoop, ReadFails, Signal, Stop, CallCancel, CloseReader,
       Wait, StopEnds, StartUnchanged, StopUnchanged, loopVars, startVars, vars, TypeOK
  <2> QED
    BY <1>1, <1>2, <2>1 DEF TypeOK
<1>4. Launched'
  BY <1>1, <1>2 DEF SetCancel, TopicReady, LaunchLoop, ReadFails, Signal, Stop, CallCancel,
     CloseReader, Wait, StopEnds, StartUnchanged, StopUnchanged, loopVars, startVars, vars, Launched
<1>5. Offsets' /\ NoUnexplainedRepeat'
  BY <1>1, <1>2 DEF Offsets, NoUnexplainedRepeat
<1>6. \A i : ToCome(i)' <=> ToCome(i)
  BY <1>1 DEF ToCome
<1>7. HandedIsBehind'
  BY <1>1, <1>2, <1>6 DEF HandedIsBehind
<1>8. ReadIsKept'
  BY <1>1, <1>2 DEF ReadIsKept, Kept, Skipped, InHand
<1> QED
  BY <1>3, <1>4, <1>5, <1>7, <1>8 DEF ConsumerInv

LEMMA NewReaderInv ==
  ASSUME ConsumerInv, process = "up", NewReader
  PROVE  ConsumerInv'
<1>1. /\ starter = "topic" /\ starter' = "reader" /\ reader' = "open" /\ position' = committed
      /\ UNCHANGED <<group, process, runs, canceller, loop, msg, next, stopper, committed,
                     handed, failed, skipped, lost>>
  BY DEF NewReader, loopVars, resultVars
<1>2. TypeOK /\ Launched /\ Offsets /\ NoUnexplainedRepeat /\ HandedIsBehind /\ ReadIsKept
  BY DEF ConsumerInv
<1>3. reader = "nil" /\ loop = "absent" /\ position = 0 /\ committed \in Nat
  BY <1>1, <1>2, ConsumerAssumption DEF Launched, Offsets, TypeOK
<1>4. TypeOK' /\ Launched' /\ Offsets' /\ NoUnexplainedRepeat'
  BY <1>1, <1>2, <1>3 DEF TypeOK, Launched, Offsets, NoUnexplainedRepeat
<1>5. HandedIsBehind'
  BY <1>1, <1>2, <1>3 DEF HandedIsBehind, ToCome, Offsets
<1>6. ReadIsKept'
  BY <1>1, <1>2, <1>3 DEF ReadIsKept, Kept, Skipped, InHand
<1> QED
  BY <1>4, <1>5, <1>6 DEF ConsumerInv

\* The newest message of each storage is a number, and so is the count of repeats.
LEMMA Numbers ==
  ASSUME TypeOK
  PROVE  /\ N \in Nat /\ runs \in Nat /\ position \in Nat /\ committed \in Nat /\ msg \in Nat
         /\ next \in Nat /\ next \in DOMAIN Storages
         /\ \A i \in DOMAIN Storages :
              /\ handed[Storages[i]] \in Seq(1..N)
              /\ Newest(handed[Storages[i]]) \in Nat
              /\ Cardinality(Back(handed[Storages[i]])) \in Nat
<1>1. /\ N \in Nat /\ runs \in Nat /\ position \in Nat /\ committed \in Nat /\ msg \in Nat
      /\ next \in Nat /\ next \in DOMAIN Storages
  BY ConsumerAssumption, StoragesListed DEF TypeOK
<1>2. ASSUME NEW q \in Seq(1..N)
      PROVE  Newest(q) \in Nat /\ Cardinality(Back(q)) \in Nat
  <2>1. CASE N = 0
    <3>1. \A S : S = {} => \A t \in Seq(S) : t = <<>>
      OBVIOUS
    <3>2. q = <<>>
      <4>1. 1..N = {}
        BY <2>1
      <4> QED
        BY <3>1, <4>1
    <3>3. Newest(q) = 0 /\ Back(q) = {}
      BY <3>2 DEF Newest, Back
    <3> QED
      BY <3>3, FS_EmptySet
  <2>2. CASE N # 0
    <3>1. 1 \in 1..N
      BY <1>1, <2>2
    <3> QED
      BY <3>1, SendBack
  <2> QED
    BY <2>1, <2>2
<1>3. \A i \in DOMAIN Storages : handed[Storages[i]] \in Seq(1..N)
  BY StoragesListed DEF TypeOK
<1> QED
  BY <1>1, <1>2, <1>3

LEMMA FetchInv ==
  ASSUME ConsumerInv, process = "up", Fetch
  PROVE  ConsumerInv'
<1>1. /\ loop = "reading" /\ reader = "open" /\ position < N
      /\ position' = position + 1 /\ msg' = position + 1 /\ loop' = "committing"
      /\ UNCHANGED <<group, process, runs, starter, canceller, reader, next, stopper, committed,
                     handed, failed, skipped, lost>>
  BY DEF Fetch, startVars, resultVars
<1>2. TypeOK /\ Launched /\ Offsets /\ NoUnexplainedRepeat /\ HandedIsBehind /\ ReadIsKept
  BY DEF ConsumerInv
<1>3. N \in Nat /\ position \in Nat /\ committed \in Nat
      /\ \A i \in DOMAIN Storages : Newest(handed[Storages[i]]) \in Nat
  BY <1>2, Numbers
<1>4. TypeOK'
  <2>1. position + 1 \in 0..N
    BY <1>1, <1>3
  <2> QED
    BY <1>1, <1>2, <2>1 DEF TypeOK
<1>5. Launched' /\ NoUnexplainedRepeat'
  BY <1>1, <1>2, <1>3 DEF Launched, NoUnexplainedRepeat
<1>6. Offsets'
  BY <1>1, <1>2, <1>3 DEF Offsets
<1>7. HandedIsBehind'
  <2>1. \A i : ~ToCome(i) /\ ToCome(i)'
    BY <1>1 DEF ToCome
  <2>2. committed <= position
    BY <1>1, <1>2 DEF Offsets
  <2> QED
    BY <1>1, <1>2, <1>3, <2>1, <2>2 DEF HandedIsBehind
<1>8. ReadIsKept'
  BY <1>1, <1>2, <1>3 DEF ReadIsKept, Kept, Skipped, InHand
<1> QED
  BY <1>4, <1>5, <1>6, <1>7, <1>8 DEF ConsumerInv

LEMMA CommitInv ==
  ASSUME ConsumerInv, process = "up", Commit
  PROVE  ConsumerInv'
<1>1. /\ loop = "committing" /\ committed' = (IF group THEN msg ELSE committed) /\ next' = 1
      /\ loop' = IF msg \in Malformed THEN "reading" ELSE "dispatching"
      /\ UNCHANGED <<group, process, runs, starter, canceller, reader, msg, stopper, position,
                     handed, failed, skipped, lost>>
  BY DEF Commit, Return, Offset, startVars, resultVars
<1>2. TypeOK /\ Launched /\ Offsets /\ NoUnexplainedRepeat /\ HandedIsBehind /\ ReadIsKept
  BY DEF ConsumerInv
<1>3. N \in Nat /\ position \in Nat /\ committed \in Nat /\ msg \in Nat /\ msg = position
      /\ reader # "nil" /\ msg # 0
      /\ \A i \in DOMAIN Storages : Newest(handed[Storages[i]]) \in Nat
  BY <1>1, <1>2, Numbers DEF Launched
<1>4. TypeOK'
  BY <1>1, <1>2, StoragesListed DEF TypeOK
<1>5. Launched' /\ NoUnexplainedRepeat'
  BY <1>1, <1>2 DEF Launched, NoUnexplainedRepeat
<1>6. Offsets'
  BY <1>1, <1>2, <1>3 DEF Offsets
<1>7. HandedIsBehind'
  <2>1. group => committed < msg
    BY <1>1, <1>2 DEF Offsets
  <2>2. \A i : ToCome(i)
    BY <1>1 DEF ToCome
  <2> QED
    BY <1>1, <1>2, <1>3, <2>1, <2>2 DEF HandedIsBehind
<1>8. ReadIsKept'
  <2>1. ASSUME NEW s \in Range(Storages), NEW m \in 1..position
        PROVE  (Kept(m, s) \/ Skipped(m) \/ InHand(m))'
    <3>1. Kept(m, s) \/ Skipped(m) \/ InHand(m)
      BY <1>2, <1>3 DEF ReadIsKept
    <3>2. Kept(m, s)' <=> Kept(m, s)
      BY <1>1 DEF Kept
    <3>3. Skipped(m)' <=> Skipped(m)
      BY <1>1 DEF Skipped
    <3>4. InHand(m) => InHand(m)' \/ Skipped(m)
      BY <1>1 DEF InHand, Skipped
    <3> QED
      BY <3>1, <3>2, <3>3, <3>4
  <2>2. \A i \in 1..(next' - 1) : FALSE
    BY <1>1
  <2> QED
    BY <1>1, <1>3, <2>1, <2>2 DEF ReadIsKept
<1> QED
  BY <1>4, <1>5, <1>6, <1>7, <1>8 DEF ConsumerInv

LEMMA CommitFailsInv ==
  ASSUME ConsumerInv, process = "up", CommitFails
  PROVE  ConsumerInv'
<1>1. /\ loop = "committing" /\ group /\ committed' \in {committed, msg}
      /\ skipped' = skipped \cup {msg} /\ loop' \in {"exited", "reading"}
      /\ UNCHANGED <<group, process, runs, starter, canceller, reader, msg, next, stopper, position,
                     handed, failed, lost>>
  BY DEF CommitFails, startVars
<1>2. TypeOK /\ Launched /\ Offsets /\ NoUnexplainedRepeat /\ HandedIsBehind /\ ReadIsKept
  BY DEF ConsumerInv
<1>3. N \in Nat /\ position \in Nat /\ committed \in Nat /\ msg \in Nat /\ msg = position
      /\ reader # "nil" /\ msg # 0 /\ committed < msg
      /\ \A i \in DOMAIN Storages : Newest(handed[Storages[i]]) \in Nat
  BY <1>1, <1>2, Numbers DEF Launched, Offsets
<1>4. TypeOK'
  <2>1. msg \in 1..N
    BY <1>2, <1>3 DEF TypeOK
  <2> QED
    BY <1>1, <1>2, <2>1 DEF TypeOK
<1>5. Launched' /\ NoUnexplainedRepeat'
  BY <1>1, <1>2 DEF Launched, NoUnexplainedRepeat
<1>6. Offsets'
  BY <1>1, <1>2, <1>3 DEF Offsets
<1>7. HandedIsBehind'
  <2>1. \A i : ~ToCome(i)'
    BY <1>1 DEF ToCome
  <2> QED
    BY <1>1, <1>2, <1>3, <2>1 DEF HandedIsBehind
<1>8. ReadIsKept'
  <2>1. ASSUME NEW s \in Range(Storages), NEW m \in 1..position
        PROVE  (Kept(m, s) \/ Skipped(m))'
    <3>1. Kept(m, s) \/ Skipped(m) \/ m = msg
      BY <1>2, <1>3 DEF ReadIsKept, InHand
    <3> QED
      BY <1>1, <3>1 DEF Kept, Skipped
  <2> QED
    BY <1>1, <1>3, <2>1 DEF ReadIsKept
<1> QED
  BY <1>4, <1>5, <1>6, <1>7, <1>8 DEF ConsumerInv

\* The message goes to the storage whose turn it is, and to no other.
LEMMA WriteInv ==
  ASSUME ConsumerInv, NEW ok \in BOOLEAN, Write(ok)
  PROVE  ConsumerInv'
<1>0. PICK s : s = Storages[next]
  OBVIOUS
<1>1. /\ loop = "dispatching"
      /\ \/ /\ ok /\ handed' = [handed EXCEPT ![s] = Append(handed[s], msg)] /\ failed' = failed
         \/ /\ ~ok /\ failed' = [failed EXCEPT ![s] = failed[s] \cup {msg}] /\ handed' = handed
      /\ \/ next < Len(Storages) /\ next' = next + 1 /\ loop' = loop
         \/ ~(next < Len(Storages)) /\ loop' = "reading" /\ next' = next
      /\ UNCHANGED <<group, process, runs, starter, canceller, reader, msg, stopper, position,
                     committed, skipped, lost>>
  BY <1>0 DEF Write, Dispatch, startVars, topicVars
<1>2. TypeOK /\ Launched /\ Offsets /\ NoUnexplainedRepeat /\ HandedIsBehind /\ ReadIsKept
  BY DEF ConsumerInv
<1>3. /\ N \in Nat /\ runs \in Nat /\ position \in Nat /\ committed \in Nat /\ next \in Nat
      /\ next \in DOMAIN Storages
      /\ msg = position /\ reader # "nil" /\ msg # 0 /\ msg \in 1..N
      /\ process # "down" /\ (group => committed = msg)
      /\ \A i \in DOMAIN Storages :
           /\ handed[Storages[i]] \in Seq(1..N) /\ Newest(handed[Storages[i]]) \in Nat
           /\ Cardinality(Back(handed[Storages[i]])) \in Nat
  <2>1. msg = position /\ reader # "nil" /\ msg # 0 /\ process # "down" /\ (group => committed = msg)
    BY <1>1, <1>2 DEF Launched, Offsets
  <2>2. msg \in 1..N
    BY <1>2, <2>1, ConsumerAssumption DEF TypeOK
  <2> QED
    BY <1>2, <2>1, <2>2, Numbers
<1>4. /\ Len(Storages) \in Nat /\ DOMAIN Storages = 1..Len(Storages) /\ s \in Range(Storages)
      /\ \A i \in DOMAIN Storages : Storages[i] \in Range(Storages) /\ (Storages[i] = s => i = next)
      /\ \A x \in Range(Storages) : \E i \in DOMAIN Storages : Storages[i] = x
  BY <1>0, <1>3, StoragesListed
<1>5. /\ handed[s] \in Seq(1..N) /\ failed[s] \subseteq 1..N
      /\ handed \in [Range(Storages) -> Seq(1..N)] /\ failed \in [Range(Storages) -> SUBSET (1..N)]
  BY <1>0, <1>2, <1>3, <1>4 DEF TypeOK
<1>6. Append(handed[s], msg) \in Seq(1..N)
      /\ Range(Append(handed[s], msg)) = Range(handed[s]) \cup {msg}
  BY <1>3, <1>5, SendContents
<1>7. /\ handed' \in [Range(Storages) -> Seq(1..N)] /\ failed' \in [Range(Storages) -> SUBSET (1..N)]
      /\ \A x \in Range(Storages) : x # s => handed'[x] = handed[x] /\ failed'[x] = failed[x]
      /\ handed'[s] = IF ok THEN Append(handed[s], msg) ELSE handed[s]
  <2> DEFINE S == Seq(1..N)
  <2>1. handed \in [Range(Storages) -> S] /\ Append(handed[s], msg) \in S
    BY <1>5, <1>6
  <2>2. failed[s] \cup {msg} \in SUBSET (1..N)
    BY <1>3, <1>5
  <2> HIDE DEF S
  <2>3. CASE ok
    <3>1. handed' = [handed EXCEPT ![s] = Append(handed[s], msg)] /\ failed' = failed
      BY <1>1, <2>3
    <3>2. handed' \in [Range(Storages) -> S] /\ handed'[s] = Append(handed[s], msg)
          /\ \A x \in Range(Storages) : x # s => handed'[x] = handed[x]
      BY <1>4, <2>1, <3>1
    <3> QED
      BY <1>5, <2>3, <3>1, <3>2 DEF S
  <2>4. CASE ~ok
    <3>1. failed' = [failed EXCEPT ![s] = failed[s] \cup {msg}] /\ handed' = handed
      BY <1>1, <2>4
    <3> QED
      BY <1>4, <1>5, <2>2, <2>4, <3>1
  <2> QED
    BY <2>3, <2>4
<1>8. TypeOK'
  <2>1. next' \in 1..Len(Storages)
    BY <1>1, <1>3, <1>4
  <2> QED
    BY <1>1, <1>2, <1>7, <2>1 DEF TypeOK
<1>9. Launched' /\ Offsets'
  BY <1>1, <1>2, <1>3 DEF Launched, Offsets
<1>10. ToCome(next) /\ \A i \in DOMAIN Storages : ToCome(i)' => ToCome(i) /\ i # next
  <2>1. ToCome(next)
    BY <1>1, <1>3 DEF ToCome
  <2>2. ASSUME NEW i \in DOMAIN Storages, ToCome(i)'
        PROVE  ToCome(i) /\ i # next
    <3>1. loop' = "dispatching" /\ i >= next'
      BY <1>1, <2>2 DEF ToCome
    <3>2. next' = next + 1 /\ i \in Nat
      BY <1>1, <1>4, <3>1
    <3> QED
      BY <1>1, <1>3, <3>1, <3>2 DEF ToCome
  <2> QED
    BY <2>1, <2>2
<1>11. /\ Cardinality(Back(handed'[s])) <= IF group THEN 0 ELSE runs - 1
       /\ Newest(handed'[s]) <= position
            \/ (~group /\ Cardinality(Back(handed'[s])) + 1 < runs)
  <2>1. /\ Cardinality(Back(handed[s])) \in Nat /\ Newest(handed[s]) \in Nat
        /\ Cardinality(Back(handed[s])) <= IF group THEN 0 ELSE runs - 1
        /\ IF group THEN Newest(handed[s]) <= position - 1
           ELSE Newest(handed[s]) <= position - 1 \/ Cardinality(Back(handed[s])) + 1 < runs
    BY <1>0, <1>2, <1>3, <1>4, <1>10 DEF NoUnexplainedRepeat, HandedIsBehind
  <2>2. CASE ok
    <3>1. /\ Newest(handed'[s]) = msg
          /\ Cardinality(Back(handed'[s])) =
               IF msg <= Newest(handed[s]) THEN Cardinality(Back(handed[s])) + 1
               ELSE Cardinality(Back(handed[s]))
      BY <1>3, <1>5, <1>7, <2>2, SendBack
    <3> QED
      BY <1>3, <2>1, <3>1
  <2>3. CASE ~ok
    BY <1>3, <1>7, <2>1, <2>3
  <2> QED
    BY <2>2, <2>3
<1>12. NoUnexplainedRepeat'
  BY <1>1, <1>2, <1>7, <1>11 DEF NoUnexplainedRepeat
<1>13. HandedIsBehind'
  <2> SUFFICES ASSUME NEW i \in DOMAIN Storages
               PROVE  LET last == Newest(handed'[Storages[i]])
                          behind == last <= IF ToCome(i)' THEN position - 1 ELSE position
                      IN IF group THEN last <= committed /\ (ToCome(i)' => behind)
                         ELSE \/ process = "down" \/ behind
                              \/ Cardinality(Back(handed'[Storages[i]])) + 1 < runs
    BY <1>1 DEF HandedIsBehind
  <2>1. CASE i = next
    BY <1>0, <1>3, <1>10, <1>11, <2>1
  <2>2. CASE i # next
    <3>1. handed'[Storages[i]] = handed[Storages[i]]
      BY <1>4, <1>7, <2>2
    <3>2. LET last == Newest(handed[Storages[i]])
              behind == last <= IF ToCome(i) THEN position - 1 ELSE position
          IN IF group THEN last <= committed /\ (ToCome(i) => behind)
             ELSE \/ process = "down" \/ behind
                  \/ Cardinality(Back(handed[Storages[i]])) + 1 < runs
      BY <1>2 DEF HandedIsBehind
    <3>3. Newest(handed[Storages[i]]) \in Nat /\ (ToCome(i)' => ToCome(i))
      BY <1>3, <1>10
    <3> QED
      BY <1>3, <3>1, <3>2, <3>3
  <2> QED
    BY <2>1, <2>2
<1>14. ReadIsKept'
  <2>1. \A x \in Range(Storages), m \in 1..N : Kept(m, x) => Kept(m, x)'
    <3>1. \A x \in Range(Storages) : Range(handed[x]) \subseteq Range(handed'[x])
      BY <1>6, <1>7
    <3>2. \A x \in Range(Storages) : failed[x] \subseteq failed'[x]
      BY <1>1, <1>2, <1>4, <1>7 DEF TypeOK
    <3> QED
      BY <3>1, <3>2 DEF Kept
  <2>2. Kept(msg, s)'
    <3>1. CASE ok
      <4>1. msg \in Range(handed'[s])
        BY <1>6, <1>7, <3>1
      <4> QED
        BY <1>1, <4>1 DEF Kept
    <3>2. CASE ~ok
      BY <1>1, <1>2, <1>4, <3>2 DEF Kept, TypeOK
    <3> QED
      BY <3>1, <3>2
  <2>3. \A i \in 1..(next - 1) : Kept(msg, Storages[i])'
    <3>1. \A i \in 1..(next - 1) : i \in DOMAIN Storages /\ Kept(msg, Storages[i])
      BY <1>1, <1>2, <1>3, <1>4 DEF ReadIsKept
    <3>2. \A i \in 1..(next - 1) : Kept(msg, Storages[i])'
      BY <1>1, <1>3, <1>4, <2>1, <3>1
    <3> QED
      BY <3>2
  <2>4. \A i \in 1..next : Kept(msg, Storages[i])'
    <3>1. \A i \in 1..next : i = next \/ i \in 1..(next - 1)
      BY <1>3
    <3> QED
      BY <1>0, <1>1, <2>2, <2>3, <3>1
  <2>5. ASSUME NEW x \in Range(Storages), NEW m \in 1..position
        PROVE  (Kept(m, x) \/ Skipped(m) \/ InHand(m))'
    <3>1. Kept(m, x) \/ Skipped(m) \/ m = msg
      BY <1>2, <1>3 DEF ReadIsKept, InHand
    <3>2. m \in 1..N
      BY <1>2, <1>3 DEF TypeOK
    <3>3. Skipped(m) => Skipped(m)'
      BY <1>1 DEF Skipped
    <3>4. CASE m = msg /\ loop' = loop
      BY <1>1, <3>4 DEF InHand
    <3>5. CASE m = msg /\ loop' # loop
      <4>1. next = Len(Storages)
        <5>1. ~(next < Len(Storages)) /\ next <= Len(Storages)
          BY <1>1, <1>3, <1>4, <3>5
        <5> QED
          BY <1>3, <1>4, <5>1
      <4>2. PICK i \in DOMAIN Storages : Storages[i] = x
        BY <1>4
      <4> QED
        <5>1. i \in 1..next
          BY <1>4, <4>1
        <5>2. Kept(msg, Storages[i])'
          BY <2>4, <5>1
        <5> QED
          BY <1>1, <3>5, <4>2, <5>2
    <3> QED
      BY <2>1, <3>1, <3>2, <3>3, <3>4, <3>5
  <2>6. loop' = "dispatching" => \A i \in 1..(next' - 1) : Kept(msg, Storages[i])'
    <3>1. loop' = "dispatching" => next' - 1 = next
      BY <1>1, <1>3
    <3> QED
      BY <2>4, <3>1
  <2>7. ReadIsKept' <=>
          /\ \A x \in Range(Storages), m \in 1..(IF reader = "nil" THEN committed ELSE position) :
               (Kept(m, x) \/ Skipped(m) \/ InHand(m))'
          /\ loop' = "dispatching" => \A i \in 1..(next' - 1) : Kept(msg, Storages[i])'
    BY <1>1 DEF ReadIsKept, Kept, Skipped, InHand
  <2> QED
    BY <1>3, <2>5, <2>6, <2>7
<1> QED
  BY <1>8, <1>9, <1>12, <1>13, <1>14 DEF ConsumerInv

\* The next process finds what the group has committed.
LEMMA EndInv ==
  ASSUME ConsumerInv, End
  PROVE  ConsumerInv'
<1>1. /\ process' = "down"
      /\ lost' = (IF loop = "dispatching" THEN lost \cup {msg} ELSE lost)
      /\ starter' = "new" /\ canceller' = "nil" /\ reader' = "nil"
      /\ loop' = "absent" /\ msg' = 0 /\ next' = 1 /\ stopper' = "idle" /\ position' = 0
      /\ UNCHANGED <<group, runs, committed, handed, failed, skipped>>
  BY DEF End
<1>2. TypeOK /\ Launched /\ Offsets /\ NoUnexplainedRepeat /\ HandedIsBehind /\ ReadIsKept
  BY DEF ConsumerInv
<1>3. N \in Nat /\ position \in Nat /\ committed \in Nat /\ 0 \in 0..N /\ 1 \in 1..Len(Storages)
  BY <1>2, Numbers, StoragesListed
<1>4. TypeOK'
  <2>1. loop = "dispatching" => msg \in 1..N
    BY <1>2, <1>3 DEF Launched, TypeOK
  <2> QED
    BY <1>1, <1>2, <1>3, <2>1 DEF TypeOK
<1>5. Launched' /\ Offsets' /\ NoUnexplainedRepeat'
  BY <1>1, <1>2 DEF Launched, Offsets, NoUnexplainedRepeat
<1>6. HandedIsBehind'
  BY <1>1, <1>2 DEF HandedIsBehind, ToCome
<1>7. ReadIsKept'
  <2>1. ASSUME NEW s \in Range(Storages), NEW m \in 1..committed
        PROVE  (Kept(m, s) \/ Skipped(m))'
    <3>1. m \in 1..(IF reader = "nil" THEN committed ELSE position)
      BY <1>2, <1>3 DEF Offsets
    <3>2. Kept(m, s) \/ Skipped(m) \/ InHand(m)
      BY <1>2, <3>1 DEF ReadIsKept
    <3>3. InHand(m) => loop = "dispatching" /\ m = msg
      BY <1>2, <1>3 DEF InHand, Offsets
    <3> QED
      BY <1>1, <3>2, <3>3 DEF Kept, Skipped
  <2> QED
    BY <1>1, <2>1 DEF ReadIsKept
<1> QED
  BY <1>4, <1>5, <1>6, <1>7 DEF ConsumerInv

LEMMA RestartInv ==
  ASSUME ConsumerInv, Restart
  PROVE  ConsumerInv'
<1>1. /\ process = "down" /\ runs < MaxRuns /\ process' = "up" /\ runs' = runs + 1
      /\ UNCHANGED <<group, starter, canceller, reader, loop, msg, next, stopper, position,
                     committed, handed, failed, skipped, lost>>
  BY DEF Restart, startVars, loopVars, topicVars, resultVars
<1>2. TypeOK /\ Launched /\ Offsets /\ NoUnexplainedRepeat /\ HandedIsBehind /\ ReadIsKept
  BY DEF ConsumerInv
<1>3. runs \in Nat /\ \A i \in DOMAIN Storages : Cardinality(Back(handed[Storages[i]])) \in Nat
  BY <1>2, Numbers
<1>4. \A s \in Range(Storages) : Cardinality(Back(handed[s])) \in Nat
  BY <1>3, StoragesListed
<1>5. TypeOK'
  <2>1. runs + 1 \in 1..MaxRuns
    BY <1>1, <1>3, ConsumerAssumption
  <2> QED
    BY <1>1, <1>2, <2>1 DEF TypeOK
<1>6. Launched' /\ Offsets' /\ ReadIsKept'
  BY <1>1, <1>2 DEF Launched, Offsets, ReadIsKept, Kept, Skipped, InHand
<1>7. NoUnexplainedRepeat'
  BY <1>1, <1>2, <1>3, <1>4 DEF NoUnexplainedRepeat
<1>8. HandedIsBehind'
  <2>1. \A i \in DOMAIN Storages : ~group => Cardinality(Back(handed[Storages[i]])) + 1 < runs + 1
    BY <1>2, <1>3, StoragesListed DEF NoUnexplainedRepeat
  <2> QED
    BY <1>1, <1>2, <2>1 DEF HandedIsBehind, ToCome
<1> QED
  BY <1>5, <1>6, <1>7, <1>8 DEF ConsumerInv

LEMMA ConsumerNext == ConsumerInv /\ [Next]_vars => ConsumerInv'
BY TurnInv, NewReaderInv, FetchInv, CommitInv, CommitFailsInv, WriteInv, EndInv, RestartInv
   DEF Next, Start, Loop, Ended

LEMMA ReadIsExplained == ConsumerInv => SkippedIsExplained
<1> SUFFICES ASSUME ConsumerInv, NEW s \in Range(Storages),
                    NEW m \in 1..(IF group THEN committed ELSE position)
             PROVE  Kept(m, s) \/ Skipped(m) \/ InHand(m)
  BY DEF SkippedIsExplained
<1>1. TypeOK /\ Offsets /\ ReadIsKept
  BY DEF ConsumerInv
<1>2. m \in 1..(IF reader = "nil" THEN committed ELSE position)
  BY <1>1, Numbers DEF Offsets
<1> QED
  BY <1>1, <1>2 DEF ReadIsKept

LEMMA QuietNext == ConsumerInv /\ QuietAfterStop /\ [Next]_vars => QuietAfterStop'
<1> SUFFICES ASSUME ConsumerInv, QuietAfterStop, [Next]_vars
             PROVE  QuietAfterStop'
  OBVIOUS
<1>1. Launched
  BY DEF ConsumerInv
<1>2. CASE process = "up" /\ (Start \/ Loop)
  BY <1>1, <1>2 DEF QuietAfterStop, Launched, Start, SetCancel, TopicReady, NewReader, LaunchLoop,
     StartUnchanged, Loop, Fetch, Commit, Return, CommitFails, ReadFails, Write, Dispatch, startVars,
     loopVars
<1>3. CASE process = "up" /\ (Signal \/ Stop)
  BY <1>1, <1>3 DEF QuietAfterStop, Signal, Stop, CallCancel, CloseReader, Wait, StopEnds,
     StopUnchanged, loopVars
<1>4. CASE End \/ Restart \/ UNCHANGED vars
  BY <1>1, <1>4 DEF QuietAfterStop, End, Restart, vars, startVars, loopVars
<1> QED
  BY <1>2, <1>3, <1>4 DEF Next, Ended

\* The consumer's invariant: no storage gets a message twice or out of order, over any
\* number of crashes and restarts; without a group each restart may begin again once.
THEOREM ConsumerInvariance == Spec => []ConsumerInv
<1> QED
  BY ConsumerInit, ConsumerNext, PTL DEF Spec

\* A message that will not be read again has reached every storage that did not refuse
\* it, unless it cannot be decoded, is in hand, or was skipped or lost.
THEOREM LossesAreExplained == Spec => []SkippedIsExplained
<1> QED
  BY ConsumerInit, ConsumerNext, ReadIsExplained, PTL DEF Spec

\* Once Stop has returned, having closed the reader, no storage is written to.
THEOREM StopIsQuiet == Spec => []QuietAfterStop
<1>1. Init => QuietAfterStop
  BY DEF Init, QuietAfterStop
<1> QED
  BY <1>1, ConsumerInit, ConsumerNext, QuietNext, PTL DEF Spec

-----------------------------------------------------------------------------
(* The servers' points *)

SameLine(p, q) == p.series = q.series /\ p.at = q.at

MergedInto(pts, line) ==
  LET old == {p \in pts : SameLine(p, line)}
      kept == {p.policy : p \in old} \ {NoEvent}
  IN (pts \ old) \cup
       {[line EXCEPT !.policy = IF @ = NoEvent /\ kept # {} THEN CHOOSE e \in kept : TRUE ELSE @]}

Line(e) ==
  [series |-> Series[e], at |-> Stamp[e], event |-> e, policy |-> IF e \in Policy THEN e ELSE NoEvent]

\* What the server holds of the events: points of theirs, one for each series and
\* instant, with policy fields that are explained.
Sound(pts) ==
  /\ \A p \in pts : /\ p.event \in Messages /\ p.policy \in Policy \cup {NoEvent}
                    /\ p.series = Series[p.event] /\ p.at = Stamp[p.event]
  /\ \A p, q \in pts : SameLine(p, q) => p = q
  /\ \A p \in pts : p.policy \in {p.event, NoEvent} \/
       (Series[p.policy] = p.series /\ Stamp[p.policy] = p.at /\ p.event \notin Policy)

Has(pts, e) == \E p \in pts : p.series = Series[e] /\ p.at = Stamp[e]

LEMMA Stamps ==
  /\ \A e \in Messages : Stamp[e] \in Nat /\ Stamp[e] # 0
  /\ Policy \subseteq Messages /\ NoEvent \notin Messages /\ Bucket \in BOOLEAN
BY ProcessAssumption DEF V1!DatabaseParameters, V1!ServerParameters, V2!BucketParameters

\* A line that is merged is stored, and what was stored stays so.
LEMMA MergeIsSound ==
  ASSUME NEW pts, Sound(pts), NEW e \in Messages
  PROVE  /\ Sound(MergedInto(pts, Line(e)))
         /\ Has(MergedInto(pts, Line(e)), e)
         /\ \A m : Has(pts, m) => Has(MergedInto(pts, Line(e)), m)
<1> DEFINE old == {p \in pts : SameLine(p, Line(e))}
           kept == {p.policy : p \in old} \ {NoEvent}
           policy == IF Line(e).policy = NoEvent /\ kept # {} THEN CHOOSE m \in kept : TRUE
                     ELSE Line(e).policy
           new == [Line(e) EXCEPT !.policy = policy]
<1>1. /\ new.series = Series[e] /\ new.at = Stamp[e] /\ new.event = e /\ new.policy = policy
      /\ Line(e).series = Series[e] /\ Line(e).at = Stamp[e]
      /\ Line(e).policy = IF e \in Policy THEN e ELSE NoEvent
  BY DEF Line
<1>2. \A p : SameLine(p, Line(e)) <=> p.series = Series[e] /\ p.at = Stamp[e]
  BY <1>1 DEF SameLine
<1>3. MergedInto(pts, Line(e)) = (pts \ old) \cup {new}
  BY DEF MergedInto
<1>4. /\ policy \in Policy \cup {NoEvent}
      /\ policy \in {e, NoEvent} \/ (Series[policy] = Series[e] /\ Stamp[policy] = Stamp[e] /\ e \notin Policy)
  <2>1. CASE e \in Policy
    BY <1>1, <2>1, Stamps
  <2>2. CASE e \notin Policy /\ kept = {}
    BY <1>1, <2>2
  <2>3. CASE e \notin Policy /\ kept # {}
    <3>1. policy = CHOOSE m \in kept : TRUE
      BY <1>1, <2>3
    <3>2. policy \in kept
      BY <2>3, <3>1
    <3>3. PICK p \in pts : p.policy = policy /\ SameLine(p, Line(e)) /\ policy # NoEvent
      BY <3>2
    <3>4. /\ p.event \in Messages /\ p.policy \in Policy \cup {NoEvent}
          /\ p.series = Series[p.event] /\ p.at = Stamp[p.event]
          /\ p.policy \in {p.event, NoEvent} \/ (Series[p.policy] = p.series /\ Stamp[p.policy] = p.at)
      BY DEF Sound
    <3> QED
      BY <1>2, <2>3, <3>3, <3>4
  <2> QED
    BY <2>1, <2>2, <2>3
<1> HIDE DEF policy, new
<1>5. Sound((pts \ old) \cup {new})
  <2>1. ASSUME NEW p \in (pts \ old) \cup {new}
        PROVE  /\ p.event \in Messages /\ p.policy \in Policy \cup {NoEvent}
               /\ p.series = Series[p.event] /\ p.at = Stamp[p.event]
               /\ p.policy \in {p.event, NoEvent} \/
                    (Series[p.policy] = p.series /\ Stamp[p.policy] = p.at /\ p.event \notin Policy)
    BY <1>1, <1>4 DEF Sound
  <2>2. ASSUME NEW p \in (pts \ old) \cup {new}, NEW q \in (pts \ old) \cup {new}, SameLine(p, q)
        PROVE  p = q
    <3>1. \A r \in pts \ old : ~(r.series = Series[e] /\ r.at = Stamp[e])
      BY <1>2
    <3>2. CASE p \in pts \ old /\ q \in pts \ old
      BY <2>2, <3>2 DEF Sound
    <3>3. CASE p = new \/ q = new
      BY <1>1, <2>2, <3>1, <3>3 DEF SameLine
    <3> QED
      BY <3>2, <3>3
  <2> QED
    BY <2>1, <2>2 DEF Sound
<1>6. Has((pts \ old) \cup {new}, e)
  BY <1>1 DEF Has
<1>7. ASSUME NEW m, Has(pts, m) PROVE Has((pts \ old) \cup {new}, m)
  <2>1. PICK p \in pts : p.series = Series[m] /\ p.at = Stamp[m]
    BY <1>7 DEF Has
  <2>2. CASE p \in old
    BY <1>1, <1>2, <2>1, <2>2 DEF Has
  <2>3. CASE p \notin old
    BY <2>1, <2>3 DEF Has
  <2> QED
    BY <2>2, <2>3
<1> QED
  BY <1>3, <1>5, <1>6, <1>7

-----------------------------------------------------------------------------
(* The process *)

\* Every step of the process is one of the consumer, or leaves it alone.
LEMMA ConsumerSteps == [SysNext]_sysVars => [Next]_vars
<1> SUFFICES ASSUME [SysNext]_sysVars PROVE [Next]_vars
  OBVIOUS
<1>1. CASE process = "up" /\ Boot
  BY <1>1 DEF Boot, LoadConfig, CheckTopic, CreateTopic, PollTopic, StartProducer, MigrateV1,
     MigrateV2, StartServer, LaunchConsumer, Notify, GoTo, Fatal, ProcessEnds, Next
<1>2. CASE process = "up" /\ (TakeSignal \/ Reload \/ StopConsumer \/ EndMain \/ FlusherPanics \/ Crash)
  BY <1>2 DEF TakeSignal, Reload, StopConsumer, EndMain, FlusherPanics, Crash, GoTo, Fatal,
     ProcessEnds, Next
<1>3. CASE process = "up" /\ (StartConsumer \/ ReadLoop)
  BY <1>3 DEF StartConsumer, ReadLoop, Read, Dispatch1, Dispatch2, Next, Start, Loop
<1>4. CASE \E sig \in {"SIGHUP", "SIGTERM"} : Send(sig)
  BY <1>4 DEF Send
<1>5. CASE TopicCreated \/ Again \/ SysEnded \/ UNCHANGED sysVars
  BY <1>5 DEF TopicCreated, Again, SysEnded, Next, sysVars
<1> QED
  BY <1>1, <1>2, <1>3, <1>4, <1>5 DEF SysNext, Main

Servers ==
  /\ Sound(points1) /\ rejected1 \subseteq Messages /\ databases \subseteq Names \cup {Database}
  /\ Sound(points2) /\ rejected2 \subseteq Messages

\* What the two servers' modules say of the points is what Sound says of them.
LEMMA ServersHold ==
  ASSUME Servers
  PROVE  /\ V1!TypeOK /\ V1!PointsAreTheirs /\ V1!OnePointPerEvent /\ V1!PolicyIsExplained
         /\ V2!ServerTypeOK /\ V2!PointsAreTheirs /\ V2!OnePointPerEvent /\ V2!PolicyIsExplained
<1>1. ASSUME NEW pts, Sound(pts)
      PROVE  /\ \A p \in pts : /\ p.at \in Nat /\ p.event \in Messages /\ p.policy \in Policy \cup {NoEvent}
                               /\ p.series = Series[p.event] /\ p.at = Stamp[p.event]
             /\ \A p, q \in pts : p.event = q.event \/ SameLine(p, q) => p = q
             /\ \A p \in pts : p.policy \in {p.event, NoEvent} \/
                  (Series[p.policy] = p.series /\ Stamp[p.policy] = p.at /\ p.event \notin Policy)
  <2>1. \A p \in pts : /\ p.event \in Messages /\ p.policy \in Policy \cup {NoEvent}
                       /\ p.series = Series[p.event] /\ p.at = Stamp[p.event]
    BY <1>1 DEF Sound
  <2>2. \A p, q \in pts : p.event = q.event => SameLine(p, q)
    BY <2>1 DEF SameLine
  <2>3. \A p \in pts : p.at \in Nat
    BY <2>1, Stamps
  <2> QED
    BY <1>1, <2>1, <2>2, <2>3 DEF Sound
<1>2. V1!TypeOK /\ V1!PointsAreTheirs /\ V1!OnePointPerEvent /\ V1!PolicyIsExplained
  BY <1>1 DEF Servers, V1!TypeOK, V1!ServerTypeOK, V1!PointsAreTheirs, V1!OnePointPerEvent,
     V1!PolicyIsExplained, V1!Same, SameLine
<1>3. V2!ServerTypeOK /\ V2!PointsAreTheirs /\ V2!OnePointPerEvent /\ V2!PolicyIsExplained
  BY <1>1 DEF Servers, V2!ServerTypeOK, V2!PointsAreTheirs, V2!OnePointPerEvent,
     V2!PolicyIsExplained, V2!Same, SameLine
<1> QED
  BY <1>2, <1>3

\* What the proof keeps of the process: the checks main has made, the servers' points,
\* and the outputs' messages in them.
Kernel == ConsumerInv /\ ProcessTypeOK /\ ChecksComeFirst /\ Servers /\ HandedIsStored

LEMMA KernelHolds == Kernel => ConsumerInv /\ ProcessInv /\ DatabasesFollowTopic
<1> SUFFICES ASSUME Kernel PROVE ProcessInv /\ DatabasesFollowTopic
  BY DEF Kernel
<1>1. ConsumerInv /\ ProcessTypeOK /\ ChecksComeFirst /\ Servers /\ HandedIsStored /\ TypeOK
  BY DEF Kernel, ConsumerInv
<1>2. ConsumesWhenReady
  BY <1>1 DEF ConsumesWhenReady, ChecksComeFirst
<1>3. ProcessInv
  BY <1>1, <1>2, ServersHold DEF ProcessInv
<1>4. ASSUME NEW m \in 1..(IF group THEN committed ELSE position)
      PROVE  \/ m \in Malformed \cup skipped \cup lost
             \/ loop \in {"committing", "dispatching"} /\ m = msg
             \/ /\ V1!Stored(m) \/ m \in rejected1 \cup failed["influxdb"]
                /\ V2!Stored(m) \/ m \in rejected2 \cup failed["influxdb_v2"]
  <2>1. SkippedIsExplained
    BY <1>1, ReadIsExplained
  <2>2. {"influxdb", "influxdb_v2"} \subseteq Range(Storages)
    BY ProcessAssumption
  <2>3. Skipped(m) \/ InHand(m) \/ (Kept(m, "influxdb") /\ Kept(m, "influxdb_v2"))
    BY <2>1, <2>2 DEF SkippedIsExplained
  <2> QED
    BY <1>1, <2>3 DEF Skipped, InHand, Kept, HandedIsStored
<1> QED
  BY <1>1, <1>3, <1>4, ServersHold DEF DatabasesFollowTopic

LEMMA KernelInit == SysInit => Kernel
<1> SUFFICES ASSUME SysInit PROVE Kernel
  OBVIOUS
<1>1. ConsumerInv
  BY ConsumerInit DEF SysInit
<1>2. ProcessTypeOK /\ ChecksComeFirst
  BY ProcessAssumption DEF SysInit, Init, ProcessTypeOK, ChecksComeFirst, Steps
<1>3. Servers
  BY DEF SysInit, V1!Init, V1!ServerInit, V2!ServerInit, Servers, Sound
<1>4. HandedIsStored
  <2>1. handed["influxdb"] = <<>> /\ handed["influxdb_v2"] = <<>>
    BY ProcessAssumption DEF SysInit, Init
  <2>2. Range(<<>>) = {}
    BY DEF Range
  <2> QED
    BY <2>1, <2>2 DEF HandedIsStored
<1> QED
  BY <1>1, <1>2, <1>3, <1>4 DEF Kernel

\* Start-up, signals, and the end of the process, which write no message
LEMMA MainChecks ==
  ASSUME Kernel, [SysNext]_sysVars
  PROVE  ProcessTypeOK' /\ ChecksComeFirst'
<1>1. ProcessTypeOK /\ ChecksComeFirst /\ Launched
  BY DEF Kernel, ConsumerInv
<1>2. Polls \in Nat /\ Polls # 0
  BY ProcessAssumption
<1>3. CASE LoadConfig \/ CheckTopic
  BY <1>1, <1>2, <1>3 DEF LoadConfig, CheckTopic, GoTo, Fatal, ProcessEnds, End, vars, startVars,
     ProcessTypeOK, ChecksComeFirst, Steps
<1>4. CASE CreateTopic
  BY <1>1, <1>2, <1>4 DEF CreateTopic, GoTo, Fatal, ProcessEnds, End, vars, startVars,
     ProcessTypeOK, ChecksComeFirst, Steps
<1>5. CASE PollTopic
  BY <1>1, <1>2, <1>5 DEF PollTopic, GoTo, Fatal, ProcessEnds, End, vars, startVars,
     ProcessTypeOK, ChecksComeFirst, Steps
<1>6. CASE StartProducer \/ MigrateV1 \/ MigrateV2 \/ StartServer \/ LaunchConsumer \/ Notify
  BY <1>1, <1>2, <1>6 DEF StartProducer, MigrateV1, MigrateV2, StartServer, LaunchConsumer, Notify,
     GoTo, Fatal, ProcessEnds, End, vars, startVars, ProcessTypeOK, ChecksComeFirst, Steps
<1>7. CASE TakeSignal \/ Reload \/ StopConsumer \/ EndMain \/ FlusherPanics \/ Crash
  BY <1>1, <1>2, <1>7 DEF TakeSignal, Reload, StopConsumer, EndMain, FlusherPanics, Crash, Signal,
     Stop, CallCancel, CloseReader, Wait, StopEnds, StopUnchanged, GoTo, Fatal, ProcessEnds, End,
     vars, startVars, mainVars, ProcessTypeOK, ChecksComeFirst, Steps
<1>8. CASE StartConsumer
  BY <1>1, <1>8 DEF StartConsumer, SetCancel, NewReader, LaunchLoop, TopicReady, mainVars,
     ProcessTypeOK, ChecksComeFirst
<1>9. CASE ReadLoop
  <2>1. UNCHANGED mainVars /\ UNCHANGED starter
    BY <1>9 DEF ReadLoop, Read, Fetch, Commit, Return, CommitFails, ReadFails, Dispatch1, Dispatch2,
       Write, Dispatch, startVars
  <2> QED
    BY <1>1, <2>1 DEF mainVars, ProcessTypeOK, ChecksComeFirst
<1>10. CASE \E sig \in {"SIGHUP", "SIGTERM"} : Send(sig)
  BY <1>1, <1>10 DEF Send, vars, startVars, ProcessTypeOK, ChecksComeFirst
<1>11. CASE TopicCreated \/ Again \/ UNCHANGED sysVars
  BY <1>1, <1>11 DEF TopicCreated, Again, Restart, sysVars, mainVars, vars, startVars, ProcessTypeOK,
     ChecksComeFirst
<1> QED
  BY <1>3, <1>4, <1>5, <1>6, <1>7, <1>8, <1>9, <1>10, <1>11 DEF SysNext, Main, Boot, SysEnded

\* What a write of the message in hand does to a server
Posted(pts, pts1, rejected, rejected_1, e, ok) ==
  \/ pts1 = MergedInto(pts, Line(e)) /\ rejected_1 = rejected
  \/ ok /\ pts1 = pts /\ rejected_1 = rejected \cup {e}
  \/ ~ok /\ pts1 = pts /\ rejected_1 = rejected

LEMMA PostedIsSound ==
  ASSUME NEW pts, NEW pts1, NEW rejected, NEW rejected_1, NEW e \in Messages, NEW ok \in BOOLEAN,
         Sound(pts), rejected \subseteq Messages, Posted(pts, pts1, rejected, rejected_1, e, ok)
  PROVE  /\ Sound(pts1) /\ rejected_1 \subseteq Messages
         /\ \A m : Has(pts, m) \/ m \in rejected => Has(pts1, m) \/ m \in rejected_1
         /\ ok => Has(pts1, e) \/ e \in rejected_1
BY MergeIsSound DEF Posted

LEMMA DispatchIsPosted ==
  ASSUME NEW ok \in BOOLEAN, msg \in Messages
  PROVE  /\ Dispatch1(ok) => Posted(points1, points1', rejected1, rejected1', msg, ok)
         /\ Dispatch2(ok) => Posted(points2, points2', rejected2, rejected2', msg, ok)
<1>1. V1!LineProtocol(msg, Now) = Line(msg) /\ V2!LineProtocol(msg, Now) = Line(msg)
  BY Stamps DEF V1!LineProtocol, V2!LineProtocol, Line
<1>2. Line(msg).event = msg
  BY DEF Line
<1>3. /\ \A line : V1!Merged(line) = MergedInto(points1, line)
      /\ \A line : V2!Merged(line) = MergedInto(points2, line)
  BY DEF V1!Merged, V2!Merged, V1!Same, V2!Same, SameLine, MergedInto
<1>4. Dispatch1(ok) => Posted(points1, points1', rejected1, rejected1', msg, ok)
  BY <1>1, <1>2, <1>3 DEF Dispatch1, V1!Write, V1!Post, V1!serverVars, Posted
<1>5. Dispatch2(ok) => Posted(points2, points2', rejected2, rejected2', msg, ok)
  BY <1>1, <1>2, <1>3 DEF Dispatch2, V2!Write, V2!Post, V2!serverVars, Posted
<1> QED
  BY <1>4, <1>5

\* Only a write touches the points, what was refused, and what was handed over.
LEMMA ServersKept ==
  ASSUME Kernel, UNCHANGED <<points1, rejected1, points2, rejected2, handed>>,
         databases' \subseteq Names \cup {Database}
  PROVE  Servers' /\ HandedIsStored'
<1>1. Servers /\ HandedIsStored
  BY DEF Kernel
<1>2. Servers'
  BY <1>1 DEF Servers
<1>3. \A m : (V1!Stored(m)' <=> V1!Stored(m)) /\ (V2!Stored(m)' <=> V2!Stored(m))
  BY DEF V1!Stored, V2!Stored
<1> QED
  BY <1>1, <1>2, <1>3 DEF HandedIsStored

LEMMA WriteIsStored ==
  ASSUME Kernel, NEW ok \in BOOLEAN, Dispatch1(ok) \/ Dispatch2(ok)
  PROVE  Servers' /\ HandedIsStored'
<1>1. /\ Servers /\ HandedIsStored /\ TypeOK /\ Launched
      /\ {"influxdb", "influxdb_v2"} \subseteq Range(Storages)
  BY ProcessAssumption DEF Kernel, ConsumerInv
<1>2. loop = "dispatching" /\ msg \in Messages
  BY <1>1, ConsumerAssumption DEF Dispatch1, Dispatch2, Write, Dispatch, Launched, TypeOK, Messages
<1>3. PICK s \in {"influxdb", "influxdb_v2"} :
        /\ s = "influxdb" => Dispatch1(ok)
        /\ s = "influxdb_v2" => Dispatch2(ok)
        /\ s = Storages[next]
  BY DEF Dispatch1, Dispatch2
<1>4. /\ ~ok => handed' = handed
      /\ ok => handed' = [handed EXCEPT ![s] = Append(handed[s], msg)]
  BY <1>3 DEF Dispatch1, Dispatch2, Write, Dispatch
<1>5. handed["influxdb"] \in Seq(Messages) /\ handed["influxdb_v2"] \in Seq(Messages)
      /\ DOMAIN handed = Range(Storages)
  BY <1>1 DEF TypeOK, Messages
<1>6. /\ \A x \in {"influxdb", "influxdb_v2"} : x # s => handed'[x] = handed[x]
      /\ Range(handed'[s]) \subseteq Range(handed[s]) \cup (IF ok THEN {msg} ELSE {})
  <2>1. handed[s] \in Seq(Messages)
    BY <1>5
  <2>2. Range(Append(handed[s], msg)) = Range(handed[s]) \cup {msg}
    BY <1>2, <2>1, SendContents
  <2>3. CASE ok
    BY <1>1, <1>4, <1>5, <2>2, <2>3
  <2>4. CASE ~ok
    BY <1>4, <2>4
  <2> QED
    BY <2>3, <2>4
<1>7. /\ \A m : (V1!Stored(m) <=> Has(points1, m)) /\ (V1!Stored(m)' <=> Has(points1', m))
      /\ \A m : (V2!Stored(m) <=> Has(points2, m)) /\ (V2!Stored(m)' <=> Has(points2', m))
  BY DEF V1!Stored, V2!Stored, Has
<1>8. CASE s = "influxdb"
  <2>1. Dispatch1(ok) /\ UNCHANGED <<points2, rejected2, databases>>
    BY <1>3, <1>8 DEF Dispatch1, V1!Write, v2Vars
  <2>2. /\ Sound(points1') /\ rejected1' \subseteq Messages
        /\ \A m : Has(points1, m) \/ m \in rejected1 => Has(points1', m) \/ m \in rejected1'
        /\ ok => Has(points1', msg) \/ msg \in rejected1'
    BY <1>1, <1>2, <2>1, DispatchIsPosted, PostedIsSound DEF Servers
  <2>3. Servers'
    BY <1>1, <2>1, <2>2 DEF Servers
  <2>4. HandedIsStored'
    BY <1>1, <1>6, <1>7, <1>8, <2>1, <2>2 DEF HandedIsStored
  <2> QED
    BY <2>3, <2>4
<1>9. CASE s = "influxdb_v2"
  <2>1. Dispatch2(ok) /\ UNCHANGED <<points1, rejected1, databases>>
    BY <1>3, <1>9 DEF Dispatch2, v1Vars
  <2>2. /\ Sound(points2') /\ rejected2' \subseteq Messages
        /\ \A m : Has(points2, m) \/ m \in rejected2 => Has(points2', m) \/ m \in rejected2'
        /\ ok => Has(points2', msg) \/ msg \in rejected2'
    BY <1>1, <1>2, <2>1, DispatchIsPosted, PostedIsSound DEF Servers
  <2>3. Servers'
    BY <1>1, <2>1, <2>2 DEF Servers
  <2>4. HandedIsStored'
    BY <1>1, <1>6, <1>7, <1>9, <2>1, <2>2 DEF HandedIsStored
  <2> QED
    BY <2>3, <2>4
<1> QED
  BY <1>8, <1>9

LEMMA KernelNext == Kernel /\ [SysNext]_sysVars => Kernel'
<1> SUFFICES ASSUME Kernel, [SysNext]_sysVars PROVE Kernel'
  OBVIOUS
<1>1. ConsumerInv'
  BY ConsumerNext, ConsumerSteps DEF Kernel
<1>2. ProcessTypeOK' /\ ChecksComeFirst'
  BY MainChecks
<1>3. databases \subseteq Names \cup {Database}
  BY DEF Kernel, Servers
<1>4. Servers' /\ HandedIsStored'
  <2>1. CASE MigrateV1
    <3>1. databases' \subseteq Names \cup {Database}
      BY <1>3, <2>1 DEF MigrateV1, V1!Migrate
    <3>2. UNCHANGED <<points1, rejected1, points2, rejected2, handed>>
      BY <2>1 DEF MigrateV1, V1!Migrate, V1!serverVars, v2Vars, GoTo, vars, resultVars
    <3> QED
      BY <3>1, <3>2, ServersKept
  <2>2. CASE \E ok \in BOOLEAN : Dispatch1(ok) \/ Dispatch2(ok)
    BY <2>2, WriteIsStored
  <2>3. CASE UNCHANGED outputVars /\ UNCHANGED handed
    BY <1>3, <2>3, ServersKept DEF outputVars, v1Vars, v2Vars
  <2>4. CASE Boot /\ ~MigrateV1
    BY <2>3, <2>4 DEF Boot, LoadConfig, CheckTopic, CreateTopic, PollTopic, StartProducer, MigrateV2,
       StartServer, LaunchConsumer, Notify, GoTo, Fatal, ProcessEnds, End, vars, resultVars
  <2>5. CASE TakeSignal \/ Reload \/ StopConsumer \/ EndMain \/ FlusherPanics \/ Crash
    BY <2>3, <2>5 DEF TakeSignal, Reload, StopConsumer, EndMain, FlusherPanics, Crash, Signal,
       Stop, CallCancel, CloseReader, Wait, StopEnds, StopUnchanged, GoTo, Fatal, ProcessEnds, End,
       vars, resultVars
  <2>6. CASE StartConsumer \/ Read
    BY <2>3, <2>6 DEF StartConsumer, SetCancel, NewReader, LaunchLoop, TopicReady, StartUnchanged,
       Read, Fetch, Commit, Return, CommitFails, ReadFails, resultVars
  <2>7. CASE \/ \E sig \in {"SIGHUP", "SIGTERM"} : Send(sig)
             \/ TopicCreated \/ Again \/ UNCHANGED sysVars
    BY <2>3, <2>7 DEF Send, TopicCreated, Again, Restart, sysVars, vars, resultVars
  <2> QED
    BY <2>1, <2>2, <2>4, <2>5, <2>6, <2>7 DEF SysNext, Main, ReadLoop, SysEnded
<1> QED
  BY <1>1, <1>2, <1>4 DEF Kernel

\* The process runs the consumer of module Consumer: what is proved of that module
\* holds of it, over any number of starts, configurations, signals and crashes.
THEOREM ProcessRunsConsumer == SysSpec => Spec
<1>1. SysInit => Init
  BY DEF SysInit
<1> QED
  BY <1>1, ConsumerSteps, PTL DEF SysSpec, Spec

\* A process that consumes has passed the checks of its start, and what an output took
\* without an error is in its database or was refused.
THEOREM ProcessInvariance == SysSpec => [](ConsumerInv /\ ProcessInv)
<1> QED
  BY KernelInit, KernelNext, KernelHolds, PTL DEF SysSpec

\* From the topic to both databases: a message that will not be read again is stored in
\* each, or the reason is known; an event has one point, however often it is written.
THEOREM TopicReachesDatabases == SysSpec => []DatabasesFollowTopic
<1> QED
  BY KernelInit, KernelNext, KernelHolds, PTL DEF SysSpec

==============================================================================
