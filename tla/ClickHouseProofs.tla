-------------------------- MODULE ClickHouseProofs --------------------------
(***************************************************************************)
(* Machine-checked proofs about module ClickHouseWriter, for every topic,  *)
(* capacity, batch size and pool, every number of starts of the process,   *)
(* and every combination of faults.                                        *)
(***************************************************************************)
EXTENDS ClickHouseWriter, ChannelLemmas, FiniteSetTheorems, TLAPS

-----------------------------------------------------------------------------
(* Sequences in the order of the topic *)

LEMMA EventsAreNumbers == \A a, b \in Events : a \in Nat /\ (a < b \/ a = b \/ b < a)
BY ClickHouseAssumption

\* What arrives behind everything keeps a channel, a batch or a table in order.
LEMMA SendAscending ==
  ASSUME NEW s \in Seq(Events), NEW e \in Events, Ascending(s), Before(Range(s), {e})
  PROVE  Ascending(Append(s, e))
<1> DEFINE t == Append(s, e)
<1>1. /\ Len(s) \in Nat /\ DOMAIN s = 1..Len(s) /\ DOMAIN t = 1..(Len(s) + 1)
      /\ t[Len(s) + 1] = e
  OBVIOUS
<1>2. \A i \in DOMAIN s : t[i] = s[i] /\ s[i] \in Range(s)
  BY <1>1 DEF Range
<1> HIDE DEF t
<1>3. ASSUME NEW i \in DOMAIN t, NEW j \in DOMAIN t, i < j
      PROVE  t[i] < t[j]
  <2>1. i \in DOMAIN s
    BY <1>1, <1>3
  <2>2. j = Len(s) + 1 \/ j \in DOMAIN s
    BY <1>1
  <2> QED
    BY <1>1, <1>2, <1>3, <2>1, <2>2 DEF Ascending, Before
<1> QED
  BY <1>3 DEF Ascending, t

LEMMA ReceiveAscending ==
  ASSUME NEW s \in Seq(Events), s # <<>>, Ascending(s)
  PROVE  Ascending(Tail(s)) /\ Before({Head(s)}, Range(Tail(s)))
<1> DEFINE t == Tail(s)
<1>1. Len(s) \in Nat /\ Len(s) >= 1 /\ DOMAIN s = 1..Len(s) /\ Head(s) = s[1]
  OBVIOUS
<1>2. DOMAIN t = 1..(Len(s) - 1)
  BY <1>1
<1>3. \A i \in DOMAIN t : t[i] = s[i + 1] /\ i + 1 \in DOMAIN s /\ 1 < i + 1
  BY <1>1, <1>2
<1> HIDE DEF t
<1>4. Ascending(t)
  <2> SUFFICES ASSUME NEW i \in DOMAIN t, NEW j \in DOMAIN t, i < j
               PROVE  t[i] < t[j]
    BY DEF Ascending
  <2>1. i + 1 < j + 1
    BY <1>2
  <2> QED
    BY <1>3, <2>1 DEF Ascending
<1>5. Before({Head(s)}, Range(t))
  <2>1. 1 \in DOMAIN s
    BY <1>1
  <2> QED
    BY <1>1, <1>3, <2>1 DEF Before, Range, Ascending
<1> QED
  BY <1>4, <1>5 DEF t

LEMMA JoinAscending ==
  ASSUME NEW s \in Seq(Events), NEW t \in Seq(Events), Ascending(s), Ascending(t),
         Before(Range(s), Range(t))
  PROVE  Ascending(s \o t)
<1> DEFINE u == s \o t
<1>1. /\ Len(s) \in Nat /\ DOMAIN s = 1..Len(s) /\ Len(t) \in Nat /\ DOMAIN t = 1..Len(t)
      /\ DOMAIN u = 1..(Len(s) + Len(t))
  OBVIOUS
<1>2. \A i \in DOMAIN s : u[i] = s[i] /\ s[i] \in Range(s)
  BY <1>1 DEF Range
<1>3. \A i \in DOMAIN u : i \notin DOMAIN s =>
        i - Len(s) \in DOMAIN t /\ u[i] = t[i - Len(s)] /\ t[i - Len(s)] \in Range(t)
  BY <1>1 DEF Range
<1> HIDE DEF u
<1>4. ASSUME NEW i \in DOMAIN u, NEW j \in DOMAIN u, i < j
      PROVE  u[i] < u[j]
  <2>1. CASE j \in DOMAIN s
    <3>1. i \in DOMAIN s
      BY <1>1, <1>4, <2>1
    <3> QED
      BY <1>2, <1>4, <2>1, <3>1 DEF Ascending
  <2>2. CASE i \in DOMAIN s /\ j \notin DOMAIN s
    BY <1>2, <1>3, <2>2 DEF Before
  <2>3. CASE i \notin DOMAIN s /\ j \notin DOMAIN s
    <3>1. i - Len(s) < j - Len(s)
      BY <1>1, <1>4
    <3> QED
      BY <1>3, <2>3, <3>1 DEF Ascending
  <2> QED
    BY <2>1, <2>2, <2>3
<1> QED
  BY <1>4 DEF Ascending, u

\* What the batch and the channel hold is no more than their bounds.
LEMMA FewAreHeld ==
  ASSUME NEW s \in Seq(Events), NEW t \in Seq(Events), Len(s) <= BatchSize, Len(t) <= Capacity
  PROVE  /\ IsFiniteSet(Range(s) \cup Range(t))
         /\ Cardinality(Range(s) \cup Range(t)) <= Capacity + BatchSize
<1>1. ASSUME NEW u \in Seq(Events)
      PROVE  IsFiniteSet(Range(u)) /\ Cardinality(Range(u)) \in Nat /\ Cardinality(Range(u)) <= Len(u)
  <2>1. Len(u) \in Nat /\ DOMAIN u = 1..Len(u) /\ u \in [1..Len(u) -> Range(u)]
    BY DEF Range
  <2>2. u \in Surjection(1..Len(u), Range(u))
    BY <2>1 DEF Surjection, Range
  <2>3. ExistsSurjection(1..Len(u), Range(u))
    BY <2>2 DEF ExistsSurjection
  <2>4. IsFiniteSet(Range(u)) /\ Cardinality(Range(u)) <= Len(u)
    BY <2>1, <2>3, FS_NatSurjection, FS_SurjCardinalityBound
  <2> QED
    BY <2>4, FS_CardinalityType
<1>2. /\ IsFiniteSet(Range(s) \cup Range(t))
      /\ Cardinality(Range(s) \cup Range(t))
           = Cardinality(Range(s)) + Cardinality(Range(t)) - Cardinality(Range(s) \cap Range(t))
  BY <1>1, FS_Union
<1>3. Cardinality(Range(s) \cap Range(t)) \in Nat
  BY <1>1, FS_Intersection, FS_CardinalityType
<1>4. Len(s) \in Nat /\ Len(t) \in Nat /\ Capacity \in Nat /\ BatchSize \in Nat
  BY ClickHouseAssumption
<1> QED
  BY <1>1, <1>2, <1>3, <1>4

-----------------------------------------------------------------------------
(* The inductive invariant *)

StoredAscending == Ascending(raw) /\ Ascending(answers)

\* ClickHouseInv but for the order of the topic: what the channel, the batch and the
\* tables are, whatever message each event is.
Accounts ==
  /\ TypeOK /\ FlusherKeepsBounds /\ HandedOver /\ HeldInOrder /\ UnsettledAreLast
  /\ TablesAgree /\ StoredAscending

LEMMA InitInv == Init => Accounts
<1> SUFFICES ASSUME Init PROVE Accounts
  OBVIOUS
<1>1. /\ Capacity \in Nat /\ BatchSize \in Nat /\ Conns \in Nat /\ MaxRuns \in Nat /\ MaxRuns >= 1
      /\ BatchSize >= 1
  BY ClickHouseAssumption
<1>2. \A s : s = <<>> => DOMAIN s = {} /\ Range(s) = {} /\ s \in Seq(Events) /\ Len(s) = 0
  BY DEF Range
<1>3. /\ Range(queue) = {} /\ Range(batch) = {} /\ Range(raw) = {} /\ Range(answers) = {}
      /\ Range(order) = {} /\ Settled = {} /\ \A r : Unsettled(r) = {}
  BY <1>2 DEF Init, Settled, Unsettled
<1>4. TypeOK
  <2>1. /\ queue \in Seq(Events) /\ Len(queue) <= Capacity /\ batch \in Seq(Events)
        /\ Len(batch) <= BatchSize /\ raw \in Seq(Events) /\ answers \in Seq(Events)
        /\ order \in Seq(Events)
    BY <1>1, <1>2 DEF Init
  <2>2. run \in 1..MaxRuns /\ free \in 0..Conns /\ writtenIn \in [Events -> 0..run]
    BY <1>1 DEF Init
  <2> QED
    BY <2>1, <2>2 DEF Init, TypeOK
<1>5. FlusherKeepsBounds
  BY <1>1, <1>2 DEF Init, FlusherKeepsBounds
<1>6. HandedOver
  <2>1. \A e \in Events : writtenIn[e] = 0
    BY DEF Init
  <2> QED
    BY <1>3, <2>1 DEF Init, HandedOver, Settled
<1>7. HeldInOrder
  BY <1>2, <1>3 DEF Init, HeldInOrder, Ascending, Before
<1>8. UnsettledAreLast
  BY <1>1, <1>3, FS_EmptySet DEF UnsettledAreLast, Before
<1>9. TablesAgree /\ StoredAscending
  BY <1>2, <1>3 DEF Init, TablesAgree, StoredAscending, Ascending
<1> QED
  BY <1>4, <1>5, <1>6, <1>7, <1>8, <1>9 DEF Accounts

\* What every step starts from
LEMMA Held ==
  ASSUME Accounts
  PROVE  /\ TypeOK /\ FlusherKeepsBounds /\ HandedOver /\ HeldInOrder /\ UnsettledAreLast
         /\ TablesAgree /\ StoredAscending
         /\ queue \in Seq(Events) /\ batch \in Seq(Events) /\ raw \in Seq(Events)
         /\ answers \in Seq(Events) /\ order \in Seq(Events)
         /\ Range(queue) \subseteq Events /\ Range(batch) \subseteq Events
         /\ Range(order) \subseteq Events /\ run \in 1..MaxRuns
         /\ \A e \in Range(batch) \cup Range(queue) :
              e \in Range(order) /\ e \notin Settled /\ writtenIn[e] = run
<1>1. TypeOK /\ HeldInOrder
  BY DEF Accounts
<1>2. /\ queue \in Seq(Events) /\ batch \in Seq(Events) /\ order \in Seq(Events)
      /\ raw \in Seq(Events) /\ answers \in Seq(Events) /\ run \in 1..MaxRuns
  BY <1>1 DEF TypeOK
<1>3. /\ Range(queue) \subseteq Events /\ Range(batch) \subseteq Events
      /\ Range(order) \subseteq Events
  BY <1>2 DEF Range
<1>4. \A e \in Range(batch) \cup Range(queue) :
        e \in Range(order) /\ e \notin Settled /\ writtenIn[e] = run
  BY <1>1 DEF HeldInOrder, Unsettled
<1> QED
  BY <1>2, <1>3, <1>4 DEF Accounts

\* The flusher's turns between its actions on data, and Close
LEMMA TurnInv ==
  ASSUME Accounts,
         Migrate \/ Tick \/ SeeDone \/ Prepare \/ BeginClose \/ EndClose \/ UNCHANGED vars
  PROVE  Accounts'
<1>1. UNCHANGED <<process, run, group, queue, batch, raw, answers, writtenIn, order, refused, flushed,
                  reported>>
  BY DEF Migrate, Tick, Due, SeeDone, Prepare, FlushUnchanged, BeginClose, EndClose,
         CloseReturns, vars, processVars, tableVars, closeVars, historyVars
<1>2. /\ TypeOK /\ FlusherKeepsBounds /\ HandedOver /\ HeldInOrder /\ UnsettledAreLast
      /\ TablesAgree /\ StoredAscending
  BY DEF Accounts
<1>3. flusher' = "sent" <=> flusher = "sent"
  BY DEF Migrate, Tick, Due, SeeDone, Prepare, BeginClose, EndClose, CloseReturns, vars
<1>4. Conns \in Nat /\ BatchSize \in Nat /\ BatchSize >= 1 /\ Len(<<>>) = 0
  BY ClickHouseAssumption
<1>5. TypeOK'
  <2>1. /\ flusher' \in {"new", "absent", "select", "flush", "prepared", "sent", "exited"}
        /\ {leaving', done', closed'} \subseteq BOOLEAN
    BY <1>2 DEF TypeOK, Migrate, Tick, Due, SeeDone, Prepare, FlushUnchanged, BeginClose,
         EndClose, CloseReturns, vars, closeVars
  <2>2. free' \in 0..Conns
    BY <1>2, <1>4 DEF TypeOK, Migrate, Tick, Due, SeeDone, Prepare, BeginClose, EndClose,
         CloseReturns, vars
  <2> QED
    BY <1>1, <1>2, <2>1, <2>2 DEF TypeOK
<1>6. FlusherKeepsBounds'
  <2>1. CASE Migrate
    BY <1>1, <1>2, <1>4, <2>1 DEF Migrate, FlusherKeepsBounds, closeVars
  <2>2. CASE Tick \/ SeeDone
    BY <1>1, <1>2, <2>2 DEF Tick, Due, SeeDone, FlusherKeepsBounds, closeVars
  <2>3. CASE Prepare
    <3>1. free \in Nat /\ free >= 2 /\ free' = free - 2 /\ free <= Conns
      BY <1>2, <1>4, <2>3 DEF Prepare, TypeOK
    <3>2. free' + 2 <= Conns
      BY <1>4, <3>1
    <3> QED
      BY <1>1, <1>2, <2>3, <3>2 DEF Prepare, FlushUnchanged, FlusherKeepsBounds, closeVars
  <2>4. CASE BeginClose \/ EndClose \/ UNCHANGED vars
    BY <1>1, <1>2, <2>4 DEF BeginClose, EndClose, CloseReturns, vars, closeVars, FlusherKeepsBounds
  <2> QED
    BY <2>1, <2>2, <2>3, <2>4
<1>7. Settled' = Settled /\ \A r : Unsettled(r)' = Unsettled(r)
  BY <1>1 DEF Settled, Unsettled
<1>8. HandedOver' /\ UnsettledAreLast' /\ StoredAscending'
  BY <1>1, <1>2, <1>7 DEF HandedOver, UnsettledAreLast, StoredAscending
<1>9. HeldInOrder'
  BY <1>1, <1>2, <1>3, <1>7 DEF HeldInOrder
<1>10. TablesAgree'
  BY <1>1, <1>2, <1>3 DEF TablesAgree, Lost
<1> QED
  BY <1>5, <1>6, <1>8, <1>9, <1>10 DEF Accounts

LEMMA WriteInv ==
  ASSUME Accounts, ~done, NEW e \in Events, Write(e)
  PROVE  Accounts'
<1>1. /\ UNCHANGED <<process, run, group, batch, flusher, leaving, free, raw, answers, done, closed,
                     flushed, reported>>
      /\ New(e) /\ writtenIn' = [writtenIn EXCEPT ![e] = run]
  BY DEF Write, processVars, tableVars, closeVars
<1>2. /\ TypeOK /\ FlusherKeepsBounds /\ HandedOver /\ HeldInOrder /\ UnsettledAreLast
      /\ TablesAgree /\ StoredAscending
      /\ queue \in Seq(Events) /\ batch \in Seq(Events) /\ order \in Seq(Events)
      /\ Range(queue) \subseteq Events /\ Range(batch) \subseteq Events
      /\ Range(order) \subseteq Events /\ run \in 1..MaxRuns
      /\ \A x \in Range(batch) \cup Range(queue) :
           x \in Range(order) /\ x \notin Settled /\ writtenIn[x] = run
  BY Held
<1>3. run \in Nat /\ run # 0 /\ MaxRuns \in Nat /\ Capacity \in Nat
  BY <1>2, ClickHouseAssumption
<1>4. \A x \in Range(order) \cup refused : x \in Events /\ x < e /\ x # e
  <2>1. \A x \in Range(order) \cup refused : x \in Events /\ writtenIn[x] # 0
    BY <1>2 DEF HandedOver
  <2>2. \A x \in Events : writtenIn[x] # 0 => ~(x >= e)
    BY <1>1 DEF New
  <2>3. \A x \in Events : ~(x >= e) => x < e /\ x # e
    BY EventsAreNumbers, ClickHouseAssumption
  <2> QED
    BY <2>1, <2>2, <2>3
<1>5. writtenIn' \in [Events -> 0..run] /\ writtenIn'[e] = run
      /\ \A x \in Events : x # e => writtenIn'[x] = writtenIn[x]
  BY <1>1, <1>2, <1>3 DEF TypeOK
<1>6. Settled' = Settled /\ Settled \subseteq Range(order) /\ Range(raw) \subseteq Range(order)
      /\ Range(answers) \subseteq Range(order)
  BY <1>1, <1>2 DEF Settled, HandedOver, TablesAgree
<1>7. FlusherKeepsBounds' /\ StoredAscending'
  BY <1>1, <1>2 DEF FlusherKeepsBounds, StoredAscending
<1>8. CASE Len(queue) < Capacity
  <2>1. queue' = Append(queue, e) /\ order' = Append(order, e) /\ refused' = refused
    BY <1>8 DEF Write
  <2>2. /\ Range(queue') = Range(queue) \cup {e} /\ Range(order') = Range(order) \cup {e}
    BY <1>2, <2>1, SendContents
  <2>3. queue' \in Seq(Events) /\ order' \in Seq(Events) /\ Len(queue') <= Capacity
    BY <1>2, <1>3, <1>8, <2>1
  <2>4. TypeOK'
    BY <1>1, <1>2, <1>5, <2>1, <2>3 DEF TypeOK
  <2>5. HandedOver'
    <3>1. \A x \in Events : writtenIn'[x] # 0 <=> (writtenIn[x] # 0 \/ x = e)
      BY <1>3, <1>5
    <3> QED
      BY <1>1, <1>2, <1>4, <1>6, <2>1, <2>2, <3>1 DEF HandedOver
  <2>6. /\ Unsettled(run)' = Unsettled(run) \cup {e}
        /\ \A r : Unsettled(r)' = IF r = run THEN Unsettled(r) \cup {e} ELSE Unsettled(r)
    BY <1>1, <1>2, <1>4, <1>5, <1>6, <2>2 DEF Unsettled
  <2>7. Unsettled(run)' = Range(batch') \cup Range(queue')
    BY <1>1, <1>2, <2>2, <2>6 DEF HeldInOrder
  <2>8. Before(Range(order), {e})
    BY <1>4 DEF Before
  <2>9. Ascending(queue')
    <3>1. Ascending(queue) /\ Before(Range(queue), {e})
      BY <1>2, <2>8 DEF HeldInOrder, Before
    <3> QED
      BY <1>2, <2>1, <3>1, SendAscending
  <2>10. HeldInOrder'
    BY <1>1, <1>2, <1>6, <2>2, <2>7, <2>8, <2>9 DEF HeldInOrder, Before
  <2>11. UnsettledAreLast'
    <3> SUFFICES ASSUME NEW r \in 1..MaxRuns
                 PROVE  /\ Before({x \in Settled : writtenIn'[x] = r}, Unsettled(r)')
                        /\ IsFiniteSet(Unsettled(r)')
                        /\ Cardinality(Unsettled(r)') <= Capacity + BatchSize
      BY <1>6 DEF UnsettledAreLast
    <3>1. \A x \in Settled : writtenIn'[x] = writtenIn[x]
      BY <1>4, <1>5, <1>6
    <3>2. /\ Before({x \in Settled : writtenIn[x] = r}, Unsettled(r))
          /\ IsFiniteSet(Unsettled(r)) /\ Cardinality(Unsettled(r)) <= Capacity + BatchSize
      BY <1>2 DEF UnsettledAreLast
    <3>3. CASE r # run
      BY <2>6, <3>1, <3>2, <3>3
    <3>4. CASE r = run
      <4>1. Before({x \in Settled : writtenIn'[x] = r}, Unsettled(r)')
        <5>1. Unsettled(r)' = Unsettled(r) \cup {e}
          BY <2>6, <3>4
        <5>2. Before(Settled, {e})
          BY <1>6, <2>8 DEF Before
        <5> QED
          BY <3>1, <3>2, <5>1, <5>2 DEF Before
      <4>2. Len(batch) <= BatchSize
        BY <1>2 DEF TypeOK
      <4>3. /\ IsFiniteSet(Range(batch) \cup Range(queue'))
            /\ Cardinality(Range(batch) \cup Range(queue')) <= Capacity + BatchSize
        BY <1>2, <2>3, <4>2, FewAreHeld
      <4>4. Unsettled(r)' = Range(batch) \cup Range(queue')
        BY <1>1, <2>7, <3>4
      <4> QED
        BY <4>1, <4>3, <4>4
    <3> QED
      BY <3>3, <3>4
  <2>12. TablesAgree'
    <3>1. Lost \subseteq Lost'
      BY <1>1, <1>2, <1>4, <1>5, <2>2 DEF Lost
    <3> QED
      BY <1>1, <1>2, <3>1 DEF TablesAgree
  <2> QED
    BY <1>7, <2>4, <2>5, <2>10, <2>11, <2>12 DEF Accounts
<1>9. CASE ~(Len(queue) < Capacity)
  <2>1. queue' = queue /\ order' = order /\ refused' = refused \cup {e}
    BY <1>9 DEF Write
  <2>2. TypeOK'
    BY <1>1, <1>2, <1>5, <2>1 DEF TypeOK
  <2>3. HandedOver'
    <3>1. \A x \in Events : writtenIn'[x] # 0 <=> (writtenIn[x] # 0 \/ x = e)
      BY <1>3, <1>5
    <3> QED
      BY <1>1, <1>2, <1>4, <1>6, <2>1, <3>1 DEF HandedOver
  <2>4. \A x \in Range(order) : writtenIn'[x] = writtenIn[x]
    BY <1>4, <1>5
  <2>5. \A r : Unsettled(r)' = Unsettled(r)
    BY <1>6, <2>1, <2>4 DEF Unsettled
  <2>6. HeldInOrder'
    BY <1>1, <1>2, <1>6, <2>1, <2>5 DEF HeldInOrder
  <2>7. \A r : {x \in Settled' : writtenIn'[x] = r} = {x \in Settled : writtenIn[x] = r}
    BY <1>6, <2>4
  <2>8. UnsettledAreLast'
    BY <1>2, <2>5, <2>7 DEF UnsettledAreLast
  <2>9. TablesAgree'
    <3>1. Lost' = Lost
      BY <1>1, <2>1, <2>4 DEF Lost
    <3> QED
      BY <1>1, <1>2, <3>1 DEF TablesAgree
  <2> QED
    BY <1>7, <2>2, <2>3, <2>6, <2>8, <2>9 DEF Accounts
<1> QED
  BY <1>8, <1>9

LEMMA TakeInv ==
  ASSUME Accounts, Take
  PROVE  Accounts'
<1> DEFINE e == Head(queue)
<1>1. /\ UNCHANGED <<process, run, group, leaving, free, raw, answers, done, closed, writtenIn, order,
                     refused, flushed, reported>>
      /\ flusher = "select" /\ queue # <<>> /\ queue' = Tail(queue) /\ batch' = Append(batch, e)
      /\ flusher' = IF Len(batch) + 1 >= BatchSize THEN "flush" ELSE "select"
  BY DEF Take, processVars, tableVars, closeVars, historyVars
<1>2. /\ TypeOK /\ FlusherKeepsBounds /\ HandedOver /\ HeldInOrder /\ UnsettledAreLast
      /\ TablesAgree /\ StoredAscending
      /\ queue \in Seq(Events) /\ batch \in Seq(Events)
  BY Held
<1>3. /\ e \in Events /\ queue' \in Seq(Events) /\ Len(queue') = Len(queue) - 1
      /\ Range(queue) = {e} \cup Range(queue')
  BY <1>1, <1>2, ReceiveContents
<1>4. Ascending(queue) /\ Ascending(batch) /\ Before(Range(batch), Range(queue))
  BY <1>2 DEF HeldInOrder
<1>5. Ascending(queue') /\ Before({e}, Range(queue'))
  BY <1>1, <1>2, <1>4, ReceiveAscending
<1>6. Before(Range(batch), {e})
  BY <1>3, <1>4 DEF Before
<1> HIDE DEF e
<1>7. batch' \in Seq(Events) /\ Range(batch') = Range(batch) \cup {e} /\ Ascending(batch')
  BY <1>1, <1>2, <1>3, <1>4, <1>6, SendContents, SendAscending
<1>8. /\ Capacity \in Nat /\ BatchSize \in Nat /\ Len(queue) \in Nat /\ Len(batch) \in Nat
      /\ Len(queue) <= Capacity /\ Len(batch) < BatchSize /\ Len(batch') = Len(batch) + 1
  BY <1>1, <1>2, <1>3, ClickHouseAssumption DEF TypeOK, FlusherKeepsBounds
<1>9. Len(queue') <= Capacity /\ Len(batch') <= BatchSize
  BY <1>3, <1>8
<1>10. TypeOK'
  BY <1>1, <1>2, <1>3, <1>7, <1>9 DEF TypeOK
<1>11. FlusherKeepsBounds'
  BY <1>1, <1>2, <1>8 DEF FlusherKeepsBounds
<1>12. Range(batch') \cup Range(queue') = Range(batch) \cup Range(queue)
  BY <1>3, <1>7
<1>13. Settled' = Settled /\ \A r : Unsettled(r)' = Unsettled(r)
  BY <1>1 DEF Settled, Unsettled
<1>14. HandedOver' /\ UnsettledAreLast' /\ StoredAscending'
  BY <1>1, <1>2, <1>13 DEF HandedOver, UnsettledAreLast, StoredAscending
<1>15. HeldInOrder'
  <2>1. Before(Range(batch'), Range(queue'))
    BY <1>3, <1>4, <1>5, <1>7 DEF Before
  <2>2. Before(Range(raw), Range(batch') \cup Range(queue'))
    BY <1>1, <1>2, <1>12 DEF HeldInOrder, Before
  <2>3. Before(Range(raw), Range(queue') \cup (IF flusher' = "sent" THEN {} ELSE Range(batch')))
    BY <2>2 DEF Before
  <2> QED
    BY <1>1, <1>2, <1>5, <1>7, <1>12, <1>13, <2>1, <2>3 DEF HeldInOrder
<1>16. TablesAgree'
  BY <1>1, <1>2 DEF TablesAgree, Lost
<1> QED
  BY <1>10, <1>11, <1>14, <1>15, <1>16 DEF Accounts

\* rawBatch.Send has put the batch behind everything in dns_raw.
LEMMA SendRawInv ==
  ASSUME Accounts, SendRaw
  PROVE  Accounts'
<1>1. /\ UNCHANGED <<process, run, group, queue, batch, leaving, answers, done, closed, writtenIn,
                     order, refused, flushed, reported>>
      /\ flusher = "prepared" /\ flusher' = "sent" /\ free' = free + 1 /\ raw' = raw \o batch
  BY DEF SendRaw, FlushUnchanged, processVars, closeVars, historyVars
<1>2. /\ TypeOK /\ FlusherKeepsBounds /\ HandedOver /\ HeldInOrder /\ UnsettledAreLast
      /\ TablesAgree /\ StoredAscending
      /\ raw \in Seq(Events) /\ batch \in Seq(Events)
      /\ \A e \in Range(batch) \cup Range(queue) : e \in Range(order)
  BY Held
<1>3. raw' \in Seq(Events) /\ Range(raw') = Range(raw) \cup Range(batch)
  BY <1>1, <1>2, JoinContents
<1>4. Before(Range(raw), Range(batch)) /\ Before(Range(raw), Range(queue))
  BY <1>1, <1>2 DEF HeldInOrder, Before
<1>5. Ascending(raw')
  BY <1>1, <1>2, <1>4, JoinAscending DEF StoredAscending, HeldInOrder
<1>6. free \in Nat /\ Conns \in Nat /\ free + 2 <= Conns /\ free' = free + 1
  BY <1>1, <1>2, ClickHouseAssumption DEF TypeOK, FlusherKeepsBounds
<1>7. TypeOK'
  <2>1. free' \in 0..Conns
    BY <1>6
  <2> QED
    BY <1>1, <1>2, <1>3, <2>1 DEF TypeOK
<1>8. FlusherKeepsBounds'
  BY <1>1, <1>2, <1>3, <1>6 DEF FlusherKeepsBounds
<1>9. Settled' = Settled /\ \A r : Unsettled(r)' = Unsettled(r)
  BY <1>1 DEF Settled, Unsettled
<1>10. HandedOver'
  BY <1>1, <1>2, <1>3, <1>9 DEF HandedOver
<1>11. UnsettledAreLast' /\ StoredAscending'
  BY <1>1, <1>2, <1>5, <1>9 DEF UnsettledAreLast, StoredAscending
<1>12. HeldInOrder'
  <2>1. Before(Range(raw'), Range(queue'))
    BY <1>1, <1>2, <1>3, <1>4 DEF HeldInOrder, Before
  <2>2. Before(Range(raw'), Range(queue') \cup (IF flusher' = "sent" THEN {} ELSE Range(batch')))
    BY <1>1, <2>1 DEF Before
  <2> QED
    BY <1>1, <1>2, <1>9, <2>2 DEF HeldInOrder
<1>13. TablesAgree'
  BY <1>1, <1>2, <1>3 DEF TablesAgree, Lost
<1> QED
  BY <1>7, <1>8, <1>10, <1>11, <1>12, <1>13 DEF Accounts

\* flushBatch returns: the batch is settled, and what its inserts have added to the
\* tables was behind everything there.
LEMMA ReturnInv ==
  ASSUME Accounts, process = "up",
         PrepareFails \/ SendRawFails \/ SendAnswers \/ SendAnswersFails
  PROVE  Accounts'
<1>1. /\ UNCHANGED <<process, run, group, queue, leaving, done, closed, writtenIn, order, refused>>
      /\ flusher \in {"flush", "prepared", "sent"} /\ batch' = <<>>
      /\ flusher' \in {"select", "exited"}
  BY DEF PrepareFails, SendRawFails, RawUnsent, SendAnswers, SendAnswersFails, AnswersUnsent,
         Succeed, GiveUp, Return, FlushUnchanged, processVars, closeVars, historyVars
<1>2. \/ raw' = raw
      \/ raw' = raw \o batch /\ flusher # "sent" /\ reported' = reported \cup Range(batch)
  BY DEF PrepareFails, SendRawFails, RawUnsent, SendAnswers, SendAnswersFails, AnswersUnsent,
         GiveUp, tableVars
<1>3. \/ answers' = answers
      \/ answers' = answers \o batch /\ flusher = "sent"
  BY DEF PrepareFails, SendRawFails, RawUnsent, SendAnswers, SendAnswersFails, AnswersUnsent,
         tableVars
<1>4. \/ /\ flushed' = flushed \cup Range(batch) /\ reported' = reported
         /\ answers' = answers \o batch /\ flusher = "sent"
      \/ flushed' = flushed /\ reported' = reported \cup Range(batch)
  BY DEF PrepareFails, SendRawFails, RawUnsent, SendAnswers, SendAnswersFails, AnswersUnsent,
         Succeed, GiveUp
<1>5. /\ TypeOK /\ FlusherKeepsBounds /\ HandedOver /\ HeldInOrder /\ UnsettledAreLast
      /\ TablesAgree /\ StoredAscending
      /\ queue \in Seq(Events) /\ batch \in Seq(Events) /\ raw \in Seq(Events)
      /\ answers \in Seq(Events) /\ Range(batch) \subseteq Events /\ run \in 1..MaxRuns
      /\ \A e \in Range(batch) \cup Range(queue) :
           e \in Range(order) /\ e \notin Settled /\ writtenIn[e] = run
  BY Held
<1>6. Conns \in Nat /\ Capacity \in Nat /\ BatchSize \in Nat /\ BatchSize >= 1
      /\ free \in 0..Conns /\ MaxRuns \in Nat
  BY <1>5, ClickHouseAssumption DEF TypeOK
<1>7. free' \in 0..Conns
  <2>1. CASE PrepareFails
    <3>1. free' = free \/ (free >= 1 /\ free' = free - 1)
      BY <1>6, <2>1 DEF PrepareFails, GiveUp
    <3> QED
      BY <1>6, <3>1
  <2>2. CASE SendRawFails
    <3>1. free + 2 <= Conns /\ free' = free + 1
      BY <1>5, <2>2 DEF SendRawFails, RawUnsent, GiveUp, FlusherKeepsBounds
    <3> QED
      BY <1>6, <3>1
  <2>3. CASE SendAnswers \/ SendAnswersFails
    <3>1. free < Conns /\ free' = free + 1
      BY <1>5, <2>3 DEF SendAnswers, SendAnswersFails, AnswersUnsent, Succeed, GiveUp,
         FlusherKeepsBounds
    <3> QED
      BY <1>6, <3>1
  <2> QED
    BY <2>1, <2>2, <2>3
<1>8. /\ batch' \in Seq(Events) /\ Len(batch') = 0 /\ Range(batch') = {} /\ Ascending(batch')
  BY <1>1 DEF Range, Ascending
<1>9. /\ raw' \in Seq(Events) /\ Range(raw) \subseteq Range(raw')
      /\ Range(raw') \subseteq Range(raw) \cup Range(batch)
  <2>1. /\ raw \o batch \in Seq(Events)
        /\ Range(raw \o batch) = Range(raw) \cup Range(batch)
    BY <1>5, JoinContents
  <2> QED
    BY <1>2, <1>5, <2>1
<1>10. /\ answers' \in Seq(Events) /\ Range(answers) \subseteq Range(answers')
       /\ Range(answers') \subseteq Range(answers) \cup Range(batch)
       /\ answers' = answers \o batch => Range(answers') = Range(answers) \cup Range(batch)
  <2>1. /\ answers \o batch \in Seq(Events)
        /\ Range(answers \o batch) = Range(answers) \cup Range(batch)
    BY <1>5, JoinContents
  <2> QED
    BY <1>3, <1>5, <2>1
<1>11. Settled' = Settled \cup Range(batch)
  BY <1>4 DEF Settled
<1>12. TypeOK'
  <2>1. Len(batch') <= BatchSize
    BY <1>6, <1>8
  <2>2. flushed' \subseteq Events /\ reported' \subseteq Events
    BY <1>4, <1>5 DEF TypeOK
  <2>3. /\ queue' \in Seq(Events) /\ Len(queue') <= Capacity
        /\ flusher' \in {"new", "absent", "select", "flush", "prepared", "sent", "exited"}
    BY <1>1, <1>5 DEF TypeOK
  <2> QED
    BY <1>1, <1>5, <1>7, <1>8, <1>9, <1>10, <2>1, <2>2, <2>3 DEF TypeOK
<1>13. FlusherKeepsBounds'
  BY <1>1, <1>5, <1>6, <1>8 DEF FlusherKeepsBounds
<1>14. HandedOver'
  <2>1. flushed' \cap reported' = {}
    BY <1>4, <1>5 DEF HandedOver, Settled
  <2> QED
    BY <1>1, <1>5, <1>9, <1>11, <2>1 DEF HandedOver
<1>15. /\ Range(batch) \cap Range(queue) = {}
       /\ \A r : Unsettled(r)' = Unsettled(r) \ Range(batch)
  <2>1. Range(batch) \cap Range(queue) = {}
    <3>1. \A e \in Range(batch) : ~(e < e)
      <4> TAKE e \in Range(batch)
      <4>1. e \in Nat
        BY <1>5, EventsAreNumbers
      <4> QED
        BY <4>1
    <3> QED
      BY <1>5, <3>1 DEF HeldInOrder, Before
  <2> QED
    BY <1>1, <1>11, <2>1 DEF Unsettled
<1>16. HeldInOrder'
  <2>1. Unsettled(run)' = Range(batch') \cup Range(queue')
    BY <1>1, <1>5, <1>8, <1>15 DEF HeldInOrder
  <2>2. Before(Settled' \cup Range(answers'), Range(batch') \cup Range(queue'))
    BY <1>1, <1>5, <1>8, <1>10, <1>11 DEF HeldInOrder, Before
  <2>3. Before(Range(raw'), Range(queue') \cup (IF flusher' = "sent" THEN {} ELSE Range(batch')))
    BY <1>1, <1>5, <1>8, <1>9 DEF HeldInOrder, Before
  <2>4. Before(Range(batch'), Range(queue')) /\ Ascending(queue')
    BY <1>1, <1>5, <1>8 DEF HeldInOrder, Before
  <2>5. run' = run
    BY <1>1
  <2> QED
    BY <1>8, <2>1, <2>2, <2>3, <2>4, <2>5 DEF HeldInOrder
<1>17. UnsettledAreLast'
  <2> SUFFICES ASSUME NEW r \in 1..MaxRuns
               PROVE  /\ Before({x \in Settled' : writtenIn[x] = r}, Unsettled(r)')
                      /\ IsFiniteSet(Unsettled(r)')
                      /\ Cardinality(Unsettled(r)') <= Capacity + BatchSize
    BY <1>1 DEF UnsettledAreLast
  <2>1. /\ Before({x \in Settled : writtenIn[x] = r}, Unsettled(r))
        /\ IsFiniteSet(Unsettled(r)) /\ Cardinality(Unsettled(r)) <= Capacity + BatchSize
    BY <1>5 DEF UnsettledAreLast
  <2>2. Unsettled(r)' \in SUBSET Unsettled(r)
    BY <1>15
  <2>3. Cardinality(Unsettled(r)') <= Cardinality(Unsettled(r)) /\ IsFiniteSet(Unsettled(r)')
        /\ Cardinality(Unsettled(r)) \in Nat /\ Cardinality(Unsettled(r)') \in Nat
    BY <2>1, <2>2, FS_Subset, FS_CardinalityType
  <2>4. Cardinality(Unsettled(r)') <= Capacity + BatchSize
    BY <1>6, <2>1, <2>3
  <2>5. Before({x \in Settled' : writtenIn[x] = r}, Unsettled(r)')
    <3>1. CASE r # run
      BY <1>5, <1>11, <2>1, <2>2, <3>1 DEF Before
    <3>2. CASE r = run
      <4>1. Unsettled(r)' \subseteq Range(queue)
        BY <1>5, <1>15, <3>2 DEF HeldInOrder
      <4> QED
        BY <1>5, <1>11, <2>1, <2>2, <4>1 DEF HeldInOrder, Before
    <3> QED
      BY <3>1, <3>2
  <2> QED
    BY <2>3, <2>4, <2>5
<1>18. StoredAscending'
  <2>1. Ascending(raw')
    <3>1. flusher # "sent" => Before(Range(raw), Range(batch))
      BY <1>5 DEF HeldInOrder, Before
    <3> QED
      BY <1>2, <1>5, <3>1, JoinAscending DEF StoredAscending, HeldInOrder
  <2>2. Ascending(answers')
    <3>1. Before(Range(answers), Range(batch))
      BY <1>5 DEF HeldInOrder, Before
    <3> QED
      BY <1>3, <1>5, <3>1, JoinAscending DEF StoredAscending, HeldInOrder
  <2> QED
    BY <2>1, <2>2 DEF StoredAscending
<1>19. TablesAgree'
  <2>1. Lost' = Lost
    <3>1. run \in Nat
      BY <1>5, <1>6
    <3> QED
      BY <1>1, <1>5, <1>11, <3>1 DEF Lost, Settled
  <2>2. Range(answers') \subseteq Range(raw')
    BY <1>3, <1>5, <1>9, <1>10 DEF TablesAgree, FlusherKeepsBounds
  <2>3. Range(raw') \ Range(answers') \subseteq reported' \cup Lost'
    BY <1>2, <1>4, <1>5, <1>9, <1>10, <2>1 DEF TablesAgree
  <2>4. flushed' \subseteq Range(answers')
    BY <1>4, <1>5, <1>10 DEF TablesAgree
  <2> QED
    BY <1>1, <2>2, <2>3, <2>4 DEF TablesAgree
<1> QED
  BY <1>12, <1>13, <1>14, <1>16, <1>17, <1>18, <1>19 DEF Accounts

LEMMA EndInv ==
  ASSUME Accounts, End
  PROVE  Accounts'
<1>1. /\ process' = "down"
      /\ UNCHANGED <<run, group, queue, batch, flusher, leaving, free, raw, answers, done, closed,
                     writtenIn, order, refused, flushed, reported>>
  BY DEF End, tableVars, closeVars, historyVars
<1>2. /\ TypeOK /\ FlusherKeepsBounds /\ HandedOver /\ HeldInOrder /\ UnsettledAreLast
      /\ TablesAgree /\ StoredAscending
  BY DEF Accounts
<1>3. Settled' = Settled /\ (\A r : Unsettled(r)' = Unsettled(r)) /\ Lost \subseteq Lost'
  BY <1>1 DEF Settled, Unsettled, Lost
<1>4. TypeOK'
  BY <1>1, <1>2 DEF TypeOK
<1>5. FlusherKeepsBounds' /\ HandedOver' /\ StoredAscending'
  BY <1>1, <1>2, <1>3 DEF FlusherKeepsBounds, HandedOver, StoredAscending
<1>6. HeldInOrder' /\ UnsettledAreLast'
  BY <1>1, <1>2, <1>3 DEF HeldInOrder, UnsettledAreLast
<1>7. TablesAgree'
  BY <1>1, <1>2, <1>3 DEF TablesAgree
<1> QED
  BY <1>4, <1>5, <1>6, <1>7 DEF Accounts

\* The next process starts with nothing, and what the last one has not settled is lost.
LEMMA RestartInv ==
  ASSUME Accounts, Restart
  PROVE  Accounts'
<1>1. /\ process = "down" /\ run < MaxRuns /\ process' = "up" /\ run' = run + 1
      /\ queue' = <<>> /\ batch' = <<>> /\ flusher' = "new" /\ leaving' = FALSE /\ free' = Conns
      /\ done' = FALSE /\ closed' = FALSE
      /\ UNCHANGED <<group, raw, answers, writtenIn, order, refused, flushed, reported>>
  BY DEF Restart, tableVars, historyVars
<1>2. /\ TypeOK /\ FlusherKeepsBounds /\ HandedOver /\ HeldInOrder /\ UnsettledAreLast
      /\ TablesAgree /\ StoredAscending /\ run \in 1..MaxRuns
      /\ \A e \in Range(batch) \cup Range(queue) :
           e \in Range(order) /\ e \notin Settled /\ writtenIn[e] = run
  BY Held
<1>3. /\ Capacity \in Nat /\ BatchSize \in Nat /\ Conns \in Nat /\ MaxRuns \in Nat
      /\ run \in Nat /\ run + 1 \in 1..MaxRuns /\ run < run + 1
  BY <1>1, <1>2, ClickHouseAssumption
<1>4. /\ queue' \in Seq(Events) /\ Len(queue') = 0 /\ Range(queue') = {} /\ Ascending(queue')
      /\ batch' \in Seq(Events) /\ Len(batch') = 0 /\ Range(batch') = {} /\ Ascending(batch')
  BY <1>1 DEF Range, Ascending
<1>5. writtenIn \in [Events -> 0..run] /\ \A e \in Events : writtenIn[e] <= run /\ writtenIn[e] \in Nat
  BY <1>2, <1>3 DEF TypeOK
<1>6. Range(order) \subseteq Events
  BY <1>2 DEF TypeOK, Range
<1>7. TypeOK'
  <2>1. writtenIn' \in [Events -> 0..run']
    BY <1>1, <1>3, <1>5
  <2>2. Len(queue') <= Capacity /\ Len(batch') <= BatchSize /\ run' \in 1..MaxRuns
        /\ free' \in 0..Conns
    BY <1>1, <1>3, <1>4
  <2>3. queue' \in Seq(Events) /\ batch' \in Seq(Events)
    BY <1>4
  <2> QED
    BY <1>1, <1>2, <2>1, <2>2, <2>3 DEF TypeOK
<1>8. FlusherKeepsBounds'
  BY <1>1, <1>2 DEF FlusherKeepsBounds
<1>9. Settled' = Settled /\ \A r : Unsettled(r)' = Unsettled(r)
  BY <1>1 DEF Settled, Unsettled
<1>10. HandedOver' /\ UnsettledAreLast' /\ StoredAscending'
  BY <1>1, <1>2, <1>9 DEF HandedOver, UnsettledAreLast, StoredAscending
<1>11. HeldInOrder'
  <2>1. \A e \in Range(order) : writtenIn[e] # run + 1
    BY <1>3, <1>5, <1>6
  <2>2. Unsettled(run + 1) = {}
    BY <2>1 DEF Unsettled
  <2>3. Unsettled(run)' = {}
    <3>1. Unsettled(run)' = {e \in Range(order) \ Settled : writtenIn[e] = run + 1}
      BY <1>1, <1>9 DEF Unsettled
    <3> QED
      BY <2>1, <3>1
  <2> QED
    BY <1>4, <2>3 DEF HeldInOrder, Before
<1>12. TablesAgree'
  <2>1. \A e \in Range(order) : writtenIn[e] < run + 1
    BY <1>3, <1>5, <1>6
  <2>2. Range(order) \ Settled \subseteq Lost'
    BY <1>1, <2>1 DEF Lost, Settled
  <2>3. Lost \subseteq Range(order) \ Settled /\ Range(batch) \subseteq Range(order) \ Settled
    BY <1>2 DEF Lost, Settled
  <2>4. Range(raw) \ Range(answers) \subseteq reported \cup (Range(order) \ Settled)
    BY <1>2, <2>3 DEF TablesAgree
  <2> QED
    BY <1>1, <1>2, <2>2, <2>4 DEF TablesAgree
<1> QED
  BY <1>7, <1>8, <1>10, <1>11, <1>12 DEF Accounts

LEMMA NextInv == Accounts /\ [Next]_vars => Accounts'
BY TurnInv, WriteInv, TakeInv, SendRawInv, ReturnInv, EndInv, RestartInv
   DEF Next, Flusher, Ended

\* What is lost in a run comes last in it, and is no more than the channel and the
\* batch hold: those of the run that were settled were in front of it.
LEMMA FewAreLost == Accounts => OnlyTheLastAreLost
<1> SUFFICES ASSUME Accounts, NEW e \in Lost
             PROVE  LET after == {f \in Range(order) : f >= e /\ writtenIn[f] = writtenIn[e]}
                    IN after \subseteq Lost /\ Cardinality(after) <= Capacity + BatchSize
  BY DEF OnlyTheLastAreLost
<1> DEFINE r == writtenIn[e]
           after == {f \in Range(order) : f >= e /\ writtenIn[f] = r}
<1>1. /\ TypeOK /\ HandedOver /\ UnsettledAreLast /\ Range(order) \subseteq Events
      /\ run \in 1..MaxRuns
  BY Held
<1>2. e \in Range(order) /\ e \notin Settled /\ (r < run \/ process = "down")
  BY DEF Lost, Settled
<1>3. r \in 1..MaxRuns
  <2>1. e \in Events /\ r # 0 /\ r \in 0..run
    BY <1>1, <1>2 DEF HandedOver, TypeOK
  <2> QED
    BY <1>1, <2>1, ClickHouseAssumption
<1>4. /\ Before({f \in Settled : writtenIn[f] = r}, Unsettled(r))
      /\ IsFiniteSet(Unsettled(r)) /\ Cardinality(Unsettled(r)) <= Capacity + BatchSize
  BY <1>1, <1>3 DEF UnsettledAreLast
<1>5. \A f \in after : f \notin Settled
  <2> SUFFICES ASSUME NEW f \in after, f \in Settled PROVE FALSE
    OBVIOUS
  <2>1. e \in Unsettled(r)
    BY <1>2 DEF Unsettled
  <2>2. f < e /\ f >= e /\ f \in Events /\ e \in Events
    BY <1>1, <1>2, <1>4, <2>1 DEF Before
  <2> QED
    BY <2>2, ClickHouseAssumption
<1>6. after \subseteq Lost
  BY <1>2, <1>5 DEF Lost, Settled
<1>7. after \in SUBSET Unsettled(r)
  BY <1>5 DEF Unsettled
<1>8. /\ Cardinality(after) <= Cardinality(Unsettled(r)) /\ Cardinality(after) \in Nat
      /\ Cardinality(Unsettled(r)) \in Nat /\ Capacity \in Nat /\ BatchSize \in Nat
  BY <1>4, <1>7, FS_Subset, FS_CardinalityType, ClickHouseAssumption
<1>9. Cardinality(after) <= Capacity + BatchSize
  BY <1>4, <1>8
<1> QED
  BY <1>6, <1>9

-----------------------------------------------------------------------------
(* The order of the topic *)

LEMMA InitTurn == Init => HandedOverInTurn
BY DEF Init, HandedOverInTurn

\* An event is handed over behind all others, and is a later message than those of its
\* start, and with a group than those of every start.
LEMMA WriteTurn ==
  ASSUME Accounts, HandedOverInTurn, NEW w \in Events, Write(w)
  PROVE  HandedOverInTurn'
<1>1. New(w) /\ writtenIn' = [writtenIn EXCEPT ![w] = run] /\ group' = group
  BY DEF Write, processVars
<1>2. writtenIn \in [Events -> 0..run] /\ run \in Nat /\ run # 0
  BY ClickHouseAssumption DEF Accounts, TypeOK
<1>3. writtenIn'[w] = run /\ \A e \in Events : e # w => writtenIn'[e] = writtenIn[e]
  BY <1>1, <1>2
<1>4. \A e \in Events : writtenIn[e] # 0 => e < w
  BY <1>1, EventsAreNumbers, ClickHouseAssumption DEF New
<1> SUFFICES ASSUME NEW e \in Events, NEW f \in Events, e < f, writtenIn'[e] # 0,
                    writtenIn'[f] # 0
             PROVE  Offset[e] < Offset[f] \/ (~group /\ writtenIn'[e] < writtenIn'[f])
  BY <1>1 DEF HandedOverInTurn
<1>5. e # w
  BY <1>3, <1>4, ClickHouseAssumption
<1>6. CASE f = w
  <2>1. writtenIn[e] \in Nat /\ writtenIn[e] <= run /\ writtenIn[e] # 0
    BY <1>2, <1>3, <1>5
  <2>2. writtenIn[e] = run \/ group => Offset[e] < Offset[w]
    BY <1>1, <2>1 DEF New
  <2> QED
    BY <1>2, <1>3, <1>5, <1>6, <2>1, <2>2
<1>7. CASE f # w
  BY <1>3, <1>5, <1>7 DEF HandedOverInTurn
<1> QED
  BY <1>6, <1>7

LEMMA NextTurn == Accounts /\ HandedOverInTurn /\ [Next]_vars => HandedOverInTurn'
<1> SUFFICES ASSUME Accounts, HandedOverInTurn, [Next]_vars PROVE HandedOverInTurn'
  OBVIOUS
<1>1. CASE \E e \in Events : Write(e)
  BY <1>1, WriteTurn
<1>2. CASE UNCHANGED <<writtenIn, group>>
  BY <1>2 DEF HandedOverInTurn
<1> QED
  BY <1>1, <1>2 DEF Next, Migrate, Flusher, Take, Tick, Due, SeeDone, Prepare, PrepareFails,
     SendRaw, SendRawFails, SendAnswers, SendAnswersFails, Succeed, GiveUp, FlushUnchanged,
     BeginClose, EndClose, CloseReturns, End, Restart, Ended, vars, processVars, historyVars

\* The tables hold events in the order in which they were handed over.
LEMMA TablesKeepTurn == Accounts /\ HandedOverInTurn => ClickHouseInv
<1> SUFFICES ASSUME Accounts, HandedOverInTurn PROVE ClickHouseInv
  OBVIOUS
<1>1. /\ TypeOK /\ FlusherKeepsBounds /\ HandedOver /\ HeldInOrder /\ UnsettledAreLast
      /\ TablesAgree /\ StoredAscending /\ Range(order) \subseteq Events
  BY Held
<1>2. Range(raw) \subseteq Range(order) /\ Range(answers) \subseteq Range(order)
  BY <1>1 DEF HandedOver, TablesAgree
<1>3. \A e \in Range(order) : e \in Events /\ writtenIn[e] # 0
  BY <1>1 DEF HandedOver
<1>4. ASSUME NEW s \in {raw, answers}, NEW i \in DOMAIN s, NEW j \in DOMAIN s, i < j
      PROVE  Offset[s[i]] < Offset[s[j]] \/ (~group /\ writtenIn[s[i]] < writtenIn[s[j]])
  <2>1. Ascending(s) /\ Range(s) \subseteq Range(order)
    BY <1>1, <1>2 DEF StoredAscending
  <2>2. s[i] \in Range(s) /\ s[j] \in Range(s)
    BY DEF Range
  <2>3. s[i] < s[j]
    BY <1>4, <2>1 DEF Ascending
  <2> QED
    BY <1>3, <2>1, <2>2, <2>3 DEF HandedOverInTurn
<1>5. StoredOnceInOrder
  BY <1>1, <1>4 DEF StoredOnceInOrder, StoredAscending
<1> QED
  BY <1>1, <1>5 DEF ClickHouseInv

\* The writer's invariant: the two tables agree but for batches reported as failed,
\* the batch between its two inserts and what the end of a process left there.  With a
\* group neither gets a message twice or out of the order of the topic, over restarts
\* too; without one the same is true of the rows of each start, which follow those of
\* the start before.
THEOREM Invariance == Spec => []ClickHouseInv
<1> QED
  BY InitInv, InitTurn, NextInv, NextTurn, TablesKeepTurn, PTL DEF Spec

\* The events of a run that are lost without a report come last in it, and are no more
\* than the channel and the batch hold.
THEOREM LossIsBounded == Spec => []OnlyTheLastAreLost
<1> QED
  BY InitInv, NextInv, FewAreLost, PTL DEF Spec

-----------------------------------------------------------------------------
(* In each of its runs the writer implements the event relay *)

Relay(r) == INSTANCE EventRelay
              WITH status <- [e \in Events |-> Outcome(e, r)], mode <- Mode(r),
                   MayReport <- TRUE

statusBar(r) == [e \in Events |-> Outcome(e, r)]

LEMMA RelayInit ==
  ASSUME NEW r \in 1..MaxRuns, Init
  PROVE  Relay(r)!Init
<1>1. r \in Nat /\ r # 0 /\ r >= 1
  BY ClickHouseAssumption
<1>2. \A e \in Events : Outcome(e, r) = "new"
  BY <1>1 DEF Init, Outcome
<1>3. Mode(r) = "open"
  BY <1>1 DEF Init, Mode
<1> QED
  BY <1>2, <1>3 DEF Relay!Init

LEMMA RelayStutters ==
  ASSUME NEW r \in 1..MaxRuns, \A e \in Events : Outcome(e, r)' = Outcome(e, r),
         Mode(r)' = Mode(r)
  PROVE  UNCHANGED Relay(r)!vars
BY DEF Relay!vars

\* Before its run, nothing of it is there.
LEMMA NotYetStarted ==
  ASSUME Accounts, NEW r \in 1..MaxRuns, run < r
  PROVE  (\A e \in Events : Outcome(e, r) = "new") /\ Mode(r) = "open"
<1>1. run \in Nat /\ r \in Nat /\ writtenIn \in [Events -> 0..run]
  BY ClickHouseAssumption DEF Accounts, TypeOK
<1>2. \A e \in Events : writtenIn[e] # r
  BY <1>1
<1> QED
  BY <1>1, <1>2 DEF Outcome, Mode

\* After it, everything is settled, refused or abandoned.
LEMMA AtRest ==
  ASSUME Accounts, NEW r \in 1..MaxRuns, run > r \/ (run = r /\ process = "down")
  PROVE  /\ Mode(r) = "closed"
         /\ \A e \in Events : Outcome(e, r) =
              IF writtenIn[e] # r THEN "new"
              ELSE IF e \in refused THEN "refused"
              ELSE IF e \in flushed THEN "relayed"
              ELSE IF e \in reported THEN "reported"
              ELSE "abandoned"
<1>1. run \in Nat /\ r \in Nat /\ r # 0 /\ HandedOver
  BY ClickHouseAssumption DEF Accounts, TypeOK
<1>2. Mode(r) = "closed"
  BY <1>1 DEF Mode
<1>3. ASSUME NEW e \in Events, writtenIn[e] = r, e \notin refused, e \notin Settled
      PROVE  e \in Lost
  <2>1. e \in Range(order)
    BY <1>1, <1>3 DEF HandedOver
  <2> QED
    BY <1>1, <1>3, <2>1 DEF Lost, Settled
<1> QED
  BY <1>2, <1>3 DEF Outcome, Settled

LEMMA RelayOtherRun ==
  ASSUME NEW r \in 1..MaxRuns, Accounts, Accounts', [Next]_vars, run # r
  PROVE  UNCHANGED Relay(r)!vars
<1>1. run \in Nat /\ r \in Nat /\ r # 0 /\ run \in 1..MaxRuns
  BY ClickHouseAssumption DEF Accounts, TypeOK
<1>2. run' = run \/ Restart
  BY DEF Next, Migrate, Write, Flusher, Take, Tick, Due, SeeDone, Prepare, PrepareFails, SendRaw,
         SendRawFails, SendAnswers, SendAnswersFails, Succeed, GiveUp, FlushUnchanged,
         BeginClose, EndClose, CloseReturns, End, Ended, vars, processVars
<1>3. CASE run < r
  <2>1. (\A e \in Events : Outcome(e, r) = "new") /\ Mode(r) = "open"
    BY <1>3, NotYetStarted
  <2>2. CASE run' = run
    <3>1. run' \in Nat /\ writtenIn' \in [Events -> 0..run']
      BY <1>1, <2>2 DEF Accounts, TypeOK
    <3>2. \A e \in Events : writtenIn'[e] # r
      BY <1>1, <1>3, <2>2, <3>1
    <3>3. (\A e \in Events : Outcome(e, r)' = "new") /\ Mode(r)' = "open"
      BY <1>1, <1>3, <2>2, <3>2 DEF Outcome, Mode
    <3> QED
      BY <2>1, <3>3, RelayStutters
  <2>3. CASE Restart
    <3>1. /\ run' = run + 1 /\ process' = "up" /\ done' = FALSE /\ closed' = FALSE
          /\ writtenIn' = writtenIn
      BY <2>3 DEF Restart, historyVars
    <3>2. \A e \in Events : writtenIn[e] # r
      BY <1>1, <1>3 DEF Accounts, TypeOK
    <3>3. \A e \in Events : Outcome(e, r)' = "new"
      BY <3>1, <3>2 DEF Outcome
    <3>4. Mode(r)' = "open"
      BY <1>1, <1>3, <3>1 DEF Mode
    <3> QED
      BY <2>1, <3>3, <3>4, RelayStutters
  <2> QED
    BY <1>2, <2>2, <2>3
<1>4. CASE run > r
  <2>1. run' > r
    BY <1>1, <1>2, <1>4 DEF Restart
  <2>2. /\ Mode(r) = "closed"
        /\ \A e \in Events : Outcome(e, r) =
             IF writtenIn[e] # r THEN "new"
             ELSE IF e \in refused THEN "refused"
             ELSE IF e \in flushed THEN "relayed"
             ELSE IF e \in reported THEN "reported"
             ELSE "abandoned"
    BY <1>4, AtRest
  <2>3. /\ Mode(r)' = "closed"
        /\ \A e \in Events : Outcome(e, r)' =
             IF writtenIn'[e] # r THEN "new"
             ELSE IF e \in refused' THEN "refused"
             ELSE IF e \in flushed' THEN "relayed"
             ELSE IF e \in reported' THEN "reported"
             ELSE "abandoned"
    <3>1. run' \in Nat /\ HandedOver'
      BY ClickHouseAssumption DEF Accounts, TypeOK
    <3>2. Mode(r)' = "closed"
      BY <2>1 DEF Mode
    <3>3. ASSUME NEW e \in Events, writtenIn'[e] = r, e \notin refused', e \notin flushed',
                 e \notin reported'
          PROVE  e \in Lost'
      <4>1. e \in Range(order')
        BY <1>1, <3>1, <3>3 DEF HandedOver
      <4> QED
        BY <2>1, <3>3, <4>1 DEF Lost
    <3> QED
      BY <3>2, <3>3 DEF Outcome
  <2>4. \A e \in Events : writtenIn[e] = r \/ writtenIn'[e] = r =>
          /\ writtenIn'[e] = writtenIn[e]
          /\ e \in refused' <=> e \in refused
          /\ e \in flushed' <=> e \in flushed
          /\ e \in reported' <=> e \in reported
    <3>1. CASE UNCHANGED <<writtenIn, refused, flushed, reported>>
      BY <3>1
    <3>2. CASE \E f \in Events : Write(f)
      <4>1. PICK f \in Events : Write(f)
        BY <3>2
      <4>2. /\ writtenIn' = [writtenIn EXCEPT ![f] = run] /\ writtenIn[f] = 0
            /\ refused' \in {refused, refused \cup {f}}
            /\ UNCHANGED <<flushed, reported>>
        BY <4>1, EventsAreNumbers, ClickHouseAssumption DEF Write, New
      <4>3. writtenIn \in [Events -> 0..run]
        BY DEF Accounts, TypeOK
      <4> QED
        BY <1>1, <1>4, <4>2, <4>3
    <3>3. CASE PrepareFails \/ SendRawFails \/ SendAnswers \/ SendAnswersFails
      <4>1. /\ UNCHANGED <<writtenIn, refused>>
            /\ flushed' \in {flushed, flushed \cup Range(batch)}
            /\ reported' \in {reported, reported \cup Range(batch)}
        BY <3>3 DEF PrepareFails, SendRawFails, SendAnswers, SendAnswersFails, Succeed, GiveUp,
           FlushUnchanged, historyVars
      <4>2. \A e \in Range(batch) : writtenIn[e] = run
        BY Held
      <4> QED
        BY <1>1, <1>4, <4>1, <4>2
    <3> QED
      BY <3>1, <3>2, <3>3 DEF Next, Migrate, Flusher, Take, Tick, Due, SeeDone, Prepare, SendRaw,
         FlushUnchanged, BeginClose, EndClose, CloseReturns, End, Restart, Ended, vars,
         historyVars
  <2>5. \A e \in Events : Outcome(e, r)' = Outcome(e, r)
    BY <2>2, <2>3, <2>4
  <2> QED
    BY <2>2, <2>3, <2>5, RelayStutters
<1> QED
  BY <1>1, <1>3, <1>4

LEMMA RelayWrite ==
  ASSUME NEW r \in 1..MaxRuns, run = r, Accounts, process = "up", ~done,
         NEW e \in Events, Write(e)
  PROVE  Relay(r)!Next
<1>1. /\ UNCHANGED <<process, run, done, closed, flushed, reported>>
      /\ New(e) /\ writtenIn' = [writtenIn EXCEPT ![e] = run]
  BY DEF Write, processVars, closeVars
<1>2. TypeOK /\ FlusherKeepsBounds /\ HandedOver /\ run \in 1..MaxRuns
  BY Held
<1>3. writtenIn[e] = 0 /\ run # 0 /\ run \in Nat /\ writtenIn \in [Events -> 0..run]
  BY <1>1, <1>2, EventsAreNumbers, ClickHouseAssumption DEF New, TypeOK
<1>4. ~closed /\ Mode(r) = "open" /\ Mode(r)' = "open"
  BY <1>1, <1>2, <1>3 DEF FlusherKeepsBounds, Mode
<1>5. e \notin Range(order) /\ e \notin refused /\ e \notin flushed /\ e \notin reported
  BY <1>2, <1>3 DEF HandedOver, Settled
<1>6. Outcome(e, r) = "new"
  BY <1>3 DEF Outcome
<1>7. writtenIn'[e] = run /\ \A f \in Events : f # e => writtenIn'[f] = writtenIn[f]
  BY <1>1, <1>3
<1>8. CASE Len(queue) < Capacity
  <2>1. order' = Append(order, e) /\ refused' = refused /\ order \in Seq(Events)
    BY <1>2, <1>8 DEF Write, TypeOK
  <2>2. Range(order') = Range(order) \cup {e}
    BY <2>1, SendContents
  <2>3. e \notin Lost' /\ \A f \in Events : f # e => (f \in Lost' <=> f \in Lost)
    BY <1>1, <1>3, <1>7, <2>2 DEF Lost
  <2>4. Outcome(e, r)' = "accepted" /\ \A f \in Events : f # e => Outcome(f, r)' = Outcome(f, r)
    BY <1>1, <1>4, <1>5, <1>7, <2>1, <2>3 DEF Outcome
  <2>5. statusBar(r)' = [f \in Events |-> IF f \in {e} THEN "accepted" ELSE statusBar(r)[f]]
    BY <2>4 DEF statusBar
  <2>6. Relay(r)!Accept(e)
    BY <1>4, <1>6, <2>5 DEF statusBar, Relay!Accept, Relay!Move
  <2> QED
    BY <1>1, <2>6 DEF Relay!Next
<1>9. CASE ~(Len(queue) < Capacity)
  <2>1. order' = order /\ refused' = refused \cup {e}
    BY <1>9 DEF Write
  <2>2. \A f \in Events : f # e => (f \in Lost' <=> f \in Lost)
    BY <1>1, <1>7, <2>1 DEF Lost
  <2>3. Outcome(e, r)' = "refused" /\ \A f \in Events : f # e => Outcome(f, r)' = Outcome(f, r)
    BY <1>1, <1>7, <2>1, <2>2 DEF Outcome
  <2>4. statusBar(r)' = [f \in Events |-> IF f \in {e} THEN "refused" ELSE statusBar(r)[f]]
    BY <2>3 DEF statusBar
  <2>5. Relay(r)!Refuse(e)
    BY <1>4, <1>6, <2>4 DEF statusBar, Relay!Refuse, Relay!Move
  <2> QED
    BY <1>1, <2>5 DEF Relay!Next
<1> QED
  BY <1>8, <1>9

LEMMA RelayReturn ==
  ASSUME NEW r \in 1..MaxRuns, run = r, Accounts, process = "up",
         PrepareFails \/ SendRawFails \/ SendAnswers \/ SendAnswersFails
  PROVE  [Relay(r)!Next]_(Relay(r)!vars)
<1> DEFINE S == Range(batch)
<1>1. /\ UNCHANGED <<process, run, done, closed, writtenIn, order, refused>>
      /\ flusher \in {"flush", "prepared", "sent"}
      /\ \/ flushed' = flushed \cup S /\ reported' = reported
         \/ flushed' = flushed /\ reported' = reported \cup S
  BY DEF PrepareFails, SendRawFails, RawUnsent, SendAnswers, SendAnswersFails, AnswersUnsent,
         Succeed, GiveUp, FlushUnchanged, processVars, closeVars, historyVars
<1>2. /\ FlusherKeepsBounds /\ HandedOver /\ S \subseteq Events
      /\ \A e \in S : e \in Range(order) /\ e \notin Settled /\ writtenIn[e] = run
  BY Held
<1>3. ~closed /\ Mode(r) # "closed" /\ Mode(r)' = Mode(r)
  BY <1>1, <1>2, ClickHouseAssumption DEF FlusherKeepsBounds, Mode
<1>4. \A e \in S : e \notin refused /\ e \notin flushed /\ e \notin reported
  BY <1>2 DEF HandedOver, Settled
<1>5. \A e \in Events : writtenIn[e] = r => e \notin Lost /\ e \notin Lost'
  BY <1>1, ClickHouseAssumption DEF Lost
<1>6. \A e \in S : Outcome(e, r) = "accepted"
  BY <1>2, <1>3, <1>4, <1>5 DEF Outcome
<1>7. S \in SUBSET Relay(r)!With("accepted")
  BY <1>2, <1>6 DEF Relay!With
<1>8. \A e \in Events \ S : Outcome(e, r)' = Outcome(e, r)
  BY <1>1, <1>5 DEF Outcome
<1> HIDE DEF S
<1>9. CASE S = {}
  BY <1>3, <1>8, <1>9, RelayStutters
<1>10. CASE S # {} /\ flushed' = flushed \cup S /\ reported' = reported
  <2>1. \A e \in S : Outcome(e, r)' = "relayed"
    BY <1>1, <1>2, <1>4, <1>10 DEF Outcome, S
  <2>2. statusBar(r)' = [e \in Events |-> IF e \in S THEN "relayed" ELSE statusBar(r)[e]]
    BY <1>2, <1>8, <2>1 DEF statusBar
  <2>3. Relay(r)!Relay(S)
    BY <1>3, <1>10, <2>2 DEF statusBar, Relay!Relay, Relay!Move
  <2> QED
    BY <1>7, <2>3 DEF Relay!Next
<1>11. CASE S # {} /\ flushed' = flushed /\ reported' = reported \cup S
  <2>1. \A e \in S : Outcome(e, r)' = "reported"
    BY <1>1, <1>2, <1>4, <1>11 DEF Outcome, S
  <2>2. statusBar(r)' = [e \in Events |-> IF e \in S THEN "reported" ELSE statusBar(r)[e]]
    BY <1>2, <1>8, <2>1 DEF statusBar
  <2>3. Relay(r)!Report(S)
    BY <1>3, <1>11, <2>2 DEF statusBar, Relay!Report, Relay!Move
  <2> QED
    BY <1>7, <2>3 DEF Relay!Next
<1> QED
  BY <1>1, <1>9, <1>10, <1>11

\* A Close that returns, and the end of the process, abandon what is still accepted.
LEMMA RelayEnds ==
  ASSUME NEW r \in 1..MaxRuns, run = r, Accounts, process = "up",
         BeginClose \/ EndClose \/ End
  PROVE  [Relay(r)!Next]_(Relay(r)!vars)
<1>1. /\ UNCHANGED <<run, writtenIn, order, refused, flushed, reported>>
      /\ run \in Nat /\ FlusherKeepsBounds /\ HandedOver
  BY ClickHouseAssumption DEF BeginClose, EndClose, CloseReturns, End, processVars, historyVars,
     Accounts, TypeOK
<1>2. \A e \in Events : writtenIn[e] = r => e \notin Lost
  BY <1>1 DEF Lost
<1>3. CASE BeginClose
  <2>1. ~closed /\ Mode(r) = "open" /\ Mode(r)' = "draining" /\ process' = process /\ closed' = closed
    BY <1>1, <1>3 DEF BeginClose, Mode, FlusherKeepsBounds, processVars
  <2>2. \A e \in Events : Outcome(e, r)' = Outcome(e, r)
    BY <1>1, <2>1 DEF Outcome, Lost
  <2>3. Relay(r)!Drain
    BY <2>1, <2>2 DEF Relay!Drain
  <2> QED
    BY <2>3 DEF Relay!Next
<1>4. CASE End /\ closed
  <2>1. process' = "down" /\ closed' = closed /\ done' = done
    BY <1>4 DEF End, closeVars
  <2>2. \A e \in Events : Outcome(e, r)' = Outcome(e, r)
    BY <1>1, <1>4, <2>1 DEF Outcome
  <2>3. Mode(r)' = Mode(r)
    BY <1>1, <1>4, <2>1 DEF Mode
  <2> QED
    BY <2>2, <2>3, RelayStutters
<1>5. CASE ~closed /\ (EndClose \/ End)
  <2>1. /\ Mode(r) # "closed" /\ Mode(r)' = "closed"
        /\ closed' \/ (process' = "down" /\ closed' = closed)
        /\ process' = process \/ process' = "down"
    BY <1>1, <1>5 DEF EndClose, CloseReturns, End, closeVars, processVars, Mode
  <2>2. ASSUME NEW e \in Events
        PROVE  Outcome(e, r)' = IF Outcome(e, r) = "accepted" THEN "abandoned" ELSE Outcome(e, r)
    <3>1. writtenIn[e] = r /\ e \notin refused /\ e \notin flushed /\ e \notin reported
            => closed' \/ e \in Lost'
      BY <1>1, <2>1 DEF Lost, HandedOver
    <3> QED
      BY <1>1, <1>2, <1>5, <3>1 DEF Outcome
  <2>3. statusBar(r)' = [e \in Events |-> IF e \in Relay(r)!With("accepted") THEN "abandoned"
                                           ELSE statusBar(r)[e]]
    BY <2>2 DEF statusBar, Relay!With
  <2>4. Relay(r)!Finish
    BY <2>1, <2>3 DEF Relay!Finish, Relay!Move, statusBar
  <2> QED
    BY <2>4 DEF Relay!Next
<1> QED
  BY <1>3, <1>4, <1>5 DEF EndClose, CloseReturns

LEMMA RelayRestart ==
  ASSUME NEW r \in 1..MaxRuns, run = r, Accounts, Restart
  PROVE  UNCHANGED Relay(r)!vars
<1>1. /\ process = "down" /\ run' = run + 1 /\ closed' = FALSE
      /\ UNCHANGED <<writtenIn, order, refused, flushed, reported>>
      /\ run \in Nat /\ run # 0 /\ HandedOver
  BY ClickHouseAssumption DEF Restart, historyVars, Accounts, TypeOK
<1>2. /\ Mode(r) = "closed"
      /\ \A e \in Events : Outcome(e, r) =
           IF writtenIn[e] # r THEN "new"
           ELSE IF e \in refused THEN "refused"
           ELSE IF e \in flushed THEN "relayed"
           ELSE IF e \in reported THEN "reported"
           ELSE "abandoned"
  BY <1>1, AtRest
<1>3. Mode(r)' = "closed"
  BY <1>1 DEF Mode
<1>4. ASSUME NEW e \in Events, writtenIn[e] = r, e \notin refused, e \notin flushed,
             e \notin reported
      PROVE  e \in Lost'
  BY <1>1, <1>4 DEF Lost, HandedOver
<1>5. \A e \in Events : Outcome(e, r)' = Outcome(e, r)
  BY <1>1, <1>2, <1>4 DEF Outcome
<1> QED
  BY <1>2, <1>3, <1>5, RelayStutters

LEMMA RelayTurn ==
  ASSUME NEW r \in 1..MaxRuns,
         Migrate \/ Tick \/ SeeDone \/ Take \/ Prepare \/ SendRaw \/ UNCHANGED vars
  PROVE  UNCHANGED Relay(r)!vars
<1>1. UNCHANGED <<process, run, done, closed, writtenIn, order, refused, flushed, reported>>
  BY DEF Migrate, Tick, Due, SeeDone, Take, Prepare, SendRaw, FlushUnchanged, vars, processVars,
         closeVars, historyVars
<1>2. (\A e \in Events : Outcome(e, r)' = Outcome(e, r)) /\ Mode(r)' = Mode(r)
  BY <1>1 DEF Outcome, Lost, Mode
<1> QED
  BY <1>2, RelayStutters

LEMMA RelayNext ==
  ASSUME NEW r \in 1..MaxRuns, Accounts, Accounts', [Next]_vars
  PROVE  [Relay(r)!Next]_(Relay(r)!vars)
<1>1. CASE run # r
  BY <1>1, RelayOtherRun
<1>2. CASE run = r
  BY <1>2, RelayWrite, RelayReturn, RelayEnds, RelayRestart, RelayTurn
     DEF Next, Flusher, Ended
<1> QED
  BY <1>1, <1>2

\* In each run of the process the writer implements EventRelay: of what it takes in that
\* run it flushes or reports every event once, except what it holds when Close returns
\* or the process ends, and no later run flushes or reports it again.
THEOREM RelayInEveryRun ==
  ASSUME NEW r \in 1..MaxRuns
  PROVE  Spec => Relay(r)!Spec
<1>1. Init => Relay(r)!Init
  BY RelayInit
<1>2. Accounts /\ Accounts' /\ [Next]_vars => [Relay(r)!Next]_(Relay(r)!vars)
  BY RelayNext
<1> QED
  BY <1>1, <1>2, InitInv, NextInv, PTL DEF Spec, Relay!Spec

\* The two runs that the model checker looks at are the first and the last.
THEOREM Refinement == Spec => ImplementsRelay
<1>1. 1 \in 1..MaxRuns /\ MaxRuns \in 1..MaxRuns
  BY ClickHouseAssumption
<1>2. Init => First!Init /\ Last!Init
  <2>1. Relay(1)!Init <=> First!Init
    BY DEF Relay!Init, First!Init
  <2>2. Relay(MaxRuns)!Init <=> Last!Init
    BY DEF Relay!Init, Last!Init
  <2> QED
    BY <1>1, <2>1, <2>2, RelayInit
<1>3. Accounts /\ Accounts' /\ [Next]_vars => [First!Next]_(First!vars)
  <2>1. [Relay(1)!Next]_(Relay(1)!vars) <=> [First!Next]_(First!vars)
    BY DEF Relay!Next, Relay!Refuse, Relay!Accept, Relay!Relay, Relay!Report, Relay!Drain,
           Relay!Finish, Relay!Move, Relay!With, Relay!vars,
           First!Next, First!Refuse, First!Accept, First!Relay, First!Report, First!Drain,
           First!Finish, First!Move, First!With, First!vars
  <2> QED
    BY <1>1, <2>1, RelayNext
<1>4. Accounts /\ Accounts' /\ [Next]_vars => [Last!Next]_(Last!vars)
  <2>1. [Relay(MaxRuns)!Next]_(Relay(MaxRuns)!vars) <=> [Last!Next]_(Last!vars)
    BY DEF Relay!Next, Relay!Refuse, Relay!Accept, Relay!Relay, Relay!Report, Relay!Drain,
           Relay!Finish, Relay!Move, Relay!With, Relay!vars,
           Last!Next, Last!Refuse, Last!Accept, Last!Relay, Last!Report, Last!Drain,
           Last!Finish, Last!Move, Last!With, Last!vars
  <2> QED
    BY <1>1, <2>1, RelayNext
<1> QED
  BY <1>2, <1>3, <1>4, InitInv, NextInv, PTL DEF Spec, ImplementsRelay, First!Spec, Last!Spec

=============================================================================
