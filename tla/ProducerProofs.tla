--------------------------- MODULE ProducerProofs ---------------------------
(***************************************************************************)
(* Machine-checked proofs about module Producer, for all events,           *)
(* partitions, capacities, batch sizes and bounds on the attempts, and     *)
(* every combination of faults.                                            *)
(***************************************************************************)
EXTENDS Producer, ChannelLemmas, TLAPS

-----------------------------------------------------------------------------
(* What flushBatch makes of a batch *)

\* The function that BatchFor is defined by
UpTo(p, n, f) ==
  f = [m \in 0..n |->
         IF m = 0 THEN <<>>
         ELSE IF Partition[messages[m]] = p THEN Append(f[m - 1], messages[m])
         ELSE f[m - 1]]

\* There is such a function, for every number of messages: the smallest number for
\* which there is none would have one made from that of the number before.
LEMMA UpToExists ==
  ASSUME NEW p, NEW n \in Nat
  PROVE  \E f : UpTo(p, n, f)
<1> DEFINE T == {k \in Nat : ~\E f : UpTo(p, k, f)}
<1> SUFFICES ASSUME T # {} PROVE FALSE
  OBVIOUS
<1>1. PICK k \in T : \A m \in T : k <= m
  BY Least
<1>2. CASE k = 0
  <2> DEFINE f == [m \in 0..0 |-> <<>>]
  <2>1. UpTo(p, 0, f)
    BY DEF UpTo
  <2> QED
    BY <1>1, <1>2, <2>1
<1>3. CASE k # 0
  <2>1. k - 1 \in Nat /\ k - 1 \notin T /\ k \in Nat
    BY <1>1, <1>3
  <2>2. PICK f : UpTo(p, k - 1, f)
    BY <2>1
  <2> DEFINE g == [m \in 0..k |->
                     IF m # k THEN f[m]
                     ELSE IF Partition[messages[m]] = p THEN Append(f[m - 1], messages[m])
                     ELSE f[m - 1]]
  <2>3. ASSUME NEW m \in 0..k
        PROVE  g[m] = IF m = 0 THEN <<>>
                      ELSE IF Partition[messages[m]] = p THEN Append(g[m - 1], messages[m])
                      ELSE g[m - 1]
    <3>1. CASE m = k
      <4>1. m - 1 \in 0..k /\ m - 1 # k /\ g[m - 1] = f[m - 1]
        BY <1>3, <2>1, <3>1
      <4> QED
        BY <1>3, <3>1, <4>1
    <3>2. CASE m # k
      <4>1. m \in 0..(k - 1) /\ g[m] = f[m]
        BY <2>1, <3>2
      <4>2. m # 0 => m - 1 \in 0..k /\ m - 1 # k /\ g[m - 1] = f[m - 1]
        BY <2>1, <4>1
      <4> QED
        BY <2>2, <4>1, <4>2 DEF UpTo
    <3> QED
      BY <3>1, <3>2
  <2>4. UpTo(p, k, g)
    BY <2>3 DEF UpTo
  <2> QED
    BY <1>1, <2>4
<1> QED
  BY <1>2, <1>3

LEMMA BatchForIs ==
  ASSUME NEW p, messages \in Seq(Events)
  PROVE  \E f : UpTo(p, Len(messages), f) /\ BatchFor(p) = f[Len(messages)]
<1>1. \E f : UpTo(p, Len(messages), f)
  BY UpToExists
<1> QED
  BY <1>1 DEF UpTo, BatchFor

\* The batch of a partition has the messages of that partition, and no others, in
\* their order.
Selection(p, n, s) ==
  /\ s \in Seq(Events)
  /\ \A i \in DOMAIN s : \E k \in 1..n : messages[k] = s[i] /\ Partition[s[i]] = p
  /\ \A k \in 1..n : Partition[messages[k]] = p => \E i \in DOMAIN s : s[i] = messages[k]
  /\ \A i, j \in DOMAIN s : i < j =>
       \E k, l \in 1..n : k < l /\ messages[k] = s[i] /\ messages[l] = s[j]

LEMMA SelectionGrows ==
  ASSUME NEW p, NEW n \in Nat, NEW s, Selection(p, n, s),
         messages \in Seq(Events), n + 1 \in DOMAIN messages
  PROVE  Selection(p, n + 1, IF Partition[messages[n + 1]] = p THEN Append(s, messages[n + 1])
                             ELSE s)
<1>1. \A k \in 1..n : k \in 1..(n + 1) /\ k < n + 1
  OBVIOUS
<1>2. \A k \in 1..(n + 1) : k = n + 1 \/ k \in 1..n
  OBVIOUS
<1>3. n + 1 \in 1..(n + 1) /\ messages[n + 1] \in Events
  OBVIOUS
<1>4. CASE Partition[messages[n + 1]] # p
  BY <1>1, <1>2, <1>4 DEF Selection
<1>5. CASE Partition[messages[n + 1]] = p
  <2> DEFINE m == messages[n + 1]
             t == Append(s, m)
  <2>1. /\ s \in Seq(Events) /\ Len(s) \in Nat /\ DOMAIN s = 1..Len(s)
        /\ t \in Seq(Events) /\ DOMAIN t = 1..(Len(s) + 1) /\ t[Len(s) + 1] = m
    BY <1>3 DEF Selection
  <2>2. \A i \in 1..Len(s) : t[i] = s[i]
    BY <2>1
  <2>3. \A i \in DOMAIN t : i = Len(s) + 1 \/ i \in DOMAIN s
    BY <2>1
  <2> HIDE DEF t
  <2>4. \A i \in DOMAIN t : \E k \in 1..(n + 1) : messages[k] = t[i] /\ Partition[t[i]] = p
    BY <1>1, <1>3, <1>5, <2>1, <2>2, <2>3 DEF Selection
  <2>5. ASSUME NEW k \in 1..(n + 1), Partition[messages[k]] = p
        PROVE  \E i \in DOMAIN t : t[i] = messages[k]
    <3>1. CASE k = n + 1
      <4>1. Len(s) + 1 \in DOMAIN t
        BY <2>1
      <4> QED
        BY <2>1, <3>1, <4>1
    <3>2. CASE k \in 1..n
      <4>1. PICK i \in DOMAIN s : s[i] = messages[k]
        BY <2>5, <3>2 DEF Selection
      <4>2. i \in DOMAIN t /\ t[i] = s[i]
        BY <2>1, <2>2
      <4> QED
        BY <4>1, <4>2
    <3> QED
      BY <1>2, <3>1, <3>2
  <2>6. ASSUME NEW i \in DOMAIN t, NEW j \in DOMAIN t, i < j
        PROVE  \E k, l \in 1..(n + 1) : k < l /\ messages[k] = t[i] /\ messages[l] = t[j]
    <3>1. i \in DOMAIN s /\ t[i] = s[i]
      BY <2>1, <2>2, <2>3, <2>6
    <3>2. CASE j = Len(s) + 1
      <4>1. PICK k \in 1..n : messages[k] = s[i]
        BY <3>1 DEF Selection
      <4>2. k \in 1..(n + 1) /\ k < n + 1
        BY <1>1
      <4> QED
        BY <1>3, <2>1, <3>1, <3>2, <4>1, <4>2
    <3>3. CASE j \in DOMAIN s
      <4>1. t[j] = s[j]
        BY <2>1, <2>2, <3>3
      <4>2. PICK k \in 1..n, l \in 1..n : k < l /\ messages[k] = s[i] /\ messages[l] = s[j]
        BY <2>6, <3>1, <3>3 DEF Selection
      <4> QED
        BY <1>1, <3>1, <4>1, <4>2
    <3> QED
      BY <2>3, <3>2, <3>3
  <2>7. Selection(p, n + 1, t)
    BY <2>1, <2>4, <2>5, <2>6 DEF Selection
  <2> QED
    BY <1>5, <2>7 DEF t
<1> QED
  BY <1>4, <1>5

LEMMA BatchForSelects ==
  ASSUME NEW p, messages \in Seq(Events)
  PROVE  Selection(p, Len(messages), BatchFor(p))
<1>1. PICK f : UpTo(p, Len(messages), f) /\ BatchFor(p) = f[Len(messages)]
  BY BatchForIs
<1> DEFINE T == {k \in Nat : k <= Len(messages) /\ ~Selection(p, k, f[k])}
<1>2. Len(messages) \in Nat /\ DOMAIN messages = 1..Len(messages)
  OBVIOUS
<1>3. T = {}
  <2> SUFFICES ASSUME T # {} PROVE FALSE
    OBVIOUS
  <2>1. PICK k \in T : \A m \in T : k <= m
    BY Least
  <2>2. CASE k = 0
    <3>1. f[0] = <<>>
      BY <1>1, <1>2 DEF UpTo
    <3>2. DOMAIN f[0] = {} /\ f[0] \in Seq(Events)
      BY <3>1
    <3>3. 1..0 = {}
      OBVIOUS
    <3> QED
      BY <2>1, <2>2, <3>2, <3>3 DEF Selection
  <2>3. CASE k # 0
    <3>1. /\ k - 1 \in Nat /\ k - 1 < k /\ (k - 1) + 1 = k /\ k \in DOMAIN messages
          /\ k \in 0..Len(messages) /\ k - 1 <= Len(messages)
      BY <1>2, <2>1, <2>3
    <3>2. k - 1 \notin T
      BY <2>1, <3>1
    <3>3. Selection(p, k - 1, f[k - 1])
      BY <3>1, <3>2
    <3>4. f[k] = IF Partition[messages[k]] = p THEN Append(f[k - 1], messages[k])
                 ELSE f[k - 1]
      BY <1>1, <2>3, <3>1 DEF UpTo
    <3>5. Selection(p, k, f[k])
      BY <3>1, <3>3, <3>4, SelectionGrows
    <3> QED
      BY <2>1, <3>5
  <2> QED
    BY <2>2, <2>3
<1> QED
  BY <1>1, <1>2, <1>3

\* The events of the batches are those of the messages.
LEMMA BatchForContents ==
  ASSUME NEW p \in Partitions, messages \in Seq(Events)
  PROVE  /\ BatchFor(p) \in Seq(Events)
         /\ Range(BatchFor(p)) = {e \in Range(messages) : Partition[e] = p}
<1>1. DOMAIN messages = 1..Len(messages)
  OBVIOUS
<1>2. Selection(p, Len(messages), BatchFor(p))
  BY BatchForSelects
<1>3. ASSUME NEW e \in Range(BatchFor(p)) PROVE e \in Range(messages) /\ Partition[e] = p
  <2>1. PICK i \in DOMAIN BatchFor(p) : BatchFor(p)[i] = e
    BY DEF Range
  <2>2. PICK k \in DOMAIN messages : messages[k] = e /\ Partition[e] = p
    BY <1>1, <1>2, <2>1 DEF Selection
  <2> QED
    BY <2>2 DEF Range
<1>4. \A e \in Range(messages) : Partition[e] = p => e \in Range(BatchFor(p))
  BY <1>1, <1>2 DEF Selection, Range
<1> QED
  BY <1>2, <1>3, <1>4 DEF Selection

LEMMA BatchForDistinct ==
  ASSUME NEW p \in Partitions, messages \in Seq(Events), IsInjective(messages)
  PROVE  IsInjective(BatchFor(p))
<1> DEFINE b == BatchFor(p)
<1>1. /\ DOMAIN messages = 1..Len(messages) /\ Selection(p, Len(messages), b)
  BY BatchForSelects
<1>2. DOMAIN b \subseteq Nat
  BY <1>1 DEF Selection
<1> HIDE DEF b
<1>3. ASSUME NEW i \in DOMAIN b, NEW j \in DOMAIN b, i < j
      PROVE  b[i] # b[j]
  <2>1. \E k, l \in 1..Len(messages) : k < l /\ messages[k] = b[i] /\ messages[l] = b[j]
    BY <1>1, <1>3 DEF Selection, b
  <2>2. PICK k \in DOMAIN messages, l \in DOMAIN messages :
               k < l /\ messages[k] = b[i] /\ messages[l] = b[j]
    BY <1>1, <2>1
  <2>3. k # l
    BY <1>1, <2>2
  <2> QED
    BY <2>2, <2>3 DEF IsInjective
<1>4. \A i, j \in DOMAIN b : i = j \/ i < j \/ j < i
  BY <1>2
<1> QED
  BY <1>3, <1>4 DEF IsInjective, b

LEMMA BatchKept ==
  ASSUME NEW p, messages' = messages
  PROVE  BatchFor(p)' = BatchFor(p)
BY DEF BatchFor

-----------------------------------------------------------------------------
(* Calls and batches of the kafka writer *)

\* What the kafka writer has when it gets another call, ...
LEMMA FromAppended ==
  ASSUME NEW B, NEW s \in Seq(B), NEW b \in B
  PROVE  /\ \A k \in 1..(Len(s) + 1) : From(k, Append(s, b)) = From(k, s) \cup Range(b)
         /\ From(Len(s) + 1, Append(s, b)) = Range(b)
         /\ From(Len(s) + 2, Append(s, b)) = {}
<1> DEFINE t == Append(s, b)
<1>1. /\ Len(s) \in Nat /\ DOMAIN s = 1..Len(s) /\ Len(t) = Len(s) + 1
      /\ t[Len(s) + 1] = b
  OBVIOUS
<1>2. \A i \in 1..Len(s) : t[i] = s[i]
  BY <1>1
<1> HIDE DEF t
<1>3. ASSUME NEW k \in 1..(Len(s) + 1)
      PROVE  From(k, t) = From(k, s) \cup Range(b)
  <2>1. \A l \in k..Len(s) : l \in k..Len(t) /\ t[l] = s[l]
    BY <1>1, <1>2
  <2>2. \A l \in k..Len(t) : l = Len(s) + 1 \/ l \in k..Len(s)
    BY <1>1
  <2>3. Len(s) + 1 \in k..Len(t)
    BY <1>1
  <2> QED
    BY <1>1, <2>1, <2>2, <2>3 DEF From
<1>4. From(Len(s) + 1, s) = {}
  <2>1. (Len(s) + 1)..Len(s) = {}
    BY <1>1
  <2> QED
    BY <2>1 DEF From
<1>5. From(Len(s) + 2, t) = {}
  <2>1. (Len(s) + 2)..Len(t) = {}
    BY <1>1
  <2> QED
    BY <2>1 DEF From
<1>6. Len(s) + 1 \in 1..(Len(s) + 1)
  BY <1>1
<1> QED
  BY <1>3, <1>4, <1>5, <1>6 DEF t

\* ... when it is done with the first one, ...
LEMMA FromReceived ==
  ASSUME NEW B, NEW s \in Seq(B), s # <<>>
  PROVE  /\ \A k \in Nat \ {0} : From(k, Tail(s)) = From(k + 1, s)
         /\ From(1, s) = Range(s[1]) \cup From(2, s)
<1> DEFINE t == Tail(s)
<1>1. /\ Len(s) \in Nat /\ Len(s) >= 1 /\ DOMAIN s = 1..Len(s)
      /\ Len(t) = Len(s) - 1 /\ DOMAIN t = 1..(Len(s) - 1)
  OBVIOUS
<1>2. \A l \in 1..Len(t) : t[l] = s[l + 1]
  BY <1>1
<1> HIDE DEF t
<1>3. ASSUME NEW k \in Nat \ {0}
      PROVE  From(k, t) = From(k + 1, s)
  <2>1. \A l \in k..Len(t) : l + 1 \in (k + 1)..Len(s) /\ t[l] = s[l + 1]
    BY <1>1, <1>2
  <2>2. \A l \in (k + 1)..Len(s) : l - 1 \in k..Len(t) /\ t[l - 1] = s[l]
    <3> TAKE l \in (k + 1)..Len(s)
    <3>1. l - 1 \in k..Len(t) /\ l - 1 \in 1..Len(t) /\ (l - 1) + 1 = l
      BY <1>1
    <3> QED
      BY <1>2, <3>1
  <2> QED
    BY <2>1, <2>2 DEF From
<1>4. From(1, s) = Range(s[1]) \cup From(2, s)
  <2>1. 1..Len(s) = {1} \cup 2..Len(s)
    BY <1>1
  <2> QED
    BY <2>1 DEF From
<1> QED
  BY <1>3, <1>4 DEF t

\* ... and when it is done with a part of it.
LEMMA FromReplaced ==
  ASSUME NEW B, NEW s \in Seq(B), s # <<>>, NEW b \in B, NEW t \in Seq(B), Len(t) = Len(s),
         t[1] = b, \A k \in DOMAIN s \ {1} : t[k] = s[k]
  PROVE  /\ \A k \in Nat : k >= 2 => From(k, t) = From(k, s)
         /\ From(1, t) = Range(b) \cup From(2, s)
<1>1. Len(s) \in Nat /\ Len(s) >= 1 /\ DOMAIN s = 1..Len(s) /\ t # <<>>
  <2>1. Len(s) \in Nat /\ Len(s) >= 1 /\ DOMAIN s = 1..Len(s)
    OBVIOUS
  <2>2. Len(<<>>) = 0
    OBVIOUS
  <2> QED
    BY <2>1, <2>2
<1>2. \A k \in Nat : k >= 2 => From(k, t) = From(k, s)
  <2> SUFFICES ASSUME NEW k \in Nat, k >= 2 PROVE From(k, t) = From(k, s)
    OBVIOUS
  <2>1. \A l \in k..Len(s) : t[l] = s[l]
    BY <1>1
  <2> QED
    BY <1>1, <2>1 DEF From
<1>3. From(1, t) = Range(b) \cup From(2, s)
  <2>1. From(1, t) = Range(t[1]) \cup From(2, t)
    BY <1>1, FromReceived
  <2>2. From(2, t) = From(2, s)
    <3>1. 2 \in Nat /\ 2 >= 2
      OBVIOUS
    <3> QED
      BY <1>2, <3>1, Zenon
  <2> QED
    BY <2>1, <2>2
<1> QED
  BY <1>2, <1>3

\* A sequence without anything twice has nothing in both of its parts.
LEMMA DividedDistinct ==
  ASSUME NEW B, NEW s \in Seq(B), NEW t \in Seq(B), IsInjective(s \o t)
  PROVE  IsInjective(t) /\ Range(s) \cap Range(t) = {}
<1> DEFINE u == s \o t
<1>1. /\ Len(s) \in Nat /\ Len(t) \in Nat /\ DOMAIN s = 1..Len(s) /\ DOMAIN t = 1..Len(t)
      /\ DOMAIN u = 1..(Len(s) + Len(t))
  OBVIOUS
<1>2. \A i \in DOMAIN s : i \in DOMAIN u /\ u[i] = s[i] /\ i <= Len(s)
  BY <1>1
<1>3. \A i \in DOMAIN t : Len(s) + i \in DOMAIN u /\ u[Len(s) + i] = t[i] /\ Len(s) + i > Len(s)
  BY <1>1
<1> HIDE DEF u
<1>4. \A i, j \in DOMAIN u : u[i] = u[j] => i = j
  BY DEF IsInjective, u
<1>5. ASSUME NEW i \in DOMAIN t, NEW j \in DOMAIN t, t[i] = t[j] PROVE i = j
  <2>1. Len(s) + i = Len(s) + j
    BY <1>3, <1>4, <1>5
  <2> QED
    BY <1>1, <2>1
<1>6. ASSUME NEW i \in DOMAIN s, NEW j \in DOMAIN t, s[i] = t[j] PROVE FALSE
  <2>1. i = Len(s) + j
    BY <1>2, <1>3, <1>4, <1>6
  <2> QED
    BY <1>1, <2>1
<1> QED
  BY <1>5, <1>6 DEF IsInjective, Range

\* One batch of a partition: part is settled, left is what remains of its call.
Settles(p, outcome, part, left) ==
  /\ UNCHANGED <<queue, messages, flusher, attempt, leaving, done, closed, order, refused,
                 acked, gaveUp>>
  /\ part \in Seq(Events) /\ left \in Seq(Events)
  /\ pending[p] \in Seq(Seq(Events)) /\ pending[p] # <<>> /\ pending[p][1] = part \o left
  /\ Splits \/ left = <<>>
  /\ \A q \in Partitions \ {p} : pending'[q] = pending[q] /\ log'[q] = log[q]
  /\ log'[p] = IF outcome \in {"ok", "unacked"} THEN log[p] \o part ELSE log[p]
  /\ pending'[p] = IF left = <<>> THEN Tail(pending[p]) ELSE [pending[p] EXCEPT ![1] = left]
  /\ IF p \in owed /\ Len(pending[p]) = 1
     THEN /\ owed' = IF left = <<>> THEN owed \ {p} ELSE owed
          /\ errs' = errs \cup ({outcome} \ {"ok"})
     ELSE owed' = owed /\ errs' = errs

LEMMA BrokerSettles ==
  ASSUME TypeOK, NEW p \in Partitions, Broker(p)
  PROVE  \E outcome \in {"ok"} \cup (Faults \ {"timeout"}), part, left \in Seq(Events) :
           Settles(p, outcome, part, left)
<1> DEFINE S == Seq(Events)
           s == pending[p]
           h == Head(s)
<1>1. s # <<>> /\ s \in Seq(S)
  BY DEF Broker, TypeOK
<1>2. PICK outcome \in {"ok"} \cup (Faults \ {"timeout"}), n \in Cut(h) : Serve(p, outcome, n)
  BY DEF Broker
<1>3. h \in S /\ s[1] = h
  <2> HIDE DEF S, s
  <2> QED
    BY <1>1
<1> DEFINE part == SubSeq(h, 1, n)
           left == SubSeq(h, n + 1, Len(h))
<1>4. Len(h) \in Nat /\ n \in Nat /\ n <= Len(h) /\ (Splits \/ n = Len(h))
  BY <1>2, <1>3 DEF Cut
<1>5. part \in S /\ left \in S /\ h = part \o left /\ (left = <<>> <=> n = Len(h))
  <2> HIDE DEF h
  <2>1. part \in S /\ Len(part) = n
    BY <1>3, <1>4
  <2>2. left \in S /\ Len(left) = Len(h) - n
    BY <1>3, <1>4
  <2>3. \A i \in 1..n : part[i] = h[i]
    BY <1>3, <1>4
  <2>4. \A i \in 1..(Len(h) - n) : left[i] = h[n + i]
    BY <1>3, <1>4
  <2> HIDE DEF part, left
  <2>5. Len(part \o left) = Len(h)
    BY <1>3, <1>4, <2>1, <2>2
  <2>6. \A i \in 1..Len(h) : (part \o left)[i] = h[i]
    <3> TAKE i \in 1..Len(h)
    <3>1. CASE i <= n
      BY <1>4, <2>1, <2>2, <2>3, <3>1
    <3>2. CASE i > n
      <4>1. i - n \in 1..(Len(h) - n) /\ n + (i - n) = i
        BY <1>4, <3>2
      <4>2. (part \o left)[i] = left[i - n]
        BY <1>4, <2>1, <2>2, <3>2
      <4> QED
        BY <2>4, <4>1, <4>2
    <3>3. i <= n \/ i > n
      BY <1>4
    <3> QED
      BY <3>1, <3>2, <3>3
  <2>7. part \o left \in S
    BY <2>1, <2>2
  <2>8. h = part \o left
    <3> DEFINE u == part \o left
    <3>1. u \in Seq(Events) /\ h \in Seq(Events) /\ Len(u) = Len(h)
          /\ \A i \in 1..Len(h) : u[i] = h[i]
      BY <1>3, <2>5, <2>6, <2>7
    <3> HIDE DEF u
    <3>2. h = u
      BY <3>1
    <3> QED
      BY <3>2 DEF u
  <2>9. left = <<>> <=> n = Len(h)
    BY <1>4, <2>2
  <2> QED
    BY <2>1, <2>2, <2>8, <2>9
<1>6. Settles(p, outcome, part, left)
  <2>1. /\ pending' = [pending EXCEPT ![p] = IF n = Len(h) THEN Tail(s) ELSE [s EXCEPT ![1] = left]]
        /\ log' = IF outcome \in {"ok", "unacked"} THEN [log EXCEPT ![p] = log[p] \o part] ELSE log
    BY <1>2 DEF Serve
  <2> HIDE DEF part, left, h, s
  <2>2. /\ \A q \in Partitions \ {p} : pending'[q] = pending[q] /\ log'[q] = log[q]
        /\ log'[p] = IF outcome \in {"ok", "unacked"} THEN log[p] \o part ELSE log[p]
        /\ pending'[p] = IF left = <<>> THEN Tail(s) ELSE [s EXCEPT ![1] = left]
    BY <1>5, <2>1 DEF TypeOK
  <2>3. IF p \in owed /\ Len(s) = 1
        THEN /\ owed' = IF left = <<>> THEN owed \ {p} ELSE owed
             /\ errs' = errs \cup ({outcome} \ {"ok"})
        ELSE owed' = owed /\ errs' = errs
    BY <1>2, <1>5 DEF Serve, h, s
  <2>4. UNCHANGED <<queue, messages, flusher, attempt, leaving, done, closed, order, refused,
                    acked, gaveUp>>
    BY <1>2 DEF Serve, historyVars
  <2> QED
    BY <1>1, <1>3, <1>4, <1>5, <2>2, <2>3, <2>4 DEF Settles, S, s
<1> HIDE DEF part, left
<1> QED
  BY <1>2, <1>5, <1>6

\* With the types that a batch leaves behind
LEMMA SettlesTypes ==
  ASSUME TypeOK, NEW p \in Partitions, NEW outcome \in {"ok"} \cup (Faults \ {"timeout"}),
         NEW part \in Seq(Events), NEW left \in Seq(Events), Settles(p, outcome, part, left),
         Broker(p)
  PROVE  /\ TypeOK'
         /\ \A q \in Partitions : Range(log[q]) \subseteq Range(log'[q])
<1> DEFINE S == Seq(Events)
<1>1. pending[p] \in Seq(S) /\ log[p] \in S
  BY DEF TypeOK
<1>2. pending'[p] \in Seq(S)
  <2>1. left \in S /\ pending[p] # <<>>
    BY DEF Settles
  <2> HIDE DEF S
  <2>2. Tail(pending[p]) \in Seq(S) /\ [pending[p] EXCEPT ![1] = left] \in Seq(S)
    BY <1>1, <2>1
  <2> QED
    BY <2>2 DEF Settles
<1>3. log'[p] \in S /\ Range(log[p]) \subseteq Range(log'[p])
  BY <1>1, JoinContents DEF Settles
<1>4. \A q \in Partitions : pending'[q] \in Seq(S) /\ log'[q] \in S
  BY <1>2, <1>3 DEF Settles, TypeOK
<1>5. pending' = [q \in Partitions |-> pending'[q]] /\ log' = [q \in Partitions |-> log'[q]]
  BY DEF TypeOK, Broker, Serve
<1>6. pending' \in [Partitions -> Seq(S)] /\ log' \in [Partitions -> S]
  <2> HIDE DEF S
  <2> QED
    BY <1>4, <1>5
<1>7. owed' \subseteq Partitions /\ errs' \subseteq Faults
  BY DEF Settles, TypeOK
<1>8. TypeOK'
  BY <1>6, <1>7 DEF Settles, TypeOK
<1> QED
  BY <1>3, <1>8 DEF Settles

-----------------------------------------------------------------------------
(* The inductive invariant *)

\* The producer's invariant but for the order, and what has become of the batches
Accounts ==
  /\ TypeOK /\ Conservation /\ AttemptsAreBounded /\ AnswersAreOfTheBatch /\ ClosedAtRest
  /\ HeldOnce /\ AckedIsStored

LEMMA InitInv == Init => Accounts
<1> SUFFICES ASSUME Init PROVE Accounts
  OBVIOUS
<1> USE DEF Init
<1>1. TypeOK
  <2>1. /\ queue \in Seq(Events) /\ messages \in Seq(Events \ Unencodable)
        /\ order \in Seq(Events) /\ Len(queue) = 0
    OBVIOUS
  <2>2. Len(queue) <= Capacity /\ 0 \in 0..MaxAttempts
    BY <2>1, ProducerAssumption
  <2>3. \A S : <<>> \in Seq(S)
    OBVIOUS
  <2> QED
    BY <2>1, <2>2, <2>3 DEF TypeOK
<1>2. DOMAIN queue = {} /\ DOMAIN messages = {} /\ DOMAIN order = {}
  OBVIOUS
<1>3. Range(queue) = {} /\ Range(messages) = {} /\ Range(order) = {}
  BY <1>2 DEF Range
<1>4. IsInjective(queue) /\ IsInjective(messages) /\ IsInjective(order)
  BY <1>2 DEF IsInjective
<1>5. Conservation
  BY <1>3, <1>4 DEF Conservation
<1>6. HeldOnce
  <2>1. \A p \in Partitions : DOMAIN pending[p] = {}
    OBVIOUS
  <2> QED
    BY <2>1 DEF HeldOnce
<1> QED
  BY <1>1, <1>5, <1>6 DEF Accounts, AttemptsAreBounded, AnswersAreOfTheBatch, ClosedAtRest,
     AckedIsStored

\* The two conjuncts about the kafka writer are about these variables only.
LEMMA WriterKept ==
  ASSUME AnswersAreOfTheBatch, HeldOnce, UNCHANGED <<messages, pending, owed, errs, log>>,
         flusher' = flusher \/ (owed = {} /\ flusher' # "awaiting"), gaveUp \subseteq gaveUp'
  PROVE  AnswersAreOfTheBatch' /\ HeldOnce'
<1>1. \A p : BatchFor(p)' = BatchFor(p)
  BY BatchKept
<1>2. Targets' = Targets
  BY <1>1 DEF Targets
<1>3. \A p : Unsettled(p)' = Unsettled(p)
  BY DEF Unsettled
<1>4. AnswersAreOfTheBatch'
  BY <1>1, <1>2, <1>3 DEF AnswersAreOfTheBatch
<1>5. \A p, k : From(k, pending[p])' = From(k, pending[p]) /\ Present(p, k)' = Present(p, k)
  BY DEF From, Present
<1>6. HeldOnce'
  BY <1>5 DEF HeldOnce
<1> QED
  BY <1>4, <1>6

LEMMA WriteInv ==
  ASSUME Accounts, ~done, NEW e \in Events, Write(e)
  PROVE  Accounts'
<1>1. /\ UNCHANGED <<messages, flusher, attempt, leaving, owed, errs, pending, log, done,
                     closed, acked, gaveUp>>
      /\ e \notin Range(order) /\ e \notin refused
  BY DEF Write, New, writerVars
<1>2. TypeOK /\ Conservation /\ AttemptsAreBounded /\ AnswersAreOfTheBatch /\ ClosedAtRest
      /\ HeldOnce /\ AckedIsStored
  BY DEF Accounts
<1>3. AttemptsAreBounded' /\ ClosedAtRest' /\ AckedIsStored'
  BY <1>1, <1>2 DEF AttemptsAreBounded, ClosedAtRest, AckedIsStored
<1>4. AnswersAreOfTheBatch' /\ HeldOnce'
  BY <1>1, <1>2, WriterKept
<1>5. queue \in Seq(Events) /\ order \in Seq(Events) /\ IsInjective(queue) /\ IsInjective(order)
      /\ e \notin Range(queue)
  BY <1>1, <1>2 DEF TypeOK, Conservation
<1>6. CASE Len(queue) < Capacity
  <2>1. queue' = Append(queue, e) /\ order' = Append(order, e) /\ refused' = refused
    BY <1>6 DEF Write
  <2>2. /\ Range(queue') = Range(queue) \cup {e} /\ Range(order') = Range(order) \cup {e}
        /\ IsInjective(queue') /\ IsInjective(order')
    BY <1>1, <1>5, <2>1, SendContents, SendDistinct
  <2>3. queue' \in Seq(Events) /\ order' \in Seq(Events) /\ Len(queue') <= Capacity
    BY <1>5, <1>6, <2>1, ProducerAssumption
  <2>4. TypeOK'
    BY <1>1, <1>2, <2>1, <2>3 DEF TypeOK
  <2>5. Conservation'
    BY <1>1, <1>2, <2>1, <2>2 DEF Conservation
  <2> QED
    BY <1>3, <1>4, <2>4, <2>5 DEF Accounts
<1>7. CASE ~(Len(queue) < Capacity)
  <2>1. queue' = queue /\ order' = order /\ refused' = refused \cup {e}
    BY <1>7 DEF Write
  <2>2. TypeOK' /\ Conservation'
    BY <1>1, <1>2, <2>1 DEF TypeOK, Conservation
  <2> QED
    BY <1>3, <1>4, <2>2 DEF Accounts
<1> QED
  BY <1>6, <1>7

LEMMA TakeInv ==
  ASSUME Accounts, Take
  PROVE  Accounts'
<1> DEFINE e == Head(queue)
<1>1. /\ UNCHANGED <<attempt, leaving, owed, errs, pending, log, done, closed, order,
                     refused, acked>>
      /\ flusher = "select" /\ queue # <<>> /\ queue' = Tail(queue)
      /\ \/ /\ e \in Unencodable /\ gaveUp' = gaveUp \cup {e}
            /\ UNCHANGED <<messages, flusher>>
         \/ /\ e \notin Unencodable /\ messages' = Append(messages, e)
            /\ flusher' \in {"flush", "select"} /\ gaveUp' = gaveUp
  BY DEF Take, writerVars, historyVars
<1>2. TypeOK /\ Conservation /\ AttemptsAreBounded /\ AnswersAreOfTheBatch /\ ClosedAtRest
      /\ HeldOnce /\ AckedIsStored
  BY DEF Accounts
<1>3. queue \in Seq(Events) /\ Len(queue) <= Capacity /\ IsInjective(queue)
      /\ messages \in Seq(Events \ Unencodable) /\ IsInjective(messages)
  BY <1>2 DEF TypeOK, Conservation
<1>4. /\ e \in Events /\ queue' \in Seq(Events) /\ Len(queue') = Len(queue) - 1
      /\ Range(queue) = {e} \cup Range(queue')
      /\ IsInjective(queue') /\ e \notin Range(queue')
  BY <1>1, <1>3, ReceiveContents, ReceiveDistinct
<1> HIDE DEF e
<1>5. Len(queue') <= Capacity
  BY <1>3, <1>4, ProducerAssumption
<1>6. e \notin Range(messages) /\ e \notin acked /\ e \notin gaveUp
  BY <1>2, <1>4 DEF Conservation
<1>7. AttemptsAreBounded' /\ AnswersAreOfTheBatch' /\ ClosedAtRest' /\ HeldOnce'
      /\ AckedIsStored'
  <2>1. 0 < MaxAttempts
    BY ProducerAssumption
  <2>2. HeldOnce'
    <3>1. \A p, k : From(k, pending[p])' = From(k, pending[p]) /\ Present(p, k)' = Present(p, k)
      BY <1>1 DEF From, Present
    <3>2. gaveUp \subseteq gaveUp'
      BY <1>1
    <3> QED
      BY <1>1, <1>2, <3>1, <3>2 DEF HeldOnce
  <2>3. owed' = {} /\ flusher' # "awaiting"
    BY <1>1, <1>2 DEF AnswersAreOfTheBatch
  <2> QED
    BY <1>1, <1>2, <2>1, <2>2, <2>3 DEF AttemptsAreBounded, AnswersAreOfTheBatch,
       ClosedAtRest, AckedIsStored
<1>8. CASE messages' = messages
  <2>1. gaveUp' = gaveUp \cup {e} /\ flusher' = flusher
    <3>1. messages' = Append(messages, e) => Len(messages') = Len(messages) + 1
      BY <1>3, <1>4
    <3>2. Len(messages) \in Nat
      BY <1>3
    <3> QED
      BY <1>1, <1>8, <3>1, <3>2
  <2>2. TypeOK'
    BY <1>1, <1>2, <1>4, <1>5, <1>8, <2>1 DEF TypeOK
  <2>3. Conservation'
    BY <1>1, <1>2, <1>4, <1>6, <1>8, <2>1 DEF Conservation
  <2> QED
    BY <1>7, <2>2, <2>3 DEF Accounts
<1>9. CASE messages' # messages
  <2>1. /\ messages' = Append(messages, e) /\ e \in Events \ Unencodable /\ gaveUp' = gaveUp
        /\ flusher' \in {"flush", "select"}
    BY <1>1, <1>4, <1>9
  <2>2. /\ messages' \in Seq(Events \ Unencodable)
        /\ Range(messages') = Range(messages) \cup {e} /\ IsInjective(messages')
    BY <1>3, <1>6, <2>1, SendContents, SendDistinct
  <2>3. TypeOK'
    BY <1>1, <1>2, <1>4, <1>5, <2>1, <2>2 DEF TypeOK
  <2>4. Conservation'
    BY <1>1, <1>2, <1>4, <1>6, <2>1, <2>2 DEF Conservation
  <2> QED
    BY <1>7, <2>3, <2>4 DEF Accounts
<1> QED
  BY <1>8, <1>9

\* The ticker, p.done, a retry and Close leave the accounts alone.
LEMMA TurnInv ==
  ASSUME Accounts, TickFlush \/ SeeDone \/ Retry \/ BeginClose \/ EndClose \/ UNCHANGED vars
  PROVE  Accounts'
<1>1. UNCHANGED <<queue, messages, attempt, owed, errs, pending, log, order, refused, acked,
                  gaveUp>>
  BY DEF TickFlush, Due, SeeDone, LeaveTo, Retry, BeginClose, EndClose, vars, writerVars,
         historyVars
<1>2. TypeOK /\ Conservation /\ AttemptsAreBounded /\ AnswersAreOfTheBatch /\ ClosedAtRest
      /\ HeldOnce /\ AckedIsStored
  BY DEF Accounts
<1>3. flusher' = flusher \/ (owed = {} /\ flusher' # "awaiting")
  BY <1>2 DEF TickFlush, Due, SeeDone, LeaveTo, Retry, Answered, BeginClose, EndClose, vars,
     AnswersAreOfTheBatch
<1>4. TypeOK'
  <2>1. /\ flusher' \in {"select", "flush", "awaiting", "exited"}
        /\ leaving' \in BOOLEAN /\ done' \in BOOLEAN /\ closed' \in BOOLEAN
    BY <1>2 DEF TickFlush, Due, SeeDone, LeaveTo, Retry, BeginClose, EndClose, vars, TypeOK
  <2> QED
    BY <1>1, <1>2, <2>1 DEF TypeOK
<1>5. Conservation' /\ AckedIsStored'
  BY <1>1, <1>2 DEF Conservation, AckedIsStored
<1>6. AttemptsAreBounded'
  <2>1. 0 < MaxAttempts
    BY ProducerAssumption
  <2> QED
    BY <1>2, <2>1 DEF TickFlush, Due, SeeDone, LeaveTo, Retry, BeginClose, EndClose, vars,
       AttemptsAreBounded
<1>7. AnswersAreOfTheBatch' /\ HeldOnce'
  BY <1>1, <1>2, <1>3, WriterKept
<1>8. ClosedAtRest'
  BY <1>2 DEF TickFlush, Due, SeeDone, LeaveTo, Retry, Answered, BeginClose, EndClose, vars,
     ClosedAtRest
<1> QED
  BY <1>4, <1>5, <1>6, <1>7, <1>8 DEF Accounts

\* An attempt puts the batches behind those the kafka writer still has.
LEMMA AttemptInv ==
  ASSUME Accounts, Attempt
  PROVE  Accounts'
<1>1. /\ UNCHANGED <<queue, messages, leaving, log, done, closed, order, refused, acked,
                     gaveUp>>
      /\ flusher = "flush" /\ flusher' = "awaiting" /\ attempt' = attempt + 1
      /\ owed' = Targets /\ errs' = {}
      /\ pending' = [p \in Partitions |->
                       IF p \in Targets THEN Append(pending[p], BatchFor(p)) ELSE pending[p]]
  BY DEF Attempt, historyVars
<1>2. TypeOK /\ Conservation /\ AttemptsAreBounded /\ AnswersAreOfTheBatch /\ ClosedAtRest
      /\ HeldOnce /\ AckedIsStored
  BY DEF Accounts
<1>3. messages \in Seq(Events)
  <2>1. messages \in Seq(Events \ Unencodable)
    BY <1>2 DEF TypeOK
  <2> QED
    BY <2>1
<1>4. \A p \in Partitions : BatchFor(p) \in Seq(Events) /\ pending[p] \in Seq(Seq(Events))
  BY <1>2, <1>3, BatchForContents DEF TypeOK
<1>5. \A p \in Partitions : Append(pending[p], BatchFor(p)) \in Seq(Seq(Events))
  <2> TAKE p \in Partitions
  <2> DEFINE S == Seq(Events)
             b == BatchFor(p)
  <2>1. b \in S /\ pending[p] \in Seq(S)
    BY <1>4
  <2> HIDE DEF S, b
  <2>2. Append(pending[p], b) \in Seq(S)
    BY <2>1
  <2> QED
    BY <2>2 DEF S, b
<1>6. pending' \in [Partitions -> Seq(Seq(Events))]
  BY <1>1, <1>4, <1>5
<1>7. attempt' \in 0..MaxAttempts
  BY <1>1, <1>2, ProducerAssumption DEF TypeOK, AttemptsAreBounded
<1>8. TypeOK'
  BY <1>1, <1>2, <1>6, <1>7 DEF TypeOK, Targets
<1>9. Conservation' /\ AckedIsStored' /\ ClosedAtRest' /\ AttemptsAreBounded'
  BY <1>1, <1>2 DEF Conservation, AckedIsStored, ClosedAtRest, AttemptsAreBounded
<1>10. /\ Targets' = Targets /\ Targets \subseteq Partitions
       /\ \A p : BatchFor(p)' = BatchFor(p)
  BY <1>1, BatchKept DEF Targets
<1>11. ASSUME NEW p \in Targets
       PROVE  pending'[p] # <<>> /\ pending'[p][Len(pending'[p])] = BatchFor(p)
  <2> DEFINE S == Seq(Events)
             b == BatchFor(p)
  <2>1. pending'[p] = Append(pending[p], b) /\ b \in S /\ pending[p] \in Seq(S)
    BY <1>1, <1>4 DEF Targets
  <2> HIDE DEF S, b
  <2>2. pending'[p] # <<>> /\ pending'[p][Len(pending'[p])] = b
    BY <2>1
  <2> QED
    BY <2>2 DEF b
<1>12. AnswersAreOfTheBatch'
  <2>1. \A p \in Targets : Unsettled(p)' = Range(BatchFor(p))
    BY <1>1, <1>11 DEF Unsettled
  <2> QED
    BY <1>1, <1>10, <1>11, <2>1 DEF AnswersAreOfTheBatch
<1>13. HeldOnce'
  <2>1. \A p \in Partitions : \A k \in DOMAIN pending[p] :
          /\ IsInjective(pending[p][k]) /\ Range(pending[p][k]) \subseteq gaveUp
          /\ Range(pending[p][k]) \cap From(k + 1, pending[p]) = {}
    BY <1>1, <1>2 DEF HeldOnce, Present, AnswersAreOfTheBatch
  <2> SUFFICES ASSUME NEW p \in Partitions, NEW k \in DOMAIN pending'[p]
               PROVE  /\ IsInjective(pending'[p][k])
                      /\ Range(pending'[p][k]) \cap From(k + 1, pending'[p]) = {}
                      /\ Present(p, k)' \/ Range(pending'[p][k]) \subseteq gaveUp
    BY <1>1 DEF HeldOnce, From
  <2>2. CASE p \notin Targets
    BY <1>1, <2>1, <2>2
  <2>3. CASE p \in Targets
    <3> DEFINE S == Seq(Events)
               b == BatchFor(p)
               s == pending[p]
               t == Append(s, b)
    <3>1. b \in S /\ s \in Seq(S) /\ pending'[p] = t
      BY <1>1, <1>4, <2>3
    <3>2. IsInjective(b) /\ Range(b) \cap gaveUp = {}
      BY <1>2, <1>3, BatchForContents, BatchForDistinct DEF Conservation
    <3>3. \A i \in DOMAIN s : /\ IsInjective(s[i]) /\ Range(s[i]) \subseteq gaveUp
                              /\ Range(s[i]) \cap From(i + 1, s) = {}
      BY <2>1
    <3>4. owed' = Targets
      BY <1>1
    <3> HIDE DEF S, b, s
    <3>5. /\ Len(s) \in Nat /\ DOMAIN s = 1..Len(s) /\ DOMAIN t = 1..(Len(s) + 1)
          /\ Len(t) = Len(s) + 1 /\ t[Len(s) + 1] = b
      BY <3>1
    <3>6. \A i \in DOMAIN s : t[i] = s[i] /\ i + 1 \in 1..(Len(s) + 1)
      BY <3>1, <3>5
    <3>7. /\ \A i \in DOMAIN s : From(i + 1, t) = From(i + 1, s) \cup Range(b)
          /\ From(Len(s) + 2, t) = {}
      BY <3>1, <3>6, FromAppended
    <3> HIDE DEF t
    <3>8. CASE k = Len(s) + 1
      <4>1. k + 1 = Len(s) + 2
        BY <3>5, <3>8
      <4>2. Present(p, k)'
        BY <2>3, <3>1, <3>4, <3>5, <3>8 DEF Present
      <4> QED
        BY <3>1, <3>2, <3>5, <3>7, <3>8, <4>1, <4>2
    <3>9. CASE k \in DOMAIN s
      BY <3>1, <3>2, <3>3, <3>6, <3>7, <3>9
    <3> QED
      BY <3>1, <3>5, <3>8, <3>9
  <2> QED
    BY <2>2, <2>3
<1> QED
  BY <1>8, <1>9, <1>12, <1>13 DEF Accounts

\* A batch that is over has been stored or is reported.
LEMMA OverInv ==
  ASSUME Accounts, Succeed \/ GiveUp \/ Timeout
  PROVE  Accounts'
<1>1. /\ UNCHANGED <<queue, leaving, errs, pending, log, done, closed, order, refused>>
      /\ flusher = "awaiting" /\ owed' = {}
      /\ messages' = <<>> /\ attempt' = 0 /\ flusher' \in {"select", "exited"}
      /\ \/ owed = {} /\ errs = {} /\ acked' = acked \cup Range(messages) /\ gaveUp' = gaveUp
         \/ acked' = acked /\ gaveUp' = gaveUp \cup Range(messages)
  BY DEF Succeed, Acknowledged, Answered, GiveUp, Failed, Timeout, Expire, Finished,
         writerVars, historyVars
<1>2. TypeOK /\ Conservation /\ AnswersAreOfTheBatch /\ ClosedAtRest /\ HeldOnce
      /\ AckedIsStored
  BY DEF Accounts
<1>3. messages \in Seq(Events)
  <2>1. messages \in Seq(Events \ Unencodable)
    BY <1>2 DEF TypeOK
  <2> QED
    BY <2>1
<1>4. Range(messages) \subseteq Events
  BY <1>3 DEF Range
<1>5. DOMAIN messages' = {} /\ messages' \in Seq(Events \ Unencodable)
  BY <1>1
<1>6. Range(messages') = {} /\ IsInjective(messages')
  BY <1>5 DEF Range, IsInjective
<1>7. TypeOK'
  <2>1. 0 \in 0..MaxAttempts
    BY ProducerAssumption
  <2> QED
    BY <1>1, <1>2, <1>4, <1>5, <2>1 DEF TypeOK
<1>8. Conservation'
  BY <1>1, <1>2, <1>6 DEF Conservation
<1>9. AckedIsStored'
  <2> SUFFICES ASSUME NEW e \in Range(messages), owed = {}, errs = {}
               PROVE  e \in Range(log[Partition[e]])
    BY <1>1, <1>2 DEF AckedIsStored
  <2> DEFINE p == Partition[e]
  <2>1. e \in Events /\ p \in Partitions
    BY <1>4, ProducerAssumption
  <2>2. e \in Range(BatchFor(p)) /\ BatchFor(p) \in Seq(Events)
    BY <1>3, <2>1, BatchForContents
  <2>3. BatchFor(p) # <<>>
    <3>1. DOMAIN BatchFor(p) # {}
      BY <2>2 DEF Range
    <3>2. \A s \in Seq(Events) : s = <<>> => DOMAIN s = {}
      OBVIOUS
    <3> QED
      BY <2>2, <3>1, <3>2
  <2>4. p \in Targets /\ Unsettled(p) = {}
    BY <2>1, <2>3 DEF Targets, Unsettled
  <2> QED
    BY <1>1, <1>2, <2>2, <2>4 DEF AnswersAreOfTheBatch
<1>10. AttemptsAreBounded' /\ AnswersAreOfTheBatch' /\ ClosedAtRest'
  BY <1>1, <1>2 DEF AttemptsAreBounded, AnswersAreOfTheBatch, ClosedAtRest
<1>11. HeldOnce'
  <2>1. ASSUME NEW p \in Partitions, NEW k, Present(p, k)
        PROVE  Range(pending[p][k]) \subseteq gaveUp'
    <3>1. owed # {} /\ p \in Targets /\ Range(pending[p][k]) = Unsettled(p)
      BY <1>1, <1>2, <2>1 DEF Present, Unsettled, AnswersAreOfTheBatch
    <3>2. Range(pending[p][k]) \subseteq Range(BatchFor(p))
      BY <1>1, <1>2, <2>1, <3>1 DEF Present, AnswersAreOfTheBatch
    <3>3. Range(BatchFor(p)) \subseteq Range(messages)
      BY <1>3, BatchForContents
    <3> QED
      BY <1>1, <3>1, <3>2, <3>3
  <2>2. gaveUp \subseteq gaveUp'
    BY <1>1
  <2>3. \A p, k : From(k, pending[p])' = From(k, pending[p])
    BY <1>1 DEF From
  <2> QED
    BY <1>1, <1>2, <2>1, <2>2, <2>3 DEF HeldOnce
<1> QED
  BY <1>7, <1>8, <1>9, <1>10, <1>11 DEF Accounts

\* What the kafka writer has left of a partition when a batch is settled: whatever is
\* left of the oldest call, and the other calls.
LEMMA SettledFrom ==
  ASSUME NEW p, NEW outcome, NEW part, NEW left, Settles(p, outcome, part, left)
  PROVE  LET s == pending[p]  t == pending'[p] IN
           /\ From(1, s) = Range(part) \cup Range(left) \cup From(2, s)
           /\ From(1, t) = Range(left) \cup From(2, s)
           /\ \/ /\ left = <<>> /\ part = s[1]
                 /\ DOMAIN t = 1..(Len(s) - 1) /\ Len(t) = Len(s) - 1
                 /\ \A k \in DOMAIN t : /\ t[k] = s[k + 1] /\ k + 1 \in DOMAIN s
                                        /\ From(k, t) = From(k + 1, s)
                                        /\ From(k + 1, t) = From((k + 1) + 1, s)
              \/ /\ left # <<>> /\ DOMAIN t = DOMAIN s /\ Len(t) = Len(s) /\ t[1] = left
                 /\ \A k \in DOMAIN s : From(k + 1, t) = From(k + 1, s)
                 /\ \A k \in DOMAIN s \ {1} : t[k] = s[k] /\ From(k, t) = From(k, s)
<1> DEFINE S == Seq(Events)
           s == pending[p]
           t == pending'[p]
<1>1. s \in Seq(S) /\ s # <<>> /\ part \in S /\ left \in S /\ s[1] = part \o left
      /\ t = IF left = <<>> THEN Tail(s) ELSE [s EXCEPT ![1] = left]
  BY DEF Settles
<1>2. Range(s[1]) = Range(part) \cup Range(left)
  BY <1>1, JoinContents
<1>3. left = <<>> => part = s[1] /\ Range(left) = {}
  BY <1>1 DEF Range
<1> HIDE DEF S, s, t
<1>4. Len(s) \in Nat /\ Len(s) >= 1 /\ DOMAIN s = 1..Len(s)
  BY <1>1
<1>5. /\ \A k \in Nat \ {0} : From(k, Tail(s)) = From(k + 1, s)
      /\ From(1, s) = Range(s[1]) \cup From(2, s)
  BY <1>1, FromReceived
<1>6. CASE left = <<>>
  <2>1. DOMAIN t = 1..(Len(s) - 1) /\ Len(t) = Len(s) - 1
    BY <1>1, <1>4, <1>6
  <2>2. \A k \in DOMAIN t : t[k] = s[k + 1] /\ k + 1 \in DOMAIN s
    BY <1>1, <1>4, <1>6, <2>1
  <2>3. \A k \in DOMAIN t : k \in Nat \ {0} /\ k + 1 \in Nat \ {0}
    BY <1>4, <2>1
  <2>4. 1 \in Nat \ {0} /\ 1 + 1 = 2
    OBVIOUS
  <2>5. From(1, t) = From(2, s)
    BY <1>1, <1>5, <1>6, <2>4
  <2>6. \A k \in DOMAIN t : From(k, t) = From(k + 1, s) /\ From(k + 1, t) = From((k + 1) + 1, s)
    BY <1>1, <1>5, <1>6, <2>3
  <2> QED
    BY <1>2, <1>3, <1>5, <1>6, <2>1, <2>2, <2>5, <2>6 DEF s, t
<1>7. CASE left # <<>>
  <2>1. /\ Len(t) = Len(s) /\ t[1] = left /\ t \in Seq(S)
        /\ \A k \in DOMAIN s : k # 1 => t[k] = s[k]
        /\ \A k \in Nat : k >= 2 => From(k, t) = From(k, s)
        /\ From(1, t) = Range(left) \cup From(2, s)
    <3>1. t = [s EXCEPT ![1] = left] /\ s \in Seq(S) /\ left \in S
      BY <1>1, <1>7
    <3>2. /\ Len(t) = Len(s) /\ t[1] = left /\ t \in Seq(S)
          /\ \A k \in DOMAIN s \ {1} : t[k] = s[k]
      BY <1>4, <3>1
    <3>3. s # <<>> /\ s \in Seq(S) /\ left \in S
      BY <1>1
    <3>4. \A k \in Nat : k >= 2 => From(k, t) = From(k, s)
      BY <3>2, <3>3, FromReplaced
    <3>5. From(1, t) = Range(left) \cup From(2, s)
      BY <3>2, <3>3, FromReplaced
    <3> QED
      BY <3>2, <3>4, <3>5
  <2>2. DOMAIN t = DOMAIN s
    BY <1>4, <2>1
  <2>3. \A k \in DOMAIN s : From(k + 1, t) = From(k + 1, s)
    <3>1. \A k \in DOMAIN s : k + 1 \in Nat /\ k + 1 >= 2
      BY <1>4
    <3> QED
      BY <2>1, <3>1
  <2>4. \A k \in DOMAIN s \ {1} : t[k] = s[k] /\ From(k, t) = From(k, s)
    <3>1. \A k \in DOMAIN s \ {1} : k \in Nat /\ k >= 2
      BY <1>4
    <3> QED
      BY <2>1, <3>1
  <2> QED
    BY <1>2, <1>5, <1>7, <2>1, <2>2, <2>3, <2>4 DEF s, t
<1> QED
  BY <1>6, <1>7

\* What the present call waits for after a batch of partition p: nothing has changed
\* unless the batch was its own.
LEMMA SettledPresent ==
  ASSUME NEW p, NEW outcome, NEW part, NEW left, Settles(p, outcome, part, left), p \in owed
  PROVE  IF Len(pending[p]) = 1
         THEN /\ Unsettled(p) = Range(part) \cup Range(left)
              /\ Unsettled(p)' = Range(left)
              /\ p \in owed' => pending'[p] # <<>> /\ left # <<>>
              /\ left = <<>> => part = pending[p][Len(pending[p])]
         ELSE /\ p \in owed' /\ pending'[p] # <<>>
              /\ pending'[p][Len(pending'[p])] = pending[p][Len(pending[p])]
              /\ Unsettled(p)' = Unsettled(p)
<1> DEFINE S == Seq(Events)
           s == pending[p]
           t == pending'[p]
           last == t[Len(t)]
<1>1. s \in Seq(S) /\ s # <<>> /\ part \in S /\ left \in S /\ s[1] = part \o left
      /\ t = IF left = <<>> THEN Tail(s) ELSE [s EXCEPT ![1] = left]
  BY DEF Settles
<1>2. Range(s[1]) = Range(part) \cup Range(left) /\ (left = <<>> => part = s[1])
  BY <1>1, JoinContents
<1>3. left = <<>> => Range(left) = {}
  BY DEF Range
<1>4. /\ Unsettled(p) = Range(s[Len(s)])
      /\ Unsettled(p)' = IF p \in owed' THEN Range(last) ELSE {}
  BY DEF Unsettled
<1>5. IF Len(s) = 1 THEN owed' = IF left = <<>> THEN owed \ {p} ELSE owed
      ELSE owed' = owed
  BY DEF Settles
<1> HIDE DEF S, s, t
<1>6. CASE Len(s) = 1
  <2>1. CASE left = <<>>
    BY <1>2, <1>3, <1>4, <1>5, <1>6, <2>1 DEF s
  <2>2. CASE left # <<>>
    <3>1. Len(t) = 1 /\ t[1] = left /\ t # <<>>
      BY <1>1, <1>6, <2>2
    <3> QED
      BY <1>2, <1>4, <1>5, <1>6, <2>2, <3>1 DEF s, t
  <2> QED
    BY <2>1, <2>2
<1>7. CASE Len(s) # 1
  <2>1. t # <<>> /\ last = s[Len(s)]
    <3>1. CASE left = <<>>
      BY <1>1, <1>7, <3>1, ReceiveLast
    <3>2. CASE left # <<>>
      BY <1>1, <1>7, <3>2
    <3> QED
      BY <3>1, <3>2
  <2> QED
    BY <1>4, <1>5, <1>7, <2>1 DEF s, t
<1> QED
  BY <1>6, <1>7

LEMMA SettledOnce ==
  ASSUME HeldOnce, TypeOK, NEW p \in Partitions, NEW outcome, NEW part, NEW left,
         Settles(p, outcome, part, left)
  PROVE  /\ HeldOnce'
         /\ Range(part) \cap From(1, pending'[p]) = {}
<1> DEFINE s == pending[p]
           t == pending'[p]
<1>1. /\ gaveUp' = gaveUp /\ s[1] = part \o left /\ part \in Seq(Events) /\ left \in Seq(Events)
      /\ \A q \in Partitions \ {p} : pending'[q] = pending[q] /\ (q \in owed' <=> q \in owed)
  BY DEF Settles
<1>2. 1 \in DOMAIN s /\ DOMAIN s = 1..Len(s) /\ Len(s) \in Nat
  <2> DEFINE S == Seq(Events)
  <2>1. s \in Seq(S) /\ s # <<>>
    BY DEF Settles
  <2> HIDE DEF S, s
  <2> QED
    BY <2>1
<1>3. /\ From(1, s) = Range(part) \cup Range(left) \cup From(2, s)
      /\ From(1, t) = Range(left) \cup From(2, s)
      /\ \/ /\ left = <<>>
            /\ DOMAIN t = 1..(Len(s) - 1) /\ Len(t) = Len(s) - 1
            /\ \A k \in DOMAIN t : /\ t[k] = s[k + 1] /\ k + 1 \in DOMAIN s
                                   /\ From(k + 1, t) = From((k + 1) + 1, s)
         \/ /\ left # <<>> /\ DOMAIN t = DOMAIN s /\ Len(t) = Len(s) /\ t[1] = left
            /\ \A k \in DOMAIN s : From(k + 1, t) = From(k + 1, s)
            /\ \A k \in DOMAIN s \ {1} : t[k] = s[k]
  BY SettledFrom
<1>4. \A k \in DOMAIN s : /\ IsInjective(s[k]) /\ Range(s[k]) \cap From(k + 1, s) = {}
                          /\ Present(p, k) \/ Range(s[k]) \subseteq gaveUp
  BY DEF HeldOnce
<1>5. /\ IsInjective(left) /\ Range(part) \cap Range(left) = {}
      /\ Range(s[1]) = Range(part) \cup Range(left)
  <2>1. IsInjective(part \o left)
    BY <1>1, <1>2, <1>4
  <2>2. IsInjective(left) /\ Range(part) \cap Range(left) = {}
    BY <1>1, <2>1, DividedDistinct
  <2>3. Range(part \o left) = Range(part) \cup Range(left)
    BY <1>1, JoinContents
  <2> QED
    BY <1>1, <2>2, <2>3
<1>6. Range(part) \cap From(1, t) = {}
  <2>1. 1 + 1 = 2
    OBVIOUS
  <2> QED
    BY <1>2, <1>3, <1>4, <1>5, <2>1
<1>7. \A k : /\ Present(p, k) <=> p \in owed /\ k = Len(s)
             /\ Present(p, k)' <=> p \in owed' /\ k = Len(t)
  BY DEF Present
<1>8. IF p \in owed /\ Len(s) = 1 THEN owed' = IF left = <<>> THEN owed \ {p} ELSE owed
      ELSE owed' = owed
  BY DEF Settles
<1> HIDE DEF s, t
<1>9. ASSUME NEW k \in DOMAIN t
      PROVE  /\ IsInjective(t[k]) /\ Range(t[k]) \cap From(k + 1, t) = {}
             /\ Present(p, k)' \/ Range(t[k]) \subseteq gaveUp
  <2>1. CASE left = <<>>
    <3>1. /\ t[k] = s[k + 1] /\ k + 1 \in DOMAIN s /\ From(k + 1, t) = From((k + 1) + 1, s)
          /\ Len(t) = Len(s) - 1 /\ DOMAIN t = 1..(Len(s) - 1)
      BY <1>3, <2>1
    <3>2. Present(p, k + 1) => Present(p, k)'
      <4>1. k + 1 = Len(s) => k = Len(t) /\ Len(s) # 1
        BY <1>2, <3>1
      <4> QED
        BY <1>7, <1>8, <4>1
    <3> QED
      BY <1>4, <3>1, <3>2
  <2>2. CASE left # <<>>
    <3>1. /\ DOMAIN t = DOMAIN s /\ Len(t) = Len(s) /\ t[1] = left
          /\ From(k + 1, t) = From(k + 1, s) /\ (k # 1 => t[k] = s[k])
      BY <1>3, <2>2
    <3>2. Present(p, k) <=> Present(p, k)'
      BY <1>7, <1>8, <2>2, <3>1
    <3>3. CASE k = 1
      BY <1>2, <1>4, <1>5, <3>1, <3>2, <3>3
    <3>4. CASE k # 1
      BY <1>4, <3>1, <3>2, <3>4
    <3> QED
      BY <3>3, <3>4
  <2> QED
    BY <2>1, <2>2
<1>10. HeldOnce'
  <2> SUFFICES ASSUME NEW q \in Partitions, NEW k \in DOMAIN pending'[q]
               PROVE  /\ IsInjective(pending'[q][k])
                      /\ Range(pending'[q][k]) \cap From(k + 1, pending'[q]) = {}
                      /\ Present(q, k)' \/ Range(pending'[q][k]) \subseteq gaveUp
    BY <1>1 DEF HeldOnce, From
  <2>1. CASE q = p
    BY <1>9, <2>1 DEF t
  <2>2. CASE q # p
    BY <1>1, <2>2 DEF HeldOnce, Present
  <2> QED
    BY <2>1, <2>2
<1> QED
  BY <1>6, <1>10 DEF t

\* The cluster settles the next batch of a partition.
LEMMA ServeInv ==
  ASSUME Accounts, NEW p \in Partitions, Broker(p)
  PROVE  Accounts'
<1>1. TypeOK /\ Conservation /\ AttemptsAreBounded /\ AnswersAreOfTheBatch /\ ClosedAtRest
      /\ HeldOnce /\ AckedIsStored
  BY DEF Accounts
<1>2. PICK outcome \in {"ok"} \cup (Faults \ {"timeout"}), part \in Seq(Events),
           left \in Seq(Events) : Settles(p, outcome, part, left)
  BY <1>1, BrokerSettles
<1>3. /\ TypeOK' /\ HeldOnce'
      /\ \A q \in Partitions : Range(log[q]) \subseteq Range(log'[q])
  BY <1>1, <1>2, SettlesTypes, SettledOnce
<1>4. UNCHANGED <<queue, messages, flusher, attempt, leaving, done, closed, order, refused,
                  acked, gaveUp>>
  BY <1>2 DEF Settles
<1>5. Conservation' /\ AttemptsAreBounded' /\ ClosedAtRest'
  BY <1>1, <1>4 DEF Conservation, AttemptsAreBounded, ClosedAtRest
<1>6. AckedIsStored'
  <2> SUFFICES ASSUME NEW e \in acked PROVE e \in Range(log'[Partition[e]])
    BY <1>4 DEF AckedIsStored
  <2>1. Partition[e] \in Partitions
    BY <1>1, ProducerAssumption DEF TypeOK
  <2> QED
    BY <1>1, <1>3, <2>1 DEF AckedIsStored
<1>7. /\ \A q \in owed' : q \in owed /\ q \in Partitions
      /\ \A q \in Partitions \ {p} : /\ pending'[q] = pending[q] /\ (q \in owed' <=> q \in owed)
                                     /\ Unsettled(q)' = Unsettled(q)
  BY <1>1, <1>2 DEF Settles, TypeOK, Unsettled
<1>8. \A q : BatchFor(q)' = BatchFor(q)
  BY <1>4, BatchKept
<1>9. AnswersAreOfTheBatch'
  <2>1. Targets' = Targets
    BY <1>8 DEF Targets
  <2>2. flusher' # "awaiting" => owed' = {}
    BY <1>1, <1>4, <1>7 DEF AnswersAreOfTheBatch
  <2> SUFFICES ASSUME flusher = "awaiting"
               PROVE  /\ owed' \subseteq Targets
                      /\ \A q \in owed' :
                           /\ pending'[q] # <<>> /\ Unsettled(q)' \subseteq Range(BatchFor(q))
                           /\ ~Splits => pending'[q][Len(pending'[q])] = BatchFor(q)
                      /\ errs' = {} => \A q \in Targets :
                           Range(BatchFor(q)) \subseteq Range(log'[q]) \cup Unsettled(q)'
    BY <1>4, <1>8, <2>1, <2>2 DEF AnswersAreOfTheBatch
  <2>3. /\ owed \subseteq Targets
        /\ \A q \in owed : /\ pending[q] # <<>> /\ Unsettled(q) \subseteq Range(BatchFor(q))
                           /\ ~Splits => pending[q][Len(pending[q])] = BatchFor(q)
        /\ errs = {} => \A q \in Targets :
             Range(BatchFor(q)) \subseteq Range(log[q]) \cup Unsettled(q)
    BY <1>1 DEF AnswersAreOfTheBatch
  <2>4. Targets \subseteq Partitions
    BY DEF Targets
  <2>5. owed' \subseteq Targets
    BY <1>7, <2>3
  <2>6. ~Splits => left = <<>>
    BY <1>2 DEF Settles
  <2>7. ASSUME NEW q \in owed'
        PROVE  /\ pending'[q] # <<>> /\ Unsettled(q)' \subseteq Range(BatchFor(q))
               /\ ~Splits => pending'[q][Len(pending'[q])] = BatchFor(q)
    <3>1. q \in owed
      BY <1>7
    <3>2. CASE q # p
      BY <1>7, <2>3, <3>1, <3>2
    <3>3. CASE q = p /\ Len(pending[p]) = 1
      BY <1>2, <2>3, <2>6, <3>1, <3>3, SettledPresent
    <3>4. CASE q = p /\ Len(pending[p]) # 1
      BY <1>2, <2>3, <3>1, <3>4, SettledPresent
    <3> QED
      BY <3>2, <3>3, <3>4
  <2>8. ASSUME errs' = {}, NEW q \in Targets
        PROVE  Range(BatchFor(q)) \subseteq Range(log'[q]) \cup Unsettled(q)'
    <3>1. errs = {} /\ q \in Partitions
      BY <1>2, <2>4, <2>8 DEF Settles
    <3>2. Range(BatchFor(q)) \subseteq Range(log[q]) \cup Unsettled(q)
      BY <2>3, <3>1
    <3>3. CASE q # p
      BY <1>3, <1>7, <3>1, <3>2, <3>3
    <3>4. CASE q = p /\ p \notin owed
      <4>1. p \notin owed'
        BY <1>7, <3>4
      <4>2. Unsettled(p) = {} /\ Unsettled(p)' = {}
        BY <3>4, <4>1 DEF Unsettled
      <4> QED
        BY <1>3, <3>2, <3>4, <4>2
    <3>5. CASE q = p /\ p \in owed /\ Len(pending[p]) = 1
      <4>1. outcome = "ok"
        BY <1>2, <2>8, <3>5 DEF Settles
      <4>2. log'[p] = log[p] \o part /\ log[p] \in Seq(Events)
        BY <1>1, <1>2, <4>1 DEF Settles, TypeOK
      <4>3. Range(log'[p]) = Range(log[p]) \cup Range(part)
        BY <4>2, JoinContents
      <4>4. Unsettled(p) = Range(part) \cup Range(left) /\ Unsettled(p)' = Range(left)
        BY <1>2, <3>5, SettledPresent
      <4> QED
        BY <3>2, <3>5, <4>3, <4>4
    <3>6. CASE q = p /\ p \in owed /\ Len(pending[p]) # 1
      <4>1. Unsettled(p)' = Unsettled(p)
        BY <1>2, <3>6, SettledPresent
      <4> QED
        BY <1>3, <3>1, <3>2, <3>6, <4>1
    <3> QED
      BY <3>3, <3>4, <3>5, <3>6
  <2> QED
    BY <2>5, <2>7, <2>8
<1> QED
  BY <1>3, <1>5, <1>6, <1>9 DEF Accounts

LEMMA NextInv == Accounts /\ [Next]_vars => Accounts'
BY WriteInv, TakeInv, TurnInv, AttemptInv, OverInv, ServeInv DEF Next, Flusher, Ended

-----------------------------------------------------------------------------
(* The order of the events *)

\* More may be excepted.
LEMMA ExceptMore ==
  ASSUME NEW o, NEW s, NEW S, NEW some, NEW more, InTurn(o, s, S, some),
         some \cap S \subseteq more
  PROVE  InTurn(o, s, S, more)
BY DEF InTurn

\* An event that has just been accepted is behind all others, and before none.
LEMMA AcceptedLast ==
  ASSUME NEW o \in Seq(Events), NEW e \in Events, e \notin Range(o)
  PROVE  /\ Earlier(Append(o, e), e) \subseteq Range(o)
         /\ \A f \in Range(o) : Earlier(Append(o, e), f) = Earlier(o, f)
<1> DEFINE q == Append(o, e)
<1>1. /\ Len(o) \in Nat /\ DOMAIN o = 1..Len(o) /\ DOMAIN q = 1..(Len(o) + 1)
      /\ q[Len(o) + 1] = e
  OBVIOUS
<1>2. \A i \in DOMAIN o : i \in DOMAIN q /\ q[i] = o[i]
  BY <1>1
<1>3. \A i \in DOMAIN q : i = Len(o) + 1 \/ i \in DOMAIN o
  BY <1>1
<1>4. Range(q) = Range(o) \cup {e} /\ \A i \in DOMAIN o : o[i] \in Range(o) /\ o[i] # e
  <2>1. Range(q) = Range(o) \cup {e}
    BY SendContents
  <2>2. \A i \in DOMAIN o : o[i] \in Range(o)
    BY DEF Range
  <2> QED
    BY <2>1, <2>2
<1> HIDE DEF q
<1>5. ASSUME NEW i \in DOMAIN q, NEW j \in DOMAIN q, i < j
      PROVE  i \in DOMAIN o /\ q[i] = o[i]
  BY <1>1, <1>2, <1>3, <1>5
<1>6. Earlier(q, e) \subseteq Range(o)
  BY <1>4, <1>5 DEF Earlier
<1>7. ASSUME NEW f \in Range(o)
      PROVE  Earlier(q, f) = Earlier(o, f)
  <2>1. \A j \in DOMAIN q : q[j] = f => j \in DOMAIN o /\ o[j] = f
    BY <1>1, <1>2, <1>3, <1>4
  <2>2. Earlier(q, f) \subseteq Earlier(o, f)
    BY <1>4, <1>5, <2>1 DEF Earlier
  <2>3. Earlier(o, f) \subseteq Earlier(q, f)
    BY <1>2, <1>4 DEF Earlier
  <2> QED
    BY <2>2, <2>3
<1> QED
  BY <1>6, <1>7 DEF q

\* What is in turn stays in turn when another event is accepted.
LEMMA AcceptedElsewhere ==
  ASSUME NEW o \in Seq(Events), NEW e \in Events, e \notin Range(o),
         NEW s, NEW S, NEW some, Range(s) \subseteq Range(o), InTurn(o, s, S, some)
  PROVE  InTurn(Append(o, e), s, S, some)
<1>1. \A n \in DOMAIN s : Earlier(Append(o, e), s[n]) = Earlier(o, s[n])
  BY AcceptedLast DEF Range
<1> QED
  BY <1>1 DEF InTurn

\* An event comes in turn behind those of s if the earlier ones that are not
\* excepted are among them.
LEMMA AppendedInTurn ==
  ASSUME NEW o, NEW s \in Seq(Events), NEW e \in Events, NEW S, NEW some,
         InTurn(o, s, S, some), Earlier(o, e) \cap S \subseteq Range(s) \cup some
  PROVE  InTurn(o, Append(s, e), S, some)
<1> DEFINE t == Append(s, e)
<1>1. /\ Len(s) \in Nat /\ DOMAIN s = 1..Len(s) /\ DOMAIN t = 1..(Len(s) + 1)
      /\ t[Len(s) + 1] = e
  OBVIOUS
<1>2. \A i \in DOMAIN s : t[i] = s[i]
  BY <1>1
<1> HIDE DEF t
<1> SUFFICES ASSUME NEW n \in DOMAIN t, NEW x \in Earlier(o, t[n]) \cap S, x \notin some
             PROVE  \E m \in 1..(n - 1) : t[m] = x
  BY DEF InTurn, t
<1>3. CASE n = Len(s) + 1
  <2>1. x \in Range(s)
    BY <1>1, <1>3
  <2>2. PICK m \in DOMAIN s : s[m] = x
    BY <2>1 DEF Range
  <2>3. m \in 1..(n - 1)
    BY <1>1, <1>3
  <2> QED
    BY <1>2, <2>2, <2>3
<1>4. CASE n \in DOMAIN s
  <2>1. x \in Earlier(o, s[n]) \cap S
    BY <1>2, <1>4
  <2>2. PICK m \in 1..(n - 1) : s[m] = x
    BY <1>4, <2>1 DEF InTurn
  <2>3. m \in DOMAIN s
    BY <1>1, <1>4
  <2> QED
    BY <1>2, <2>2, <2>3
<1> QED
  BY <1>1, <1>3, <1>4

\* A batch comes in turn behind a log if what is excepted for it is in the log or
\* excepted there too.
LEMMA JoinedInTurn ==
  ASSUME NEW o, NEW s \in Seq(Events), NEW t \in Seq(Events), NEW S, NEW some, NEW other,
         InTurn(o, s, S, some), InTurn(o, t, S, other), other \cap S \subseteq Range(s) \cup some
  PROVE  InTurn(o, s \o t, S, some)
<1> DEFINE u == s \o t
<1>1. /\ Len(s) \in Nat /\ DOMAIN s = 1..Len(s) /\ Len(t) \in Nat /\ DOMAIN t = 1..Len(t)
      /\ DOMAIN u = 1..(Len(s) + Len(t))
  OBVIOUS
<1>2. \A i \in DOMAIN s : u[i] = s[i]
  BY <1>1
<1>3. \A i \in DOMAIN t : u[Len(s) + i] = t[i]
  BY <1>1
<1> HIDE DEF u
<1> SUFFICES ASSUME NEW n \in DOMAIN u, NEW x \in Earlier(o, u[n]) \cap S, x \notin some
             PROVE  \E m \in 1..(n - 1) : u[m] = x
  BY DEF InTurn, u
<1>4. CASE n <= Len(s)
  <2>1. n \in DOMAIN s /\ x \in Earlier(o, s[n]) \cap S
    BY <1>1, <1>2, <1>4
  <2>2. PICK m \in 1..(n - 1) : s[m] = x
    BY <2>1 DEF InTurn
  <2>3. m \in DOMAIN s
    BY <1>1, <2>1
  <2> QED
    BY <1>2, <2>2, <2>3
<1>5. CASE n > Len(s)
  <2>1. n - Len(s) \in DOMAIN t /\ Len(s) + (n - Len(s)) = n
    BY <1>1, <1>5
  <2>2. x \in Earlier(o, t[n - Len(s)]) \cap S
    BY <1>3, <2>1
  <2>3. CASE x \in Range(s)
    <3>1. PICK m \in DOMAIN s : s[m] = x
      BY <2>3 DEF Range
    <3>2. m \in 1..(n - 1)
      BY <1>1, <1>5
    <3> QED
      BY <1>2, <3>1, <3>2
  <2>4. CASE x \notin Range(s)
    <3>1. PICK m \in 1..((n - Len(s)) - 1) : t[m] = x
      BY <2>1, <2>2, <2>4 DEF InTurn
    <3>2. m \in DOMAIN t /\ Len(s) + m \in 1..(n - 1)
      BY <1>1, <1>5, <2>1
    <3> QED
      BY <1>3, <3>1, <3>2
  <2> QED
    BY <2>3, <2>4
<1> QED
  BY <1>1, <1>4, <1>5

\* The head of what is in turn is behind nothing else there, and what is left is in
\* turn but for it.
LEMMA ReceivedInTurn ==
  ASSUME NEW o, NEW s \in Seq(Events), s # <<>>, NEW S, NEW some, InTurn(o, s, S, some)
  PROVE  /\ Earlier(o, Head(s)) \cap S \subseteq some
         /\ InTurn(o, Tail(s), S, some \cup {Head(s)})
<1> DEFINE t == Tail(s)
<1>1. Len(s) \in Nat /\ Len(s) >= 1 /\ DOMAIN s = 1..Len(s) /\ Head(s) = s[1]
  OBVIOUS
<1>2. DOMAIN t = 1..(Len(s) - 1) /\ \A n \in DOMAIN t : t[n] = s[n + 1] /\ n + 1 \in DOMAIN s
  BY <1>1
<1> HIDE DEF t
<1>3. Earlier(o, Head(s)) \cap S \subseteq some
  <2>1. 1 \in DOMAIN s /\ 1..(1 - 1) = {}
    BY <1>1
  <2>2. {s[m] : m \in 1..(1 - 1)} = {}
    BY <2>1
  <2>3. Earlier(o, s[1]) \cap S \subseteq {s[m] : m \in 1..(1 - 1)} \cup some
    BY <2>1 DEF InTurn
  <2> QED
    BY <1>1, <2>2, <2>3
<1>4. ASSUME NEW n \in DOMAIN t, NEW x \in Earlier(o, t[n]) \cap S, x \notin some, x # Head(s)
      PROVE  \E m \in 1..(n - 1) : t[m] = x
  <2>1. x \in Earlier(o, s[n + 1]) \cap S /\ n + 1 \in DOMAIN s
    BY <1>2, <1>4
  <2>2. PICK m \in 1..((n + 1) - 1) : s[m] = x
    BY <1>4, <2>1 DEF InTurn
  <2>3. m - 1 \in 1..(n - 1) /\ m - 1 \in DOMAIN t /\ (m - 1) + 1 = m
    BY <1>1, <1>2, <1>4, <2>2
  <2> QED
    BY <1>2, <2>2, <2>3
<1> QED
  BY <1>3, <1>4 DEF InTurn, t

\* The batch of a partition is in turn if the messages are.
LEMMA BatchInTurn ==
  ASSUME NEW p \in Partitions, messages \in Seq(Events), IsInjective(messages), NEW some,
         InTurn(order, messages, Events, some)
  PROVE  InTurn(order, BatchFor(p), OfPartition(p), some)
<1> DEFINE b == BatchFor(p)
<1>1. Selection(p, Len(messages), b) /\ DOMAIN messages = 1..Len(messages)
      /\ Len(messages) \in Nat
  BY BatchForSelects
<1>2. b \in Seq(Events) /\ DOMAIN b = 1..Len(b) /\ Len(b) \in Nat
  BY <1>1 DEF Selection
<1> HIDE DEF b
<1> SUFFICES ASSUME NEW n \in DOMAIN b, NEW x \in Earlier(order, b[n]) \cap OfPartition(p),
                    x \notin some
             PROVE  \E m \in 1..(n - 1) : b[m] = x
  BY DEF InTurn, b
<1>3. x \in Events /\ Partition[x] = p
  BY DEF OfPartition
<1>4. PICK l \in DOMAIN messages : messages[l] = b[n]
  BY <1>1 DEF Selection
<1>5. PICK k \in 1..(l - 1) : messages[k] = x
  BY <1>3, <1>4 DEF InTurn
<1>6. k \in DOMAIN messages /\ k < l
  BY <1>1, <1>4, <1>5
<1>7. PICK m \in DOMAIN b : b[m] = x
  BY <1>1, <1>3, <1>5, <1>6 DEF Selection
<1>8. m # n
  BY <1>4, <1>5, <1>6, <1>7 DEF IsInjective
<1>9. ~(n < m)
  <2> SUFFICES ASSUME n < m PROVE FALSE
    OBVIOUS
  <2>1. PICK i \in 1..Len(messages), j \in 1..Len(messages) :
               i < j /\ messages[i] = b[n] /\ messages[j] = b[m]
    BY <1>1 DEF Selection
  <2>2. i = l /\ j = k
    BY <1>1, <1>4, <1>5, <1>6, <1>7, <2>1 DEF IsInjective
  <2> QED
    BY <1>1, <1>6, <2>1, <2>2
<1>10. m \in 1..(n - 1)
  BY <1>2, <1>8, <1>9
<1> QED
  BY <1>7, <1>10

-----------------------------------------------------------------------------
(* Every step keeps the events in turn *)

LEMMA InitInTurn == Init => EverythingInTurn
<1> SUFFICES ASSUME Init PROVE EverythingInTurn
  OBVIOUS
<1>1. queue = <<>> /\ messages = <<>> /\ \A p \in Partitions : pending[p] = <<>> /\ log[p] = <<>>
  BY DEF Init
<1>2. DOMAIN <<>> = {} /\ Len(<<>>) = 0 /\ 1..0 = {}
  OBVIOUS
<1>3. From(1, <<>>) = {} /\ Range(<<>>) = {}
  BY <1>2 DEF From, Range
<1>4. \A o, S, some : InTurn(o, <<>>, S, some)
  BY <1>2 DEF InTurn
<1>5. InTurn(order, queue, Events, Range(messages) \cup acked \cup gaveUp)
  BY <1>1, <1>4
<1>6. InTurn(order, messages, Events, acked \cup gaveUp)
  BY <1>1, <1>4
<1>7. ASSUME NEW p \in Partitions
      PROVE  /\ DOMAIN pending[p] = {}
             /\ InTurn(order, log[p], OfPartition(p),
                       gaveUp \ (Range(log[p]) \cup From(1, pending[p])))
             /\ Range(log[p]) \cup From(1, pending[p]) \subseteq Range(order)
  BY <1>1, <1>2, <1>3, <1>4
<1> QED
  BY <1>5, <1>6, <1>7 DEF EverythingInTurn

\* What is with the kafka writer or in the log has been accepted.
LEMMA PendingAccepted ==
  ASSUME EverythingInTurn, TypeOK, NEW p \in Partitions
  PROVE  /\ Range(log[p]) \subseteq Range(order)
         /\ \A k \in DOMAIN pending[p] : Range(pending[p][k]) \subseteq Range(order)
<1>1. pending[p] \in Seq(Seq(Events))
  BY DEF TypeOK
<1>2. DOMAIN pending[p] = 1..Len(pending[p])
  <2> DEFINE S == Seq(Events)
  <2>1. pending[p] \in Seq(S)
    BY <1>1
  <2> HIDE DEF S
  <2> QED
    BY <2>1
<1>3. \A k \in DOMAIN pending[p] : Range(pending[p][k]) \subseteq From(1, pending[p])
  BY <1>2 DEF From
<1> QED
  BY <1>3 DEF EverythingInTurn

LEMMA WriteInTurn ==
  ASSUME Accounts, EverythingInTurn, NEW e \in Events, Write(e)
  PROVE  EverythingInTurn'
<1>1. /\ UNCHANGED <<messages, owed, pending, log, acked, gaveUp>>
      /\ e \notin Range(order)
  BY DEF Write, New, writerVars
<1>2. /\ TypeOK /\ Conservation /\ queue \in Seq(Events) /\ order \in Seq(Events)
      /\ Range(queue) \subseteq Range(order) /\ Range(messages) \subseteq Range(order)
  BY DEF Accounts, TypeOK, Conservation
<1>3. \A p, k : Underway(p, k)' = Underway(p, k)
  BY <1>1 DEF Underway, Present
<1>4. CASE order' = order /\ queue' = queue
  BY <1>1, <1>3, <1>4 DEF EverythingInTurn
<1>5. CASE order' = Append(order, e) /\ queue' = Append(queue, e)
  <2> DEFINE o == Append(order, e)
  <2>1. /\ Range(o) = Range(order) \cup {e} /\ Earlier(o, e) \subseteq Range(order)
    BY <1>1, <1>2, SendContents, AcceptedLast
  <2>2. \A s, S, some : Range(s) \subseteq Range(order) /\ InTurn(order, s, S, some)
                        => InTurn(o, s, S, some)
    BY <1>1, <1>2, AcceptedElsewhere
  <2> HIDE DEF o
  <2>3. InTurn(o, Append(queue, e), Events, Range(messages) \cup acked \cup gaveUp)
    <3>1. InTurn(o, queue, Events, Range(messages) \cup acked \cup gaveUp)
      BY <1>2, <2>2 DEF EverythingInTurn
    <3>2. Earlier(o, e) \cap Events
            \subseteq Range(queue) \cup (Range(messages) \cup acked \cup gaveUp)
      BY <1>2, <2>1 DEF Conservation
    <3> QED
      BY <1>2, <3>1, <3>2, AppendedInTurn
  <2>4. InTurn(o, messages, Events, acked \cup gaveUp)
    BY <1>2, <2>2 DEF EverythingInTurn
  <2>5. ASSUME NEW p \in Partitions
        PROVE  /\ \A k \in DOMAIN pending[p] :
                    InTurn(o, pending[p][k], OfPartition(p),
                           (acked \cup gaveUp \cup Underway(p, k)) \ From(k, pending[p]))
               /\ ~Splits => InTurn(o, log[p], OfPartition(p),
                                    gaveUp \ (Range(log[p]) \cup From(1, pending[p])))
               /\ Range(log[p]) \cup From(1, pending[p]) \subseteq Range(o)
    <3>1. /\ Range(log[p]) \subseteq Range(order)
          /\ \A k \in DOMAIN pending[p] : Range(pending[p][k]) \subseteq Range(order)
      BY <1>2, PendingAccepted
    <3>2. /\ \A k \in DOMAIN pending[p] :
               InTurn(order, pending[p][k], OfPartition(p),
                      (acked \cup gaveUp \cup Underway(p, k)) \ From(k, pending[p]))
          /\ ~Splits => InTurn(order, log[p], OfPartition(p),
                               gaveUp \ (Range(log[p]) \cup From(1, pending[p])))
          /\ Range(log[p]) \cup From(1, pending[p]) \subseteq Range(order)
      BY DEF EverythingInTurn
    <3> QED
      BY <2>1, <2>2, <3>1, <3>2
  <2> QED
    BY <1>1, <1>3, <1>5, <2>3, <2>4, <2>5 DEF EverythingInTurn, o
<1> QED
  BY <1>4, <1>5 DEF Write

\* More messages are settled, or none is, and the channel and the batch are in turn.
LEMMA SettledInTurn ==
  ASSUME EverythingInTurn, UNCHANGED <<order, pending, log>>,
         acked \subseteq acked', gaveUp \subseteq gaveUp',
         \A p, k : Underway(p, k) \subseteq acked' \cup gaveUp' \cup Underway(p, k)',
         InTurn(order, queue', Events, Range(messages') \cup acked' \cup gaveUp'),
         InTurn(order, messages', Events, acked' \cup gaveUp')
  PROVE  EverythingInTurn'
<1>1. ASSUME NEW p \in Partitions, NEW k \in DOMAIN pending[p]
      PROVE  InTurn(order, pending[p][k], OfPartition(p),
                    (acked' \cup gaveUp' \cup Underway(p, k)') \ From(k, pending[p]))
  <2>1. InTurn(order, pending[p][k], OfPartition(p),
               (acked \cup gaveUp \cup Underway(p, k)) \ From(k, pending[p]))
    BY DEF EverythingInTurn
  <2> QED
    BY <2>1, ExceptMore
<1>2. ASSUME NEW p \in Partitions, ~Splits
      PROVE  InTurn(order, log[p], OfPartition(p),
                    gaveUp' \ (Range(log[p]) \cup From(1, pending[p])))
  <2>1. InTurn(order, log[p], OfPartition(p),
               gaveUp \ (Range(log[p]) \cup From(1, pending[p])))
    BY <1>2 DEF EverythingInTurn
  <2> QED
    BY <2>1, ExceptMore
<1>3. \A p \in Partitions : Range(log[p]) \cup From(1, pending[p]) \subseteq Range(order)
  BY DEF EverythingInTurn
<1> QED
  BY <1>1, <1>2, <1>3 DEF EverythingInTurn

LEMMA TakeInTurn ==
  ASSUME Accounts, EverythingInTurn, Take
  PROVE  EverythingInTurn'
<1> DEFINE e == Head(queue)
           settled == Range(messages) \cup acked \cup gaveUp
<1>1. /\ UNCHANGED <<pending, log, order, acked>>
      /\ queue # <<>> /\ queue' = Tail(queue)
      /\ \/ messages' = messages /\ gaveUp' = gaveUp \cup {e}
         \/ messages' = Append(messages, e) /\ gaveUp' = gaveUp
  BY DEF Take, writerVars, historyVars
<1>2. /\ TypeOK /\ queue \in Seq(Events) /\ messages \in Seq(Events \ Unencodable)
  BY DEF Accounts, TypeOK
<1>3. messages \in Seq(Events)
  BY <1>2
<1>4. e \in Events
  BY <1>1, <1>2, ReceiveContents
<1>5. InTurn(order, queue, Events, settled)
  BY DEF EverythingInTurn
<1>6. InTurn(order, messages, Events, acked \cup gaveUp)
  BY DEF EverythingInTurn
<1> HIDE DEF settled
<1>7. /\ Earlier(order, e) \cap Events \subseteq settled
      /\ InTurn(order, Tail(queue), Events, settled \cup {e})
  BY <1>1, <1>2, <1>5, ReceivedInTurn
<1> HIDE DEF e
<1>10. \A p, k : Underway(p, k) = {}
  BY DEF Accounts, AnswersAreOfTheBatch, Take, Underway, Present
<1>8. CASE messages' = messages /\ gaveUp' = gaveUp \cup {e}
  <2>1. Range(messages') \cup acked' \cup gaveUp' = settled \cup {e}
    BY <1>1, <1>8 DEF settled
  <2>2. InTurn(order, messages', Events, acked' \cup gaveUp')
    BY <1>1, <1>6, <1>8, ExceptMore
  <2> QED
    BY <1>1, <1>7, <1>8, <1>10, <2>1, <2>2, SettledInTurn
<1>9. CASE messages' = Append(messages, e) /\ gaveUp' = gaveUp
  <2>1. Range(messages') = Range(messages) \cup {e}
    BY <1>3, <1>4, <1>9, SendContents
  <2>2. Range(messages') \cup acked' \cup gaveUp' = settled \cup {e}
    BY <1>1, <1>9, <2>1 DEF settled
  <2>3. Earlier(order, e) \cap Events \subseteq Range(messages) \cup (acked \cup gaveUp)
    BY <1>7 DEF settled
  <2>4. InTurn(order, Append(messages, e), Events, acked \cup gaveUp)
    BY <1>3, <1>4, <1>6, <2>3, AppendedInTurn
  <2> QED
    BY <1>1, <1>7, <1>9, <1>10, <2>2, <2>4, SettledInTurn
<1> QED
  BY <1>1, <1>8, <1>9

LEMMA OverInTurn ==
  ASSUME Accounts, EverythingInTurn, Succeed \/ GiveUp \/ Timeout
  PROVE  EverythingInTurn'
<1>1. /\ UNCHANGED <<queue, pending, log, order>> /\ messages' = <<>>
      /\ \/ acked' = acked \cup Range(messages) /\ gaveUp' = gaveUp
         \/ acked' = acked /\ gaveUp' = gaveUp \cup Range(messages)
  BY DEF Succeed, Acknowledged, GiveUp, Failed, Timeout, Expire, Finished, writerVars,
         historyVars
<1>2. Range(messages') = {} /\ DOMAIN messages' = {}
  BY <1>1 DEF Range
<1>3. InTurn(order, messages', Events, acked' \cup gaveUp')
  BY <1>2 DEF InTurn
<1>4. Range(messages') \cup acked' \cup gaveUp' = Range(messages) \cup acked \cup gaveUp
  BY <1>1, <1>2
<1>5. InTurn(order, queue', Events, Range(messages') \cup acked' \cup gaveUp')
  BY <1>1, <1>4 DEF EverythingInTurn
<1>6. \A p, k : Underway(p, k) \subseteq acked' \cup gaveUp'
  BY <1>1 DEF Underway
<1> QED
  BY <1>1, <1>3, <1>5, <1>6, SettledInTurn

LEMMA AttemptInTurn ==
  ASSUME Accounts, EverythingInTurn, Attempt
  PROVE  EverythingInTurn'
<1>1. /\ UNCHANGED <<queue, messages, log, order, acked, gaveUp>>
      /\ pending' = [p \in Partitions |->
                       IF p \in Targets THEN Append(pending[p], BatchFor(p)) ELSE pending[p]]
  BY DEF Attempt, historyVars
<1>2. TypeOK /\ Conservation /\ messages \in Seq(Events \ Unencodable)
  BY DEF Accounts, TypeOK
<1>3. messages \in Seq(Events) /\ IsInjective(messages)
  BY <1>2 DEF Conservation
<1>6. \A p, k : Underway(p, k) = {}
  BY DEF Accounts, AnswersAreOfTheBatch, Attempt, Underway, Present
<1>4. ASSUME NEW p \in Partitions
      PROVE  /\ \A k \in DOMAIN pending'[p] :
                  InTurn(order, pending'[p][k], OfPartition(p),
                         (acked \cup gaveUp) \ From(k, pending'[p]))
             /\ ~Splits => InTurn(order, log[p], OfPartition(p),
                                  gaveUp \ (Range(log[p]) \cup From(1, pending'[p])))
             /\ Range(log[p]) \cup From(1, pending'[p]) \subseteq Range(order)
  <2>1. /\ \A k \in DOMAIN pending[p] :
             InTurn(order, pending[p][k], OfPartition(p),
                    (acked \cup gaveUp) \ From(k, pending[p]))
        /\ ~Splits => InTurn(order, log[p], OfPartition(p),
                             gaveUp \ (Range(log[p]) \cup From(1, pending[p])))
        /\ Range(log[p]) \cup From(1, pending[p]) \subseteq Range(order)
    BY <1>6 DEF EverythingInTurn
  <2>2. CASE p \notin Targets
    <3>1. pending'[p] = pending[p]
      BY <1>1, <2>2
    <3> QED
      BY <2>1, <3>1
  <2>3. CASE p \in Targets
    <3> DEFINE S == Seq(Events)
               b == BatchFor(p)
               s == pending[p]
               t == Append(s, b)
    <3>1. b \in S /\ s \in Seq(S)
      BY <1>2, <1>3, BatchForContents DEF TypeOK
    <3>2. pending'[p] = t
      BY <1>1, <2>3
    <3>3. Range(b) \subseteq Range(messages)
      BY <1>3, BatchForContents
    <3>4. InTurn(order, b, OfPartition(p), acked \cup gaveUp)
      BY <1>3, BatchInTurn DEF EverythingInTurn
    <3>5. /\ \A k \in DOMAIN s : InTurn(order, s[k], OfPartition(p),
                                        (acked \cup gaveUp) \ From(k, s))
          /\ ~Splits => InTurn(order, log[p], OfPartition(p), gaveUp \ (Range(log[p]) \cup From(1, s)))
          /\ Range(log[p]) \cup From(1, s) \subseteq Range(order)
      BY <2>1
    <3> HIDE DEF S, b, s
    <3>13. 1 \in 1..(Len(s) + 1) /\ DOMAIN s \subseteq 1..(Len(s) + 1)
      BY <3>1
    <3>6. /\ \A k \in DOMAIN s : From(k, t) = From(k, s) \cup Range(b)
          /\ From(Len(s) + 1, t) = Range(b)
          /\ From(1, t) = From(1, s) \cup Range(b)
      BY <3>1, <3>13, FromAppended
    <3>7. /\ Len(s) \in Nat /\ DOMAIN s = 1..Len(s) /\ DOMAIN t = 1..(Len(s) + 1)
          /\ t[Len(s) + 1] = b
      BY <3>1
    <3>8. \A k \in DOMAIN s : t[k] = s[k]
      BY <3>1, <3>7
    <3>9. Range(b) \cap (acked \cup gaveUp) = {} /\ Range(b) \subseteq Range(order)
      BY <1>2, <3>3 DEF Conservation
    <3> HIDE DEF t
    <3>10. ASSUME NEW k \in DOMAIN t
           PROVE  InTurn(order, t[k], OfPartition(p), (acked \cup gaveUp) \ From(k, t))
      <4>1. CASE k = Len(s) + 1
        <5>1. (acked \cup gaveUp) \ From(k, t) = acked \cup gaveUp
          BY <3>6, <3>9, <4>1
        <5>2. t[k] = b
          BY <3>7, <4>1
        <5> QED
          BY <3>4, <5>1, <5>2
      <4>2. CASE k \in DOMAIN s
        <5>1. (acked \cup gaveUp) \ From(k, t) = (acked \cup gaveUp) \ From(k, s)
          BY <3>6, <3>9, <4>2
        <5> QED
          BY <3>5, <3>8, <4>2, <5>1
      <4>3. k = Len(s) + 1 \/ k \in DOMAIN s
        BY <3>7
      <4> QED
        BY <4>1, <4>2, <4>3
    <3>11. gaveUp \ (Range(log[p]) \cup From(1, t)) = gaveUp \ (Range(log[p]) \cup From(1, s))
      BY <3>6, <3>9
    <3>12. Range(log[p]) \cup From(1, t) \subseteq Range(order)
      BY <3>5, <3>6, <3>9
    <3> QED
      BY <3>2, <3>5, <3>10, <3>11, <3>12
  <2> QED
    BY <2>2, <2>3
<1>5. /\ InTurn(order, queue, Events, Range(messages) \cup acked \cup gaveUp)
      /\ InTurn(order, messages, Events, acked \cup gaveUp)
  BY DEF EverythingInTurn
<1>7. ASSUME NEW p \in Partitions, NEW k \in DOMAIN pending'[p]
      PROVE  InTurn(order, pending'[p][k], OfPartition(p),
                    (acked \cup gaveUp \cup Underway(p, k)') \ From(k, pending'[p]))
  BY <1>4, ExceptMore
<1> QED
  BY <1>1, <1>4, <1>5, <1>7 DEF EverythingInTurn

\* What a batch leaves of a call is in turn but for the batch.
LEMMA DividedInTurn ==
  ASSUME NEW o, NEW s \in Seq(Events), NEW t \in Seq(Events), NEW S, NEW some,
         InTurn(o, s \o t, S, some)
  PROVE  InTurn(o, t, S, some \cup Range(s))
<1> DEFINE u == s \o t
<1>1. /\ Len(s) \in Nat /\ DOMAIN s = 1..Len(s) /\ Len(t) \in Nat /\ DOMAIN t = 1..Len(t)
      /\ DOMAIN u = 1..(Len(s) + Len(t))
  OBVIOUS
<1>2. \A i \in DOMAIN s : u[i] = s[i]
  BY <1>1
<1>3. \A i \in DOMAIN t : Len(s) + i \in DOMAIN u /\ u[Len(s) + i] = t[i]
  BY <1>1
<1>7. InTurn(o, u, S, some)
  OBVIOUS
<1> HIDE DEF u
<1> SUFFICES ASSUME NEW n \in DOMAIN t, NEW x \in Earlier(o, t[n]) \cap S, x \notin some,
                    x \notin Range(s)
             PROVE  \E m \in 1..(n - 1) : t[m] = x
  BY DEF InTurn
<1>4. PICK m \in 1..((Len(s) + n) - 1) : u[m] = x
  BY <1>3, <1>7 DEF InTurn
<1>5. m \notin DOMAIN s
  BY <1>2, <1>4 DEF Range
<1>6. m - Len(s) \in 1..(n - 1) /\ m - Len(s) \in DOMAIN t /\ Len(s) + (m - Len(s)) = m
  BY <1>1, <1>4, <1>5
<1> QED
  BY <1>3, <1>4, <1>6

\* The messages of the present call are messages of the batch.
LEMMA PresentMessages ==
  ASSUME Accounts, NEW p \in Partitions, NEW k, Present(p, k)
  PROVE  /\ flusher = "awaiting" /\ p \in Targets
         /\ Range(pending[p][k]) = Unsettled(p)
         /\ Range(pending[p][k]) \subseteq Range(BatchFor(p))
         /\ Range(BatchFor(p)) = Range(messages) \cap OfPartition(p)
         /\ ~Splits => pending[p][k] = BatchFor(p)
<1>1. AnswersAreOfTheBatch /\ messages \in Seq(Events \ Unencodable)
  BY DEF Accounts, TypeOK
<1>2. messages \in Seq(Events) /\ Range(messages) \subseteq Events
  BY <1>1 DEF Range
<1>3. Range(BatchFor(p)) = Range(messages) \cap OfPartition(p)
  BY <1>2, BatchForContents DEF OfPartition
<1> QED
  BY <1>1, <1>3 DEF Present, Unsettled, AnswersAreOfTheBatch

LEMMA ServeInTurn ==
  ASSUME Accounts, EverythingInTurn, NEW p \in Partitions, Broker(p)
  PROVE  EverythingInTurn'
<1> DEFINE s == pending[p]
           t == pending'[p]
           settled == acked \cup gaveUp
<1>1. TypeOK /\ HeldOnce /\ AckedIsStored
  BY DEF Accounts
<1>2. PICK outcome \in {"ok"} \cup (Faults \ {"timeout"}), part \in Seq(Events),
           left \in Seq(Events) : Settles(p, outcome, part, left)
  BY <1>1, BrokerSettles
<1>3. /\ UNCHANGED <<queue, messages, order, acked, gaveUp>>
      /\ s[1] = part \o left /\ log[p] \in Seq(Events) /\ (Splits \/ left = <<>>)
      /\ \A q \in Partitions \ {p} :
           pending'[q] = pending[q] /\ log'[q] = log[q] /\ (q \in owed' <=> q \in owed)
      /\ log'[p] = log[p] \o part \/ log'[p] = log[p]
      /\ IF p \in owed /\ Len(s) = 1 THEN owed' = IF left = <<>> THEN owed \ {p} ELSE owed
         ELSE owed' = owed
  BY <1>1, <1>2 DEF Settles, TypeOK
<1>4. 1 \in DOMAIN s /\ DOMAIN s = 1..Len(s) /\ Len(s) \in Nat
  <2> DEFINE S == Seq(Events)
  <2>1. s \in Seq(S) /\ s # <<>>
    BY <1>2 DEF Settles
  <2> HIDE DEF S, s
  <2> QED
    BY <2>1
<1>5. /\ From(1, s) = Range(part) \cup Range(left) \cup From(2, s)
      /\ From(1, t) = Range(left) \cup From(2, s)
      /\ \/ /\ left = <<>> /\ part = s[1]
            /\ DOMAIN t = 1..(Len(s) - 1) /\ Len(t) = Len(s) - 1
            /\ \A k \in DOMAIN t : /\ t[k] = s[k + 1] /\ k + 1 \in DOMAIN s
                                   /\ From(k, t) = From(k + 1, s)
         \/ /\ left # <<>> /\ DOMAIN t = DOMAIN s /\ Len(t) = Len(s) /\ t[1] = left
            /\ \A k \in DOMAIN s \ {1} : t[k] = s[k] /\ From(k, t) = From(k, s)
  BY <1>2, SettledFrom
<1>6. Range(part) \cap From(1, t) = {}
  BY <1>1, <1>2, SettledOnce
<1>7. /\ \A k \in DOMAIN s : InTurn(order, s[k], OfPartition(p),
                                    (settled \cup Underway(p, k)) \ From(k, s))
      /\ ~Splits => InTurn(order, log[p], OfPartition(p),
                           gaveUp \ (Range(log[p]) \cup From(1, s)))
      /\ Range(log[p]) \cup From(1, s) \subseteq Range(order)
  BY DEF EverythingInTurn
<1>8. /\ Range(part) \subseteq gaveUp \cup Underway(p, 1)
      /\ Underway(p, 1) # {} /\ ~Splits /\ left = <<>>
           => Underway(p, 1) \cap OfPartition(p) \subseteq Range(part)
  <2>1. Range(s[1]) = Range(part) \cup Range(left)
    BY <1>3, JoinContents
  <2>2. Present(p, 1) \/ Range(s[1]) \subseteq gaveUp
    BY <1>1, <1>4 DEF HeldOnce
  <2>3. CASE Present(p, 1)
    <3>1. /\ Range(s[1]) \subseteq Range(BatchFor(p)) /\ (~Splits => s[1] = BatchFor(p))
          /\ Range(BatchFor(p)) = Range(messages) \cap OfPartition(p)
      BY <2>3, PresentMessages
    <3>2. Underway(p, 1) = Range(messages)
      BY <2>3 DEF Underway
    <3>3. left = <<>> => part = s[1]
      BY <1>5
    <3> QED
      BY <2>1, <3>1, <3>2, <3>3
  <2>4. CASE ~Present(p, 1)
    BY <2>1, <2>2, <2>4 DEF Underway
  <2> QED
    BY <2>3, <2>4
<1>9. \A k : /\ Present(p, k) <=> (p \in owed /\ k = Len(s))
             /\ Present(p, k)' <=> (p \in owed' /\ k = Len(t))
             /\ Underway(p, k) = IF Present(p, k) THEN Range(messages) ELSE {}
             /\ Underway(p, k)' = IF Present(p, k)' THEN Range(messages) ELSE {}
  BY <1>3 DEF Present, Underway
<1>10. ASSUME NEW q \in Partitions \ {p}
       PROVE  /\ \A k \in DOMAIN pending'[q] :
                   InTurn(order, pending'[q][k], OfPartition(q),
                          (settled \cup Underway(q, k)') \ From(k, pending'[q]))
              /\ ~Splits => InTurn(order, log'[q], OfPartition(q),
                                   gaveUp \ (Range(log'[q]) \cup From(1, pending'[q])))
              /\ Range(log'[q]) \cup From(1, pending'[q]) \subseteq Range(order)
  <2>1. \A k : Underway(q, k)' = Underway(q, k)
    BY <1>3, <1>10 DEF Underway, Present
  <2> QED
    BY <1>3, <1>10, <2>1 DEF EverythingInTurn
<1> HIDE DEF s, t
<1>11. ASSUME NEW k \in DOMAIN t
       PROVE  InTurn(order, t[k], OfPartition(p), (settled \cup Underway(p, k)') \ From(k, t))
  <2>1. CASE left = <<>>
    <3>1. /\ t[k] = s[k + 1] /\ k + 1 \in DOMAIN s /\ From(k, t) = From(k + 1, s)
          /\ Len(t) = Len(s) - 1 /\ DOMAIN t = 1..(Len(s) - 1)
      BY <1>5, <2>1
    <3>2. k + 1 = Len(s) => k = Len(t) /\ Len(s) # 1
      BY <1>4, <3>1
    <3>3. Underway(p, k + 1) \subseteq Underway(p, k)'
      BY <1>3, <1>9, <3>2
    <3>4. InTurn(order, t[k], OfPartition(p), (settled \cup Underway(p, k + 1)) \ From(k, t))
      BY <1>7, <3>1
    <3> QED
      BY <3>3, <3>4, ExceptMore
  <2>2. CASE left # <<>>
    <3>1. DOMAIN t = DOMAIN s /\ Len(t) = Len(s) /\ t[1] = left /\ owed' = owed
      BY <1>3, <1>5, <2>2
    <3>2. Underway(p, k)' = Underway(p, k)
      BY <1>9, <3>1
    <3>3. CASE k # 1
      <4>1. t[k] = s[k] /\ From(k, t) = From(k, s) /\ k \in DOMAIN s
        BY <1>5, <2>2, <3>1, <3>3
      <4> QED
        BY <1>7, <3>2, <4>1
    <3>4. CASE k = 1
      <4> DEFINE some == (settled \cup Underway(p, 1)) \ From(1, s)
      <4>1. InTurn(order, part \o left, OfPartition(p), some)
        BY <1>3, <1>4, <1>7
      <4> HIDE DEF some
      <4>2. InTurn(order, left, OfPartition(p), some \cup Range(part))
        BY <4>1, DividedInTurn
      <4>3. some \cup Range(part) \subseteq (settled \cup Underway(p, 1)) \ From(1, t)
        BY <1>5, <1>6, <1>8 DEF some
      <4> QED
        BY <3>1, <3>2, <3>4, <4>2, <4>3, ExceptMore
    <3> QED
      BY <3>3, <3>4
  <2> QED
    BY <2>1, <2>2
<1>12. /\ Range(log'[p]) \cup From(1, t) \subseteq Range(log[p]) \cup From(1, s)
       /\ log'[p] = log[p] \o part =>
            Range(log'[p]) \cup From(1, t) = Range(log[p]) \cup From(1, s)
  <2>1. Range(log[p] \o part) = Range(log[p]) \cup Range(part)
    BY <1>3, JoinContents
  <2>2. From(1, s) = Range(part) \cup From(1, t)
    BY <1>5
  <2> QED
    BY <1>3, <2>1, <2>2
<1>13. ASSUME ~Splits
       PROVE  InTurn(order, log'[p], OfPartition(p), gaveUp \ (Range(log'[p]) \cup From(1, t)))
  <2>1. InTurn(order, log[p], OfPartition(p), gaveUp \ (Range(log[p]) \cup From(1, s)))
    BY <1>7, <1>13
  <2>2. CASE log'[p] = log[p]
    BY <1>12, <2>1, <2>2, ExceptMore
  <2>3. CASE log'[p] = log[p] \o part
    <3> DEFINE some == gaveUp \ (Range(log[p]) \cup From(1, s))
               other == (settled \cup Underway(p, 1)) \ From(1, s)
    <3>1. left = <<>> /\ part = s[1]
      BY <1>3, <1>5, <1>13
    <3>2. InTurn(order, part, OfPartition(p), other)
      BY <1>4, <1>7, <3>1
    <3>3. other \cap OfPartition(p) \subseteq Range(log[p]) \cup some
      <4>1. Underway(p, 1) \cap OfPartition(p) \subseteq From(1, s)
        BY <1>5, <1>8, <1>13, <3>1
      <4>2. acked \cap OfPartition(p) \subseteq Range(log[p])
        BY <1>1 DEF AckedIsStored, OfPartition
      <4> QED
        BY <4>1, <4>2
    <3> HIDE DEF some, other
    <3>4. InTurn(order, log[p] \o part, OfPartition(p), some)
      BY <1>3, <2>1, <3>2, <3>3, JoinedInTurn DEF some
    <3> QED
      BY <1>12, <2>3, <3>4 DEF some
  <2> QED
    BY <1>3, <2>2, <2>3
<1>14. Range(log'[p]) \cup From(1, t) \subseteq Range(order)
  BY <1>7, <1>12
<1>15. ASSUME NEW q \in Partitions
       PROVE  /\ \A k \in DOMAIN pending'[q] :
                   InTurn(order, pending'[q][k], OfPartition(q),
                          (settled \cup Underway(q, k)') \ From(k, pending'[q]))
              /\ ~Splits => InTurn(order, log'[q], OfPartition(q),
                                   gaveUp \ (Range(log'[q]) \cup From(1, pending'[q])))
              /\ Range(log'[q]) \cup From(1, pending'[q]) \subseteq Range(order)
  <2>1. CASE q = p
    BY <1>11, <1>13, <1>14, <2>1 DEF t
  <2>2. CASE q # p
    BY <1>10, <2>2
  <2> QED
    BY <2>1, <2>2
<1>16. /\ InTurn(order, queue, Events, Range(messages) \cup acked \cup gaveUp)
       /\ InTurn(order, messages, Events, acked \cup gaveUp)
  BY DEF EverythingInTurn
<1> QED
  BY <1>3, <1>15, <1>16 DEF EverythingInTurn

LEMMA RestInTurn ==
  ASSUME EverythingInTurn,
         TickFlush \/ SeeDone \/ Retry \/ BeginClose \/ EndClose \/ UNCHANGED vars
  PROVE  EverythingInTurn'
<1>1. UNCHANGED <<queue, messages, owed, pending, log, order, acked, gaveUp>>
  BY DEF TickFlush, Due, SeeDone, LeaveTo, Retry, BeginClose, EndClose, vars, writerVars,
         historyVars
<1>2. \A p, k : Underway(p, k)' = Underway(p, k)
  BY <1>1 DEF Underway, Present
<1> QED
  BY <1>1, <1>2 DEF EverythingInTurn

LEMMA NextInTurn == Accounts /\ EverythingInTurn /\ [Next]_vars => EverythingInTurn'
BY WriteInTurn, TakeInTurn, OverInTurn, AttemptInTurn, ServeInTurn, RestInTurn
   DEF Next, Flusher, Ended

\* The producer's invariant, and: a batch that was reported as flushed is in the log of
\* its partitions, whatever the attempts it took and however the kafka writer has cut
\* them.  The rest says where an event is (channel, batch, acknowledged or reported),
\* that a batch gets MaxAttempts attempts at most, that an attempt waits for answers to
\* its own messages only, and that up to the kafka writer an event is behind the earlier
\* ones of its partition.
THEOREM Invariance == Spec => [](ProducerInv /\ AckedIsStored)
<1>1. Accounts /\ EverythingInTurn => ProducerInv /\ AckedIsStored
  BY DEF Accounts, ProducerInv
<1> QED
  BY <1>1, InitInv, InitInTurn, NextInv, NextInTurn, PTL DEF Spec

\* What is stored already precedes what a batch stores for the first time, ...
LEMMA StoredPrecedes ==
  ASSUME NEW s \in Seq(Events), NEW t \in Seq(Events), NEW e \in Range(s), NEW f,
         f \notin Range(s)
  PROVE  Precedes(s \o t, e, f)
<1>1. /\ Len(s) \in Nat /\ DOMAIN s = 1..Len(s) /\ Len(t) \in Nat
      /\ DOMAIN (s \o t) = 1..(Len(s) + Len(t))
  OBVIOUS
<1>2. \A i \in DOMAIN s : i \in DOMAIN (s \o t) /\ (s \o t)[i] = s[i]
  BY <1>1
<1>3. PICK i \in DOMAIN s : s[i] = e
  BY DEF Range
<1>4. \A j \in 1..i : j \in DOMAIN s /\ s[j] # f
  BY <1>1, <1>3 DEF Range
<1> QED
  BY <1>2, <1>3, <1>4 DEF Precedes

\* ... and so does what the batch has in front of it.
LEMMA BatchPrecedes ==
  ASSUME NEW s \in Seq(Events), NEW t \in Seq(Events), IsInjective(t),
         NEW n \in DOMAIN t, NEW m \in DOMAIN t, m < n, t[n] \notin Range(s)
  PROVE  Precedes(s \o t, t[m], t[n])
<1>1. /\ Len(s) \in Nat /\ DOMAIN s = 1..Len(s) /\ Len(t) \in Nat /\ DOMAIN t = 1..Len(t)
      /\ DOMAIN (s \o t) = 1..(Len(s) + Len(t))
  OBVIOUS
<1>2. \A i \in DOMAIN s : (s \o t)[i] = s[i]
  BY <1>1
<1>3. \A i \in DOMAIN t : Len(s) + i \in DOMAIN (s \o t) /\ (s \o t)[Len(s) + i] = t[i]
  BY <1>1
<1>4. ASSUME NEW j \in 1..(Len(s) + m) PROVE (s \o t)[j] # t[n]
  <2>1. CASE j \in DOMAIN s
    BY <1>2, <2>1 DEF Range
  <2>2. CASE j \notin DOMAIN s
    <3>1. j - Len(s) \in DOMAIN t /\ Len(s) + (j - Len(s)) = j /\ j - Len(s) # n
      BY <1>1, <1>4, <2>2
    <3>2. (s \o t)[j] = t[j - Len(s)]
      BY <1>3, <3>1
    <3> QED
      BY <3>1, <3>2 DEF IsInjective
  <2> QED
    BY <2>1, <2>2
<1> QED
  BY <1>3, <1>4 DEF Precedes

\* The settlement of a batch stores events in their turn.
LEMMA ServeInOrder ==
  ASSUME Accounts, EverythingInTurn, NEW p \in Partitions, Broker(p),
         NEW f \in Range(log'[p]) \ Range(log[p]), NEW e \in Earlier(order, f) \cap OfPartition(p)
  PROVE  \/ Precedes(log'[p], e, f)
         \/ e \in gaveUp \ From(1, pending'[p])
         \/ {e, f} \subseteq Range(messages) /\ errs # {}
<1> DEFINE s == pending[p]
           h == s[1]
<1>1. TypeOK /\ HeldOnce /\ AckedIsStored /\ AnswersAreOfTheBatch
  BY DEF Accounts
<1>2. PICK outcome \in {"ok"} \cup (Faults \ {"timeout"}), part \in Seq(Events),
           left \in Seq(Events) : Settles(p, outcome, part, left)
  BY <1>1, BrokerSettles
<1>3. h = part \o left /\ log[p] \in Seq(Events) /\ log'[p] = log[p] \o part
  BY <1>1, <1>2 DEF Settles, TypeOK
<1>4. 1 \in DOMAIN s /\ DOMAIN s = 1..Len(s)
  <2> DEFINE S == Seq(Events)
  <2>1. s \in Seq(S) /\ s # <<>>
    BY <1>2 DEF Settles
  <2> HIDE DEF S, s
  <2> QED
    BY <2>1
<1>5. /\ From(1, s) = Range(part) \cup Range(left) \cup From(2, s)
      /\ From(1, pending'[p]) \subseteq From(1, s)
  <2>1. From(1, s) = Range(part) \cup Range(left) \cup From(2, s)
    BY <1>2, SettledFrom
  <2>2. From(1, pending'[p]) = Range(left) \cup From(2, s)
    BY <1>2, SettledFrom
  <2> QED
    BY <2>1, <2>2
<1>6. IsInjective(h) /\ Range(h) = Range(part) \cup Range(left)
  <2>1. IsInjective(h)
    BY <1>1, <1>4 DEF HeldOnce
  <2>2. Range(part \o left) = Range(part) \cup Range(left)
    BY JoinContents
  <2> QED
    BY <1>3, <2>1, <2>2
<1>7. InTurn(order, h, OfPartition(p), (acked \cup gaveUp \cup Underway(p, 1)) \ From(1, s))
  BY <1>4 DEF EverythingInTurn
<1> HIDE DEF s, h
<1>8. f \in Range(part)
  BY <1>3, JoinContents
<1>9. PICK n \in DOMAIN part : part[n] = f
  BY <1>8 DEF Range
<1>10. /\ DOMAIN part = 1..Len(part) /\ Len(part) \in Nat
       /\ \A i \in DOMAIN part : i \in DOMAIN h /\ h[i] = part[i]
  BY <1>3
<1>11. IsInjective(part)
  BY <1>6, <1>10 DEF IsInjective
<1>12. \/ e \in {h[m] : m \in 1..(n - 1)}
       \/ e \in (acked \cup gaveUp \cup Underway(p, 1)) \ From(1, s)
  BY <1>7, <1>9, <1>10 DEF InTurn
<1>13. ASSUME e \in Range(log[p]) PROVE Precedes(log'[p], e, f)
  BY <1>3, <1>13, StoredPrecedes
<1>14. CASE e \in {h[m] : m \in 1..(n - 1)}
  <2>1. PICK m \in 1..(n - 1) : h[m] = e
    BY <1>14
  <2>2. m \in DOMAIN part /\ m < n
    BY <1>9, <1>10, <2>1
  <2>3. part[m] = e
    BY <1>10, <2>1, <2>2
  <2> QED
    BY <1>3, <1>9, <1>11, <2>2, <2>3, BatchPrecedes
<1>15. CASE e \in acked
  BY <1>1, <1>13, <1>15 DEF AckedIsStored, OfPartition
<1>16. CASE e \in gaveUp \ From(1, s)
  BY <1>5, <1>16
<1>17. CASE e \in Underway(p, 1) \ From(1, s)
  <2>1. Present(p, 1) /\ e \in Range(messages)
    BY <1>17 DEF Underway
  <2>2. /\ flusher = "awaiting" /\ p \in Targets /\ Range(h) = Unsettled(p)
        /\ Range(h) \subseteq Range(BatchFor(p))
        /\ Range(BatchFor(p)) = Range(messages) \cap OfPartition(p)
    BY <2>1, PresentMessages DEF s, h
  <2>3. f \in Range(messages)
    BY <1>6, <1>8, <2>2
  <2>4. CASE errs = {}
    <3>1. e \in Range(log[p]) \cup Unsettled(p)
      BY <1>1, <2>1, <2>2, <2>4 DEF AnswersAreOfTheBatch
    <3>2. e \notin Unsettled(p)
      BY <1>5, <1>6, <1>17, <2>2
    <3> QED
      BY <1>13, <3>1, <3>2
  <2> QED
    BY <2>1, <2>3, <2>4
<1> QED
  BY <1>12, <1>14, <1>15, <1>16, <1>17

\* Whatever the kafka writer makes of a call: an event is stored for the first time
\* behind the earlier ones of its partition, or they have been reported and do not come
\* any more, or it is together with them in one batch of which a part has failed.
THEOREM OrderHoldsAcrossBatches == Spec => OrderAcrossBatches
<1> DEFINE Stored ==
      \A p \in Partitions : \A f \in Range(log'[p]) \ Range(log[p]) :
        \A e \in Earlier(order, f) \cap OfPartition(p) :
          \/ Precedes(log'[p], e, f)
          \/ e \in gaveUp \ From(1, pending'[p])
          \/ {e, f} \subseteq Range(messages) /\ errs # {}
<1>1. Accounts /\ EverythingInTurn /\ [Next]_vars => Stored
  <2> SUFFICES ASSUME Accounts, EverythingInTurn, [Next]_vars, NEW p \in Partitions,
                      NEW f \in Range(log'[p]) \ Range(log[p]),
                      NEW e \in Earlier(order, f) \cap OfPartition(p)
               PROVE  \/ Precedes(log'[p], e, f)
                      \/ e \in gaveUp \ From(1, pending'[p])
                      \/ {e, f} \subseteq Range(messages) /\ errs # {}
    OBVIOUS
  <2>1. CASE Broker(p)
    BY <2>1, ServeInOrder
  <2>2. CASE log'[p] = log[p]
    BY <2>2
  <2>3. ASSUME NEW q \in Partitions \ {p}, Broker(q) PROVE log'[p] = log[p]
    <3>1. TypeOK
      BY DEF Accounts
    <3>2. PICK outcome \in {"ok"} \cup (Faults \ {"timeout"}), part \in Seq(Events),
               left \in Seq(Events) : Settles(q, outcome, part, left)
      BY <2>3, <3>1, BrokerSettles
    <3> QED
      BY <3>2 DEF Settles
  <2>4. (\E q \in Partitions : Broker(q)) \/ log' = log
    BY DEF Next, Write, Flusher, Take, TickFlush, Due, SeeDone, LeaveTo, Attempt, Succeed,
       Acknowledged, Retry, GiveUp, Failed, Timeout, Expire, BeginClose, EndClose, Ended, vars,
       writerVars
  <2> QED
    BY <2>1, <2>2, <2>3, <2>4
<1>2. Accounts /\ EverythingInTurn /\ [Next]_vars => [Stored]_vars
  BY <1>1
<1> QED
  BY <1>2, InitInv, InitInTurn, NextInv, NextInTurn, PTL DEF Spec, OrderAcrossBatches

\* An event in the log has a first place there.
LEMMA FirstInLog ==
  ASSUME TypeOK, NEW e \in Events, InLog(e)
  PROVE  /\ FirstAt(e) \in DOMAIN log[Partition[e]]
         /\ log[Partition[e]][FirstAt(e)] = e
         /\ \A m \in DOMAIN log[Partition[e]] : log[Partition[e]][m] = e => FirstAt(e) <= m
<1> DEFINE l == log[Partition[e]]
           T == {i \in DOMAIN l : l[i] = e}
<1>1. DOMAIN l = 1..Len(l) /\ Len(l) \in Nat
  <2>1. l \in Seq(Events)
    BY ProducerAssumption DEF TypeOK
  <2> QED
    BY <2>1
<1>2. T # {} /\ T \subseteq Nat
  BY <1>1 DEF InLog, Range
<1>3. PICK n \in T : \A m \in T : n <= m
  BY <1>2, Least
<1> HIDE DEF l
<1>4. n \in DOMAIN l /\ l[n] = e /\ \A j \in 1..(n - 1) : l[j] # e
  <2>1. \A j \in 1..(n - 1) : j \in DOMAIN l /\ ~(n <= j)
    BY <1>1, <1>3
  <2> QED
    BY <1>3, <2>1
<1>5. FirstAt(e) = CHOOSE i \in DOMAIN l : l[i] = e /\ \A j \in 1..(i - 1) : l[j] # e
  BY DEF FirstAt, l
<1>6. /\ FirstAt(e) \in DOMAIN l /\ l[FirstAt(e)] = e
      /\ \A j \in 1..(FirstAt(e) - 1) : l[j] # e
  BY <1>4, <1>5
<1>7. ASSUME NEW m \in DOMAIN l, l[m] = e
      PROVE  FirstAt(e) <= m
  <2>1. m \notin 1..(FirstAt(e) - 1)
    BY <1>6, <1>7
  <2> QED
    BY <1>1, <1>6, <2>1
<1> QED
  BY <1>6, <1>7 DEF l

LEMMA InTurnIsOrder == ~Splits /\ Accounts /\ EverythingInTurn => PartitionOrder
<1> SUFFICES ASSUME ~Splits, Accounts, EverythingInTurn, NEW i \in DOMAIN order, NEW j \in DOMAIN order,
                    i < j, Partition[order[i]] = Partition[order[j]], InLog(order[j])
             PROVE  IF InLog(order[i]) THEN FirstAt(order[i]) < FirstAt(order[j])
                    ELSE order[i] \in gaveUp
  BY DEF PartitionOrder
<1> DEFINE e == order[i]
           f == order[j]
           p == Partition[f]
           n == FirstAt(f)
           some == gaveUp \ (Range(log[p]) \cup From(1, pending[p]))
<1>1. TypeOK /\ order \in Seq(Events)
  BY DEF Accounts, TypeOK
<1>2. e \in Events /\ f \in Events /\ p \in Partitions /\ e \in OfPartition(p)
  BY <1>1, ProducerAssumption DEF OfPartition
<1>3. e \in Earlier(order, f)
  BY DEF Earlier, Range
<1>4. n \in DOMAIN log[p] /\ log[p][n] = f
  BY <1>1, <1>2, FirstInLog
<1>5. InTurn(order, log[p], OfPartition(p), some)
  BY <1>2 DEF EverythingInTurn
<1>6. e \in {log[p][m] : m \in 1..(n - 1)} \cup some
  BY <1>2, <1>3, <1>4, <1>5 DEF InTurn
<1>7. CASE e \in some
  BY <1>7 DEF InLog
<1>8. CASE e \in {log[p][m] : m \in 1..(n - 1)}
  <2>1. PICK m \in 1..(n - 1) : log[p][m] = e
    BY <1>8
  <2>2. DOMAIN log[p] = 1..Len(log[p]) /\ Len(log[p]) \in Nat
    <3>1. log[p] \in Seq(Events)
      BY <1>1, <1>2 DEF TypeOK
    <3> QED
      BY <3>1
  <2>3. m \in DOMAIN log[p] /\ m < n
    BY <1>4, <2>1, <2>2
  <2>4. InLog(e)
    BY <2>1, <2>3 DEF InLog, Range
  <2>5. FirstAt(e) \in DOMAIN log[p] /\ FirstAt(e) <= m
    BY <1>1, <1>2, <2>1, <2>3, <2>4, FirstInLog
  <2> QED
    BY <1>4, <2>2, <2>3, <2>4, <2>5
<1> QED
  BY <1>6, <1>7, <1>8

\* As long as no batch exceeds what kafka-go sends at once, the order that
\* docs/architecture.md:159 promises is kept: events of one partition are in the log in
\* the order in which Write accepted them, for every combination of retries, lost
\* acknowledgements and expired attempts, and one is missing in front of a later one
\* only if it has been reported.
THEOREM OrderIsKept == ~Splits => (Spec => []PartitionOrder)
<1> SUFFICES ASSUME ~Splits PROVE Spec => []PartitionOrder
  OBVIOUS
<1>1. Accounts /\ EverythingInTurn => PartitionOrder
  BY InTurnIsOrder
<1> QED
  BY <1>1, InitInv, InitInTurn, NextInv, NextInTurn, PTL DEF Spec

-----------------------------------------------------------------------------
(* The producer implements the event relay *)

statusBar == [e \in Events |-> Outcome(e)]

LEMMA RelayInit == Init => Relay!Init
<1> SUFFICES ASSUME Init PROVE Relay!Init
  OBVIOUS
<1>1. Range(order) = {}
  BY DEF Init, Range
<1>2. \A e \in Events : Outcome(e) = "new"
  BY <1>1 DEF Init, Outcome
<1> QED
  BY <1>2 DEF Init, Mode, Relay!Init

LEMMA RelayWrite ==
  ASSUME Accounts, ~done, NEW e \in Events, Write(e)
  PROVE  Relay!Next
<1>1. /\ UNCHANGED <<done, closed, acked, gaveUp>>
      /\ e \notin Range(order) /\ e \notin refused
  BY DEF Write, New
<1>2. TypeOK /\ Conservation /\ ClosedAtRest
  BY DEF Accounts
<1>3. ~closed /\ Mode = "open" /\ Mode' = "open"
  BY <1>1, <1>2 DEF ClosedAtRest, Mode
<1>4. e \notin acked /\ e \notin gaveUp /\ Outcome(e) = "new"
  BY <1>1, <1>2 DEF Conservation, Outcome
<1>5. CASE Len(queue) < Capacity
  <2>1. order' = Append(order, e) /\ refused' = refused /\ order \in Seq(Events)
    BY <1>2, <1>5 DEF Write, TypeOK
  <2>2. Range(order') = Range(order) \cup {e}
    BY <2>1, SendContents
  <2>3. Outcome(e)' = "accepted" /\ \A f \in Events : f # e => Outcome(f)' = Outcome(f)
    BY <1>1, <1>3, <1>4, <2>1, <2>2 DEF Outcome
  <2>4. statusBar' = [f \in Events |-> IF f \in {e} THEN "accepted" ELSE statusBar[f]]
    BY <2>3 DEF statusBar
  <2>5. Relay!Accept(e)
    BY <1>3, <1>4, <2>4 DEF statusBar, Relay!Accept, Relay!Move
  <2> QED
    BY <2>5 DEF Relay!Next
<1>6. CASE ~(Len(queue) < Capacity)
  <2>1. order' = order /\ refused' = refused \cup {e}
    BY <1>6 DEF Write
  <2>2. Outcome(e)' = "refused" /\ \A f \in Events : f # e => Outcome(f)' = Outcome(f)
    BY <1>1, <2>1 DEF Outcome
  <2>3. statusBar' = [f \in Events |-> IF f \in {e} THEN "refused" ELSE statusBar[f]]
    BY <2>2 DEF statusBar
  <2>4. Relay!Refuse(e)
    BY <1>3, <1>4, <2>3 DEF statusBar, Relay!Refuse, Relay!Move
  <2> QED
    BY <2>4 DEF Relay!Next
<1> QED
  BY <1>5, <1>6

\* Accepted events that are acknowledged or reported together
LEMMA RelaySettles ==
  ASSUME ClosedAtRest, Conservation, flusher # "exited", NEW S \in SUBSET Events,
         S \subseteq Range(order) \ (acked \cup gaveUp),
         UNCHANGED <<order, refused, done, closed>>,
         \/ acked' = acked \cup S /\ gaveUp' = gaveUp
         \/ acked' = acked /\ gaveUp' = gaveUp \cup S
  PROVE  [Relay!Next]_(Relay!vars)
<1>1. ~closed /\ Mode' = Mode /\ Mode # "closed"
  BY DEF ClosedAtRest, Mode
<1>2. \A e \in S : Outcome(e) = "accepted"
  BY <1>1 DEF Outcome, Conservation
<1>3. S \in SUBSET Relay!With("accepted")
  BY <1>2 DEF Relay!With
<1>4. CASE S = {}
  BY <1>1, <1>4 DEF Relay!vars, Outcome
<1>5. CASE S # {} /\ acked' = acked \cup S /\ gaveUp' = gaveUp
  <2>1. \A e \in Events : Outcome(e)' = IF e \in S THEN "relayed" ELSE Outcome(e)
    BY <1>1, <1>5 DEF Outcome, Conservation
  <2>2. statusBar' = [e \in Events |-> IF e \in S THEN "relayed" ELSE statusBar[e]]
    BY <2>1 DEF statusBar
  <2>3. Relay!Relay(S)
    BY <1>1, <1>5, <2>2 DEF statusBar, Relay!Relay, Relay!Move
  <2> QED
    BY <1>3, <2>3 DEF Relay!Next
<1>6. CASE S # {} /\ acked' = acked /\ gaveUp' = gaveUp \cup S
  <2>1. \A e \in Events : Outcome(e)' = IF e \in S THEN "reported" ELSE Outcome(e)
    BY <1>1, <1>6 DEF Outcome, Conservation
  <2>2. statusBar' = [e \in Events |-> IF e \in S THEN "reported" ELSE statusBar[e]]
    BY <2>1 DEF statusBar
  <2>3. Relay!Report(S)
    BY <1>1, <1>6, <2>2 DEF statusBar, Relay!Report, Relay!Move
  <2> QED
    BY <1>3, <2>3 DEF Relay!Next
<1> QED
  BY <1>4, <1>5, <1>6

LEMMA RelayFlusher ==
  ASSUME Accounts, Flusher \/ \E p \in Partitions : Broker(p)
  PROVE  [Relay!Next]_(Relay!vars)
<1>1. TypeOK /\ Conservation /\ ClosedAtRest
  BY DEF Accounts
<1>2. UNCHANGED <<order, refused, done, closed>>
  BY DEF Flusher, Take, TickFlush, Due, SeeDone, LeaveTo, Attempt, Succeed, Acknowledged,
         Retry, GiveUp, Failed, Timeout, Expire, Broker, Serve, historyVars
<1>3. CASE UNCHANGED <<acked, gaveUp>>
  BY <1>2, <1>3 DEF Relay!vars, Outcome, Mode
<1>4. CASE Take /\ ~UNCHANGED <<acked, gaveUp>>
  <2> DEFINE e == Head(queue)
  <2>1. /\ flusher # "exited" /\ queue # <<>>
        /\ acked' = acked /\ gaveUp' = gaveUp \cup {e}
    BY <1>4 DEF Take
  <2>2. queue \in Seq(Events)
    BY <1>1 DEF TypeOK
  <2>3. e \in Events /\ e \in Range(queue)
    BY <2>1, <2>2, ReceiveContents
  <2>4. {e} \subseteq Range(order) \ (acked \cup gaveUp) /\ {e} \in SUBSET Events
    BY <1>1, <2>3 DEF Conservation
  <2> HIDE DEF e
  <2> QED
    BY <1>1, <1>2, <2>1, <2>4, RelaySettles
<1>5. CASE Succeed \/ GiveUp \/ Timeout
  <2>1. messages \in Seq(Events \ Unencodable)
    BY <1>1 DEF TypeOK
  <2>2. Range(messages) \in SUBSET Events
    BY <2>1 DEF Range
  <2>3. Range(messages) \subseteq Range(order) \ (acked \cup gaveUp)
    BY <1>1 DEF Conservation
  <2>4. /\ flusher # "exited"
        /\ \/ acked' = acked \cup Range(messages) /\ gaveUp' = gaveUp
           \/ acked' = acked /\ gaveUp' = gaveUp \cup Range(messages)
    BY <1>5 DEF Succeed, Acknowledged, Answered, GiveUp, Failed, Timeout, Expire
  <2> QED
    BY <1>1, <1>2, <2>2, <2>3, <2>4, RelaySettles
<1> QED
  BY <1>3, <1>4, <1>5 DEF Flusher, TickFlush, Due, SeeDone, LeaveTo, Attempt, Retry, Broker,
     Serve

LEMMA RelayClose ==
  ASSUME Accounts, BeginClose \/ EndClose
  PROVE  [Relay!Next]_(Relay!vars)
<1>1. UNCHANGED <<order, refused, acked, gaveUp>>
  BY DEF BeginClose, EndClose, historyVars
<1>2. ClosedAtRest
  BY DEF Accounts
<1>3. CASE BeginClose
  <2>1. Mode = "open" /\ Mode' = "draining" /\ closed' = closed
    BY <1>2, <1>3 DEF BeginClose, Mode, ClosedAtRest
  <2>2. \A e \in Events : Outcome(e)' = Outcome(e)
    BY <1>1, <2>1 DEF Outcome
  <2>3. Relay!Drain
    BY <2>1, <2>2 DEF Relay!Drain
  <2> QED
    BY <2>3 DEF Relay!Next
<1>4. CASE EndClose
  <2>1. Mode # "closed" /\ Mode' = "closed" /\ ~closed /\ closed'
    BY <1>4 DEF EndClose, Mode
  <2>2. \A e \in Events : Outcome(e)' = IF Outcome(e) = "accepted" THEN "abandoned" ELSE Outcome(e)
    BY <1>1, <2>1 DEF Outcome
  <2>3. statusBar' = [e \in Events |-> IF e \in Relay!With("accepted") THEN "abandoned"
                                        ELSE statusBar[e]]
    BY <2>2 DEF statusBar, Relay!With
  <2>4. Relay!Finish
    BY <2>1, <2>3 DEF Relay!Finish, Relay!Move, statusBar
  <2> QED
    BY <2>4 DEF Relay!Next
<1> QED
  BY <1>3, <1>4

\* The producer implements EventRelay: of what it takes it acknowledges or reports
\* every event once, except what the channel holds when Close returns, and nothing
\* that has been reported is acknowledged later, although it may be stored.
THEOREM Refinement == Spec => ImplementsRelay
<1>1. Accounts /\ [Next]_vars => [Relay!Next]_(Relay!vars)
  <2> SUFFICES ASSUME Accounts, [Next]_vars
               PROVE  [Relay!Next]_(Relay!vars)
    OBVIOUS
  <2>1. CASE UNCHANGED vars
    BY <2>1 DEF vars, historyVars, Relay!vars, Outcome, Mode
  <2> QED
    BY <2>1, RelayWrite, RelayFlusher, RelayClose DEF Next, Ended
<1> QED
  BY <1>1, RelayInit, InitInv, NextInv, PTL DEF Spec, ImplementsRelay, Relay!Spec
=============================================================================
