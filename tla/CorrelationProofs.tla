-------------------------- MODULE CorrelationProofs --------------------------
(***************************************************************************)
(* Proofs about the correlator's table, for any events, keys, ttl and      *)
(* ticker period, and about the pipeline that uses it, for any worker      *)
(* pool: that the table and the history of every query agree, that no      *)
(* entry outlives the ttl by more than one period of the ticker, that      *)
(* every orphaned response has an explanation, that a single worker finds  *)
(* the query of every response that was accepted after it, and that events *)
(* and pairs are what the messages say.                                    *)
(***************************************************************************)
EXTENDS Correlation, ChannelLemmas, TLAPS

-----------------------------------------------------------------------------
(* The table: module Correlator *)

\* Run starts with an empty table, and no query has been seen.
LEMMA InitInv == Init => CorrelatorInv
BY CorrelatorAssumption
   DEF Init, CorrelatorInv, TypeOK, TableIsConsistent, AgeIsOwn, AgesWithTheTicker,
       Oldest, Fates

\* Store: the query under the key gives way, and the new one starts at age 0.
LEMMA StoreInv ==
  ASSUME CorrelatorInv, NEW q \in Queries, Store(q)
  PROVE  CorrelatorInv'
<1> USE CorrelatorAssumption DEF CorrelatorInv
<1>0. Key[q] \in Keys /\ q # NoQuery
  OBVIOUS
<1>1. /\ fate[q] = "unseen"
      /\ entries' = [entries EXCEPT ![Key[q]] = q]
      /\ age' = [age EXCEPT ![Key[q]] = 0]
      /\ UNCHANGED <<sinceTick, loop, waited, matched, orphaned>>
  BY DEF Store, StoreWith
<1>2. \A p \in Queries : fate'[p] = IF p = q THEN "waiting"
                                    ELSE IF entries[Key[q]] = p THEN "overwritten" ELSE fate[p]
  BY DEF Store, StoreWith, Displaced
<1>3. TypeOK'
  <2>1. fate' \in [Queries -> Fates]
    BY DEF Store, StoreWith, TypeOK, Fates
  <2> QED
    BY <1>0, <1>1, <2>1 DEF TypeOK, Oldest
<1>4. TableIsConsistent'
  <2>1. \A p \in Queries : fate'[p] = "waiting" <=> entries'[Key[p]] = p
    BY <1>0, <1>1, <1>2 DEF TableIsConsistent, TypeOK
  <2>2. \A k \in Keys : entries'[k] # NoQuery => Key[entries'[k]] = k
    BY <1>0, <1>1 DEF TableIsConsistent, TypeOK
  <2>3. \A p \in Queries : fate'[p] = "matched" <=> \E r \in Responses : matched'[r] = p
    BY <1>0, <1>1, <1>2 DEF TableIsConsistent, TypeOK
  <2> QED
    BY <1>1, <2>1, <2>2, <2>3 DEF TableIsConsistent
<1>5. AgeIsOwn' /\ AgesWithTheTicker'
  <2>1. ASSUME NEW p \in Queries, fate'[p] = "waiting"
        PROVE  age'[Key[p]] = waited'[p] /\ waited'[p] <= TTL + sinceTick'
    <3>1. CASE p = q
      BY <1>0, <1>1, <3>1 DEF TypeOK, AgesWithTheTicker
    <3>2. CASE p # q
      <4>1. fate[p] = "waiting" /\ entries[Key[q]] # p
        BY <1>2, <2>1, <3>2
      <4>2. Key[p] # Key[q] /\ Key[p] \in Keys
        BY <4>1 DEF TableIsConsistent
      <4> QED
        BY <1>0, <1>1, <4>1, <4>2 DEF TypeOK, AgeIsOwn, AgesWithTheTicker
    <3> QED
      BY <3>1, <3>2
  <2>2. \A p \in Queries : fate'[p] = "unseen" => waited'[p] = 0
    BY <1>1, <1>2 DEF AgesWithTheTicker
  <2> QED
    BY <2>1, <2>2 DEF AgeIsOwn, AgesWithTheTicker
<1> QED
  BY <1>3, <1>4, <1>5

\* Lookup: the entry goes to the response, or there is none.
LEMMA LookupInv ==
  ASSUME CorrelatorInv, NEW r \in Responses, Lookup(r)
  PROVE  CorrelatorInv'
<1> USE CorrelatorAssumption DEF CorrelatorInv
<1>1. CASE LookupMissing(r)
  BY <1>1 DEF LookupMissing, TypeOK, TableIsConsistent, AgeIsOwn, AgesWithTheTicker
<1>2. CASE LookupFound(r)
  <2> DEFINE q == entries[Key[r]]
  <2>1. Key[r] \in Keys /\ q \in Queries /\ q # NoQuery /\ Key[q] = Key[r]
    BY <1>2 DEF LookupFound, TypeOK, TableIsConsistent
  <2>2. fate[q] = "waiting" /\ \A s \in Responses : matched[s] # q
    BY <2>1 DEF TableIsConsistent
  <2>3. /\ matched[r] = NoQuery
        /\ matched' = [matched EXCEPT ![r] = q]
        /\ fate' = [fate EXCEPT ![q] = "matched"]
        /\ entries' = [entries EXCEPT ![Key[r]] = NoQuery]
        /\ UNCHANGED <<age, sinceTick, loop, waited, orphaned>>
    BY <1>2 DEF LookupFound, NotLookedUp
  <2> HIDE DEF q
  <2>4. TypeOK'
    BY <2>1, <2>3 DEF TypeOK, Fates
  <2>5. \A p \in Queries : fate'[p] = "waiting" <=> entries'[Key[p]] = p
    <3>1. \A p \in Queries : fate'[p] = IF p = q THEN "matched" ELSE fate[p]
      BY <2>1, <2>3 DEF TypeOK
    <3>2. \A p \in Queries : entries'[Key[p]] = IF Key[p] = Key[r] THEN NoQuery ELSE entries[Key[p]]
      BY <2>1, <2>3 DEF TypeOK
    <3>3. \A p \in Queries : Key[p] = Key[r] /\ p # q => entries[Key[p]] # p
      BY DEF q
    <3> QED
      BY <2>1, <3>1, <3>2, <3>3 DEF TableIsConsistent
  <2>6. \A k \in Keys : entries'[k] # NoQuery => Key[entries'[k]] = k
    BY <2>1, <2>3 DEF TypeOK, TableIsConsistent
  <2>7. \A p \in Queries : fate'[p] = "matched" <=> \E s \in Responses : matched'[s] = p
    <3>1. \A s \in Responses : matched'[s] = IF s = r THEN q ELSE matched[s]
      BY <2>3 DEF TypeOK
    <3>2. \A p \in Queries : fate'[p] = IF p = q THEN "matched" ELSE fate[p]
      BY <2>1, <2>3 DEF TypeOK
    <3>3. \A p \in Queries : p # NoQuery
      OBVIOUS
    <3> QED
      BY <2>1, <2>2, <2>3, <3>1, <3>2, <3>3 DEF TableIsConsistent
  <2>8. \A s, t \in Responses : matched'[s] = matched'[t] /\ matched'[s] # NoQuery => s = t
    BY <2>1, <2>2, <2>3 DEF TypeOK, TableIsConsistent
  <2>9. \A s \in Responses : matched'[s] # NoQuery => Key[matched'[s]] = Key[s]
    BY <2>1, <2>2, <2>3 DEF TypeOK, TableIsConsistent
  <2>10. AgeIsOwn' /\ AgesWithTheTicker'
    BY <2>1, <2>3 DEF TypeOK, AgeIsOwn, AgesWithTheTicker
  <2> QED
    BY <2>4, <2>5, <2>6, <2>7, <2>8, <2>9, <2>10 DEF TableIsConsistent
<1> QED
  BY <1>1, <1>2 DEF Lookup

\* Evict on a tick: what is older than the ttl is reported and gone, and the count
\* of time since the tick starts again.
LEMMA TickInv ==
  ASSUME CorrelatorInv, Tick
  PROVE  CorrelatorInv'
<1> USE CorrelatorAssumption DEF CorrelatorInv
<1>1. /\ sinceTick = Period /\ sinceTick' = 0
      /\ entries' = [k \in Keys |-> IF Expired(k, TTL) THEN NoQuery ELSE entries[k]]
      /\ UNCHANGED <<age, waited, matched, orphaned, loop>>
  BY DEF Tick, Evict, Sweep
<1>2. \A q \in Queries : fate'[q] = IF Expired(Key[q], TTL) /\ entries[Key[q]] = q
                                    THEN "evicted" ELSE fate[q]
  <2>1. \A q \in Queries, k \in Keys : Expired(k, TTL) /\ entries[k] = q => k = Key[q]
    BY DEF Expired, TableIsConsistent
  <2> QED
    BY <2>1 DEF Tick, Evict, Sweep, Reported
<1>3. TypeOK'
  <2>1. fate' \in [Queries -> Fates]
    BY DEF Tick, Evict, Sweep, Reported, TypeOK, Fates
  <2> QED
    BY <1>1, <2>1 DEF TypeOK
<1>4. \A q \in Queries : Key[q] \in Keys /\ q # NoQuery
  OBVIOUS
<1>5. TableIsConsistent'
  <2>1. \A q \in Queries : fate'[q] = "waiting" <=> entries'[Key[q]] = q
    BY <1>1, <1>2, <1>4 DEF TableIsConsistent
  <2>2. \A k \in Keys : entries'[k] # NoQuery => Key[entries'[k]] = k
    BY <1>1 DEF TableIsConsistent
  <2>3. \A q \in Queries : fate'[q] = "matched" <=> fate[q] = "matched"
    BY <1>2 DEF TableIsConsistent
  <2> QED
    BY <1>1, <2>1, <2>2, <2>3 DEF TableIsConsistent
<1>6. AgeIsOwn' /\ AgesWithTheTicker'
  <2>1. ASSUME NEW q \in Queries, fate'[q] = "waiting"
        PROVE  age'[Key[q]] = waited'[q] /\ waited'[q] <= TTL + sinceTick'
    <3>1. fate[q] = "waiting" /\ entries[Key[q]] = q /\ ~Expired(Key[q], TTL)
      BY <1>2, <2>1 DEF TableIsConsistent
    <3>2. age[Key[q]] \in Nat /\ age[Key[q]] <= TTL
      BY <1>4, <3>1 DEF Expired, TypeOK
    <3> QED
      BY <1>1, <3>1, <3>2 DEF AgeIsOwn
  <2>2. \A q \in Queries : fate'[q] = "unseen" => waited'[q] = 0
    BY <1>1, <1>2 DEF AgesWithTheTicker
  <2> QED
    BY <2>1, <2>2 DEF AgeIsOwn, AgesWithTheTicker
<1> QED
  BY <1>3, <1>5, <1>6

\* Time passes for what waits, and not beyond a period without a tick.
LEMMA TimePassesInv ==
  ASSUME CorrelatorInv, TimePasses
  PROVE  CorrelatorInv'
<1> USE CorrelatorAssumption DEF CorrelatorInv
<1>1. /\ sinceTick < Period /\ sinceTick' = sinceTick + 1
      /\ age' = [k \in Keys |-> IF entries[k] = NoQuery THEN age[k] ELSE Older(age[k])]
      /\ waited' = [q \in Queries |-> IF fate[q] \in {"waiting", "overwritten"}
                                      THEN Older(waited[q]) ELSE waited[q]]
      /\ UNCHANGED <<entries, loop, fate, matched, orphaned>>
  BY DEF TimePasses
<1>2. \A n \in 0..Oldest : Older(n) \in 0..Oldest /\ Older(n) <= n + 1
  BY DEF Older, Oldest
<1>3. TypeOK'
  BY <1>1, <1>2 DEF TypeOK
<1>4. TableIsConsistent'
  BY <1>1 DEF TableIsConsistent
<1>5. AgeIsOwn' /\ AgesWithTheTicker'
  <2>1. ASSUME NEW q \in Queries, fate[q] = "waiting"
        PROVE  age'[Key[q]] = waited'[q] /\ waited'[q] <= TTL + sinceTick'
    <3>1. Key[q] \in Keys /\ entries[Key[q]] = q /\ q # NoQuery
      BY <2>1 DEF TableIsConsistent
    <3>2. age'[Key[q]] = Older(age[Key[q]]) /\ waited'[q] = Older(waited[q])
      BY <1>1, <2>1, <3>1
    <3>3. age[Key[q]] = waited[q] /\ waited[q] <= TTL + sinceTick
      BY <2>1 DEF AgeIsOwn, AgesWithTheTicker
    <3>4. waited[q] \in 0..Oldest /\ sinceTick \in Nat
      BY DEF TypeOK
    <3>5. Older(waited[q]) <= waited[q] + 1 /\ Older(waited[q]) \in 0..Oldest
      BY <1>2, <3>4
    <3>6. Older(waited[q]) <= TTL + (sinceTick + 1)
      BY <3>3, <3>4, <3>5 DEF Oldest
    <3> QED
      BY <1>1, <3>2, <3>3, <3>6
  <2>2. \A q \in Queries : fate'[q] = "unseen" => waited'[q] = 0
    BY <1>1 DEF AgesWithTheTicker
  <2> QED
    BY <1>1, <2>1, <2>2 DEF AgeIsOwn, AgesWithTheTicker
<1> QED
  BY <1>3, <1>4, <1>5

\* Stop, and steps that change nothing.
LEMMA LoopInv ==
  ASSUME CorrelatorInv, BeginStop \/ EndLoop \/ UNCHANGED vars
  PROVE  CorrelatorInv'
BY DEF BeginStop, EndLoop, vars, CorrelatorInv, TypeOK, TableIsConsistent, AgeIsOwn,
       AgesWithTheTicker

\* Every step of the table keeps the invariant.
LEMMA NextInv ==
  ASSUME CorrelatorInv, [Next]_vars
  PROVE  CorrelatorInv'
BY StoreInv, LookupInv, TickInv, TimePassesInv, LoopInv DEF Next, Ended

-----------------------------------------------------------------------------
\* In every reachable state the table and the history of every query agree, and the
\* age that Evict computes is the time the query has waited, whatever the events, their
\* keys, the ttl and the period.
THEOREM Invariance == Spec => []CorrelatorInv
<1>1. CorrelatorInv /\ [Next]_vars => CorrelatorInv'
  BY NextInv
<1> QED
  BY <1>1, InitInv, PTL DEF Spec

\* While evictLoop runs, no query stays in the table for longer than the ttl and one
\* period of the ticker.
THEOREM AgeIsBounded == Spec => []BoundedAge
<1>1. CorrelatorInv => BoundedAge
  <2> SUFFICES ASSUME CorrelatorInv, NEW q \in Queries, fate[q] = "waiting"
               PROVE  waited[q] <= TTL + Period
    BY DEF BoundedAge
  <2>1. waited[q] <= TTL + sinceTick /\ waited[q] \in Nat /\ sinceTick \in 0..Period
    BY DEF CorrelatorInv, TypeOK, AgesWithTheTicker
  <2> QED
    BY <2>1, CorrelatorAssumption
<1> QED
  BY <1>1, Invariance, PTL

\* Lookup calls a response orphaned only if its query was not stored before it, was
\* displaced, expired, or had been paired with another response: a query that waits
\* is found.
THEOREM OrphansHaveReasons == Spec => OrphansExplained
<1> DEFINE Explained(r) == \/ fate[Answers[r]] = "unseen"
                           \/ fate[Answers[r]] \in {"overwritten", "evicted"}
                           \/ \E s \in Responses \ {r} : matched[s] = Answers[r]
<1>1. ASSUME CorrelatorInv, [Next]_vars, NEW r \in orphaned' \ orphaned
      PROVE  Explained(r)
  <2>1. LookupMissing(r) /\ r \in Responses
    BY <1>1 DEF Next, vars, Store, StoreWith, Lookup, LookupFound, LookupMissing, Tick, Evict,
                Sweep, BeginStop, EndLoop, TimePasses, Ended
  <2>2. Answers[r] \in Queries /\ Key[Answers[r]] = Key[r] /\ Answers[r] # NoQuery
    BY <2>1, CorrelatorAssumption
  <2>3. fate[Answers[r]] # "waiting"
    BY <1>1, <2>1, <2>2 DEF LookupMissing, CorrelatorInv, TableIsConsistent
  <2>4. CASE fate[Answers[r]] = "matched"
    BY <1>1, <2>1, <2>2, <2>4
       DEF LookupMissing, NotLookedUp, CorrelatorInv, TableIsConsistent
  <2>5. fate[Answers[r]] \in Fates
    BY <1>1, <2>2 DEF CorrelatorInv, TypeOK
  <2> QED
    BY <2>3, <2>4, <2>5 DEF Fates
<1>2. CorrelatorInv /\ [Next]_vars => [\A r \in orphaned' \ orphaned : Explained(r)]_vars
  BY <1>1
<1> QED
  BY <1>2, Invariance, PTL DEF Spec, OrphansExplained

-----------------------------------------------------------------------------
(* The pipeline and its table: module Correlation *)

\* The workers begin on an empty channel.
LEMMA SysInitInv == SysInit => CorrelationInv
<1> SUFFICES ASSUME SysInit PROVE CorrelationInv
  OBVIOUS
<1> USE DEF SysInit, P!Init, Init
<1>1. P!TypeOK
  <2>1. queue \in Seq(Events) /\ Len(queue) = 0
    OBVIOUS
  <2>2. Len(queue) <= QueueSize
    BY <2>1, CorrelationAssumption DEF P!PipelineAssumption
  <2>3. phase \in P!Phases /\ pc \in [Workers -> P!Points]
    BY DEF P!Phases, P!Points
  <2> QED
    BY <2>1, <2>2, <2>3 DEF P!TypeOK
<1>0. P!HeldInv
  BY DEF P!HeldInv
<1>2. arrival \in Seq(Events) /\ accepted = Range(arrival) /\ IsInjective(arrival)
  BY DEF Range, IsInjective
<1>3. StopsLast
  BY DEF StopsLast, P!Rested
<1>4. ServedInOrder
  BY DEF ServedInOrder, Received
<1>5. NoFalseOrphan
  BY DEF NoFalseOrphan
<1> QED
  BY <1>0, <1>1, <1>2, <1>3, <1>4, <1>5 DEF CorrelationInv

\* What has become of a query is final, once the table has let go of it, and no step
\* makes a query unseen.
LEMMA FateIsFinal ==
  ASSUME CorrelatorInv, [Next]_vars, NEW q \in Queries
  PROVE  /\ fate[q] # "unseen" => fate'[q] # "unseen"
         /\ fate[q] \notin {"unseen", "waiting"} => fate'[q] \notin {"unseen", "waiting"}
<1>1. ASSUME NEW p \in Queries, Store(p)
      PROVE  fate'[q] = IF p = q THEN "waiting"
                        ELSE IF q \in Displaced(p) THEN "overwritten" ELSE fate[q]
  BY <1>1 DEF Store, StoreWith
<1>2. ASSUME NEW p \in Queries, Store(p)
      PROVE  fate[p] = "unseen" /\ (q \in Displaced(p) => fate[q] = "waiting")
  <2>1. fate[p] = "unseen"
    BY <1>2 DEF Store, StoreWith
  <2>2. q \in Displaced(p) => fate[q] = "waiting"
    <3>1. q \in Displaced(p) => entries[Key[p]] = q /\ Key[p] \in Keys /\ q # NoQuery
      BY CorrelatorAssumption DEF Displaced
    <3> QED
      BY <3>1 DEF CorrelatorInv, TableIsConsistent
  <2> QED
    BY <2>1, <2>2
<1>3. ASSUME NEW r \in Responses, Lookup(r)
      PROVE  fate'[q] \in {fate[q], "matched"}
  BY <1>3 DEF Lookup, LookupFound, LookupMissing, CorrelatorInv, TypeOK
<1>4. Tick => fate'[q] \in {fate[q], "evicted"}
  BY DEF Tick, Evict, Sweep, Reported
<1>5. BeginStop \/ EndLoop \/ TimePasses \/ UNCHANGED vars => fate' = fate
  BY DEF BeginStop, EndLoop, TimePasses, vars
<1> QED
  BY <1>1, <1>2, <1>3, <1>4, <1>5 DEF Next, Ended

\* Every step of the system is one of the table, or leaves it alone: nobody stores or
\* looks up once Stop has begun.
LEMMA TableStep ==
  ASSUME CorrelationInv, [SysNext]_sysVars
  PROVE  [Next]_vars
<1>1. ASSUME NEW w \in Workers, Correlate(w)
      PROVE  Next
  <2>1. loop = "running"
    BY <1>1 DEF Correlate, P!Correlate, CorrelationInv, StopsLast
  <2>2. held[w] \in Events
    BY <1>1 DEF Correlate, P!Correlate, CorrelationInv, P!TypeOK, P!HeldInv
  <2> QED
    BY <1>1, <2>1, <2>2 DEF Correlate, Events, Next
<1>2. ASSUME NEW e \in Events, Offer(e)
      PROVE  UNCHANGED vars
  BY <1>2 DEF Offer
<1>3. ASSUME NEW w \in Workers, Work(w)
      PROVE  UNCHANGED vars
  BY <1>3 DEF Work
<1>4. EvictLoop => Next
  BY DEF EvictLoop, Next
<1>5. Shutdown => Next \/ UNCHANGED vars
  BY DEF Shutdown, StopCorrelator, CorrelatorStopped, Next
<1> QED
  BY <1>1, <1>2, <1>3, <1>4, <1>5 DEF SysNext, SysEnded, sysVars

\* Where a step leaves the channel and what the worker is about to look up alone, a
\* single worker goes on serving the events in order.
LEMMA Undisturbed ==
  ASSUME CorrelatorInv, CorrelationInv, [Next]_vars,
         UNCHANGED <<queue, arrival, accepted, orphaned>>,
         \A w \in Workers : /\ pc'[w] = "correlate" <=> pc[w] = "correlate"
                            /\ pc[w] = "correlate" => held'[w] = held[w]
  PROVE  ServedInOrder' /\ NoFalseOrphan'
<1>1. Received' = Received
  BY DEF Received
<1>2. ServedInOrder'
  <2> SUFFICES ASSUME NEW w \in Workers, Workers = {w}, NEW i \in 1..Received,
                      pc'[w] = "correlate" => i # Received, arrival[i] \in Queries
               PROVE  fate'[arrival[i]] # "unseen"
    BY <1>1 DEF ServedInOrder, CorrelationInv
  <2>1. fate[arrival[i]] # "unseen"
    BY DEF ServedInOrder, CorrelationInv
  <2> QED
    BY <2>1, FateIsFinal
<1>3. NoFalseOrphan'
  <2>1. \A e, f : Before(e, f)' = Before(e, f)
    BY DEF Before
  <2>2. ASSUME NEW w \in Workers, Workers = {w}, NEW r \in orphaned, Before(Answers[r], r)
        PROVE  fate'[Answers[r]] \notin {"unseen", "waiting"}
    <3>1. fate[Answers[r]] \notin {"unseen", "waiting"}
      BY <2>2 DEF NoFalseOrphan, CorrelationInv
    <3>2. Answers[r] \in Queries
      BY CorrelatorAssumption DEF CorrelatorInv, TypeOK
    <3> QED
      BY <3>1, <3>2, FateIsFinal
  <2> QED
    BY <2>1, <2>2 DEF NoFalseOrphan, CorrelationInv
<1> QED
  BY <1>2, <1>3

\* An event that the pipeline accepts joins the end of the channel, or goes to the
\* worker when there is nothing in front of it.
LEMMA OfferInv ==
  ASSUME CorrelatorInv, CorrelationInv, NEW e \in Events, Offer(e)
  PROVE  CorrelationInv'
<1>0. /\ Range(Append(arrival, e)) = accepted \cup {e}
      /\ IsInjective(Append(arrival, e))
  <2>1. arrival \in Seq(Events) /\ accepted = Range(arrival) /\ IsInjective(arrival)
    BY DEF CorrelationInv
  <2>2. e \notin Range(arrival)
    BY <2>1 DEF Offer, P!Process, P!New
  <2>3. Range(Append(arrival, e)) = Range(arrival) \cup {e}
    BY <2>1, SendContents
  <2>4. IsInjective(Append(arrival, e))
    BY <2>1, <2>2, SendDistinct
  <2> QED
    BY <2>1, <2>3, <2>4
<1> USE DEF CorrelationInv, Offer
<1>1. e \notin accepted /\ UNCHANGED <<vars, phase>>
  BY DEF P!Process, P!New, P!Enqueue, P!HandOver, P!RefuseDying, P!DropFull, P!SendOnClosed
<1>2. QueueSize \in Nat /\ NoQuery \notin Events
  BY CorrelationAssumption DEF P!PipelineAssumption
<1>3. ASSUME P!TurnAway(e), UNCHANGED <<queue, pc, held, closed, die, cancelled, phase, written, crashed>>
      PROVE  CorrelationInv'
  <2>1. UNCHANGED <<accepted, arrival>>
    BY <1>1, <1>3 DEF P!TurnAway
  <2>2. P!TypeOK' /\ P!HeldInv'
    BY <1>3, <2>1 DEF P!TypeOK, P!HeldInv, P!TurnAway
  <2>3. StopsLast'
    BY <1>1, <1>3 DEF StopsLast, P!Rested, vars
  <2>4. ServedInOrder' /\ NoFalseOrphan'
    BY <1>1, <1>3, <2>1, Undisturbed DEF vars
  <2> QED
    BY <2>1, <2>2, <2>3, <2>4
<1>4. ASSUME P!Admit(e)
      PROVE  /\ arrival' = Append(arrival, e) /\ accepted' = accepted \cup {e}
             /\ arrival' \in Seq(Events) /\ accepted' = Range(arrival') /\ IsInjective(arrival')
             /\ NoFalseOrphan'
  <2>1. arrival' = Append(arrival, e) /\ accepted' = accepted \cup {e}
    BY <1>4 DEF P!Admit
  <2>2. arrival' \in Seq(Events) /\ accepted' = Range(arrival') /\ IsInjective(arrival')
    BY <1>0, <2>1
  <2>3. ASSUME NEW r \in accepted, NEW q, Before(q, r)'
        PROVE  Before(q, r)
    <3>1. PICK i \in DOMAIN arrival', j \in DOMAIN arrival' :
                 i < j /\ arrival'[i] = q /\ arrival'[j] = r
      BY <2>3 DEF Before
    <3>2. /\ DOMAIN arrival = 1..Len(arrival) /\ DOMAIN arrival' = 1..(Len(arrival) + 1)
          /\ Len(arrival) \in Nat /\ arrival'[Len(arrival) + 1] = e
          /\ \A k \in DOMAIN arrival : arrival'[k] = arrival[k]
      BY <2>1
    <3>3. j # Len(arrival) + 1
      BY <1>1, <2>3, <3>1, <3>2
    <3>4. i \in DOMAIN arrival /\ j \in DOMAIN arrival
      BY <3>1, <3>2, <3>3
    <3> QED
      BY <3>1, <3>2, <3>4 DEF Before
  <2>4. NoFalseOrphan'
    BY <1>1, <2>1, <2>3 DEF NoFalseOrphan, vars
  <2> QED
    BY <2>1, <2>2, <2>4
<1>5. CASE P!Enqueue(e)
  <2>1. queue' = Append(queue, e) /\ P!Admit(e) /\ Len(queue) < QueueSize
        /\ UNCHANGED <<closed, die, cancelled, phase, pc, held, written, crashed>>
    BY <1>5 DEF P!Enqueue
  <2>2. queue \in Seq(Events)
    BY DEF P!TypeOK
  <2>3. P!TypeOK' /\ P!HeldInv'
    <3>1. queue' \in Seq(Events) /\ Len(queue') = Len(queue) + 1 /\ Len(queue) \in Nat
      BY <2>1, <2>2
    <3>2. Len(queue') <= QueueSize
      BY <1>2, <2>1, <3>1
    <3> QED
      BY <2>1, <3>1, <3>2 DEF P!TypeOK, P!HeldInv, P!Admit
  <2>4. StopsLast'
    BY <1>1, <2>1 DEF StopsLast, P!Rested, vars
  <2>5. ServedInOrder'
    <3>1. /\ arrival' = Append(arrival, e) /\ Len(arrival') = Len(arrival) + 1
          /\ Len(queue') = Len(queue) + 1 /\ Len(arrival) \in Nat /\ Len(queue) \in Nat
          /\ \A i \in 1..Len(arrival) : arrival'[i] = arrival[i]
          /\ arrival'[Len(arrival) + 1] = e
          /\ \A i \in 1..Len(queue) : queue'[i] = queue[i]
          /\ queue'[Len(queue) + 1] = e
          /\ DOMAIN queue = 1..Len(queue) /\ DOMAIN queue' = 1..(Len(queue) + 1)
      BY <1>4, <2>1, <2>2
    <3>2. Received' = Received
      BY <3>1 DEF Received
    <3> SUFFICES ASSUME NEW w \in Workers, Workers = {w}
                 PROVE  /\ Received \in Nat
                        /\ \A i \in DOMAIN queue' : queue'[i] = arrival'[Received + i]
                        /\ pc'[w] = "correlate" => Received > 0 /\ held'[w] = arrival'[Received]
                        /\ \A i \in 1..Received :
                             /\ pc'[w] = "correlate" => i # Received
                             /\ arrival'[i] \in Queries
                             => fate'[arrival'[i]] # "unseen"
      BY <3>2 DEF ServedInOrder
    <3>3. /\ Received \in Nat
          /\ \A i \in DOMAIN queue : queue[i] = arrival[Received + i]
          /\ pc[w] = "correlate" => Received > 0 /\ held[w] = arrival[Received]
          /\ \A i \in 1..Received :
               /\ pc[w] = "correlate" => i # Received
               /\ arrival[i] \in Queries
               => fate[arrival[i]] # "unseen"
      BY DEF ServedInOrder
    <3>4. Received = Len(arrival) - Len(queue)
      BY DEF Received
    <3>5. \A i \in DOMAIN queue' : queue'[i] = arrival'[Received + i]
      <4> SUFFICES ASSUME NEW i \in 1..(Len(queue) + 1)
                   PROVE  queue'[i] = arrival'[Received + i]
        BY <3>1
      <4>1. CASE i = Len(queue) + 1
        <5>1. Received + i = Len(arrival) + 1
          BY <3>1, <3>4, <4>1
        <5> QED
          BY <3>1, <4>1, <5>1
      <4>2. CASE i \in 1..Len(queue)
        <5>1. Received + i \in 1..Len(arrival)
          BY <3>1, <3>3, <3>4, <4>2
        <5> QED
          BY <3>1, <3>3, <4>2, <5>1
      <4>3. i = Len(queue) + 1 \/ i \in 1..Len(queue)
        BY <3>1
      <4> QED
        BY <4>1, <4>2, <4>3
    <3>6. \A i \in 1..Received : arrival'[i] = arrival[i]
      BY <3>1, <3>3, <3>4
    <3>7. UNCHANGED <<pc, held, fate>>
      BY <1>1, <2>1 DEF vars
    <3>8. pc'[w] = "correlate" => Received > 0 /\ held'[w] = arrival'[Received]
      <4>1. Received > 0 => Received \in 1..Received
        BY <3>3
      <4> QED
        BY <3>3, <3>6, <3>7, <4>1
    <3> QED
      BY <3>3, <3>5, <3>6, <3>7, <3>8
  <2> QED
    BY <1>4, <2>1, <2>3, <2>4, <2>5
<1>6. ASSUME NEW w \in Workers, P!HandOver(e, w)
      PROVE  CorrelationInv'
  <2>1. /\ QueueSize = 0 /\ ~closed /\ pc[w] = "select" /\ P!Admit(e)
        /\ pc' = [pc EXCEPT ![w] = "correlate"] /\ held' = [held EXCEPT ![w] = e]
        /\ UNCHANGED <<queue, closed, die, cancelled, phase, written, crashed>>
    BY <1>6 DEF P!HandOver, P!Take
  <2>2. P!TypeOK' /\ P!HeldInv'
    BY <1>2, <2>1 DEF P!TypeOK, P!HeldInv, P!Points, P!Admit
  <2>3. StopsLast'
    BY <1>1, <2>1 DEF StopsLast, P!Rested, vars
  <2>4. ServedInOrder'
    <3>1. Len(queue) = 0 /\ queue' = queue
      BY <1>2, <2>1 DEF P!TypeOK
    <3>2. /\ Len(arrival') = Len(arrival) + 1 /\ Len(arrival) \in Nat
          /\ \A i \in 1..Len(arrival) : arrival'[i] = arrival[i]
          /\ arrival'[Len(arrival) + 1] = e
      BY <1>4, <2>1
    <3>3. Received = Len(arrival) /\ Received' = Len(arrival) + 1
      BY <3>1, <3>2 DEF Received
    <3>4. held'[w] = e /\ pc'[w] = "correlate" /\ fate' = fate
      BY <1>1, <2>1 DEF P!TypeOK, vars
    <3>5. ASSUME Workers = {w}, NEW i \in 1..Len(arrival), arrival[i] \in Queries
          PROVE  fate[arrival[i]] # "unseen"
      BY <2>1, <3>3, <3>5 DEF ServedInOrder
    <3> QED
      BY <3>1, <3>2, <3>3, <3>4, <3>5 DEF ServedInOrder
  <2> QED
    BY <1>4, <2>1, <2>2, <2>3, <2>4
<1> QED
  BY <1>3, <1>5, <1>6 DEF P!Process, P!RefuseDying, P!DropFull, P!SendOnClosed

\* The worker stores or looks up the event it holds, the oldest that has not been.
LEMMA CorrelateInv ==
  ASSUME CorrelatorInv, CorrelationInv, NEW w \in Workers, Correlate(w)
  PROVE  CorrelationInv'
<1> USE DEF CorrelationInv
<1>1. /\ pc[w] = "correlate" /\ pc' = [pc EXCEPT ![w] = "enrich"]
      /\ UNCHANGED <<queue, closed, die, cancelled, phase, held, accepted, refused, written,
                     crashed, arrival>>
  BY DEF Correlate, P!Correlate
<1>2. Next /\ held[w] \in Events
  <2>1. loop = "running"
    BY <1>1 DEF StopsLast
  <2>2. held[w] \in Events
    BY <1>1 DEF P!TypeOK, P!HeldInv
  <2> QED
    BY <2>1, <2>2 DEF Correlate, Events, Next
<1>3. /\ held[w] \in Responses => Lookup(held[w])
      /\ held[w] \notin Responses => held[w] \in Queries /\ Store(held[w])
  BY <1>2 DEF Correlate, Events
<1>4. P!TypeOK' /\ P!HeldInv'
  BY <1>1 DEF P!TypeOK, P!HeldInv, P!Points
<1>5. StopsLast'
  <2>1. loop' = loop
    BY <1>3 DEF Lookup, LookupFound, LookupMissing, Store, StoreWith
  <2> QED
    BY <1>1, <2>1 DEF StopsLast, P!Rested, P!TypeOK
<1>6. Received' = Received
  BY <1>1 DEF Received
<1>7. ServedInOrder'
  <2> SUFFICES ASSUME NEW v \in Workers, Workers = {v}, NEW i \in 1..Received,
                      arrival[i] \in Queries
               PROVE  fate'[arrival[i]] # "unseen"
    BY <1>1, <1>6 DEF ServedInOrder, P!TypeOK
  <2>1. v = w /\ held[w] = arrival[Received]
    BY <1>1 DEF ServedInOrder
  <2>2. CASE i = Received
    <3>1. arrival[i] \notin Responses
      BY CorrelatorAssumption
    <3>2. Store(arrival[i])
      BY <1>3, <2>1, <2>2, <3>1
    <3> QED
      BY <3>2 DEF Store, StoreWith
  <2>3. CASE i # Received
    BY <1>2, <2>1, <2>3, FateIsFinal DEF ServedInOrder
  <2> QED
    BY <2>2, <2>3
<1>8. NoFalseOrphan'
  <2> SUFFICES ASSUME NEW v \in Workers, Workers = {v}, NEW r \in orphaned'
               PROVE  /\ r \in accepted
                      /\ Before(Answers[r], r) => fate'[Answers[r]] \notin {"unseen", "waiting"}
    BY <1>1 DEF NoFalseOrphan, Before
  <2>1. v = w /\ Received \in Nat \ {0} /\ held[w] = arrival[Received]
    BY <1>1 DEF ServedInOrder
  <2>2. CASE r \in orphaned
    <3>1. r \in Responses /\ Answers[r] \in Queries
      BY <2>2, CorrelatorAssumption DEF CorrelatorInv, TypeOK
    <3> QED
      BY <1>2, <2>2, <3>1, FateIsFinal DEF NoFalseOrphan
  <2>3. CASE r \notin orphaned
    <3>1. r = held[w] /\ LookupMissing(r) /\ r \in Responses
      BY <1>3, <2>3 DEF Lookup, LookupFound, LookupMissing, Store, StoreWith
    <3>2. Received \in DOMAIN arrival
      BY <2>1 DEF Received, P!TypeOK
    <3>3. r \in accepted
      BY <2>1, <3>1, <3>2 DEF Range
    <3>4. ASSUME Before(Answers[r], r) PROVE fate[Answers[r]] # "unseen"
      <4>1. PICK i \in DOMAIN arrival, j \in DOMAIN arrival :
                   i < j /\ arrival[i] = Answers[r] /\ arrival[j] = r
        BY <3>4 DEF Before
      <4>2. j = Received
        BY <2>1, <3>1, <3>2, <4>1 DEF IsInjective
      <4>3. i \in 1..Received /\ i # Received /\ Answers[r] \in Queries
        BY <2>1, <3>1, <4>1, <4>2, CorrelatorAssumption
      <4> QED
        BY <2>1, <4>1, <4>3 DEF ServedInOrder
    <3>5. fate[Answers[r]] # "waiting" /\ fate' = fate
      <4>1. /\ Answers[r] \in Queries /\ Key[Answers[r]] = Key[r] /\ Answers[r] # NoQuery
        BY <3>1, CorrelatorAssumption
      <4> QED
        BY <3>1, <4>1 DEF LookupMissing, CorrelatorInv, TableIsConsistent
    <3> QED
      BY <3>3, <3>4, <3>5
  <2> QED
    BY <2>2, <2>3
<1> QED
  BY <1>1, <1>4, <1>5, <1>7, <1>8

\* The worker's other steps: it takes the next event when it has none to look up.
LEMMA WorkInv ==
  ASSUME CorrelatorInv, CorrelationInv, NEW w \in Workers, Work(w)
  PROVE  CorrelationInv'
<1> USE DEF CorrelationInv
<1>1. UNCHANGED vars /\ UNCHANGED <<closed, die, cancelled, phase, accepted, refused, arrival>>
  BY DEF Work, P!Receive, P!ExitCancelled, P!ExitClosed, P!Exit, P!Enrich, P!WriteStorages
<1>2. CASE P!Receive(w)
  <2>1. /\ pc[w] = "select" /\ queue # <<>> /\ queue' = Tail(queue)
        /\ pc' = [pc EXCEPT ![w] = "correlate"] /\ held' = [held EXCEPT ![w] = Head(queue)]
        /\ UNCHANGED <<written, crashed>>
    BY <1>2 DEF P!Receive, P!Take
  <2>2. queue \in Seq(Events) /\ Len(queue) <= QueueSize /\ QueueSize \in Nat
        /\ NoQuery \notin Events
    BY CorrelationAssumption DEF P!TypeOK, P!PipelineAssumption
  <2>3. /\ Head(queue) = queue[1] /\ Head(queue) \in Events
        /\ queue' \in Seq(Events) /\ Len(queue') = Len(queue) - 1 /\ Len(queue) \in Nat \ {0}
        /\ DOMAIN queue = 1..Len(queue) /\ DOMAIN queue' = 1..(Len(queue) - 1)
        /\ \A i \in 1..(Len(queue) - 1) : queue'[i] = queue[i + 1]
    BY <2>1, <2>2
  <2>4. P!TypeOK' /\ P!HeldInv'
    <3>1. Len(queue') <= QueueSize
      BY <2>2, <2>3
    <3> QED
      BY <1>1, <2>1, <2>2, <2>3, <3>1 DEF P!TypeOK, P!HeldInv, P!Points
  <2>5. StopsLast'
    BY <1>1, <2>1 DEF StopsLast, P!Rested, P!TypeOK, vars
  <2>6. Received' = Received + 1
    BY <1>1, <2>3 DEF Received
  <2>7. ServedInOrder'
    <3> SUFFICES ASSUME NEW v \in Workers, Workers = {v}
                 PROVE  /\ Received + 1 \in Nat
                        /\ \A i \in DOMAIN queue' : queue'[i] = arrival[Received + 1 + i]
                        /\ held'[v] = arrival[Received + 1] /\ Received + 1 > 0
                        /\ \A i \in 1..(Received + 1) :
                             i # Received + 1 /\ arrival[i] \in Queries
                             => fate[arrival[i]] # "unseen"
                        /\ pc'[v] = "correlate"
      BY <1>1, <2>6 DEF ServedInOrder, vars
    <3>1. v = w /\ pc'[w] = "correlate" /\ held'[w] = queue[1]
      BY <2>1, <2>3 DEF P!TypeOK
    <3>2. /\ Received \in Nat
          /\ \A i \in DOMAIN queue : queue[i] = arrival[Received + i]
          /\ \A i \in 1..Received : arrival[i] \in Queries => fate[arrival[i]] # "unseen"
      BY <2>1, <3>1 DEF ServedInOrder
    <3>3. queue[1] = arrival[Received + 1]
      BY <2>3, <3>2
    <3>4. ASSUME NEW i \in 1..(Len(queue) - 1)
          PROVE  queue'[i] = arrival[Received + 1 + i]
      <4>1. i + 1 \in DOMAIN queue /\ queue'[i] = queue[i + 1]
        BY <2>3
      <4>2. Received + (i + 1) = Received + 1 + i
        BY <3>2
      <4> QED
        BY <3>2, <4>1, <4>2
    <3>5. \A i \in 1..(Received + 1) : i # Received + 1 => i \in 1..Received
      BY <3>2
    <3>6. \A i \in DOMAIN queue' : queue'[i] = arrival[Received + 1 + i]
      BY <2>3, <3>4
    <3>7. held'[v] = arrival[Received + 1] /\ pc'[v] = "correlate"
      BY <3>1, <3>3
    <3>8. \A i \in 1..(Received + 1) :
            i # Received + 1 /\ arrival[i] \in Queries => fate[arrival[i]] # "unseen"
      BY <3>2, <3>5
    <3>9. Received + 1 \in Nat /\ Received + 1 > 0
      BY <3>2
    <3> QED
      BY <3>6, <3>7, <3>8, <3>9
  <2>8. NoFalseOrphan'
    BY <1>1 DEF NoFalseOrphan, Before, vars
  <2> QED
    BY <1>1, <2>4, <2>5, <2>7, <2>8
<1>3. CASE P!ExitCancelled(w) \/ P!ExitClosed(w) \/ P!Enrich(w) \/ P!WriteStorages(w)
  <2>1. /\ pc[w] \in {"select", "enrich", "write"}
        /\ \E p \in {"select", "write", "exited"} :
             /\ pc' = [pc EXCEPT ![w] = p]
             /\ p = "exited" => pc[w] = "select" /\ held' = held
             /\ p = "write" => pc[w] = "enrich" /\ held' = held
             /\ p = "select" => /\ pc[w] = "write" /\ held' = [held EXCEPT ![w] = NoQuery]
                               /\ written' = written \cup {held[w]}
        /\ (written' = written \/ pc[w] = "write")
        /\ UNCHANGED <<queue, crashed>>
    BY <1>3 DEF P!ExitCancelled, P!ExitClosed, P!Exit, P!Enrich, P!Panics, P!WriteStorages
  <2>2. P!TypeOK' /\ P!HeldInv'
    BY <1>1, <2>1 DEF P!TypeOK, P!HeldInv, P!Points
  <2>3. StopsLast'
    BY <1>1, <2>1 DEF StopsLast, P!Rested, P!TypeOK, vars
  <2>4. \A v \in Workers : /\ pc'[v] = "correlate" <=> pc[v] = "correlate"
                           /\ pc[v] = "correlate" => held'[v] = held[v]
    BY <2>1 DEF P!TypeOK
  <2>5. ServedInOrder' /\ NoFalseOrphan'
    BY <1>1, <2>1, <2>4, Undisturbed DEF vars
  <2> QED
    BY <1>1, <2>2, <2>3, <2>5
<1> QED
  BY <1>2, <1>3 DEF Work

\* The ticker, Shutdown, and steps that change nothing.
LEMMA RestInv ==
  ASSUME CorrelatorInv, CorrelationInv, EvictLoop \/ Shutdown \/ UNCHANGED sysVars
  PROVE  CorrelationInv'
<1> USE DEF CorrelationInv
<1>1. [Next]_vars
  BY DEF EvictLoop, Shutdown, StopCorrelator, CorrelatorStopped, sysVars, Next
<1>2. UNCHANGED <<queue, arrival, accepted, orphaned, pc, held, refused, written, crashed>>
  BY DEF EvictLoop, Shutdown, StopCorrelator, CorrelatorStopped, sysVars, pipelineVars, vars,
         P!Cancel, P!CloseDie, P!CloseQueue, P!WaitWorkers, P!CloseStorages, P!StopCorrelator,
         P!RestUnchanged, BeginStop, EndLoop, TimePasses, Tick, Evict, Sweep
<1>3. P!TypeOK' /\ P!HeldInv'
  <2>1. closed' \in BOOLEAN /\ die' \in BOOLEAN /\ cancelled' \in BOOLEAN /\ phase' \in P!Phases
    BY DEF EvictLoop, Shutdown, StopCorrelator, CorrelatorStopped, sysVars, pipelineVars, vars,
           P!Cancel, P!CloseDie, P!CloseQueue, P!WaitWorkers, P!CloseStorages,
           P!StopCorrelator, P!RestUnchanged, P!Advance, P!TypeOK, P!Phases
  <2> QED
    BY <1>2, <2>1 DEF P!TypeOK, P!HeldInv
<1>4. StopsLast'
  BY DEF EvictLoop, Shutdown, StopCorrelator, CorrelatorStopped, sysVars, pipelineVars, vars,
         P!Cancel, P!CloseDie, P!CloseQueue, P!WaitWorkers, P!CloseStorages,
         P!StopCorrelator, P!RestUnchanged, P!Advance, P!Rested, StopsLast,
         BeginStop, EndLoop, TimePasses, Tick
<1>5. ServedInOrder' /\ NoFalseOrphan'
  BY <1>1, <1>2, Undisturbed
<1> QED
  BY <1>2, <1>3, <1>4, <1>5

-----------------------------------------------------------------------------
\* For any workers, events and messages: each orphaned response of a single worker has
\* had its query stored before it, if it was accepted before it, and no worker runs
\* when the correlator is stopped.
THEOREM SysInvariance == SysSpec => [](CorrelatorInv /\ CorrelationInv)
<1>1. SysInit => CorrelatorInv /\ CorrelationInv
  BY InitInv, SysInitInv DEF SysInit
<1>2. CorrelatorInv /\ CorrelationInv /\ [SysNext]_sysVars => CorrelatorInv' /\ CorrelationInv'
  <2> SUFFICES ASSUME CorrelatorInv, CorrelationInv, [SysNext]_sysVars
               PROVE  CorrelatorInv' /\ CorrelationInv'
    OBVIOUS
  <2>1. CorrelatorInv'
    BY TableStep, NextInv
  <2>2. CorrelationInv'
    BY OfferInv, CorrelateInv, WorkInv, RestInv DEF SysNext, SysEnded
  <2> QED
    BY <2>1, <2>2
<1> QED
  BY <1>1, <1>2, PTL DEF SysSpec

\* The pipeline uses the correlator as module Correlator expects: no worker stores or
\* looks up an event once Stop has begun.
THEOREM TableIsUsed == SysSpec => UsesCorrelator
<1>1. SysInit => Init
  BY DEF SysInit
<1>2. CorrelationInv /\ [SysNext]_sysVars => [Next]_vars
  BY TableStep
<1> QED
  BY <1>1, <1>2, SysInvariance, PTL DEF SysSpec, UsesCorrelator, Spec

\* Each step is also one of the pipeline's: the correlator holds up none of them, and
\* without a GeoIP database no lookup can panic.
LEMMA PipelineStep ==
  ASSUME ~crashed, [SysNext]_sysVars
  PROVE  [P!Next]_(P!vars) /\ ~crashed'
<1>1. ASSUME NEW e \in Events, Offer(e)
      PROVE  P!Next /\ UNCHANGED crashed
  BY <1>1 DEF Offer, P!Next, P!Process, P!Enqueue, P!HandOver, P!RefuseDying, P!DropFull,
     P!SendOnClosed
<1>2. ASSUME NEW w \in Workers, Correlate(w) \/ Work(w)
      PROVE  P!Next /\ UNCHANGED crashed
  BY <1>2 DEF Correlate, Work, P!Next, P!Worker, P!Receive, P!ExitCancelled, P!ExitClosed, P!Exit,
     P!Correlate, P!Enrich, P!Panics, P!WriteStorages
<1>3. ASSUME P!Cancel \/ P!Finishing
      PROVE  P!Next /\ UNCHANGED crashed
  BY <1>3 DEF P!Next, P!Shutdown, P!Finishing, P!Cancel, P!CloseDie, P!CloseQueue, P!WaitWorkers,
     P!StopCorrelator, P!CloseStorages, P!RestUnchanged
<1>4. ASSUME UNCHANGED pipelineVars
      PROVE  UNCHANGED P!vars /\ UNCHANGED crashed
  BY <1>4 DEF pipelineVars, P!vars
<1> QED
  BY <1>1, <1>2, <1>3, <1>4
     DEF SysNext, SysEnded, EvictLoop, Shutdown, StopCorrelator, CorrelatorStopped, sysVars,
         P!Finishing

\* Beside the correlator the pipeline behaves as module Pipeline specifies, so that what is
\* proved of it there holds here: events are in one place, and no worker is stopped under.
THEOREM PipelineIsAsSpecified == SysSpec => P!Spec
<1>1. SysInit => P!Init /\ ~crashed
  BY DEF SysInit, P!Init
<1> QED
  BY <1>1, PipelineStep, PTL DEF SysSpec, P!Spec

\* So what is proved of the table alone holds of the table that the workers use.
THEOREM TableOfTheWorkers == SysSpec => []BoundedAge /\ OrphansExplained
BY TableIsUsed, AgeIsBounded, OrphansHaveReasons DEF UsesCorrelator

-----------------------------------------------------------------------------
(* The events that are correlated: module Decode *)

Fields == {"ip", "timestamp", "latency", "policy", "malformed", "id", "flags", "rcode", "question",
           "resource", "edns"}

\* What a part of the message leaves of the fields that an event has
ParsedOver(parsed, wire, event, isQuery) ==
  /\ DOMAIN parsed = Fields
  /\ parsed.ip = event.ip /\ parsed.timestamp = event.timestamp
  /\ parsed.malformed = (event.malformed \/ wire.kind = "malformed")
  /\ parsed.id = IF Readable(wire) THEN wire.id ELSE event.id
  /\ parsed.flags = IF Readable(wire) THEN wire.flags ELSE event.flags
  /\ parsed.rcode = IF Readable(wire) /\ ~isQuery THEN wire.rcode ELSE event.rcode
  /\ parsed.question = IF Readable(wire) /\ wire.questions # <<>>
                       THEN Head(wire.questions) ELSE event.question
  /\ parsed.edns = IF Readable(wire) THEN ParseEDNS(Opt(wire), event.edns) ELSE event.edns

LEMMA PartIsParsed ==
  ASSUME NEW wire, IsWire(wire), NEW isQuery \in BOOLEAN, NEW event, DOMAIN event = Fields,
         event.malformed \in BOOLEAN
  PROVE  ParsedOver(ParsePart(wire, event, isQuery), wire, event, isQuery)
<1> USE DEF ParsedOver
<1>1. CASE wire.kind = "absent"
  BY <1>1 DEF ParsePart, Readable
<1>2. CASE wire.kind = "malformed"
  BY <1>2 DEF ParsePart, ParseDNS, Readable, Fields
<1>3. CASE wire.kind = "dns"
  <2> DEFINE other == [s \in Sections |-> AppendRR(wire.records[s])]
             question == IF wire.questions = <<>> THEN event.question ELSE Head(wire.questions)
             rcode == IF isQuery THEN event.rcode ELSE wire.rcode
             edns == ParseEDNS(Opt(wire), event.edns)
  <2>1. ParsePart(wire, event, isQuery)
          = [event EXCEPT !.id = wire.id, !.flags = wire.flags, !.rcode = rcode,
                          !.question = question, !.resource = other, !.edns = edns]
    BY <1>3 DEF ParsePart, ParseDNS, Fields
  <2> HIDE DEF other, question, rcode, edns
  <2>2. /\ DOMAIN ParsePart(wire, event, isQuery) = Fields
        /\ ParsePart(wire, event, isQuery).ip = event.ip
        /\ ParsePart(wire, event, isQuery).timestamp = event.timestamp
        /\ ParsePart(wire, event, isQuery).malformed = event.malformed
        /\ ParsePart(wire, event, isQuery).id = wire.id
        /\ ParsePart(wire, event, isQuery).flags = wire.flags
        /\ ParsePart(wire, event, isQuery).rcode = rcode
        /\ ParsePart(wire, event, isQuery).question = question
        /\ ParsePart(wire, event, isQuery).edns = edns
    BY <2>1 DEF Fields
  <2> QED
    BY <1>3, <2>2 DEF Readable, question, rcode, edns
<1> QED
  BY <1>1, <1>2, <1>3 DEF IsWire

\* What the decoder makes of both parts, the response over the query
DecodedTo(e, m, at) ==
  LET query == m.query
      response == m.response
      asked == IF Readable(query) THEN ParseEDNS(Opt(query), Blank.edns) ELSE Blank.edns
  IN /\ e.ip = m.ip /\ e.timestamp = at
     /\ e.malformed = (query.kind = "malformed" \/ response.kind = "malformed")
     /\ e.id = IF Readable(response) THEN response.id
               ELSE IF Readable(query) THEN query.id ELSE 0
     /\ e.flags = IF Readable(response) THEN response.flags
                  ELSE IF Readable(query) THEN query.flags ELSE {}
     /\ e.rcode = IF Readable(response) THEN response.rcode ELSE ""
     /\ e.question = IF Readable(response) /\ response.questions # <<>>
                     THEN Head(response.questions)
                     ELSE IF Readable(query) /\ query.questions # <<>>
                     THEN Head(query.questions) ELSE ""
     /\ e.edns = IF Readable(response) THEN ParseEDNS(Opt(response), asked) ELSE asked

LEMMA EventIsDecoded ==
  ASSUME NEW m, IsMessage(m), NEW now
  PROVE  DecodedTo(DecodeToEvent(m, now), m, TimesOf(m, now).timestamp)
<1> DEFINE at == TimesOf(m, now).timestamp
           latency == TimesOf(m, now).latency
           policy == ParseExtra(m.extra)
           blank == [Blank EXCEPT !.ip = m.ip, !.timestamp = at, !.latency = latency,
                                  !.policy = policy]
           half == ParsePart(m.query, blank, TRUE)
           e == DecodeToEvent(m, now)
<1>1. IsWire(m.query) /\ IsWire(m.response)
  BY DEF IsMessage
<1>2. DecodeToEvent(m, now) = ParsePart(m.response, half, FALSE)
  BY DEF DecodeToEvent, BothParts
<1> HIDE DEF at, latency, policy
<1>3. /\ DOMAIN Blank = Fields /\ Blank.malformed = FALSE /\ Blank.id = 0 /\ Blank.flags = {}
      /\ Blank.rcode = "" /\ Blank.question = ""
  BY DEF Blank, Fields
<1>4. /\ DOMAIN blank = Fields /\ blank.ip = m.ip /\ blank.timestamp = at
      /\ blank.malformed = FALSE /\ blank.id = 0 /\ blank.flags = {} /\ blank.rcode = ""
      /\ blank.question = "" /\ blank.edns = Blank.edns
  <2>1. DOMAIN Blank = Fields
    BY <1>3
  <2>2. /\ DOMAIN blank = Fields /\ blank.ip = m.ip /\ blank.timestamp = at
        /\ blank.malformed = Blank.malformed /\ blank.id = Blank.id
        /\ blank.flags = Blank.flags /\ blank.rcode = Blank.rcode
        /\ blank.question = Blank.question /\ blank.edns = Blank.edns
    BY <2>1 DEF Fields
  <2> HIDE DEF blank
  <2> QED
    BY <1>3, <2>2
<1> HIDE DEF blank
<1>5. ParsedOver(half, m.query, blank, TRUE)
  <2>1. DOMAIN blank = Fields /\ blank.malformed \in BOOLEAN
    BY <1>4
  <2> QED
    BY <1>1, <2>1, PartIsParsed DEF half
<1> HIDE DEF half
<1>6. ParsedOver(e, m.response, half, FALSE)
  <2>1. DOMAIN half = Fields /\ half.malformed \in BOOLEAN
    BY <1>5 DEF ParsedOver
  <2>2. e = ParsePart(m.response, half, FALSE)
    BY <1>2
  <2> HIDE DEF e
  <2> QED
    BY <1>1, <2>1, <2>2, PartIsParsed
<1> HIDE DEF e
<1>7. e.ip = m.ip /\ e.timestamp = TimesOf(m, now).timestamp
  BY <1>4, <1>5, <1>6 DEF at, ParsedOver
<1>8. e.malformed = (m.query.kind = "malformed" \/ m.response.kind = "malformed")
  BY <1>4, <1>5, <1>6 DEF ParsedOver
<1>9. e.id = IF Readable(m.response) THEN m.response.id
             ELSE IF Readable(m.query) THEN m.query.id ELSE 0
  BY <1>4, <1>5, <1>6 DEF ParsedOver
<1>10. e.flags = IF Readable(m.response) THEN m.response.flags
                 ELSE IF Readable(m.query) THEN m.query.flags ELSE {}
  BY <1>4, <1>5, <1>6 DEF ParsedOver
<1>11. e.rcode = IF Readable(m.response) THEN m.response.rcode ELSE ""
  BY <1>4, <1>5, <1>6 DEF ParsedOver
<1>12. e.question = IF Readable(m.response) /\ m.response.questions # <<>>
                    THEN Head(m.response.questions)
                    ELSE IF Readable(m.query) /\ m.query.questions # <<>>
                    THEN Head(m.query.questions) ELSE ""
  BY <1>4, <1>5, <1>6 DEF ParsedOver
<1>13. e.edns = LET asked == IF Readable(m.query) THEN ParseEDNS(Opt(m.query), Blank.edns)
                             ELSE Blank.edns
                IN IF Readable(m.response) THEN ParseEDNS(Opt(m.response), asked) ELSE asked
  BY <1>4, <1>5, <1>6 DEF ParsedOver
<1> QED
  BY <1>7, <1>8, <1>9, <1>10, <1>11, <1>12, <1>13 DEF e, DecodedTo

\* What an OPT record leaves of the EDNS fields
EDNSOver(parsed, opt, edns) ==
  /\ opt = <<>> => parsed = edns
  /\ \A o : opt = <<o>> =>
       /\ parsed.version = o.version /\ parsed.dnssecOK = o.dnssecOK
       /\ parsed.options = edns.options \o o.options
       /\ parsed.subnet = IF Subnets(o) = <<>> THEN edns.subnet ELSE Last(Subnets(o)).value

LEMMA EDNSIsParsed == ASSUME NEW opt, NEW edns PROVE EDNSOver(ParseEDNS(opt, edns), opt, edns)
<1>1. ASSUME NEW o, opt = <<o>>
      PROVE  /\ ParseEDNS(opt, edns).version = o.version
             /\ ParseEDNS(opt, edns).dnssecOK = o.dnssecOK
             /\ ParseEDNS(opt, edns).options = edns.options \o o.options
             /\ ParseEDNS(opt, edns).subnet
                  = IF Subnets(o) = <<>> THEN edns.subnet ELSE Last(Subnets(o)).value
  <2>1. opt # <<>> /\ opt[1] = o
    BY <1>1
  <2> DEFINE version == o.version
             subnet == IF Subnets(o) = <<>> THEN edns.subnet ELSE Last(Subnets(o)).value
             options == edns.options \o o.options
  <2>2. ParseEDNS(opt, edns) = [version |-> version, dnssecOK |-> o.dnssecOK, subnet |-> subnet,
                                options |-> options]
    BY <2>1 DEF ParseEDNS
  <2> HIDE DEF version, subnet, options
  <2>3. /\ ParseEDNS(opt, edns).version = version
        /\ ParseEDNS(opt, edns).dnssecOK = o.dnssecOK
        /\ ParseEDNS(opt, edns).options = options
        /\ ParseEDNS(opt, edns).subnet = subnet
    BY <2>2
  <2> QED
    BY <2>3 DEF version, options, subnet
<1>2. opt = <<>> => ParseEDNS(opt, edns) = edns
  BY DEF ParseEDNS
<1> QED
  BY <1>1, <1>2 DEF EDNSOver

\* Whatever the message, its event is what its parts say.
LEMMA EventsAreAsSent ==
  ASSUME NEW m, IsMessage(m)
  PROVE  DecodedAsSent(m)
<1> DEFINE e == DecodeToEvent(m, 1)
<1>0. DecodedTo(e, m, TimesOf(m, 1).timestamp)
  BY EventIsDecoded
<1>1. KindIsThatOfTheLastReadable(m)
  <2> HIDE DEF e
  <2>1. ("QR" \in e.flags) = LET last == IF Readable(m.response) THEN m.response ELSE m.query
                             IN Readable(last) /\ "QR" \in last.flags
    <3>1. e.flags = IF Readable(m.response) THEN m.response.flags
                    ELSE IF Readable(m.query) THEN m.query.flags ELSE {}
      BY <1>0 DEF DecodedTo
    <3>2. CASE Readable(m.response)
      BY <3>1, <3>2
    <3>3. CASE ~Readable(m.response) /\ Readable(m.query)
      BY <3>1, <3>3
    <3>4. CASE ~Readable(m.response) /\ ~Readable(m.query)
      BY <3>1, <3>4
    <3> QED
      BY <3>2, <3>3, <3>4
  <2>2. e.id = LET last == IF Readable(m.response) THEN m.response ELSE m.query
               IN IF Readable(last) THEN last.id ELSE 0
    BY <1>0 DEF DecodedTo
  <2>3. e.malformed = ("malformed" \in {m.query.kind, m.response.kind})
    <3>1. e.malformed = (m.query.kind = "malformed" \/ m.response.kind = "malformed")
      BY <1>0 DEF DecodedTo
    <3>2. "malformed" \in {m.query.kind, m.response.kind}
            <=> m.query.kind = "malformed" \/ m.response.kind = "malformed"
      OBVIOUS
    <3> QED
      BY <3>1, <3>2
  <2> QED
    BY <2>1, <2>2, <2>3 DEF KindIsThatOfTheLastReadable, e
<1>2. ResponseAndQuestionBelong(m)
  <2> DEFINE askedOf(w) == IF Readable(w) /\ w.questions # <<>> THEN {w.questions[1]} ELSE {}
  <2>1. ASSUME NEW wire, IsWire(wire), Readable(wire), wire.questions # <<>>
        PROVE  Head(wire.questions) = wire.questions[1]
    BY <2>1 DEF IsWire
  <2>2. IsWire(m.query) /\ IsWire(m.response)
    BY DEF IsMessage
  <2> HIDE DEF e
  <2>3. e.rcode = IF Readable(m.response) THEN m.response.rcode ELSE ""
    BY <1>0 DEF DecodedTo
  <2>4. e.question \in IF askedOf(m.response) # {} THEN askedOf(m.response)
                       ELSE IF askedOf(m.query) # {} THEN askedOf(m.query) ELSE {""}
    BY <1>0, <2>1, <2>2 DEF DecodedTo
  <2> QED
    BY <2>3, <2>4 DEF ResponseAndQuestionBelong, e
<1>3. EDNSIsOfBothParts(m)
  <2> DEFINE asked == IF Readable(m.query) THEN Opt(m.query) ELSE <<>>
             answered == IF Readable(m.response) THEN Opt(m.response) ELSE <<>>
             OptionsOf(opt) == IF opt = <<>> THEN <<>> ELSE opt[1].options
             SubnetsOf(opt) == IF opt = <<>> THEN <<>> ELSE Subnets(opt[1])
             both == asked \o answered
             Options == Seq([code : STRING, value : STRING])
  <2>1. e.edns = ParseEDNS(answered, ParseEDNS(asked, Blank.edns))
    BY <1>0 DEF DecodedTo, ParseEDNS
  <2>2. ASSUME NEW wire, IsWire(wire)
        PROVE  LET opt == IF Readable(wire) THEN Opt(wire) ELSE <<>>
               IN opt = <<>> \/ \E o : opt = <<o>> /\ o.options \in Options
    <3>1. CASE Readable(wire) /\ Opt(wire) # <<>>
      <4>1. PICK o : Opt(wire) = <<o>>
        BY <3>1 DEF Opt
      <4>2. o \in Range(Opt(wire))
        BY <4>1 DEF Range
      <4> QED
        BY <2>2, <3>1, <4>1, <4>2 DEF IsWire
    <3> QED
      BY <3>1
  <2>3. asked = <<>> \/ \E o : asked = <<o>> /\ o.options \in Options
    BY <2>2 DEF IsMessage
  <2>4. answered = <<>> \/ \E o : answered = <<o>> /\ o.options \in Options
    BY <2>2 DEF IsMessage
  <2>5. /\ Blank.edns.options = <<>> /\ Blank.edns.dnssecOK = FALSE
        /\ Blank.edns.version = 0 /\ Blank.edns.subnet = ""
    BY DEF Blank
  <2> DEFINE none == Blank.edns
             half == ParseEDNS(asked, none)
             whole == ParseEDNS(answered, half)
  <2> HIDE DEF asked, answered, none
  <2>6. EDNSOver(half, asked, none)
    BY EDNSIsParsed
  <2> HIDE DEF half
  <2>7. EDNSOver(whole, answered, half)
    BY EDNSIsParsed
  <2>8. /\ e.edns = whole /\ none.options = <<>> /\ none.dnssecOK = FALSE
        /\ none.version = 0 /\ none.subnet = ""
    BY <2>1, <2>5 DEF half, none
  <2> HIDE DEF e, whole
  <2>9. /\ e.edns.version = IF both = <<>> THEN 0 ELSE Last(both).version
        /\ e.edns.dnssecOK = IF both = <<>> THEN FALSE ELSE Last(both).dnssecOK
        /\ e.edns.options = OptionsOf(asked) \o OptionsOf(answered)
    <3>1. CASE asked = <<>> /\ answered = <<>>
      <4>1. e.edns = none
        BY <2>6, <2>7, <2>8, <3>1 DEF EDNSOver
      <4>2. both = <<>> /\ OptionsOf(asked) = <<>> /\ OptionsOf(answered) = <<>>
        BY <3>1
      <4>3. <<>> \o <<>> = <<>>
        OBVIOUS
      <4> QED
        BY <2>8, <4>1, <4>2, <4>3
    <3>2. ASSUME NEW o, asked = <<o>>, o.options \in Options, answered = <<>>
          PROVE  /\ e.edns.version = IF both = <<>> THEN 0 ELSE Last(both).version
                 /\ e.edns.dnssecOK = IF both = <<>> THEN FALSE ELSE Last(both).dnssecOK
                 /\ e.edns.options = OptionsOf(asked) \o OptionsOf(answered)
      <4>1. both # <<>> /\ Last(both) = o
        BY <3>2 DEF Last
      <4>2. /\ e.edns.version = o.version /\ e.edns.dnssecOK = o.dnssecOK
            /\ e.edns.options = <<>> \o o.options
        BY <2>6, <2>7, <2>8, <3>2 DEF EDNSOver
      <4>3. OptionsOf(asked) = o.options /\ OptionsOf(answered) = <<>>
        BY <3>2
      <4>4. <<>> \o o.options = o.options /\ o.options \o <<>> = o.options
        BY <3>2
      <4> QED
        BY <4>1, <4>2, <4>3, <4>4
    <3>3. ASSUME NEW o, answered = <<o>>, o.options \in Options, asked = <<>>
          PROVE  /\ e.edns.version = IF both = <<>> THEN 0 ELSE Last(both).version
                 /\ e.edns.dnssecOK = IF both = <<>> THEN FALSE ELSE Last(both).dnssecOK
                 /\ e.edns.options = OptionsOf(asked) \o OptionsOf(answered)
      <4>1. both # <<>> /\ Last(both) = o
        BY <3>3 DEF Last
      <4>2. /\ e.edns.version = o.version /\ e.edns.dnssecOK = o.dnssecOK
            /\ e.edns.options = <<>> \o o.options
        BY <2>6, <2>7, <2>8, <3>3 DEF EDNSOver
      <4>3. OptionsOf(asked) = <<>> /\ OptionsOf(answered) = o.options
        BY <3>3
      <4> QED
        BY <4>1, <4>2, <4>3
    <3>4. ASSUME NEW o, NEW p, asked = <<o>>, answered = <<p>>,
                 o.options \in Options, p.options \in Options
          PROVE  /\ e.edns.version = IF both = <<>> THEN 0 ELSE Last(both).version
                 /\ e.edns.dnssecOK = IF both = <<>> THEN FALSE ELSE Last(both).dnssecOK
                 /\ e.edns.options = OptionsOf(asked) \o OptionsOf(answered)
      <4>1. both # <<>> /\ Last(both) = p
        BY <3>4 DEF Last
      <4>2. half.options = none.options \o o.options
        BY <2>6, <3>4 DEF EDNSOver
      <4>3. /\ whole.version = p.version /\ whole.dnssecOK = p.dnssecOK
            /\ whole.options = half.options \o p.options
        BY <2>7, <3>4 DEF EDNSOver
      <4>4. OptionsOf(asked) = o.options /\ OptionsOf(answered) = p.options
        BY <3>4
      <4>5. <<>> \o o.options = o.options
        BY <3>4
      <4> QED
        BY <2>8, <4>1, <4>2, <4>4, <4>5, <4>3
    <3> QED
      BY <2>3, <2>4, <3>1, <3>2, <3>3, <3>4
  <2>10. e.edns.subnet = IF SubnetsOf(answered) # <<>> THEN Last(SubnetsOf(answered)).value
                         ELSE IF SubnetsOf(asked) # <<>> THEN Last(SubnetsOf(asked)).value
                         ELSE ""
    <3>1. ASSUME NEW opt, NEW parsed, NEW edns, EDNSOver(parsed, opt, edns),
                 opt = <<>> \/ \E o : opt = <<o>> /\ o.options \in Options
          PROVE  parsed.subnet = IF SubnetsOf(opt) # <<>> THEN Last(SubnetsOf(opt)).value
                                 ELSE edns.subnet
      <4>1. CASE opt = <<>>
        BY <3>1, <4>1 DEF EDNSOver
      <4>2. ASSUME NEW o, opt = <<o>>
            PROVE  parsed.subnet = IF SubnetsOf(opt) # <<>> THEN Last(SubnetsOf(opt)).value
                                   ELSE edns.subnet
        <5>1. opt # <<>> /\ opt[1] = o
          BY <4>2
        <5>2. SubnetsOf(opt) = Subnets(o)
          BY <5>1
        <5>3. parsed.subnet = IF Subnets(o) = <<>> THEN edns.subnet
                              ELSE Last(Subnets(o)).value
          BY <3>1, <4>2 DEF EDNSOver
        <5> HIDE DEF SubnetsOf
        <5> QED
          BY <5>2, <5>3
      <4> QED
        BY <3>1, <4>1, <4>2
    <3> HIDE DEF SubnetsOf
    <3>2. half.subnet = IF SubnetsOf(asked) # <<>> THEN Last(SubnetsOf(asked)).value
                        ELSE none.subnet
      BY <2>3, <2>6, <3>1
    <3>3. whole.subnet = IF SubnetsOf(answered) # <<>> THEN Last(SubnetsOf(answered)).value
                         ELSE half.subnet
      BY <2>4, <2>7, <3>1
    <3> QED
      BY <2>8, <3>2, <3>3
  <2> QED
    BY <2>9, <2>10 DEF EDNSIsOfBothParts, e, asked, answered
<1>4. TimeIsOfTheMessage(m)
  <2>1. \A now : DecodeToEvent(m, now).timestamp = TimesOf(m, now).timestamp
    BY EventIsDecoded DEF DecodedTo
  <2>2. m.queryTime \in Nat /\ m.responseTime \in Nat
    BY DEF IsMessage
  <2> QED
    BY <2>1, <2>2 DEF TimeIsOfTheMessage, TimesOf
<1> QED
  BY <1>1, <1>2, <1>3, <1>4 DEF DecodedAsSent

-----------------------------------------------------------------------------
\* Every message is decoded as it was sent, over all combinations of its parts: a part
\* that cannot be read changes nothing but the mark of a malformed message, and of the
\* EDNS fields all are those of the last OPT record, but the options, which are those of
\* both, and the subnet, which stays the query's unless the response names one.
THEOREM MessagesAreDecoded == AllDecodedAsSent
BY EventsAreAsSent, CorrelationAssumption DEF AllDecodedAsSent

\* The query and the response of a pair are of one client and id, and are what the two
\* messages say, over all that may happen between them, if no message is mislabelled.
THEOREM PairsFollowMessages == LabelledTruly => (SysSpec => []PairsAreAsSent)
<1> SUFFICES ASSUME LabelledTruly PROVE SysSpec => []PairsAreAsSent
  OBVIOUS
<1>1. CorrelatorInv => PairsAreAsSent
  <2> SUFFICES ASSUME CorrelatorInv, NEW r \in Responses, matched[r] # NoQuery
               PROVE  LET asked == Message[matched[r]]
                          answered == Message[r]
                          last == IF Readable(asked.query) THEN asked.query ELSE asked.response
                      IN /\ Readable(answered.response) /\ ~Readable(asked.response)
                         /\ asked.ip = answered.ip
                         /\ answered.response.id = IF Readable(last) THEN last.id ELSE 0
    BY MessagesAreDecoded DEF PairsAreAsSent
  <2> DEFINE q == matched[r]
             asked == Message[q]
             answered == Message[r]
  <2>1. q \in Queries /\ Key[q] = Key[r] /\ r \in Events /\ q \in Events /\ q \notin Responses
    BY CorrelatorAssumption DEF CorrelatorInv, TypeOK, TableIsConsistent, Events
  <2>2. asked \in Messages /\ answered \in Messages /\ IsMessage(asked) /\ IsMessage(answered)
    BY <2>1, CorrelationAssumption
  <2> DEFINE e == DecodeToEvent(asked, 1)
             f == DecodeToEvent(answered, 1)
  <2>3. "QR" \notin e.flags /\ "QR" \in f.flags /\ e.ip = f.ip /\ e.id = f.id
    BY <2>1, CorrelationAssumption
  <2>4. DecodedTo(e, asked, TimesOf(asked, 1).timestamp)
        /\ DecodedTo(f, answered, TimesOf(answered, 1).timestamp)
    BY <2>2, EventIsDecoded
  <2> HIDE DEF asked, answered, e, f
  <2>5. Readable(answered.response) /\ ~Readable(asked.response)
    <3>1. /\ Readable(asked.response) => "QR" \in asked.response.flags
          /\ Readable(answered.query) => "QR" \notin answered.query.flags
      BY <2>1 DEF LabelledTruly, asked, answered
    <3> QED
      BY <2>3, <2>4, <3>1 DEF DecodedTo
  <2>6. asked.ip = answered.ip
    BY <2>3, <2>4 DEF DecodedTo
  <2>7. answered.response.id = IF Readable(asked.query) THEN asked.query.id ELSE 0
    BY <2>3, <2>4, <2>5 DEF DecodedTo
  <2> QED
    BY <2>5, <2>6, <2>7 DEF asked, answered
<1> QED
  BY <1>1, SysInvariance, PTL
=============================================================================
