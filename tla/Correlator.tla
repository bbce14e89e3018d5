----------------------------- MODULE Correlator -----------------------------
(***************************************************************************)
(* QueryCorrelator of internal/usecase/correlator.go: a table of the       *)
(* queries that wait for their response, keyed by client address and DNS   *)
(* id.  The pipeline's workers call Store and Lookup, an eviction          *)
(* goroutine sweeps the table on a ticker, and Shutdown stops it.  Every   *)
(* method runs under qc.mu, so each is one action.                         *)
(*                                                                         *)
(* Time passes in steps.  The table only ever compares the age of an entry *)
(* with the ttl, so ages are kept instead of instants, and stop growing    *)
(* one step beyond the largest value anything is compared with.            *)
(***************************************************************************)
EXTENDS Naturals

CONSTANTS
  Queries,     \* events with QR clear, each stored at most once
  Responses,   \* events with QR set, each looked up at most once
  Keys,        \* the "ip:id" strings
  Key,         \* the key of each event
  Answers,     \* the query that each response answers
  NoQuery,     \* no entry under a key
  TTL,         \* qc.ttl, 30 s, in steps
  Period       \* the ticker of evictLoop, 10 s, in steps

ASSUME CorrelatorAssumption ==
  /\ Queries \cap Responses = {}
  /\ Key \in [Queries \cup Responses -> Keys]
  /\ Answers \in [Responses -> Queries]
  /\ \A r \in Responses : Key[r] = Key[Answers[r]]
  /\ NoQuery \notin Queries
  /\ TTL \in Nat /\ Period \in Nat \ {0}

VARIABLES
  entries,     \* qc.entries
  age,         \* time since StoredAt, of the entry under each key
  sinceTick,   \* time since the ticker last fired
  loop,        \* evictLoop: "running", "stopping" once done is closed, "stopped"
  fate,        \* what has become of each query
  waited,      \* time since each query was stored, while it has not been resolved
  matched,     \* responses paired with an entry, and the entry's query
  orphaned     \* responses that found no entry

vars == <<entries, age, sinceTick, loop, fate, waited, matched, orphaned>>

Oldest == TTL + Period + 1   \* where ages stop growing

Fates == {"unseen", "waiting", "matched", "evicted", "overwritten"}

TypeOK ==
  /\ entries \in [Keys -> Queries \cup {NoQuery}]
  /\ age \in [Keys -> 0..Oldest]
  /\ sinceTick \in 0..Period
  /\ loop \in {"running", "stopping", "stopped"}
  /\ fate \in [Queries -> Fates]
  /\ waited \in [Queries -> 0..Oldest]
  /\ matched \in [Responses -> Queries \cup {NoQuery}]
  /\ orphaned \subseteq Responses

\* Start has launched evictLoop on an empty table.
Init ==
  /\ entries = [k \in Keys |-> NoQuery]
  /\ age = [k \in Keys |-> 0]
  /\ sinceTick = 0
  /\ loop = "running"
  /\ fate = [q \in Queries |-> "unseen"]
  /\ waited = [q \in Queries |-> 0]
  /\ matched = [r \in Responses |-> NoQuery]
  /\ orphaned = {}

-----------------------------------------------------------------------------
\* The query under a key gives way to one just stored there, which it may not
\* find: the assignment to the map is unconditional.
Displaced(q) == {p \in Queries : entries[Key[q]] = p}

StoreWith(q, since) ==
  /\ fate[q] = "unseen"
  /\ entries' = [entries EXCEPT ![Key[q]] = q]
  /\ age' = [age EXCEPT ![Key[q]] = since]
  /\ fate' = [p \in Queries |-> IF p = q THEN "waiting"
                                ELSE IF p \in Displaced(q) THEN "overwritten"
                                ELSE fate[p]]
  /\ UNCHANGED <<sinceTick, loop, waited, matched, orphaned>>

StoreKeepsStoredAt(q) ==   \* mutant of Store: a present entry keeps its time
  StoreWith(q, IF Displaced(q) = {} THEN 0 ELSE age[Key[q]])

\* StoredAt is now.
Store(q) == StoreWith(q, 0)

NotLookedUp(r) == matched[r] = NoQuery /\ r \notin orphaned

\* The entry is deleted and true returned even when the questions differ: the
\* mismatch is only logged.
LookupFound(r) ==
  /\ NotLookedUp(r)
  /\ entries[Key[r]] # NoQuery
  /\ matched' = [matched EXCEPT ![r] = entries[Key[r]]]
  /\ fate' = [fate EXCEPT ![entries[Key[r]]] = "matched"]
  /\ entries' = [entries EXCEPT ![Key[r]] = NoQuery]
  /\ UNCHANGED <<age, sinceTick, loop, waited, orphaned>>

LookupMissing(r) ==
  /\ NotLookedUp(r)
  /\ entries[Key[r]] = NoQuery
  /\ orphaned' = orphaned \cup {r}
  /\ UNCHANGED <<entries, age, sinceTick, loop, fate, waited, matched>>

Lookup(r) == LookupFound(r) \/ LookupMissing(r)

-----------------------------------------------------------------------------
(* evictLoop *)

\* now.Sub(entry.StoredAt) > limit
Expired(k, limit) == entries[k] # NoQuery /\ age[k] > limit

\* Entries are removed, and reported as unanswered.
Sweep(limit, fates) ==
  /\ entries' = [k \in Keys |-> IF Expired(k, limit) THEN NoQuery ELSE entries[k]]
  /\ fate' = fates
  /\ UNCHANGED <<age, waited, matched, orphaned>>

Reported(limit) ==
  [q \in Queries |-> IF \E k \in Keys : Expired(k, limit) /\ entries[k] = q
                     THEN "evicted" ELSE fate[q]]

\* mutant of Evict: a period late
EvictLate == Sweep(TTL + Period, Reported(TTL + Period))

EvictUncounted == Sweep(TTL, fate)   \* mutant of Evict: removes without a report

Evict == Sweep(TTL, Reported(TTL))

\* case <-ticker.C; also taken when done is closed and a tick is pending
Tick ==
  /\ loop # "stopped"
  /\ sinceTick = Period
  /\ sinceTick' = 0
  /\ Evict
  /\ UNCHANGED loop

\* close(qc.done)
BeginStop ==
  /\ loop = "running"
  /\ loop' = "stopping"
  /\ UNCHANGED <<entries, age, sinceTick, fate, waited, matched, orphaned>>

\* case <-qc.done
EndLoop ==
  /\ loop = "stopping"
  /\ loop' = "stopped"
  /\ UNCHANGED <<entries, age, sinceTick, fate, waited, matched, orphaned>>

Older(n) == IF n < Oldest THEN n + 1 ELSE n

\* A tick is served before more time passes: the goroutine is not starved for
\* longer than a step.
TimePasses ==
  /\ loop # "stopped" /\ sinceTick < Period
  /\ sinceTick' = sinceTick + 1
  /\ age' = [k \in Keys |-> IF entries[k] = NoQuery THEN age[k] ELSE Older(age[k])]
  /\ waited' = [q \in Queries |-> IF fate[q] \in {"waiting", "overwritten"}
                                  THEN Older(waited[q]) ELSE waited[q]]
  /\ UNCHANGED <<entries, loop, fate, matched, orphaned>>

-----------------------------------------------------------------------------
Ended == loop = "stopped" /\ UNCHANGED vars

\* Shutdown stops the correlator after its last worker has exited, so nobody
\* stores or looks up once the loop is stopping (see Correlation).
Next ==
  \/ loop = "running" /\ \E q \in Queries : Store(q)
  \/ loop = "running" /\ \E r \in Responses : Lookup(r)
  \/ Tick \/ BeginStop \/ EndLoop \/ TimePasses
  \/ Ended

Spec == Init /\ [][Next]_vars

-----------------------------------------------------------------------------
(* Properties *)

\* The table and the history of every query agree: a query waits exactly while
\* it is the entry under its key, so no query is in the table twice, under a
\* wrong key, or after it has been matched, evicted or displaced; and responses
\* and matched queries pair off one to one, under one key.
TableIsConsistent ==
  /\ \A q \in Queries : fate[q] = "waiting" <=> entries[Key[q]] = q
  /\ \A k \in Keys : entries[k] # NoQuery => Key[entries[k]] = k
  /\ \A q \in Queries : fate[q] = "matched" <=> \E r \in Responses : matched[r] = q
  /\ \A r, s \in Responses : matched[r] = matched[s] /\ matched[r] # NoQuery => r = s
  /\ \A r \in Responses : matched[r] # NoQuery => Key[matched[r]] = Key[r]

\* The age the table computes is the time its entry has waited, also for a key
\* that has been used before.
AgeIsOwn == \A q \in Queries : fate[q] = "waiting" => age[Key[q]] = waited[q]

\* Time is counted from the Store on, and what a sweep has left in the table is at
\* most the ttl old and grows no older than the ticker since.
AgesWithTheTicker ==
  /\ \A q \in Queries : fate[q] = "unseen" => waited[q] = 0
  /\ \A q \in Queries : fate[q] = "waiting" => waited[q] <= TTL + sinceTick

\* All three, with the types: what the eviction loop judges by is true of its queries.
\* The inductive invariant on which the proofs of CorrelationProofs rest.
CorrelatorInv == TypeOK /\ TableIsConsistent /\ AgeIsOwn /\ AgesWithTheTicker

\* While the loop runs, no query stays in the table for longer than the ttl and
\* one period of the ticker: the table does not grow without a bound on age.
BoundedAge ==
  loop = "running" => \A q \in Queries : fate[q] = "waiting" => waited[q] <= TTL + Period

\* A response is called orphaned only if its query was not stored before it, was
\* displaced by a query of the same client and id, expired, or had been paired
\* with another response of the same client and id.
OrphansExplained ==
  [][\A r \in orphaned' \ orphaned :
       \/ fate[Answers[r]] = "unseen"
       \/ fate[Answers[r]] \in {"overwritten", "evicted"}
       \/ \E s \in Responses \ {r} : matched[s] = Answers[r]]_vars
=============================================================================
