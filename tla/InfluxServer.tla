---------------------------- MODULE InfluxServer -----------------------------
(***************************************************************************)
(* External: a database or bucket of an InfluxDB server, as the two writers *)
(* of internal/adapter/outbound use it.  A point is identified by its       *)
(* series, which is the measurement and the tags, and its instant.  A line  *)
(* with the series and the instant of a point is merged into it: its fields *)
(* replace those of the same name, and the other fields stay.               *)
(***************************************************************************)
EXTENDS Naturals

CONSTANTS
  Events,     \* the events that may be written
  Series,     \* of each event: its tags
  Stamp,      \* of each event: its timestamp, in nanoseconds
  Policy,     \* the events with a policy, a http protocol or an extra field
  NoEvent,    \* where a point has no policy fields
  Faults      \* "down": no connection; "status": an answer of 300 or more;
              \* "unanswered": the line is stored and the answer does not arrive

ServerParameters ==   \* assumed where the module is instantiated
  /\ Stamp \in [Events -> Nat \ {0}] /\ Policy \subseteq Events /\ NoEvent \notin Events
  /\ Faults \subseteq {"down", "status", "unanswered"}

VARIABLES
  points,     \* the points, each with the event its fields are of, and its policy fields
  rejected    \* the events whose line the server has answered with an error

serverVars == <<points, rejected>>

ServerTypeOK ==
  /\ \A p \in points : /\ p.at \in Nat /\ p.event \in Events
                       /\ p.policy \in Policy \cup {NoEvent}
  /\ rejected \subseteq Events

ServerInit == points = {} /\ rejected = {}

Same(p, q) == p.series = q.series /\ p.at = q.at

Merged(line) ==
  LET old == {p \in points : Same(p, line)}
      kept == {p.policy : p \in old} \ {NoEvent}
  IN (points \ old) \cup
       {[line EXCEPT !.policy = IF @ = NoEvent /\ kept # {} THEN CHOOSE e \in kept : TRUE ELSE @]}

\* A line is posted.  An answer that says no is logged by the writers, and counts
\* as a success for them (ok): only a request without an answer is an error.
Post(line, accepts, ok) ==
  \/ ok /\ accepts /\ points' = Merged(line) /\ UNCHANGED rejected
  \/ /\ ok /\ (~accepts \/ "status" \in Faults)
     /\ rejected' = rejected \cup {line.event}
     /\ UNCHANGED points
  \/ ~ok /\ "down" \in Faults /\ UNCHANGED serverVars
  \/ ~ok /\ "unanswered" \in Faults /\ accepts /\ points' = Merged(line) /\ UNCHANGED rejected

-----------------------------------------------------------------------------
(* Properties, for the writers' events *)

\* A point carries the tags and the instant of the event that wrote it last.
PointsAreTheirs == \A p \in points : p.series = Series[p.event] /\ p.at = Stamp[p.event]

\* However often an event is written, there is one point of it, because its instant
\* is that of the DNS message and not that of the write.
OnePointPerEvent == \A p, q \in points : p.event = q.event \/ Same(p, q) => p = q

\* The policy fields of a point are its event's, or those of another event with the
\* same series and instant that wrote the point before.
PolicyIsExplained ==
  \A p \in points : p.policy \in {p.event, NoEvent} \/
    (Series[p.policy] = p.series /\ Stamp[p.policy] = p.at /\ p.event \notin Policy)

\* The event is in the database, or has given way to another event of the same
\* series and instant.
Stored(e) == \E p \in points : p.series = Series[e] /\ p.at = Stamp[e]
=============================================================================
