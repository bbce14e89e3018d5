----------------------------- MODULE EventRelay -----------------------------
(***************************************************************************)
(* What a stage of dns-flow promises to the stage in front of it.  The     *)
(* collector pipeline (pipeline.go), the Kafka producer (producer.go) and  *)
(* the ClickHouse writer are such stages: a bounded queue, goroutines that *)
(* drain it, and an orderly teardown.  An event offered to a stage is      *)
(* refused at once or accepted; an accepted event is relayed to the next   *)
(* stage, or reported as failed; whatever is still accepted when the stage *)
(* has come to rest is abandoned in that one step.  Nothing is relayed     *)
(* before it has been accepted, twice, or after the stage has come to rest.*)
(***************************************************************************)
EXTENDS Naturals

CONSTANTS
  Events,      \* the events that may be offered
  MayReport    \* whether this stage can give up on an event while it runs

VARIABLES
  status,      \* what has become of each event
  mode         \* "open", then "draining", then "closed"

vars == <<status, mode>>

Status == {"new", "refused", "accepted", "relayed", "reported", "abandoned"}

With(s) == {e \in Events : status[e] = s}

Move(S, s) == status' = [e \in Events |-> IF e \in S THEN s ELSE status[e]]

TypeOK ==
  /\ status \in [Events -> Status]
  /\ mode \in {"open", "draining", "closed"}

Init ==
  /\ status = [e \in Events |-> "new"]
  /\ mode = "open"

-----------------------------------------------------------------------------
Refuse(e) ==
  /\ status[e] = "new"
  /\ Move({e}, "refused")
  /\ UNCHANGED mode

Accept(e) ==
  /\ mode # "closed"
  /\ status[e] = "new"
  /\ Move({e}, "accepted")
  /\ UNCHANGED mode

Relay(S) ==
  /\ mode # "closed"
  /\ S # {}
  /\ Move(S, "relayed")
  /\ UNCHANGED mode

Report(S) ==
  /\ MayReport
  /\ mode # "closed"
  /\ S # {}
  /\ Move(S, "reported")
  /\ UNCHANGED mode

Drain ==
  /\ mode = "open"
  /\ mode' = "draining"
  /\ UNCHANGED status

\* The stage has drained, or its process has ended.
Finish ==
  /\ mode # "closed"
  /\ mode' = "closed"
  /\ Move(With("accepted"), "abandoned")

Next ==
  \/ \E e \in Events : Refuse(e) \/ Accept(e)
  \/ \E S \in SUBSET With("accepted") : Relay(S) \/ Report(S)
  \/ Drain
  \/ Finish

Spec == Init /\ [][Next]_vars
=============================================================================
