----------------------------- MODULE InfluxDBv2 ------------------------------
(***************************************************************************)
(* The InfluxDB v2 output of internal/adapter/outbound/influxdb_v2/        *)
(* writer.go: Write, one request per event.  Migrate creates no bucket; it  *)
(* patches the retention rules of one that is there, ignores every error,   *)
(* and changes nothing that a Write depends on.                             *)
(*                                                                         *)
(* main passes no RetentionDays (main.go:190), so that the rules Migrate    *)
(* sends are always null, and never calls Close.                            *)
(***************************************************************************)
EXTENDS InfluxServer

CONSTANT Bucket   \* the bucket is there; the operator's business

BucketParameters == ServerParameters /\ Bucket \in BOOLEAN

LineProtocolNow(e, now) ==   \* mutant of LineProtocol: stamped when it is written
  [series |-> Series[e], at |-> now,
   event |-> e, policy |-> IF e \in Policy THEN e ELSE NoEvent]

\* toLineProtocol, as in InfluxDB
LineProtocol(e, now) ==
  [series |-> Series[e], at |-> IF Stamp[e] = 0 THEN now ELSE Stamp[e],
   event |-> e, policy |-> IF e \in Policy THEN e ELSE NoEvent]

\* Lines always carry nanoseconds.  The server takes them for the unit that the
\* configuration names, and refuses instants beyond its range.
InRange(precision) == precision \in {"", "ns"}

Write(e, now, precision, ok) ==
  Post(LineProtocol(e, now), Bucket /\ InRange(precision), ok)
=============================================================================
