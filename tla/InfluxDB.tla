------------------------------ MODULE InfluxDB -------------------------------
(***************************************************************************)
(* The InfluxDB v1 output of internal/adapter/outbound/influxdb/writer.go: *)
(* Migrate, which creates the database when it seems to be missing, and     *)
(* Write, one request per event.  The writer itself keeps no state.         *)
(*                                                                         *)
(* main passes no RetentionDays (main.go:178), so that Migrate never gets   *)
(* to applyRetentionPolicy, and never calls Close.                          *)
(***************************************************************************)
EXTENDS InfluxServer

CONSTANTS
  Names,       \* other databases the server may have
  Database,    \* cfg.Database
  Containing   \* the names that have Database as a part, itself included

DatabaseParameters ==
  /\ ServerParameters
  /\ Database \in Containing /\ Containing \subseteq Names \cup {Database}

VARIABLE databases   \* those it has

vars == <<serverVars, databases>>

TypeOK == ServerTypeOK /\ databases \subseteq Names \cup {Database}

Init == ServerInit /\ databases \in SUBSET Names

\* toLineProtocol.  Events carry the time of their message, or of its decoding, and
\* so the present is never used.
LineProtocol(e, now) ==
  [series |-> Series[e], at |-> IF Stamp[e] = 0 THEN now ELSE Stamp[e],
   event |-> e, policy |-> IF e \in Policy THEN e ELSE NoEvent]

\* dbExists: the name appears anywhere in the answer to SHOW DATABASES.
Exists == databases \cap Containing # {}

\* SHOW DATABASES may go without an answer that names it, and nobody looks at what is
\* answered to CREATE DATABASE.
Migrate ==
  /\ \/ Exists /\ UNCHANGED databases
     \/ /\ ~Exists \/ Faults # {}
        /\ databases' \in {databases \cup {Database}} \cup
                          (IF Faults \cap {"down", "status"} = {} THEN {} ELSE {databases})
  /\ UNCHANGED serverVars

Write(e, now, ok) ==
  /\ Post(LineProtocol(e, now), Database \in databases, ok)
  /\ UNCHANGED databases
=============================================================================
