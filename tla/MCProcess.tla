----------------------------- MODULE MCProcess ------------------------------
(* Instances of the process for TLC: two messages of one series and one instant, *)
(* the first with policy fields; a valid configuration and faulty ones.           *)
EXTENDS Process

MCStorages == <<"influxdb", "influxdb_v2">>
MCConfigs ==
  {[valid |-> TRUE, flushInterval |-> 1, precision |-> "ns"],
   [valid |-> TRUE, flushInterval |-> 0, precision |-> "s"],
   [valid |-> FALSE, flushInterval |-> 1, precision |-> "ns"]}
MCSeries == [m \in 1..N |-> "dns_query"]
MCStamp == [m \in 1..N |-> 10]
MCPolicy == {1}
=============================================================================
