------------------------- MODULE MCClickHouseWriter -------------------------
(* Instances of the ClickHouse writer for TLC: N events that are handed over, those after *)
(* the first Messages ones again from the beginning of the topic.                         *)
EXTENDS ClickHouseWriter

CONSTANTS N, Messages

MCEvents == 1..N
MCOffset == [e \in MCEvents |-> ((e - 1) % Messages) + 1]
=============================================================================
