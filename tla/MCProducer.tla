----------------------------- MODULE MCProducer -----------------------------
(* Instances of the producer for TLC. *)
EXTENDS Producer

CONSTANTS e1, e2, e3, bad, p1, p2

MCEvents == {e1, e2, e3, bad}
MCPartitions == {p1, p2}
MCPartition == [e \in MCEvents |-> IF e = e2 THEN p2 ELSE p1]
MCUnencodable == {bad}
=============================================================================
