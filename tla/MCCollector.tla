---------------------------- MODULE MCCollector -----------------------------
(* Instances of the collector for TLC: frames of one qname, one of them       *)
(* without a message.                                                         *)
EXTENDS Collector

CONSTANTS c1, c2, e1, e2, e3, empty, w1, w2, p1

OneConn == {c1}
TwoConns == {c1, c2}
OneWorker == {w1}
TwoWorkers == {w1, w2}
MCEmpty == {empty}
TwoEvents == {e1, e2}
ThreeFrames == {e1, e2, empty}
FourFrames == {e1, e2, e3, empty}
MCPartitions == {p1}
TwoOnOne == [e \in TwoEvents |-> p1]
ThreeOnOne == [e \in ThreeFrames |-> p1]
FourOnOne == [e \in FourFrames |-> p1]
=============================================================================
