----------------------------- MODULE MCPipeline -----------------------------
(* Instances of the pipeline for TLC: two workers, and events of which one has an *)
(* address to look up.                                                            *)
EXTENDS Pipeline

CONSTANTS e1, e2, e3, e4, w1, w2

MCEvents == {e1, e2, e3, e4}
MCWorkers == {w1, w2}
MCResolvable == {e1}
=============================================================================
