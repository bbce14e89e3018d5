----------------------------- MODULE MCConsumer -----------------------------
(* Instances of the consumer for TLC: two storages. *)
EXTENDS Consumer

MCStorages == <<"clickhouse", "file">>
=============================================================================
