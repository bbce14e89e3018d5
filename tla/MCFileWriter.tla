---------------------------- MODULE MCFileWriter ----------------------------
(* Instances of the file writer for TLC. *)
EXTENDS FileWriter

MCFaults == {"migrate", "close", "rename", "gzip", "open"}
=============================================================================
