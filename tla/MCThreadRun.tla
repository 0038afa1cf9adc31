----------------------------- MODULE MCThreadRun -----------------------------
(* Small instances of one thread's runs for TLC. *)
EXTENDS ThreadRun, TLC
=============================================================================
