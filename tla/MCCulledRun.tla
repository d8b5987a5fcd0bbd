----------------------------- MODULE MCCulledRun -----------------------------
(***************************************************************************)
(* The programs of MCSemCulling with few reads, compiled and run.          *)
(***************************************************************************)
EXTENDS MCSemCulling, CulledRun
=============================================================================
