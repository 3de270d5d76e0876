---------------------------- MODULE MCThreadPool ------------------------------
(***************************************************************************)
(* ThreadPool with three threads and a few items.                          *)
(***************************************************************************)
EXTENDS ThreadPool, TLC
=============================================================================
