------------------------------- MODULE MCThreads -------------------------------
(***************************************************************************)
(* Threads for TLC.  Two threads, so that one waits for the monitor of the *)
(* other, and enough calls to attach, enter twice and detach.              *)
(***************************************************************************)
EXTENDS Threads
===============================================================================
