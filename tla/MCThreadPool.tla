---------------------------- MODULE MCThreadPool ----------------------------
(***************************************************************************)
(* Three workers and three jobs: enough for a worker to find its token     *)
(* stale (another has emptied the queue) while a third sleeps.             *)
(***************************************************************************)
EXTENDS ThreadPool
=============================================================================
