-------------------------- MODULE MCThreadPoolLife --------------------------
(***************************************************************************)
(* Two workers and two jobs; any number of pauses.                         *)
(***************************************************************************)
EXTENDS ThreadPoolLife
=============================================================================
