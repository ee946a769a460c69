------------------------- MODULE MCMultiplexServer --------------------------
(***************************************************************************)
(* Three clients: two whose requests or answers run together and one that  *)
(* finds the server after it.  One line, two jobs and two threads: a line  *)
(* that is reported again before it is read, and the job that waits for    *)
(* another one in vain.                                                    *)
(***************************************************************************)
EXTENDS MultiplexServer
=============================================================================
