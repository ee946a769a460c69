---------------------------- MODULE MCMonteCarlo ----------------------------
(***************************************************************************)
(* Two rounds show what one round leaves to the next; three threads show   *)
(* the order in which they report.  Modulo 3 a result tells whether none,  *)
(* one or two threads are missing; one of the counts is negative.          *)
(***************************************************************************)
EXTENDS MonteCarlo

MCCounts == {-1, 2}
=============================================================================
