---------------------------- MODULE FileTransfer ----------------------------
(***************************************************************************)
(* What the programs of task 3 and task 5 promise, whatever carries the    *)
(* bytes: the destination file grows as a prefix of the source file, and   *)
(* once the receiving side has closed it, it stays as it is and is at most *)
(* MaxLost bytes short.  A transfer that keeps the promise of README.md    *)
(* ("transfer a file of arbitrary size") implements it with MaxLost = 0.   *)
(***************************************************************************)
EXTENDS Integers, Sequences

CONSTANTS
  Sources,   \* the contents the source file may have
  MaxLost    \* how many trailing bytes the closed copy may lack

VARIABLES
  src,       \* the source file, never written
  dst,       \* what has been written to the destination file
  closed     \* the receiving side has closed the destination

vars == <<src, dst, closed>>

Init ==
  /\ src \in Sources
  /\ dst = << >>
  /\ closed = FALSE

(* One or more further bytes of the source reach the destination. *)
Deliver ==
  /\ ~ closed
  /\ \E n \in (Len(dst) + 1) .. Len(src) : dst' = SubSeq(src, 1, n)
  /\ UNCHANGED <<src, closed>>

Close ==
  /\ ~ closed
  /\ Len(src) - Len(dst) <= MaxLost
  /\ closed' = TRUE
  /\ UNCHANGED <<src, dst>>

Next == Deliver \/ Close

Spec == Init /\ [][Next]_vars
=============================================================================
