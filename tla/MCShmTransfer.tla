--------------------------- MODULE MCShmTransfer ----------------------------
(***************************************************************************)
(* A ring of three slots and every file of up to five distinct bytes: the  *)
(* indices wrap, empty and full reach both of their limits, two bytes may  *)
(* be unread when the end of file takes the third slot, and distinct bytes *)
(* show every misplaced one.                                               *)
(***************************************************************************)
EXTENDS ShmTransfer

MCByte == 1 .. 5
MCSources == { [i \in 1 .. n |-> i] : n \in 0 .. 5 }
=============================================================================
