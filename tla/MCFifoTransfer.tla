--------------------------- MODULE MCFifoTransfer ---------------------------
(***************************************************************************)
(* Messages of up to two bytes of data and files of up to five: none, one  *)
(* or two full messages with and without a short one behind them.  The     *)
(* FIFO has room for two full messages and a byte, so that it fills up in  *)
(* the middle of one.                                                      *)
(***************************************************************************)
EXTENDS FifoTransfer

MCByte == 11 .. 15
MCSources == { [i \in 1 .. n |-> 10 + i] : n \in 0 .. 5 }
=============================================================================
