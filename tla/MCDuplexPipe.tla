---------------------------- MODULE MCDuplexPipe ----------------------------
(***************************************************************************)
(* Characters of four values make packets of up to eight bytes of data and *)
(* two sequence numbers, which come round with the third packet.  Three    *)
(* pages of four bytes keep what the sizes of the code and of Linux have   *)
(* in common: a full packet (11 bytes) uses every page and leaves room for *)
(* a byte in the last one.  Files have up to two full packets and a rest.  *)
(***************************************************************************)
EXTENDS DuplexPipe

MCSources == { [n \in 1 .. size |-> (n + (n \div 4)) % Base] : size \in 0 .. 18 }
=============================================================================
