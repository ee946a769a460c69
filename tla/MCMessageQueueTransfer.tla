----------------------- MODULE MCMessageQueueTransfer -----------------------
(***************************************************************************)
(* Blocks of 2 bytes through a queue of 3, two runs: files that end with a *)
(* full block and with a short one, with a NUL at each place of a block,   *)
(* and one that does not fit into the queue.                               *)
(***************************************************************************)
EXTENDS MessageQueueTransfer

MCByte == 0 .. 5 \union {Junk}
MCSources ==
  { << >>, <<1>>, <<1, 2>>, <<1, 2, 3>>, <<0, 2, 3>>, <<1, 0, 3>>, <<1, 0, 3, 4>>,
    <<0, 2, 3, 4, 5>> }
=============================================================================
