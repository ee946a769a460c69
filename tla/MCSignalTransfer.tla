-------------------------- MODULE MCSignalTransfer --------------------------
(***************************************************************************)
(* Files of up to two whole bytes, among them the empty one, with every    *)
(* kind of bit pattern: no bit, all bits and alternating ones.             *)
(***************************************************************************)
EXTENDS SignalTransfer

MCSources == {<< >>, <<0>>, <<255>>, <<165>>, <<90, 255>>, <<128, 1>>}
=============================================================================
