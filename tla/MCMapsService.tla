--------------------------- MODULE MCMapsService ----------------------------
(***************************************************************************)
(* Three addresses: a mapping can come or go below, between and above      *)
(* others.  Three kinds: two differ in a field, two in having a path.  Two *)
(* changes in all: one while a sample is read and one before the next.     *)
(***************************************************************************)
EXTENDS MapsService

MCAddrs == 1 .. 3
MCKinds == { [perms |-> "rw", path |-> NoPath], [perms |-> "rw", path |-> "lib"],
             [perms |-> "rx", path |-> "lib"] }
=============================================================================
