---- MODULE MCRingBuffers ----
(* RingBuffers on an input buffer of three bytes and an output buffer of one
   byte: both wrap, fill and empty, and one of them has equal head and tail. *)
EXTENDS RingBuffers, TLC
MCOffs == 0 :> 252 @@ 4 :> 254
====
