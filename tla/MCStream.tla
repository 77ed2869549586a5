------------------------------ MODULE MCStream ------------------------------
(* Three bytes of tx_buf, two of socket, two moved at a time: a write can   *)
(* go through, be split between socket and tx_buf, and not fit; the drain   *)
(* takes more than one round, and the kernel can take part of a chunk.      *)
EXTENDS Stream
MCLens == {1, 3, 4}
=============================================================================
