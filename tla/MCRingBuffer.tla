---------------------------- MODULE MCRingBuffer ----------------------------
(* Instances of RingBuffer for model checking: a ring of two values, which *)
(* wraps around every three writes, and counts modulo 8.                   *)
EXTENDS RingBuffer

MCSize == 2
MCUintMod == 8
=============================================================================
