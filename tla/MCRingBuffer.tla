---------------------------- MODULE MCRingBuffer ----------------------------
(* RingBuffer for TLC.  The run checks a liveness property too, for which a *)
(* symmetry set would be unsound: there is none.                            *)
EXTENDS RingBuffer
=============================================================================
