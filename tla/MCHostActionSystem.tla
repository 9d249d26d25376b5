------------------------- MODULE MCHostActionSystem --------------------------
(* HostActionSystem on a small instance: one action, one consumer.          *)
EXTENDS HostActionSystem
=============================================================================
