---------------------------- MODULE MCSessionFeed ----------------------------
(* The session feed on a small instance. *)
EXTENDS SessionFeed
================================================================================
