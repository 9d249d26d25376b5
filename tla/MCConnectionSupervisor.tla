------------------------ MODULE MCConnectionSupervisor ------------------------
(* Instances of ConnectionSupervisor.                                       *)
EXTENDS ConnectionSupervisor

AllKinds == {"transient", "protocol_incompatible", "revoked"}
=============================================================================
