---------------------------- MODULE MCControlLease ----------------------------
(* An instance of ControlLease: a desktop host, which also admits its own     *)
(* windows and phones beside a controller desktop.                            *)
EXTENDS ControlLease

Actor(holder, delegate, yields, kind) ==
  [holder |-> holder, delegate |-> delegate, yields |-> yields, kind |-> kind]

\* A window, a phone of this desktop, a controller desktop and a phone it relays.
DesktopFrontends ==
  { Actor(Desk, "window:1", ToAny, "window"), Actor(Desk, "phone:1", None, "phone"),
    Actor("controller", "", ToHolder, "controller"), Actor("controller", "phone:2", None, "relayed") }
=============================================================================
