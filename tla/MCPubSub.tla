------------------------------ MODULE MCPubSub ------------------------------
(* Instances of PubSub.  toService is for a service of this device: named  *)
(* listens to it, late subscribes to every service while messages are      *)
(* under way, so that the two are at different routes of one message.      *)
(* toEvent is an event, which handlers may publish; bad fails its          *)
(* validation.                                                             *)
EXTENDS PubSub

CONSTANTS named, late, toService, toEvent, bad

MCrouteOf ==
  [l \in Listener |-> serviceRoute(IF l = late THEN "*" ELSE "config")]

Dest(p) ==
  IF p = toEvent
  THEN [scheme |-> "event", id |-> "", authority |-> "status", service |-> ""]
  ELSE [scheme |-> "mac", id |-> self, authority |-> self, service |-> "config"]

MCmessage ==
  [p \in Pub |-> [dest |-> Dest(p), source |-> [id |-> self],
                  required |-> TRUE, desired |-> p # bad]]
=============================================================================
