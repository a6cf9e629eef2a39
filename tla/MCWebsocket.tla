---------------------------- MODULE MCWebsocket ----------------------------
(* Websocket on small instances.                                           *)
EXTENDS Websocket

CONSTANTS s1, s2
=============================================================================
