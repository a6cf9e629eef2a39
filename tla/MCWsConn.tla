------------------------------ MODULE MCWsConn ------------------------------
(* One writer, one reader, one closer, one timed out read.                 *)
EXTENDS WsConn
=============================================================================
