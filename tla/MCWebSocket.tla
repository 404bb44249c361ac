---------------------------- MODULE MCWebSocket ----------------------------
(* The instance of WebSocket for TLC: one connection, which comes and goes.    *)
EXTENDS WebSocket
=============================================================================
