---------------------------- MODULE MCConnector ----------------------------
(* The instance of Connector for TLC: a TCP connector and a virtual serial    *)
(* port on one keyer.                                                         *)
EXTENDS Connector
=============================================================================
