------------------------------- MODULE MCVsp -------------------------------
(* The instance of Vsp for TLC: a port of a PTT channel, on which both bytes   *)
(* and the RTS line key PTT.                                                 *)
EXTENDS Vsp
=============================================================================
