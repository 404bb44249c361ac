----------------------------- MODULE MCRigctld -----------------------------
(* rigctld support with a small number of processes and modes.             *)
EXTENDS Rigctld
=============================================================================
