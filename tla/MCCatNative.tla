---------------------------- MODULE MCCatNative ----------------------------
(* Instances of CatNative for TLC: two applications. *)
EXTENDS CatNative

CONSTANTS a, b
=============================================================================
