--------------------------- MODULE MCKeyerControl ---------------------------
(* Instances of KeyerControl for TLC. *)
EXTENDS KeyerControl, TLC

CONSTANTS a, b

\* One client sends a command the keyer does not know, one sets the speed of the
\* first channel.
ExtraAndSpeed == (a :> "EXTRA") @@ (b :> "CH1")
=============================================================================
