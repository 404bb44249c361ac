---------------------------- MODULE MCModeSync ----------------------------
(* Mode sync with values small enough to enumerate.                        *)
EXTENDS ModeSync

Simplex == {<<1, 1>>}
=============================================================================
