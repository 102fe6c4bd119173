-------------------------- MODULE MCWebConnReplay --------------------------
(* Model values for WebConnReplay.                                         *)
EXTENDS WebConnReplay

MCPayloads == {0, 1}
=============================================================================
