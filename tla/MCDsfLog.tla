------------------------------ MODULE MCDsfLog ------------------------------
(* Two sensors for TLC; sequence numbers modulo 3.                         *)
EXTENDS DsfLog

MCFaultSets == {{"loss", "early"}, {"loss", "reset"}, {"burst", "early", "reset"}}
=============================================================================
