---------------------------- MODULE MCFtdiFlow -----------------------------
(* A small flow-controlled line for TLC: a hub with room for 3 units.       *)
EXTENDS FtdiFlow

MCFaultSets == {{}, {"ioerror", "loss"}, {"wrap", "unasked", "loss"},
                {"late", "loss", "ioerror"}}

LateFaultSets == {{"late"}}
============================================================================
