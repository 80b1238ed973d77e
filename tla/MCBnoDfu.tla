----------------------------- MODULE MCBnoDfu ------------------------------
(* A small BNO08x update for TLC: packets of at most 2 bytes.               *)
EXTENDS BnoDfu

File(opens, metaOk, appLen, len) ==
    [opens |-> opens, metaOk |-> metaOk, appLen |-> appLen, packetLen |-> len]

\* Missing, of the wrong kind, too short; packets that divide the application or
\* not, with a packet length that is missing, too large, or one that 8 bits cut down to
\* 1 (LenMod is 8 here).
MCFirmwares == {File(FALSE, FALSE, 0, 0), File(TRUE, FALSE, 4, 2), File(TRUE, TRUE, 1, 2),
                File(TRUE, TRUE, 4, 0), File(TRUE, TRUE, 5, 7), File(TRUE, TRUE, 3, 9)}

MCFaultSets == {{}, {"noise"}, {"noise", "loss"}, {"late"},
                {"noport", "deadport", "noise", "loss"},
                {"deadport", "badread", "noise", "loss", "late", "slow"}}

LateFaultSets == {{"late"}}
============================================================================
