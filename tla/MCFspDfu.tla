----------------------------- MODULE MCFspDfu ------------------------------
(* A small FSP200 update for TLC: blocks of 2 words, 8 word offsets.        *)
EXTENDS FspDfu

File(opens, metaOk, appLen) ==
    [opens |-> opens, metaOk |-> metaOk, appLen |-> appLen]

\* Missing, of the wrong kind, too short, not whole words; one block, two whole
\* blocks, a shorter last block, the longest with offsets that fit, and one
\* word too long for them.
MCFirmwares == {File(FALSE, FALSE, 0), File(TRUE, FALSE, 20), File(TRUE, TRUE, 4),
                File(TRUE, TRUE, 18), File(TRUE, TRUE, 8), File(TRUE, TRUE, 16),
                File(TRUE, TRUE, 20), File(TRUE, TRUE, 28), File(TRUE, TRUE, 32)}

MCFaultSets == {{}, {"slow"}, {"noport", "reject", "loss", "slow", "mute"},
                {"restart"}, {"loss", "restart", "slow", "reject", "mute"}}

\* A hub that restarts, and a file of one block.
OneBlock == {File(TRUE, TRUE, 8)}
RestartFaultSets == {{"restart"}}
============================================================================
