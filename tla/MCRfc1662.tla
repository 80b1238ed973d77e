----------------------------- MODULE MCRfc1662 -----------------------------
(* Short frames for TLC: a receiver for 5 bytes, a client for 4.            *)
EXTENDS Rfc1662

\* Bytes that need escaping, their escaped forms, a transfer that is empty, and
\* transfers that are too long for the client, the receiver, and the sender.
MCPayloads == {<<>>, <<1>>, <<126>>, <<125, 126>>, <<94, 93, 0>>, <<0, 126, 1, 125>>,
               <<1, 1, 1, 1, 1>>, <<126, 126, 126, 126>>}

MCBsns == {0, 126 * 256 + 5, 125 * 257}
============================================================================
