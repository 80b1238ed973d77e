-------------------------- MODULE MCLoggerSession ---------------------------
(* Small sessions for model checking LoggerSession. *)
EXTENDS LoggerSession

L(sn, good, cut) == [sn |-> sn, good |-> good, cut |-> cut]

Data(k, lines) == [kind |-> k, script |-> lines]

\* Files: a line that may be read before its end; one that may be cut in its number; three
\* that belong together, the middle one of which may be lost.  A stream that may bring its
\* line in two parts.
MCInputs == {Data("none", <<>>),
             Data("file", <<L(10, TRUE, "end")>>),
             Data("file", <<L(10, TRUE, "number")>>),
             Data("file", <<L(10, TRUE, "no"), L(10, TRUE, "middle"), L(10, TRUE, "no")>>),
             Data("stream", <<L(10, TRUE, "number")>>)}
=============================================================================
