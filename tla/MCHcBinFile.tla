---------------------------- MODULE MCHcBinFile -----------------------------
(* Small files for model checking HcBinFile. *)
EXTENDS HcBinFile

MCChars == {"k", "w", "v", Colon, Space, "nl", "cr", "nul", "a", "b", "#"}
MCKeys  == {<<"k">>, <<"w">>}
MCReads == {<<0, 0>>, <<0, 1>>, <<0, 2>>, <<1, 1>>, <<1, 2>>, <<2, 0>>, <<2, 1>>}

Values  == {<<>>, <<"v">>, <<"v", Colon, Space, "k">>, <<Space>>}
Ends    == {<<"nl">>, <<"cr", "nl">>, <<"nul", "nul", "nul">>}
Metas   == UNION {[1 .. n -> [key: MCKeys, value: Values]] : n \in 0 .. 2}
Apps    == {<<>>, <<"a">>, <<"a", "b">>}
Crc     == <<"#", "#", "#", "#">>

Line(kv, eol)   == kv.key \o <<Colon, Space>> \o kv.value \o eol
Text(meta, eol) == FoldLeft(LAMBDA t, kv : t \o Line(kv, eol), <<>>, meta)

\* A file as it is meant to be.
Proper(meta, eol, app) ==
    LET text == Text(meta, eol)
        end  == HeaderLen + Len(text)
        sz   == end + Len(app) + CrcLen
    IN  [exists |-> TRUE, header |-> TRUE, seekable |-> TRUE, sz |-> sz, offset |-> end,
         body |-> text \o app \o Crc, crcAt |-> sz - CrcLen, meta |-> meta,
         ends |-> [n \in DOMAIN meta |-> Len(Text(SubSeq(meta, 1, n), eol))]]

Good == {Proper(meta, eol, <<"a">>) : meta \in Metas, eol \in Ends}
        \cup {Proper(<<>>, <<"nl">>, app) : app \in Apps}

Sample == Proper(<<[key |-> <<"k">>, value |-> <<"v">>]>>, <<"nl">>, <<"a", "b">>)

\* Any number in the header, any length of the file, with the CRC right for any of
\* the places it may be looked for.
Numbers ==
    {[Sample EXCEPT !.sz = sz, !.offset = offset,
                    !.body = SubSeq(@ \o <<"a", "a">>, 1, len), !.crcAt = crcAt] :
        sz     \in {0, 3, 63} \cup (Sample.sz - 3) .. (Sample.sz + 1),
        offset \in {0, 15, 16, 63} \cup (Sample.offset - 1) .. (Sample.offset + 3),
        len    \in (Sample.sz - HeaderLen - 1) .. (Sample.sz - HeaderLen + 1),
        crcAt  \in {-1} \cup (Sample.sz - 5) .. (Sample.sz - 3)}

Others == {[Sample EXCEPT !.exists = FALSE], [Sample EXCEPT !.header = FALSE],
           [Sample EXCEPT !.seekable = FALSE]}

MCFiles == Good \cup Numbers \cup Others
=============================================================================
