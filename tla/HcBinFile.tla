----------------------------- MODULE HcBinFile ------------------------------
(***************************************************************************)
(* The reader of firmware files (HcBinFile.cpp), called as the updates     *)
(* call it: open, the getters, and close once open has answered 0.         *)
(*                                                                         *)
(* A file is a header of 16 bytes (id, length, version and the offset of   *)
(* the application), text lines `key: value', the application, and a CRC   *)
(* over everything before it.  Numbers in it are 32 bits wide, and nothing *)
(* but the CRC makes sure that they agree with the file.                   *)
(*                                                                         *)
(* The CRC is abstracted to the number of bytes it is right for.           *)
(***************************************************************************)
EXTENDS Integers, SequencesExt

CONSTANTS
    Chars,      \* bytes of a file
    Files,      \* the files that open() may find, see FileType
    Keys,       \* keys that getMeta is asked for
    Reads,      \* pairs <<offset, len>> that getAppData is asked for; their sums do
                \* not wrap, as the updates ask for 64 bytes at most
    Word,       \* 2^32
    MaxAlloc    \* larger allocations may fail

Colon == ":"
Space == " "
Eol   == {"nl", "cr", "nul"}

HeaderLen == 16
CrcLen    == 4

(* header: the id and the version are those of this format.  seekable: the *)
(* position in the file can be told.  body: what follows the header.       *)
(* crcAt: the stored CRC is that of the first crcAt bytes, or -1.          *)
(* meta, ends: the entries the text was made from, and where the line of   *)
(* each ends in the body.                                                  *)
Entry == [key: Seq(Chars), value: Seq(Chars)]

FileType ==
    [exists: BOOLEAN, header: BOOLEAN, seekable: BOOLEAN,
     sz: 0 .. Word - 1, offset: 0 .. Word - 1, body: Seq(Chars),
     crcAt: Int, meta: Seq(Entry), ends: Seq(Nat)]

\* Where the first n lines end.
LinesEnd(f, n) == IF n = 0 THEN 0 ELSE f.ends[n]

\* `key: value', and one or more bytes that end the line, from a place on.
IsLine(body, start, end, entry) ==
    LET colon == start + Len(entry.key) + 1
        eol   == colon + Len(entry.value) + 2
    IN  /\ eol <= end /\ end <= Len(body)
        /\ \A i \in DOMAIN entry.key : entry.key[i] = body[start + i] /\ body[start + i] # Colon
        /\ entry.key # <<>> => entry.key[1] \notin Eol
        /\ body[colon] = Colon /\ body[colon + 1] = Space
        /\ \A i \in DOMAIN entry.value :
              entry.value[i] = body[colon + 1 + i] /\ body[colon + 1 + i] \notin Eol
        /\ \A i \in eol .. end : body[i] \in Eol

ASSUME FileAssumption ==
    /\ Word \in Nat \ {0}
    /\ MaxAlloc \in Nat
    /\ Files \subseteq FileType
    /\ \A f \in Files :
          /\ HeaderLen + Len(f.body) < Word
          /\ Len(f.ends) = Len(f.meta)
          /\ \A n \in DOMAIN f.meta :
                IsLine(f.body, LinesEnd(f, n - 1), LinesEnd(f, n), f.meta[n])
ASSUME ReadAssumption ==
    /\ Keys \subseteq Seq(Chars)
    /\ \A r \in Reads : r \in Nat \X Nat /\ r[1] + r[2] < Word

VARIABLES
    file,          \* the file (never changes)
    m_open,
    m_appDataLen,
    m_appData,     \* the pointer: [to, data], see Pointers
    m_metadata,
    opened,        \* the client's: open() answered 0 and close() was not called
    result,        \* the last call: [call, args, status, data]
    buffers,       \* buffers allocated and not deleted
    badDelete,     \* TRUE once something was deleted that is not allocated
    aborted        \* an exception ended the program

objVars    == <<m_open, m_appDataLen, m_appData, m_metadata>>
clientVars == <<opened, result>>
heapVars   == <<buffers, badDelete, aborted>>
vars       == <<file, objVars, clientVars, heapVars>>

NoEntries == <<>>
Pointers  == {"unset", "null", "buffer", "deleted"}

\* A call answers with a status and data.
Answers(call, args, status, data) ==
    result' = [call |-> call, args |-> args, status |-> status, data |-> data]

\* The constructor sets m_open and the metadata, and no more.
Init ==
    /\ file \in Files
    /\ m_open = FALSE
    /\ m_appDataLen = 0
    /\ m_appData = [to |-> "unset", data |-> <<>>]
    /\ m_metadata = NoEntries
    /\ opened = FALSE
    /\ result = [call |-> "none", args |-> <<>>, status |-> "SH2_OK", data |-> <<>>]
    /\ buffers = 0
    /\ badDelete = FALSE
    /\ aborted = FALSE

-----------------------------------------------------------------------------
(* readMetadata.                                                           *)

KeyState(p, c) == IF c = Colon THEN [p EXCEPT !.state = "SEP"]
                               ELSE [p EXCEPT !.key = Append(@, c)]

\* Faulty variant: the first byte of a line is not given back.
ParseChar_Eats(p, c) ==
    CASE p.state = "KEY"   -> KeyState(p, c)
      [] p.state = "SEP"   -> IF c = Space THEN [p EXCEPT !.state = "VALUE"] ELSE p
      [] p.state = "VALUE" ->
            IF c \in Eol
            THEN [state |-> "EOL", key |-> <<>>, value |-> <<>>,
                  entries |-> Append(p.entries, [key |-> p.key, value |-> p.value])]
            ELSE [p EXCEPT !.value = Append(@, c)]
      [] p.state = "EOL"   -> IF c \in Eol THEN p ELSE [p EXCEPT !.state = "KEY"]

\* One byte; the first byte of a line is given back and read again.
ParseChar(p, c) ==
    CASE p.state = "KEY"   -> KeyState(p, c)
      [] p.state = "SEP"   -> IF c = Space THEN [p EXCEPT !.state = "VALUE"] ELSE p
      [] p.state = "VALUE" ->
            IF c \in Eol
            THEN [state |-> "EOL", key |-> <<>>, value |-> <<>>,
                  entries |-> Append(p.entries, [key |-> p.key, value |-> p.value])]
            ELSE [p EXCEPT !.value = Append(@, c)]
      [] p.state = "EOL"   -> IF c \in Eol THEN p
                              ELSE KeyState([p EXCEPT !.state = "KEY"], c)

\* The parser, after the first bytes of a text.
Parsed(text) ==
    LET after[n \in 0 .. Len(text)] ==
            IF n = 0 THEN [state |-> "KEY", key |-> <<>>, value |-> <<>>, entries |-> NoEntries]
            ELSE ParseChar(after[n - 1], text[n])
    IN  after

\* The entries of a text; what follows the last end of a value is dropped.
Metadata(text) == Parsed(text)[Len(text)].entries

-----------------------------------------------------------------------------
(* open.                                                                   *)

\* Bytes that readMetadata reads: it goes by ftell, which answers -1 for a pipe.
TextLen(f) == f.offset - (IF f.seekable THEN HeaderLen ELSE -1)

\* Faulty variant: the CRC is taken for application data.
AppDataLen_WithCrc(f) == (f.sz - f.offset) % Word

\* Faulty variant: a signed difference.
AppDataLen_Signed(f) == f.sz - f.offset - CrcLen

\* The length of the application, in 32 bits.
AppDataLen(f) == (f.sz - f.offset - CrcLen) % Word

FileLen(f) == HeaderLen + Len(f.body)

\* Bytes of the file, counted from 0, from `first' up to `end'.
Bytes(f, first, end) == SubSeq(f.body, first - HeaderLen + 1, end - HeaderLen)

\* Where open() gives up; "offset" leaves with the status of readMetadata,
\* SH2_OK, and so does a position that cannot be told.
Exit(f) ==
    IF ~f.exists \/ ~f.header THEN "header"
    ELSE IF TextLen(f) > Len(f.body) THEN "metadata"
    ELSE IF ~f.seekable \/ f.offset < HeaderLen THEN "offset"
    ELSE IF f.offset + AppDataLen(f) > FileLen(f) THEN "payload"
    ELSE IF \/ f.offset + AppDataLen(f) + CrcLen > FileLen(f)
            \/ f.crcAt # f.offset + AppDataLen(f)
         THEN "crc"
    ELSE "none"

Allocates(f) == Exit(f) \in {"payload", "crc", "none"}

\* open() with the close() at its label `cleanup'; a buffer is deleted there, and
\* the pointer to it stays until the next open().
Open ==
    /\ ~aborted
    /\ ~m_open
    /\ LET whole == Exit(file) = "none"
           ok    == Exit(file) \in {"none", "offset"}
       IN  /\ m_open' = whole
           /\ m_appDataLen' = IF Allocates(file) THEN AppDataLen(file) ELSE 0
           /\ m_appData' =
                IF whole
                THEN [to |-> "buffer",
                      data |-> Bytes(file, file.offset, file.offset + AppDataLen(file))]
                ELSE [to |-> IF Allocates(file) THEN "deleted" ELSE "null", data |-> <<>>]
           /\ m_metadata' =
                IF whole THEN Metadata(Bytes(file, HeaderLen, file.offset)) ELSE NoEntries
           /\ buffers' = IF whole THEN buffers + 1 ELSE buffers
           /\ opened' = ok
           /\ Answers("open", <<>>, IF ok THEN "SH2_OK" ELSE "SH2_ERR_BAD_PARAM", <<>>)
    /\ UNCHANGED <<file, badDelete, aborted>>

OpenRefused ==
    /\ ~aborted
    /\ m_open
    /\ Answers("open", <<>>, "SH2_ERR", <<>>)
    /\ UNCHANGED <<file, objVars, opened, heapVars>>

\* new throws, and nobody catches.
OpenAborts ==
    /\ ~aborted
    /\ ~m_open
    /\ Allocates(file)
    /\ AppDataLen(file) > MaxAlloc
    /\ aborted' = TRUE
    /\ UNCHANGED <<file, objVars, clientVars, buffers, badDelete>>

-----------------------------------------------------------------------------
(* The other calls.                                                        *)

\* The updates close a file that open() said is open, and once.
MayClose == opened

\* The pointer is not cleared.
Close ==
    /\ ~aborted
    /\ MayClose
    /\ opened' = FALSE
    /\ m_appData' = IF m_appData.to # "null" THEN [to |-> "deleted", data |-> <<>>]
                                             ELSE m_appData
    /\ buffers' = IF m_appData.to = "buffer" THEN buffers - 1 ELSE buffers
    /\ badDelete' = (badDelete \/ m_appData.to \in {"unset", "deleted"})
    /\ m_metadata' = NoEntries
    /\ m_open' = FALSE
    /\ Answers("close", <<>>, "SH2_OK", <<>>)
    /\ UNCHANGED <<file, m_appDataLen, aborted>>

Getter(call, args, status, data) ==
    /\ ~aborted
    /\ Answers(call, args, status, data)
    /\ UNCHANGED <<file, objVars, opened, heapVars>>

\* The entries of this key.
Entries(key) == {i \in DOMAIN m_metadata : m_metadata[i].key = key}

\* The loop ends with the first of them.
GetMeta(key) ==
    \/ /\ m_open
       /\ \E i \in Entries(key) :
             /\ \A j \in Entries(key) : i <= j
             /\ Getter("getMeta", key, "SH2_OK", m_metadata[i].value)
    \/ /\ ~m_open \/ Entries(key) = {}
       /\ Getter("getMeta", key, "NULL", <<>>)

\* While the file is not open these two answer SH2_ERR, -1, as a length.
GetAppLen ==
    Getter("getAppLen", <<>>, "SH2_OK", IF m_open THEN <<m_appDataLen>> ELSE <<Word - 1>>)

GetPacketLen ==
    Getter("getPacketLen", <<>>, "SH2_OK", IF m_open THEN <<0>> ELSE <<Word - 1>>)

\* Faulty variant: the end of what is read is not looked at.
InData_Start(offset, len) == offset <= m_appDataLen

\* The sum has 32 bits.
InData(offset, len) == (offset + len) % Word <= m_appDataLen

\* The bytes from `offset' on; nothing is known of what is behind the buffer.
Copy(offset, len) ==
    [i \in 1 .. len |-> IF offset + i <= Len(m_appData.data)
                        THEN m_appData.data[offset + i] ELSE "garbage"]

GetAppData(offset, len) ==
    LET args == <<offset, len>>
    IN  IF ~m_open THEN Getter("getAppData", args, "SH2_ERR", <<>>)
        ELSE IF ~InData(offset, len)
             THEN Getter("getAppData", args, "SH2_ERR_BAD_PARAM", <<>>)
        ELSE Getter("getAppData", args, "SH2_OK", Copy(offset, len))

Aborted == aborted /\ UNCHANGED vars

-----------------------------------------------------------------------------
Next == \/ Open \/ OpenRefused \/ OpenAborts \/ Close
        \/ \E key \in Keys : GetMeta(key)
        \/ GetAppLen \/ GetPacketLen
        \/ \E r \in Reads : GetAppData(r[1], r[2])
        \/ Aborted

Spec == Init /\ [][Next]_vars

-----------------------------------------------------------------------------
(* Properties.                                                             *)

\* Lengths are unsigned numbers of 32 bits, and the pointer and the count of buffers
\* are what they can be (class HcBinFile).  For the entries see MetaExact.
TypeOK ==
    /\ file \in Files
    /\ m_open \in BOOLEAN
    /\ m_appDataLen \in 0 .. Word - 1
    /\ m_appData \in [to: Pointers, data: Seq(Chars)]
    /\ opened \in BOOLEAN
    /\ buffers \in Nat
    /\ badDelete \in BOOLEAN
    /\ aborted \in BOOLEAN

\* An open file is a whole one: its numbers did not wrap and agree with the file,
\* the CRC is right for all that is in front of it, and the buffer holds the
\* application, neither a byte of the text nor of the CRC (open, readPayload).
OpenIsWhole ==
    m_open =>
        /\ HeaderLen <= file.offset /\ file.offset + CrcLen <= file.sz
        /\ file.sz <= FileLen(file)
        /\ file.crcAt = file.sz - CrcLen
        /\ m_appDataLen = file.sz - CrcLen - file.offset
        /\ m_appData = [to |-> "buffer",
                        data |-> Bytes(file, file.offset, file.sz - CrcLen)]

\* The text lines of an open file are read as they were written, whatever colons
\* and blanks the values contain and however lines end, and getMeta finds the first
\* entry of a key (readMetadata, getMeta).
MetaExact ==
    m_open /\ file.offset = HeaderLen + LinesEnd(file, Len(file.meta)) =>
        /\ m_metadata = file.meta
        /\ result.call = "getMeta" =>
            LET of == {i \in DOMAIN file.meta : file.meta[i].key = result.args}
            IN  IF of = {} THEN result.status = "NULL"
                ELSE \E i \in of : /\ \A j \in of : i <= j
                                  /\ result.data = file.meta[i].value

\* What an update reads is the application's, at the place it asked for, and it is
\* refused only what is not there (getAppData, open).
ReadsAreData ==
    result.call = "getAppData" =>
        LET first == file.offset + result.args[1]
            end   == first + result.args[2]
        IN  CASE result.status = "SH2_OK" -> /\ end <= file.sz - CrcLen
                                             /\ result.data = Bytes(file, first, end)
              [] result.status = "SH2_ERR_BAD_PARAM" -> end > file.sz - CrcLen
              [] OTHER -> TRUE

\* Nothing is deleted twice or without having been allocated, and no buffer is
\* lost: there is one exactly while the file is open (open's cleanup, close).
OneBuffer == ~badDelete /\ buffers = (IF m_open THEN 1 ELSE 0)

\* Whatever the file, and through any order of calls that closes as MayClose has it,
\* the reader holds one buffer while it is open, and in it nothing but the application
\* of a whole file.
OpenHoldsFile == OpenIsWhole /\ OneBuffer
=============================================================================
