------------------------------- MODULE Rfc1662 ------------------------------
(***************************************************************************)
(* The framing of the FTDI HAL: txEncode, the receiver rfc1662_decode and  *)
(* ftdi_hal_read, which tells notifications from SHTP transfers.           *)
(*                                                                         *)
(* Frames travel over a line that may lose or damage one byte.  The sender *)
(* is another HAL as far as SHTP frames go; control frames are sent by the *)
(* hub, outside src/, in the same encoding.                                *)
(***************************************************************************)
EXTENDS Integers, SequencesExt

CONSTANTS
    Payloads,    \* SHTP transfers to be written, sequences of bytes
    Bsns,        \* room announced in control frames, 16 bits
    Noise,       \* bytes a damaged byte may turn into
    TxMax,       \* size of writeBuf (1024)
    RxMax,       \* size of rxFrame (SH2_HAL_MAX_PAYLOAD_IN)
    ClientLen,   \* size of the buffer ftdi_hal_read is called with
    MaxFrames    \* bound on the frames sent

Byte == 0 .. 255
Word == {n \in Nat : n < 65536}

ASSUME DataAssumption ==
    Payloads \subseteq Seq(Byte) /\ Bsns \subseteq Word /\ Noise \subseteq Byte
ASSUME BufferAssumption ==
    TxMax \in Nat /\ RxMax \in Nat \ {0, 1, 2} /\ ClientLen \in Nat /\ MaxFrames \in Nat

RFC1662_FLAG     == 126
RFC1662_ESCAPE   == 125
PROTOCOL_CONTROL == 0
PROTOCOL_SHTP    == 1

VARIABLES
    sent,       \* frames sent: [kind : {"shtp", "bsn"}, data : bytes after the protocol id]
    rejected,   \* TRUE once a transfer was too long for writeBuf
    line,       \* bytes on the serial line, all of the last frame sent
    damaged,    \* number of the frame that lost or changed a byte, or 0
    rx,         \* the receiver: [state, len, ready, frame]
    lastBsn,
    delivered   \* what the caller was given: [frame : number of the frame
                \* whose last byte completed it, data, len : the value returned]

frameVars == <<sent, rejected, line, damaged, rx, lastBsn, delivered>>

-----------------------------------------------------------------------------
(* Encoding.                                                               *)

\* c ^ 0x20
Flip(c) == IF (c \div 32) % 2 = 1 THEN c - 32 ELSE c + 32

Escaped(c) == IF c \in {RFC1662_FLAG, RFC1662_ESCAPE}
              THEN <<RFC1662_ESCAPE, Flip(c)>> ELSE <<c>>

\* What remains of a frame from the i-th byte of its data on.
Rest(data) ==
    LET from[i \in 1 .. Len(data) + 1] ==
            IF i > Len(data) THEN <<RFC1662_FLAG>> ELSE Escaped(data[i]) \o from[i + 1]
    IN  from

Encoded(protocol, data) == <<RFC1662_FLAG, protocol>> \o Rest(data)[1]

-----------------------------------------------------------------------------
(* Decoding.                                                               *)

\* Faulty variant: the end of a frame is taken for the start of the next one.
Reset_StaysInside(r) == [r EXCEPT !.len = 0, !.ready = FALSE, !.state = "INSIDE_FRAME"]

\* rfc1662_reset: the bytes of rxFrame stay what they were.
Reset(r) == [r EXCEPT !.len = 0, !.ready = FALSE, !.state = "OUTSIDE_FRAME"]

\* Faulty variant: bytes beyond the buffer are stored.
Store_Unbounded(r, c) == [r EXCEPT !.frame = (r.len :> c) @@ @,
                                   !.len = @ + 1,
                                   !.state = "INSIDE_FRAME"]

\* Bytes beyond the buffer are counted and not stored.
Store(r, c) == [r EXCEPT !.frame = IF r.len < RxMax THEN [@ EXCEPT ![r.len] = c] ELSE @,
                         !.len = @ + 1,
                         !.state = "INSIDE_FRAME"]

\* Faulty variant: the second of two flags ends a frame, an empty one.
Decode_EmptyFrame(r, c) ==
    CASE r.state = "OUTSIDE_FRAME" ->
            IF c = RFC1662_FLAG
            THEN [r EXCEPT !.len = 0, !.ready = FALSE, !.state = "INSIDE_FRAME"]
            ELSE r
      [] r.state = "INSIDE_FRAME" ->
            IF c = RFC1662_FLAG THEN [r EXCEPT !.ready = TRUE, !.state = "OUTSIDE_FRAME"]
            ELSE IF c = RFC1662_ESCAPE THEN [r EXCEPT !.state = "ESCAPED"]
            ELSE Store(r, c)
      [] r.state = "ESCAPED" -> Store(r, Flip(c))

\* The second of two flags is the start of a frame again.
Decode(r, c) ==
    CASE r.state = "OUTSIDE_FRAME" ->
            IF c = RFC1662_FLAG
            THEN [r EXCEPT !.len = 0, !.ready = FALSE, !.state = "INSIDE_FRAME"]
            ELSE r
      [] r.state = "INSIDE_FRAME" ->
            IF c = RFC1662_FLAG
            THEN IF r.len > 0
                 THEN [r EXCEPT !.ready = TRUE, !.state = "OUTSIDE_FRAME"]
                 ELSE r
            ELSE IF c = RFC1662_ESCAPE THEN [r EXCEPT !.state = "ESCAPED"]
            ELSE Store(r, c)
      [] r.state = "ESCAPED" -> Store(r, Flip(c))

-----------------------------------------------------------------------------
FrameInit ==
    /\ sent = <<>>
    /\ rejected = FALSE
    /\ line = <<>>
    /\ damaged = 0
    /\ rx = [state |-> "OUTSIDE_FRAME", len |-> 0, ready |-> FALSE,
             frame |-> [i \in 0 .. RxMax - 1 |-> 0]]
    /\ lastBsn = 0
    /\ delivered = <<>>

Sends(kind, protocol, data) ==
    /\ line' = Encoded(protocol, data)
    /\ sent' = Append(sent, [kind |-> kind, data |-> data])
    /\ UNCHANGED <<damaged, rx, lastBsn, delivered>>

\* The line has room for one frame at a time: the receiver takes the bytes one
\* by one, whether or not others wait behind them.
CanSend == line = <<>> /\ Len(sent) < MaxFrames

WriteTransfer ==
    /\ CanSend
    /\ \E data \in Payloads :
          IF Len(Encoded(PROTOCOL_SHTP, data)) > TxMax
          THEN ~rejected /\ rejected' = TRUE
               /\ UNCHANGED <<sent, line, damaged, rx, lastBsn, delivered>>
          ELSE Sends("shtp", PROTOCOL_SHTP, data) /\ UNCHANGED rejected

\* The hub announces its room, least significant byte first.
SendBsn ==
    /\ CanSend
    /\ \E bsn \in Bsns : Sends("bsn", PROTOCOL_CONTROL, <<bsn % 256, bsn \div 256>>)
    /\ UNCHANGED rejected

\* One byte is lost, or arrives as another one.
Disturb ==
    /\ damaged = 0
    /\ line # <<>>
    /\ damaged' = Len(sent)
    /\ \/ line' = Tail(line)
       \/ \E c \in Noise : c # Head(line) /\ line' = <<c>> \o Tail(line)
    /\ UNCHANGED <<sent, rejected, rx, lastBsn, delivered>>

\* A control frame is told by the protocol id.
IsControl(r) == r.len > 0 /\ r.frame[0] = PROTOCOL_CONTROL

\* ftdi_hal_read, byte by byte.  The frame is handed over without the protocol
\* id, which the length that is returned still counts.
ReadByte ==
    /\ line # <<>>
    /\ line' = Tail(line)
    /\ LET r == Decode(rx, Head(line))
       IN  \/ ~r.ready /\ rx' = r /\ UNCHANGED <<lastBsn, delivered>>
           \/ /\ r.ready /\ IsControl(r)
              /\ lastBsn' = r.frame[2] * 256 + r.frame[1]
              /\ rx' = Reset(r)
              /\ UNCHANGED delivered
           \/ /\ r.ready /\ ~IsControl(r)
              /\ r.len > RxMax \/ r.len > ClientLen
              /\ rx' = Reset(r)
              /\ UNCHANGED <<lastBsn, delivered>>
           \/ /\ r.ready /\ ~IsControl(r)
              /\ r.len <= RxMax /\ r.len <= ClientLen
              /\ delivered' = Append(delivered,
                    [frame |-> Len(sent), len |-> r.len,
                     data |-> [i \in 1 .. r.len - 1 |-> r.frame[i]]])
              /\ rx' = Reset(r)
              /\ UNCHANGED lastBsn
    /\ UNCHANGED <<sent, rejected, damaged>>

Finished == line = <<>> /\ Len(sent) = MaxFrames /\ UNCHANGED frameVars

FrameNext == WriteTransfer \/ SendBsn \/ Disturb \/ ReadByte \/ Finished

FrameSpec == FrameInit /\ [][FrameNext]_frameVars

-----------------------------------------------------------------------------
(* Properties.                                                             *)

Receiver ==
    [state: {"OUTSIDE_FRAME", "INSIDE_FRAME", "ESCAPED"}, len: Nat, ready: BOOLEAN,
     frame: [0 .. RxMax - 1 -> Byte]]

FrameTypeOK ==
    /\ sent \in Seq([kind: {"shtp", "bsn"}, data: Seq(Byte)])
    /\ rejected \in BOOLEAN
    /\ line \in Seq(Byte)
    /\ damaged \in 0 .. Len(sent)
    /\ rx \in Receiver /\ ~rx.ready
    /\ lastBsn \in Word
    /\ delivered \in Seq([frame: Nat \ {0}, len: Nat \ {0}, data: Seq(Byte)])

\* The frames the receiver has seen all of.
Seen == 1 .. (IF line = <<>> THEN Len(sent) ELSE Len(sent) - 1)

\* A damaged byte may cost the frame it is in and the one behind it.
Disturbed == IF damaged = 0 THEN {} ELSE {damaged, damaged + 1}

\* The protocol id counts in both tests, although it is not handed over.
FitsBuffers(data) == Len(data) + 1 <= RxMax /\ Len(data) + 1 <= ClientLen

\* The transfers that are to have been delivered.
Due == {j \in Seen \ Disturbed : sent[j].kind = "shtp" /\ FitsBuffers(sent[j].data)}

\* Every transfer that fits is delivered once, in order and unchanged, with a
\* length of one more, whatever bytes it is made of; a damaged byte costs no
\* other frame than its own and the next, because the receiver takes the second
\* of two flags for a start (txEncode, rfc1662_decode, ftdi_hal_read).
DeliveredExactly ==
    LET clean == {i \in DOMAIN delivered : delivered[i].frame \notin Disturbed}
    IN  /\ {delivered[i].frame : i \in clean} = Due
        /\ \A i, j \in clean : i < j => delivered[i].frame < delivered[j].frame
        /\ \A i \in clean :
              LET data == sent[delivered[i].frame].data
              IN  delivered[i].data = data /\ delivered[i].len = Len(data) + 1

\* The room the HAL goes by is what the last notification announced, unless a
\* disturbance may have touched it: escaped bytes and bytes left behind in
\* rxFrame by longer frames do not matter.
BsnExact ==
    LET bsns == {j \in Seen : sent[j].kind = "bsn"}
    IN  \A j \in bsns :
            /\ \A k \in bsns : k <= j
            /\ damaged = 0 \/ j > damaged + 1
            => lastBsn = sent[j].data[1] + 256 * sent[j].data[2]

\* Both kinds of frames come through as they were sent.
ReceivedAsSent == DeliveredExactly /\ BsnExact

\* Between two frames the receiver is outside a frame, so that it sees the start
\* of the next one, at the latest two frames after a disturbance.
InPhase == line = <<>> /\ Len(sent) \notin Disturbed => rx.state = "OUTSIDE_FRAME"
=============================================================================
