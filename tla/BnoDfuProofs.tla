---------------------------- MODULE BnoDfuProofs ----------------------------
(***************************************************************************)
(* Proofs about the firmware update of a BNO08x, for every file, packet    *)
(* length, number of attempts, time limit and set of faults.               *)
(*                                                                         *)
(* Host and hub count separately and no message says where it belongs.     *)
(* Where acknowledgements come in time, at most one message or answer is   *)
(* on the line, and the hub is never behind the host: a lost               *)
(* acknowledgement makes it run ahead, and then it stays ahead and does    *)
(* not acknowledge the last packet.                                        *)
(***************************************************************************)
EXTENDS BnoDfu, SequenceTheorems, TLAPS

Active == pc \in {"write", "read", "blocked"}

-----------------------------------------------------------------------------
(* Sizes and messages.                                                     *)

LEMMA Sizes ==
    ASSUME firmware \in Firmwares
    PROVE  /\ firmware.appLen \in Nat /\ packetLen \in Nat /\ MaxPacketLen \in Nat
           /\ packetLen >= 1 /\ packetLen <= MaxPacketLen
           /\ FirmwareStatus = "SH2_OK" => firmware.appLen >= 1
           /\ FirmwareStatus \in Statuses
  <1>1. firmware.appLen \in Nat /\ firmware.packetLen \in Nat
    BY FirmwareAssumption
  <1>2. MaxPacketLen \in Nat \ {0} /\ MinAppLen \in Nat \ {0}
    BY SizeAssumption
  <1>3. packetLen \in Nat /\ packetLen >= 1 /\ packetLen <= MaxPacketLen
    <2>1. LenMod \in Nat \ {0}
      BY SizeAssumption
    <2>2. firmware.packetLen % LenMod \in Nat
      BY <1>1, <2>1
    <2> QED
      BY <1>2, <2>2 DEF packetLen
  <1>4. FirmwareStatus = "SH2_OK" => firmware.appLen >= 1
    BY <1>1, <1>2 DEF FirmwareStatus
  <1> QED
    BY <1>1, <1>2, <1>3, <1>4 DEF FirmwareStatus, Statuses

\* The packet that starts at off, of what there is.
LEMMA LeastBound ==
    ASSUME NEW a \in Nat, NEW b \in Nat
    PROVE  /\ Least(a, b) \in Nat /\ Least(a, b) <= a /\ Least(a, b) <= b
           /\ a >= 1 /\ b >= 1 => Least(a, b) >= 1
  BY DEF Least

\* What dfuSend may be given: the messages have the sizes the buffer has.
Sized(m) ==
    IF m.kind = "data"
    THEN /\ m.off <= firmware.appLen
         /\ m.len = Least(packetLen, firmware.appLen - m.off)
    ELSE m.len = 0

Sendable(m) ==
    IF m.kind = "data" THEN m.len >= 1 /\ m.len <= MaxPacketLen ELSE m.len = 0

\* How far the host is with a message, and when it is acknowledged.
At(m)    == CASE m.kind = "appSize" -> -2 [] m.kind = "pktSize" -> -1 [] m.kind = "data" -> m.off
Behind(m) == CASE m.kind = "appSize" -> -1 [] m.kind = "pktSize" -> 0
               [] m.kind = "data" -> m.off + m.len

LEMMA Following ==
    ASSUME firmware \in Firmwares, NEW m \in Messages, Sized(m)
    PROVE  /\ NextMessage(m) \in Messages /\ Sized(NextMessage(m))
           /\ At(NextMessage(m)) = Behind(m)
           /\ LET n == NextMessage(m)
              IN  IF n.kind = "data" /\ n.len = 0 THEN n.off = firmware.appLen
                                                  ELSE Sendable(n)
  <1> DEFINE al == firmware.appLen
  <1>1. al \in Nat /\ packetLen \in Nat /\ packetLen >= 1 /\ packetLen <= MaxPacketLen
        /\ MaxPacketLen \in Nat
    BY Sizes
  <1>2. ASSUME NEW off \in Nat, off <= al
        PROVE  LET n == Pkt(off, Least(packetLen, al - off))
               IN  /\ n \in Messages /\ n.kind = "data" /\ n.off = off
                   /\ n.len = Least(packetLen, al - off)
                   /\ IF n.len = 0 THEN n.off = al ELSE n.len >= 1 /\ n.len <= MaxPacketLen
    <2> DEFINE len == Least(packetLen, al - off)
    <2>1. al - off \in Nat
      BY <1>1, <1>2
    <2>2. len \in Nat /\ len <= packetLen /\ (al - off >= 1 => len >= 1)
      BY <1>1, <2>1, LeastBound
    <2> HIDE DEF len
    <2>3. /\ Pkt(off, len) \in Messages /\ Pkt(off, len).kind = "data"
          /\ Pkt(off, len).off = off /\ Pkt(off, len).len = len
      BY <2>2 DEF Pkt, Messages
    <2>4. IF len = 0 THEN off = al ELSE len >= 1 /\ len <= MaxPacketLen
      BY <1>1, <1>2, <2>1, <2>2
    <2> QED
      BY <2>3, <2>4 DEF len
  <1>3. m.kind \in {"appSize", "pktSize", "data"} /\ m.off \in Nat /\ m.len \in Nat
    BY DEF Messages
  <1>4. CASE m.kind = "appSize"
    <2>1. NextMessage(m) = PktSize
      BY <1>4 DEF NextMessage
    <2> QED
      BY <1>4, <2>1 DEF PktSize, Messages, Sized, At, Behind, Sendable
  <1>5. CASE m.kind = "pktSize"
    <2>1. NextMessage(m) = Pkt(0, Least(packetLen, al))
      BY <1>5 DEF NextMessage
    <2>2. al - 0 = al /\ 0 <= al /\ 0 \in Nat
      BY <1>1
    <2> QED
      BY <1>2, <1>5, <2>1, <2>2 DEF Sized, At, Behind, Sendable
  <1>6. CASE m.kind = "data"
    <2> DEFINE off == m.off + m.len
    <2>1. off \in Nat /\ off <= al
      <3>1. al - m.off \in Nat /\ m.len = Least(packetLen, al - m.off)
        BY <1>1, <1>3, <1>6 DEF Sized
      <3>2. m.len <= al - m.off
        BY <1>1, <3>1, LeastBound
      <3> QED
        BY <1>1, <1>3, <3>2
    <2>2. NextMessage(m) = Pkt(off, Least(packetLen, al - off))
      BY <1>6 DEF NextMessage
    <2> QED
      BY <1>2, <1>6, <2>1, <2>2 DEF Sized, At, Behind, Sendable
  <1> QED
    BY <1>3, <1>4, <1>5, <1>6

-----------------------------------------------------------------------------
(* The hub's flash.                                                        *)

\* The first n bytes of the application, in order.
FirstBytes(n) == [i \in 1 .. n |-> i - 1]

LEMMA Programs ==
    ASSUME NEW f \in Seq(Nat), NEW off \in Nat, NEW len \in Nat
    PROVE  LET g == f \o [i \in 1 .. len |-> off + i - 1]
           IN  /\ g \in Seq(Nat) /\ Len(g) = Len(f) + len
               /\ len = 0 => g = f
               /\ f = FirstBytes(Len(f)) /\ off = Len(f) => g = FirstBytes(Len(f) + len)
  <1> DEFINE p == [i \in 1 .. len |-> off + i - 1]
             g == f \o p
  <1>1. p \in Seq(Nat) /\ Len(p) = len
    <2>1. p \in [1 .. len -> Nat]
      OBVIOUS
    <2> QED
      BY <2>1, SeqDef, LenProperties
  <1>2. \A i \in 1 .. len : p[i] = off + i - 1
    OBVIOUS
  <1> HIDE DEF p
  <1>3. /\ g \in Seq(Nat) /\ Len(g) = Len(f) + len /\ Len(f) \in Nat
        /\ \A i \in 1 .. Len(f) + len :
              g[i] = IF i <= Len(f) THEN f[i] ELSE p[i - Len(f)]
    <2>1. /\ f \o p \in Seq(Nat) /\ Len(f \o p) = Len(f) + Len(p) /\ Len(f) \in Nat
          /\ \A i \in 1 .. Len(f) + Len(p) :
                (f \o p)[i] = IF i <= Len(f) THEN f[i] ELSE p[i - Len(f)]
      BY <1>1, ConcatProperties, LenProperties, Zenon
    <2> QED
      BY <1>1, <2>1, Zenon
  <1>4. len = 0 => g = f
    <2> SUFFICES ASSUME len = 0 PROVE g = f
      OBVIOUS
    <2>1. Len(g) = Len(f) /\ \A i \in 1 .. Len(f) : g[i] = f[i]
      BY <1>3
    <2> QED
      BY <1>3, <2>1, SeqEqual
  <1>5. ASSUME f = FirstBytes(Len(f)), off = Len(f)
        PROVE  g = FirstBytes(Len(f) + len)
    <2> DEFINE h == FirstBytes(Len(f) + len)
    <2>1. Len(f) + len \in Nat
      BY <1>3
    <2>2. h \in [1 .. Len(f) + len -> Nat]
      BY <2>1 DEF FirstBytes
    <2>3. h \in Seq(Nat) /\ Len(h) = Len(f) + len
      BY <2>1, <2>2, SeqDef, LenProperties
    <2>4. ASSUME NEW i \in 1 .. Len(f) + len PROVE g[i] = h[i]
      <3>1. h[i] = i - 1
        BY DEF FirstBytes
      <3>2. CASE i <= Len(f)
        <4>1. i \in 1 .. Len(f)
          BY <1>3, <3>2
        <4>2. f[i] = i - 1
          BY <1>5, <4>1 DEF FirstBytes
        <4> QED
          BY <1>3, <3>1, <3>2, <4>2
      <3>3. CASE ~(i <= Len(f))
        <4>1. i - Len(f) \in 1 .. len
          BY <1>3, <3>3
        <4>2. p[i - Len(f)] = off + (i - Len(f)) - 1
          BY <1>2, <4>1
        <4>3. g[i] = p[i - Len(f)]
          BY <1>3, <3>3
        <4>4. off + (i - Len(f)) - 1 = i - 1
          BY <1>3, <1>5
        <4> QED
          BY <3>1, <4>2, <4>3, <4>4
      <3> QED
        BY <3>2, <3>3
    <2> HIDE DEF h
    <2>5. g = h
      BY <1>3, <2>3, <2>4, SeqEqual
    <2> QED
      BY <2>5 DEF h
  <1> QED
    BY <1>3, <1>4, <1>5 DEF p

-----------------------------------------------------------------------------
(* What holds in any case.                                                 *)

\* Nothing has happened yet.
Fresh ==
    /\ msg = AppSize /\ toHub = <<>> /\ fromHub = <<>> /\ hubStage = "off" /\ flash = <<>>
    /\ ~erased /\ elapsed = 0 /\ retries = 0 /\ status = "SH2_OK"

Sending ==
    /\ pc \in {"validate", "open"} => Fresh
    /\ Active \/ pc = "open" => FirmwareStatus = "SH2_OK"
    /\ Active => status = "SH2_OK" /\ retries < MaxAttempts /\ Sendable(msg)
    /\ Sized(msg)
    /\ \A i \in 1 .. Len(toHub) : Sendable(toHub[i])

Flashed ==
    /\ hubStage # "off" => firmware.appLen >= 1
    /\ hubStage \in {"appSize", "pktSize"} => flash = <<>>
    /\ hubStage = "data" => Len(flash) < firmware.appLen
    /\ hubStage = "done" => Len(flash) = firmware.appLen
    /\ hubStage \in {"pktSize", "data", "done"} => erased
    /\ ~erased => flash = <<>>

Kept == TypeOK /\ Sending /\ Flashed

USE DEF constVars, hubVars, hostVars

LEMMA InitKept == Init => Kept
  <1> SUFFICES ASSUME Init PROVE Kept
    OBVIOUS
  <1>1. TypeOK
    <2>1. AppSize \in Messages
      BY DEF AppSize, Messages
    <2>2. 0 \in 0 .. MaxAttempts /\ 0 \in 0 .. SendTimeout /\ 0 \in 0 .. MaxNoise
      BY SizeAssumption, FaultAssumption
    <2>3. toHub \in Seq(Messages) /\ fromHub \in Seq(Acks) /\ flash \in Seq(Nat)
      BY DEF Init
    <2>4. /\ msg \in Messages /\ retries \in 0 .. MaxAttempts /\ elapsed \in 0 .. SendTimeout
          /\ noise \in 0 .. MaxNoise
      BY <2>1, <2>2 DEF Init
    <2> QED
      BY <2>3, <2>4 DEF Init, TypeOK, Statuses
  <1>2. Sending
    BY DEF Init, Sending, Fresh, Active, Sized, AppSize
  <1>3. Flashed
    BY DEF Init, Flashed
  <1> QED
    BY <1>1, <1>2, <1>3 DEF Kept

\* run() before and after the transfer.
LEMMA RunKept ==
    ASSUME Kept, Validate \/ Open \/ OpenFails \/ Close
    PROVE  Kept'
  <1>0. TypeOK /\ Sending /\ Flashed /\ firmware \in Firmwares
    BY DEF Kept, TypeOK
  <1>1. CASE Validate
    <2>1. TypeOK'
      BY <1>0, <1>1, Sizes DEF Validate, TypeOK
    <2>2. Sending'
      BY <1>0, <1>1 DEF Validate, Sending, Fresh, Active, Sized, Sendable, packetLen, FirmwareStatus
    <2>3. Flashed'
      BY <1>0, <1>1 DEF Validate, Flashed
    <2> QED
      BY <2>1, <2>2, <2>3 DEF Kept
  <1>2. CASE Open
    <2>1. TypeOK'
      BY <1>0, <1>2 DEF Open, TypeOK
    <2>2. Fresh /\ FirmwareStatus = "SH2_OK" /\ UNCHANGED <<firmware, status, retries, msg, toHub>>
          /\ pc' = "write" /\ FirmwareStatus' = FirmwareStatus
      BY <1>0, <1>2 DEF Open, Sending, FirmwareStatus
    <2>3. Sending'
      BY <1>0, <2>2, SizeAssumption
      DEF Sending, Fresh, Active, Sized, Sendable, packetLen, AppSize
    <2>4. Flashed'
      BY <1>0, <1>2, <2>2, Sizes DEF Open, Flashed, Fresh
    <2> QED
      BY <2>1, <2>3, <2>4 DEF Kept
  <1>3. CASE OpenFails
    <2>1. TypeOK'
      BY <1>0, <1>3 DEF OpenFails, TypeOK, Statuses
    <2>2. Sending'
      BY <1>0, <1>3 DEF OpenFails, Sending, Active, Sized, Sendable, packetLen
    <2>3. Flashed'
      BY <1>0, <1>3 DEF OpenFails, Flashed
    <2> QED
      BY <2>1, <2>2, <2>3 DEF Kept
  <1>4. CASE Close
    <2>1. TypeOK'
      BY <1>0, <1>4 DEF Close, TypeOK
    <2>2. Len(toHub') = 0
      BY <1>4 DEF Close
    <2>3. Sending'
      BY <1>0, <1>4, <2>2 DEF Close, Sending, Active, Sized, Sendable, packetLen
    <2>4. Flashed'
      BY <1>0, <1>4 DEF Close, Flashed
    <2> QED
      BY <2>1, <2>3, <2>4 DEF Kept
  <1> QED
    BY <1>1, <1>2, <1>3, <1>4

\* An attempt that fails is counted.
LEMMA AttemptFailsKept ==
    ASSUME Kept, Active, NEW s \in Statuses, AttemptFails(s), UNCHANGED constVars,
           UNCHANGED <<toHub, hubVars, noise>>, fromHub' \in Seq(Acks)
    PROVE  Kept'
  <1>1. TypeOK /\ Sending /\ Flashed /\ retries \in Nat /\ MaxAttempts \in Nat
        /\ retries < MaxAttempts
    BY SizeAssumption DEF Kept, TypeOK, Sending
  <1>2. /\ retries' = retries + 1 /\ retries' \in 0 .. MaxAttempts /\ elapsed' = 0 /\ msg' = msg
        /\ \/ pc' = "write" /\ status' = status /\ retries' < MaxAttempts
           \/ pc' = "close" /\ status' = s
    BY <1>1 DEF AttemptFails
  <1>3. TypeOK'
    BY <1>1, <1>2, SizeAssumption DEF TypeOK
  <1>4. Sending'
    BY <1>1, <1>2 DEF Sending, Active, Sized, Sendable, packetLen, FirmwareStatus
  <1>5. Flashed'
    BY <1>1 DEF Flashed
  <1> QED
    BY <1>3, <1>4, <1>5 DEF Kept

\* After a good acknowledgement the next message is sent.
LEMMA AttemptSucceedsKept ==
    ASSUME Kept, Active, AttemptSucceeds, UNCHANGED constVars,
           UNCHANGED <<toHub, hubVars, noise>>, fromHub' \in Seq(Acks)
    PROVE  /\ Kept' /\ At(msg') = Behind(msg) /\ UNCHANGED status
           /\ \/ pc' = "write"
              \/ pc' = "close" /\ msg'.kind = "data" /\ msg'.off = firmware.appLen /\ msg'.len = 0
  <1>1. TypeOK /\ Sending /\ Flashed /\ firmware \in Firmwares /\ msg \in Messages /\ Sized(msg)
    BY DEF Kept, TypeOK, Sending
  <1>2. /\ msg' \in Messages /\ Sized(msg') /\ At(msg') = Behind(msg)
        /\ IF msg'.kind = "data" /\ msg'.len = 0 THEN msg'.off = firmware.appLen
                                                 ELSE Sendable(msg')
    BY <1>1, Following DEF AttemptSucceeds
  <1>3. /\ pc' = IF msg'.kind = "data" /\ msg'.len = 0 THEN "close" ELSE "write"
        /\ retries' = 0 /\ elapsed' = 0 /\ UNCHANGED status
    BY DEF AttemptSucceeds
  <1>4. TypeOK'
    BY <1>1, <1>2, <1>3, SizeAssumption DEF TypeOK
  <1>5. Sized(msg)' /\ FirmwareStatus' = FirmwareStatus
    BY <1>2 DEF Sized, packetLen, FirmwareStatus
  <1>6. Sending'
    BY <1>1, <1>2, <1>3, <1>5, SizeAssumption DEF Sending, Active, Sized, Sendable, packetLen
  <1>7. Flashed'
    BY <1>1 DEF Flashed
  <1> QED
    BY <1>2, <1>3, <1>4, <1>6, <1>7 DEF Kept

\* The other steps of dfuSend.
LEMMA SendKept ==
    ASSUME Kept,
           Write \/ WritePart \/ WriteTimesOut \/ ReadBlocks \/ ReadAck \/ ReadFails \/ ReadTimesOut
    PROVE  Kept'
  <1>0. TypeOK /\ Sending /\ Flashed
    BY DEF Kept
  <1>1. CASE Write
    <2>1. /\ toHub \in Seq(Messages) /\ msg \in Messages /\ Sendable(msg)
          /\ toHub' = Append(toHub, msg) /\ pc = "write" /\ pc' = "read"
          /\ \A i \in 1 .. Len(toHub) : Sendable(toHub[i])
      BY <1>0, <1>1 DEF Write, TypeOK, Sending, Active
    <2>2. /\ toHub' \in Seq(Messages)
          /\ \A i \in 1 .. Len(toHub') : toHub'[i] = msg \/ \E j \in 1 .. Len(toHub) : toHub'[i] = toHub[j]
      BY <2>1
    <2>3. TypeOK'
      BY <1>0, <1>1, <2>2 DEF Write, TypeOK
    <2>4. \A i \in 1 .. Len(toHub') : Sendable(toHub'[i])
      BY <2>1, <2>2
    <2>5. Sending'
      BY <1>0, <1>1, <2>1, <2>4 DEF Write, Sending, Active, Sized, Sendable, packetLen, FirmwareStatus
    <2>6. Flashed'
      BY <1>0, <1>1 DEF Write, Flashed
    <2> QED
      BY <2>3, <2>5, <2>6 DEF Kept
  <1>2. CASE WriteTimesOut \/ ReadTimesOut
    <2>1. fromHub' \in Seq(Acks)
      BY <1>0, <1>2 DEF WriteTimesOut, ReadTimesOut, TypeOK
    <2> QED
      BY <1>2, <2>1, AttemptFailsKept DEF WriteTimesOut, ReadTimesOut, Active, Statuses
  <1>3. CASE ReadBlocks \/ ReadFails \/ WritePart
    <2>1. TypeOK'
      BY <1>0, <1>3 DEF ReadBlocks, ReadFails, WritePart, TypeOK
    <2>2. Sending'
      BY <1>0, <1>3 DEF ReadBlocks, ReadFails, WritePart, Sending, Active, Sized, Sendable,
         packetLen, FirmwareStatus
    <2>3. Flashed'
      BY <1>0, <1>3 DEF ReadBlocks, ReadFails, WritePart, Flashed
    <2> QED
      BY <2>1, <2>2, <2>3 DEF Kept
  <1>4. CASE ReadAck
    <2>1. fromHub \in Seq(Acks) /\ fromHub # <<>> /\ fromHub' = Tail(fromHub)
      BY <1>0, <1>4 DEF ReadAck, TypeOK
    <2>2. fromHub' \in Seq(Acks)
      BY <2>1
    <2>3. UNCHANGED constVars /\ UNCHANGED <<toHub, hubVars, noise>> /\ Active
      BY <1>4 DEF ReadAck, Active
    <2>4. AttemptSucceeds \/ AttemptFails("SH2_ERR_HUB")
      BY <1>4 DEF ReadAck
    <2> QED
      BY <2>2, <2>3, <2>4, AttemptFailsKept, AttemptSucceedsKept DEF Statuses
  <1> QED
    BY <1>1, <1>2, <1>3, <1>4

\* A message is off the line.
LEMMA RestSendable ==
    ASSUME toHub \in Seq(Messages), toHub # <<>>,
           \A i \in 1 .. Len(toHub) : Sendable(toHub[i])
    PROVE  /\ Head(toHub) \in Messages /\ Sendable(Head(toHub))
           /\ Tail(toHub) \in Seq(Messages)
           /\ \A i \in 1 .. Len(Tail(toHub)) : Sendable(Tail(toHub)[i])
  <1>1. /\ 1 \in 1 .. Len(toHub) /\ Head(toHub) = toHub[1]
        /\ Len(Tail(toHub)) = Len(toHub) - 1 /\ Tail(toHub) \in Seq(Messages)
        /\ \A i \in 1 .. Len(toHub) - 1 : i + 1 \in 1 .. Len(toHub) /\ Tail(toHub)[i] = toHub[i + 1]
    BY HeadTailProperties
  <1>2. Head(toHub) \in Messages
    BY HeadTailProperties
  <1> QED
    BY <1>1, <1>2

\* What the hub makes of an expected message.
LEMMA HubProgrammed ==
    ASSUME Kept, HubTakes, Expected(Head(toHub))
    PROVE  /\ Head(toHub) \in Messages /\ Sendable(Head(toHub))
           /\ Head(toHub).kind = hubStage /\ hubStage \in {"appSize", "pktSize", "data"}
           /\ fromHub' = Append(fromHub, "ACK") /\ erased' = TRUE
           /\ flash' \in Seq(Nat) /\ Len(flash') = Len(flash) + Head(toHub).len
           /\ Len(flash') <= firmware.appLen
           /\ hubStage \in {"appSize", "pktSize"} => flash' = flash
           /\ flash = FirstBytes(Len(flash)) /\ Head(toHub).off = Len(flash)
                 => flash' = FirstBytes(Len(flash'))
           /\ hubStage' = IF hubStage = "appSize" THEN "pktSize"
                          ELSE IF Len(flash') < firmware.appLen THEN "data" ELSE "done"
  <1> DEFINE m == Head(toHub)
             al == firmware.appLen
  <1>1. /\ toHub \in Seq(Messages) /\ toHub # <<>> /\ hubStage # "off"
        /\ \A i \in 1 .. Len(toHub) : Sendable(toHub[i])
        /\ flash \in Seq(Nat) /\ firmware \in Firmwares /\ Flashed /\ UNCHANGED firmware
    BY DEF HubTakes, Kept, TypeOK, Sending
  <1>2. m \in Messages /\ Sendable(m)
    BY <1>1, RestSendable
  <1>3. m.kind = hubStage /\ (m.kind = "data" => m.len = Least(packetLen, al - Len(flash)))
    BY DEF Expected
  <1>4. m.kind \in {"appSize", "pktSize", "data"} /\ m.off \in Nat /\ m.len \in Nat
    BY <1>2 DEF Messages
  <1>5. hubStage # "done"
    BY <1>3, <1>4
  <1>6. /\ fromHub' = Append(fromHub, "ACK") /\ erased' = TRUE
        /\ flash' = flash \o [i \in 1 .. m.len |-> m.off + i - 1]
        /\ hubStage' = IF m.kind = "appSize" THEN "pktSize"
                       ELSE IF Len(flash') < firmware.appLen THEN "data" ELSE "done"
    BY <1>5 DEF HubTakes, Answer
  <1> HIDE DEF m
  <1>7. /\ flash' \in Seq(Nat) /\ Len(flash') = Len(flash) + m.len
        /\ m.len = 0 => flash' = flash
        /\ flash = FirstBytes(Len(flash)) /\ m.off = Len(flash)
              => flash' = FirstBytes(Len(flash) + m.len)
    BY <1>1, <1>4, <1>6, Programs
  <1>8. Len(flash) \in Nat /\ al \in Nat /\ packetLen \in Nat /\ al >= 1
    BY <1>1, Sizes DEF Flashed
  <1>9. Len(flash') <= al
    <2>1. CASE m.kind = "data"
      <3>1. Len(flash) < al
        BY <1>1, <1>3, <2>1 DEF Flashed
      <3>2. al - Len(flash) \in Nat
        BY <1>8, <3>1
      <3>3. m.len <= al - Len(flash)
        BY <1>3, <1>8, <2>1, <3>2, LeastBound
      <3> QED
        BY <1>4, <1>7, <1>8, <3>3
    <2>2. CASE m.kind # "data"
      <3>1. m.len = 0 /\ flash = <<>>
        BY <1>1, <1>2, <1>3, <1>4, <2>2 DEF Sendable, Flashed
      <3> QED
        BY <1>7, <1>8, <3>1
    <2> QED
      BY <2>1, <2>2
  <1>10. hubStage \in {"appSize", "pktSize"} => flash' = flash
    BY <1>2, <1>3, <1>7 DEF Sendable
  <1> QED
    BY <1>2, <1>3, <1>4, <1>6, <1>7, <1>9, <1>10 DEF m

LEMMA HubKept ==
    ASSUME Kept, HubTakes \/ HubRejects \/ Lose
    PROVE  Kept'
  <1>0. /\ TypeOK /\ Sending /\ Flashed /\ firmware \in Firmwares /\ flash \in Seq(Nat)
        /\ toHub \in Seq(Messages) /\ fromHub \in Seq(Acks)
        /\ \A i \in 1 .. Len(toHub) : Sendable(toHub[i])
        /\ UNCHANGED <<constVars, hostVars>>
    BY DEF Kept, TypeOK, Sending, HubTakes, HubRejects, Lose
  <1>1. /\ toHub' \in Seq(Messages)
        /\ \A i \in 1 .. Len(toHub') : Sendable(toHub'[i])
        /\ toHub' # toHub => toHub # <<>>
    <2>1. toHub' = toHub \/ (toHub # <<>> /\ toHub' = Tail(toHub))
      BY DEF HubTakes, HubRejects, Lose
    <2> QED
      BY <1>0, <2>1, RestSendable
  <1>2. fromHub' \in Seq(Acks)
    <2>1. \/ fromHub' = fromHub \/ fromHub' = Append(fromHub, "ACK") \/ fromHub' = Append(fromHub, "NAK")
          \/ fromHub # <<>> /\ fromHub' = Tail(fromHub)
      BY DEF HubTakes, HubRejects, Lose, Answer
    <2>2. "ACK" \in Acks /\ "NAK" \in Acks
      BY DEF Acks
    <2>3. \A s \in Seq(Acks) : /\ \A a \in Acks : Append(s, a) \in Seq(Acks)
                              /\ s # <<>> => Tail(s) \in Seq(Acks)
      BY HeadTailProperties
    <2>4. CASE fromHub' = fromHub
      BY <1>0, <2>4
    <2>5. CASE \E a \in Acks : fromHub' = Append(fromHub, a)
      BY <1>0, <2>3, <2>5
    <2>6. CASE fromHub # <<>> /\ fromHub' = Tail(fromHub)
      BY <1>0, <2>3, <2>6
    <2> QED
      BY <2>1, <2>2, <2>4, <2>5, <2>6
  <1>3. noise' \in 0 .. MaxNoise
    BY <1>0, FaultAssumption DEF HubTakes, HubRejects, Lose, TypeOK
  <1>4. \/ UNCHANGED hubVars
        \/ HubTakes /\ Expected(Head(toHub))
    BY DEF HubTakes, HubRejects, Lose
  <1>5. /\ hubStage' \in {"off", "appSize", "pktSize", "data", "done"}
        /\ flash' \in Seq(Nat) /\ erased' \in BOOLEAN /\ Flashed'
    <2>1. CASE UNCHANGED hubVars
      BY <1>0, <2>1 DEF TypeOK, Flashed
    <2>2. CASE HubTakes /\ Expected(Head(toHub))
      <3>1. /\ hubStage \in {"appSize", "pktSize", "data"} /\ erased' = TRUE
            /\ flash' \in Seq(Nat) /\ Len(flash') <= firmware.appLen
            /\ hubStage \in {"appSize", "pktSize"} => flash' = flash
            /\ hubStage' = IF hubStage = "appSize" THEN "pktSize"
                           ELSE IF Len(flash') < firmware.appLen THEN "data" ELSE "done"
        BY <2>2, HubProgrammed
      <3>2. firmware.appLen \in Nat /\ Len(flash') \in Nat
        BY <1>0, <3>1, Sizes
      <3>3. hubStage' \in {"pktSize", "data", "done"}
        BY <3>1
      <3>4. hubStage' = "pktSize" => flash' = <<>>
        BY <1>0, <3>1 DEF Flashed
      <3>5. hubStage' = "data" => Len(flash') < firmware.appLen
        BY <3>1
      <3>6. hubStage' = "done" => Len(flash') = firmware.appLen
        BY <3>1, <3>2
      <3> QED
        BY <1>0, <3>1, <3>3, <3>4, <3>5, <3>6 DEF Flashed
    <2> QED
      BY <1>4, <2>1, <2>2
  <1>6. TypeOK'
    BY <1>0, <1>1, <1>2, <1>3, <1>5 DEF TypeOK
  <1>7. pc \notin {"validate", "open"}
    BY <1>0 DEF Sending, Fresh, HubTakes, HubRejects, Lose
  <1>8. Sending'
    BY <1>0, <1>1, <1>7 DEF Sending, Active, Sized, Sendable, packetLen, FirmwareStatus
  <1> QED
    BY <1>5, <1>6, <1>8 DEF Kept

LEMMA TickKept ==
    ASSUME Kept, Tick
    PROVE  Kept'
  <1>1. TypeOK /\ Sending /\ Flashed
    BY DEF Kept
  <1>2. elapsed' \in 0 .. SendTimeout /\ pc \in {"write", "read", "blocked"}
    BY <1>1, SizeAssumption DEF Tick, Waiting, TypeOK
  <1>3. TypeOK'
    BY <1>1, <1>2 DEF Tick, TypeOK
  <1>4. Sending'
    BY <1>1, <1>2 DEF Tick, Sending, Active, Sized, Sendable, packetLen, FirmwareStatus
  <1>5. Flashed'
    BY <1>1 DEF Tick, Flashed
  <1> QED
    BY <1>3, <1>4, <1>5 DEF Kept

LEMMA NextKept == Kept /\ [Next]_vars => Kept'
  <1> SUFFICES ASSUME Kept, [Next]_vars PROVE Kept'
    OBVIOUS
  <1>1. CASE UNCHANGED vars
    BY <1>1 DEF vars, Kept, TypeOK, Sending, Flashed, Active, Fresh, Sized, Sendable, packetLen,
       FirmwareStatus
  <1>2. CASE Polling \/ Finished
    BY <1>1, <1>2 DEF Polling, Finished
  <1> QED
    BY <1>1, <1>2, RunKept, SendKept, HubKept, TickKept DEF Next, Host, Hub

LEMMA AlwaysKept == Spec => []Kept
  BY InitKept, NextKept, PTL DEF Spec

\* Every state of an update is well typed.
THEOREM TypeCorrect == Spec => []TypeOK
  <1>1. Kept => TypeOK
    BY DEF Kept
  <1> QED
    BY <1>1, AlwaysKept, PTL

-----------------------------------------------------------------------------
(* Acknowledgements in time.                                               *)

\* One message or one answer is on the line, and it is that of the attempt.
Line ==
    /\ pc \notin {"read", "blocked"} => toHub = <<>> /\ fromHub = <<>>
    /\ toHub = <<>> \/ (toHub = <<msg>> /\ fromHub = <<>>)
    /\ fromHub \in {<<>>, <<"ACK">>, <<"NAK">>}
    /\ pc = "write" => elapsed = 0
    /\ pc = "read" /\ (platform = "linux" \/ toHub # <<>> \/ fromHub # <<>>) => elapsed = 0
    /\ pc = "blocked" => platform = "linux"

\* How far the hub is, and how far it was when the host last heard of it.
HubAt  == CASE hubStage = "appSize" -> -2 [] hubStage = "pktSize" -> -1 [] OTHER -> Len(flash)
Agreed == IF fromHub = <<"ACK">> THEN Behind(msg) ELSE At(msg)

\* The hub is not behind; where it is not ahead, it has what it should have.
Ahead ==
    /\ Active => /\ hubStage # "off"
                 /\ HubAt >= Agreed
                 /\ HubAt = Agreed => flash = FirstBytes(Len(flash))
                 /\ "loss" \notin faults => HubAt = Agreed
    /\ pc \in {"close", "returned"} /\ status = "SH2_OK" => Exact /\ erased
    /\ "loss" \notin faults /\ msg.kind = "data" => Len(flash) \in {msg.off, msg.off + msg.len}

LEMMA Positions ==
    ASSUME Kept
    PROVE  /\ At(msg) \in Int /\ Behind(msg) \in Int /\ HubAt \in Int /\ Agreed \in Int
           /\ Len(flash) \in Nat /\ flash \in Seq(Nat) /\ msg.off \in Nat /\ msg.len \in Nat
           /\ msg.kind \in {"appSize", "pktSize", "data"}
           /\ Active => Behind(msg) > At(msg)
           /\ firmware.appLen \in Nat
  <1>1. msg \in Messages /\ flash \in Seq(Nat) /\ firmware \in Firmwares
    BY DEF Kept, TypeOK
  <1>2. msg.kind \in {"appSize", "pktSize", "data"} /\ msg.off \in Nat /\ msg.len \in Nat
    BY <1>1 DEF Messages
  <1>3. Len(flash) \in Nat
    BY <1>1
  <1>4. At(msg) \in Int /\ Behind(msg) \in Int
    BY <1>2 DEF At, Behind
  <1>5. HubAt \in Int /\ Agreed \in Int
    BY <1>3, <1>4 DEF HubAt, Agreed
  <1>6. ASSUME Active PROVE Behind(msg) > At(msg)
    <2>1. Sendable(msg)
      BY <1>6 DEF Kept, Sending
    <2> QED
      BY <1>2, <2>1 DEF Sendable, At, Behind
  <1> QED
    BY <1>1, <1>2, <1>3, <1>4, <1>5, <1>6, Sizes

\* What the hub has of packets, by what the host knows.
LEMMA InPackets ==
    ASSUME Kept, Active, hubStage # "off", HubAt = Agreed, msg.kind = "data"
    PROVE  Len(flash) = Agreed /\ Agreed \in {msg.off, msg.off + msg.len}
  <1>1. Agreed \in {msg.off, msg.off + msg.len} /\ Agreed >= 0
    BY Positions DEF Agreed, At, Behind
  <1>2. hubStage # "appSize" /\ hubStage # "pktSize"
    BY <1>1 DEF HubAt
  <1> QED
    BY <1>1, <1>2 DEF HubAt

\* An attempt that failed changes nothing of it.
LEMMA FailAhead ==
    ASSUME Kept, Line, Ahead, Active, NEW s, AttemptFails(s), s # "SH2_OK",
           fromHub # <<"ACK">>, toHub' = <<>>, fromHub' = <<>>,
           UNCHANGED <<platform, faults, firmware, hubStage, flash, erased>>
    PROVE  Line' /\ Ahead'
  <1>1. /\ elapsed' = 0 /\ msg' = msg
        /\ pc' = "write" \/ (pc' = "close" /\ status' = s)
    BY DEF AttemptFails
  <1>2. Line'
    BY <1>1 DEF Line
  <1>3. HubAt' = HubAt /\ Agreed' = Agreed
    <2>1. fromHub' # <<"ACK">>
      OBVIOUS
    <2>2. Agreed = At(msg) /\ Agreed' = At(msg)' /\ At(msg)' = At(msg)
      BY <1>1, <2>1 DEF Agreed, At
    <2> QED
      BY <2>2 DEF HubAt
  <1>4. Ahead'
    BY <1>1, <1>3 DEF Ahead, Active, Exact, FirstBytes
  <1> QED
    BY <1>2, <1>4

LEMMA RunAhead ==
    ASSUME Kept, Line, Ahead, Validate \/ Open \/ OpenFails \/ Close
    PROVE  Line' /\ Ahead'
  <1>1. CASE Validate
    <2>1. Fresh /\ toHub' = <<>> /\ fromHub' = <<>> /\ msg' = AppSize
          /\ pc' \in {"returned", "close", "open"}
          /\ (pc' # "open" => status' # "SH2_OK")
      BY <1>1 DEF Validate, Kept, Sending, Fresh, FirmwareStatus
    <2>2. Line'
      BY <2>1 DEF Line
    <2>3. Ahead'
      BY <2>1 DEF Ahead, Active, AppSize
    <2> QED
      BY <2>2, <2>3
  <1>2. CASE Open
    <2>1. Fresh /\ toHub' = <<>> /\ fromHub' = <<>> /\ msg' = AppSize /\ pc' = "write"
          /\ elapsed' = 0 /\ hubStage' = "appSize" /\ flash' = <<>>
      BY <1>2 DEF Open, Kept, Sending, Fresh
    <2>2. Line'
      BY <2>1 DEF Line
    <2>3. fromHub' # <<"ACK">> /\ Len(flash') = 0
      BY <2>1
    <2>4. HubAt' = -2 /\ Agreed' = -2 /\ msg'.kind = "appSize"
      BY <2>1, <2>3 DEF HubAt, Agreed, At, AppSize
    <2>5. FirstBytes(0) = <<>>
      BY DEF FirstBytes
    <2>6. Ahead'
      BY <2>1, <2>3, <2>4, <2>5 DEF Ahead, Active, FirstBytes
    <2> QED
      BY <2>2, <2>6
  <1>3. CASE OpenFails
    <2>1. toHub' = <<>> /\ fromHub' = <<>> /\ msg' = AppSize /\ pc' = "close"
          /\ status' = "SH2_ERR_IO"
      BY <1>3 DEF OpenFails, Kept, Sending, Fresh
    <2> QED
      BY <2>1 DEF Line, Ahead, Active, AppSize
  <1>4. CASE Close
    <2>1. toHub' = <<>> /\ fromHub' = <<>> /\ pc = "close" /\ pc' = "returned"
          /\ UNCHANGED <<msg, status, flash, erased, faults, firmware>>
      BY <1>4 DEF Close
    <2>2. Line'
      BY <2>1 DEF Line
    <2>3. Ahead'
      BY <2>1 DEF Ahead, Active, Exact
    <2> QED
      BY <2>2, <2>3
  <1> QED
    BY <1>1, <1>2, <1>3, <1>4

LEMMA SendAhead ==
    ASSUME Kept, Line, Ahead,
           Write \/ WritePart \/ WriteTimesOut \/ ReadBlocks \/ ReadAck \/ ReadTimesOut
    PROVE  Line' /\ Ahead'
  <1>1. CASE Write
    <2>1. /\ toHub = <<>> /\ fromHub = <<>> /\ elapsed = 0 /\ pc = "write" /\ pc' = "read"
          /\ toHub' = Append(toHub, msg) /\ UNCHANGED <<msg, elapsed, fromHub, platform, faults>>
          /\ UNCHANGED <<flash, hubStage, status, erased, firmware>>
      BY <1>1 DEF Write, Line
    <2>2. toHub' = <<msg>>
      BY <2>1
    <2>3. Line'
      BY <2>1, <2>2 DEF Line
    <2>4. Ahead'
      BY <2>1 DEF Ahead, Active, HubAt, Agreed, At, Behind, FirstBytes
    <2> QED
      BY <2>3, <2>4
  <1>2. CASE WriteTimesOut
    <2>1. toHub = <<>> /\ fromHub = <<>> /\ Active /\ UNCHANGED <<toHub, fromHub>>
          /\ AttemptFails("SH2_ERR_TIMEOUT")
          /\ UNCHANGED <<platform, faults, firmware, hubStage, flash, erased>>
      BY <1>2 DEF WriteTimesOut, Line, Active
    <2>2. fromHub # <<"ACK">>
      BY <2>1
    <2> QED
      BY <2>1, <2>2, FailAhead
  <1>6. CASE WritePart
    <2>1. /\ pc = "write" /\ pc' = "read" /\ toHub = <<>> /\ fromHub = <<>> /\ elapsed = 0
          /\ UNCHANGED <<msg, elapsed, toHub, fromHub, platform, faults>>
          /\ UNCHANGED <<flash, hubStage, status, erased, firmware>>
      BY <1>6 DEF WritePart, Line
    <2>2. Line'
      BY <2>1 DEF Line
    <2>3. Ahead'
      BY <2>1 DEF Ahead, Active, HubAt, Agreed, At, Behind, FirstBytes
    <2> QED
      BY <2>2, <2>3
  <1>3. CASE ReadBlocks
    <2>1. /\ pc = "read" /\ pc' = "blocked" /\ platform = "linux"
          /\ UNCHANGED <<msg, elapsed, toHub, fromHub, platform, faults>>
          /\ UNCHANGED <<flash, hubStage, status, erased, firmware>>
      BY <1>3 DEF ReadBlocks
    <2>2. Line'
      BY <2>1 DEF Line
    <2>3. Ahead'
      BY <2>1 DEF Ahead, Active, HubAt, Agreed, At, Behind, FirstBytes
    <2> QED
      BY <2>2, <2>3
  <1>4. CASE ReadTimesOut
    <2>1. /\ pc = "read" /\ elapsed # 0 /\ Active /\ UNCHANGED <<toHub, fromHub>>
          /\ AttemptFails("SH2_ERR_TIMEOUT")
          /\ UNCHANGED <<platform, faults, firmware, hubStage, flash, erased>>
      BY <1>4, SizeAssumption DEF ReadTimesOut, Active
    <2>2. toHub = <<>> /\ fromHub = <<>>
      BY <2>1 DEF Line
    <2>3. fromHub # <<"ACK">>
      BY <2>2
    <2> QED
      BY <2>1, <2>2, <2>3, FailAhead
  <1>5. CASE ReadAck
    <2>1. /\ Active /\ fromHub # <<>> /\ toHub = <<>> /\ toHub' = <<>> /\ fromHub' = Tail(fromHub)
          /\ UNCHANGED <<platform, faults, firmware, hubStage, flash, erased>>
          /\ IF Head(fromHub) = "ACK" THEN AttemptSucceeds ELSE AttemptFails("SH2_ERR_HUB")
      BY <1>5 DEF ReadAck, Line, Active
    <2>2. CASE fromHub = <<"NAK">>
      <3>1. fromHub' = <<>> /\ fromHub # <<"ACK">> /\ Head(fromHub) # "ACK"
        BY <2>1, <2>2
      <3> QED
        BY <2>1, <3>1, FailAhead
    <2>3. CASE fromHub = <<"ACK">>
      <3>1. fromHub' = <<>> /\ Head(fromHub) = "ACK" /\ fromHub' # <<"ACK">>
        BY <2>1, <2>3
      <3>2. AttemptSucceeds /\ UNCHANGED constVars /\ UNCHANGED <<toHub, hubVars, noise>>
            /\ fromHub' \in Seq(Acks)
        <4>1. AttemptSucceeds
          BY <2>1, <3>1
        <4>2. UNCHANGED constVars /\ UNCHANGED <<toHub, hubVars, noise>>
          BY <1>5 DEF ReadAck
        <4> QED
          BY <3>1, <4>1, <4>2
      <3>3. /\ Kept' /\ At(msg') = Behind(msg) /\ UNCHANGED status /\ elapsed' = 0
            /\ \/ pc' = "write"
               \/ /\ pc' = "close" /\ msg'.kind = "data" /\ msg'.off = firmware.appLen
                  /\ msg'.len = 0
        BY <2>1, <3>2, AttemptSucceedsKept DEF AttemptSucceeds
      <3>4. Line'
        BY <2>1, <3>1, <3>3 DEF Line
      <3>5. HubAt' = HubAt /\ Agreed' = Agreed /\ At(msg') = Agreed /\ At(msg)' = At(msg')
        BY <2>1, <2>3, <3>1, <3>3 DEF HubAt, Agreed, At
      <3>6. hubStage # "off" /\ HubAt >= Agreed /\ (HubAt = Agreed => flash = FirstBytes(Len(flash)))
            /\ ("loss" \notin faults => HubAt = Agreed)
        BY <2>1 DEF Ahead
      <3>7. CASE pc' = "write"
        <4>1. "loss" \notin faults /\ msg'.kind = "data" => Len(flash') \in {msg'.off, msg'.off + msg'.len}
          <5> SUFFICES ASSUME "loss" \notin faults, msg'.kind = "data"
                       PROVE  Len(flash') = msg'.off
            OBVIOUS
          <5>1. HubAt = msg'.off /\ msg'.off \in Nat
            BY <3>3, <3>5, <3>6 DEF At, Kept, TypeOK, Messages
          <5>2. hubStage # "appSize" /\ hubStage # "pktSize"
            BY <5>1 DEF HubAt
          <5> QED
            BY <2>1, <5>1, <5>2 DEF HubAt
        <4> QED
          BY <2>1, <3>4, <3>5, <3>6, <3>7, <4>1 DEF Ahead, FirstBytes
      <3>8. CASE pc' = "close" /\ msg'.kind = "data" /\ msg'.off = firmware.appLen /\ msg'.len = 0
        <4>1. Agreed = firmware.appLen
          BY <3>5, <3>8 DEF At
        <4>2. Flashed /\ firmware.appLen >= 1
          BY <3>6 DEF Kept, Flashed
        <4>3. hubStage \in {"data", "done"}
          <5>1. hubStage \in {"off", "appSize", "pktSize", "data", "done"}
            BY DEF Kept, TypeOK
          <5>2. HubAt >= 1
            BY <3>6, <4>1, <4>2, Positions
          <5> QED
            BY <3>6, <5>1, <5>2 DEF HubAt
        <4>4. HubAt = Len(flash) /\ Len(flash) = firmware.appLen /\ erased
          <5>1. HubAt = Len(flash)
            BY <4>3 DEF HubAt
          <5>2. ~(Len(flash) < firmware.appLen)
            BY <3>6, <4>1, <5>1, Positions
          <5> QED
            BY <4>2, <4>3, <5>1, <5>2 DEF Flashed
        <4>5. Exact
          BY <3>6, <4>1, <4>4 DEF Exact, FirstBytes
        <4>6. Exact' /\ erased' /\ Len(flash') = msg'.off
          BY <2>1, <3>8, <4>4, <4>5 DEF Exact
        <4> QED
          BY <3>4, <3>8, <4>6 DEF Ahead, Active
      <3> QED
        BY <3>3, <3>7, <3>8
    <2> QED
      BY <2>1, <2>2, <2>3 DEF Line
  <1> QED
    BY <1>1, <1>2, <1>3, <1>4, <1>5, <1>6

LEMMA HubAhead ==
    ASSUME Kept, Line, Ahead, HubTakes
    PROVE  Line' /\ Ahead'
  <1> DEFINE m == Head(toHub)
  <1>1. /\ toHub = <<msg>> /\ fromHub = <<>> /\ toHub' = <<>> /\ m = msg
        /\ hubStage # "off" /\ UNCHANGED <<constVars, hostVars>>
    <2>1. toHub # <<>> /\ toHub' = Tail(toHub) /\ hubStage # "off"
          /\ UNCHANGED <<constVars, hostVars>>
      BY DEF HubTakes
    <2>2. toHub = <<msg>> /\ fromHub = <<>>
      BY <2>1 DEF Line
    <2>3. Head(<<msg>>) = msg /\ Tail(<<msg>>) = <<>>
      OBVIOUS
    <2> QED
      BY <2>1, <2>2, <2>3
  <1>2. pc \in {"read", "blocked"} /\ Active /\ (pc = "read" => elapsed = 0) /\ toHub # <<>>
    BY <1>1 DEF Line, Active
  <1>3. /\ HubAt >= Agreed /\ (HubAt = Agreed => flash = FirstBytes(Len(flash)))
        /\ "loss" \notin faults => HubAt = Agreed
        /\ "loss" \notin faults /\ msg.kind = "data" => Len(flash) \in {msg.off, msg.off + msg.len}
    BY <1>2 DEF Ahead
  <1>4. Agreed = At(msg)
    <2>1. fromHub # <<"ACK">>
      BY <1>1
    <2> QED
      BY <2>1 DEF Agreed
  <1>5. ASSUME fromHub' \in {<<>>, <<"ACK">>, <<"NAK">>}
        PROVE  Line'
    BY <1>1, <1>2, <1>5 DEF Line
  <1>6. CASE Expected(m)
    <2>1. /\ msg \in Messages /\ Sendable(msg)
          /\ msg.kind = hubStage /\ hubStage \in {"appSize", "pktSize", "data"}
          /\ fromHub' = Append(fromHub, "ACK") /\ erased' = TRUE
          /\ flash' \in Seq(Nat) /\ Len(flash') = Len(flash) + msg.len
          /\ Len(flash') <= firmware.appLen
          /\ hubStage \in {"appSize", "pktSize"} => flash' = flash
          /\ flash = FirstBytes(Len(flash)) /\ msg.off = Len(flash)
                => flash' = FirstBytes(Len(flash'))
          /\ hubStage' = IF hubStage = "appSize" THEN "pktSize"
                         ELSE IF Len(flash') < firmware.appLen THEN "data" ELSE "done"
      BY <1>1, <1>6, HubProgrammed
    <2>2. fromHub' = <<"ACK">>
      BY <1>1, <2>1
    <2>3. Agreed' = Behind(msg)
      BY <1>1, <2>2 DEF Agreed, Behind
    <2>4. hubStage \in {"appSize", "pktSize"} => flash = <<>> /\ Len(flash) = 0
      BY DEF Kept, Flashed
    <2>5. /\ HubAt' >= Agreed'
          /\ HubAt' = Agreed' => flash' = FirstBytes(Len(flash'))
          /\ "loss" \notin faults => HubAt' = Agreed'
      <3>1. CASE hubStage = "appSize"
        <4>1. HubAt = -2 /\ At(msg) = -2 /\ HubAt' = -1 /\ Behind(msg) = -1
          <5>1. hubStage' = "pktSize" /\ msg.kind = "appSize"
            BY <2>1, <3>1
          <5>2. HubAt = -2 /\ HubAt' = -1
            BY <3>1, <5>1 DEF HubAt
          <5> QED
            BY <5>1, <5>2 DEF At, Behind
        <4> QED
          BY <1>3, <1>4, <2>1, <2>3, <3>1, <4>1
      <3>2. CASE hubStage = "pktSize"
        <4>1. HubAt = -1 /\ At(msg) = -1 /\ HubAt' = Len(flash') /\ Behind(msg) = 0
          BY <2>1, <3>2 DEF HubAt, At, Behind
        <4> QED
          BY <1>3, <1>4, <2>1, <2>3, <2>4, <3>2, <4>1
      <3>3. CASE hubStage = "data"
        <4>1. /\ HubAt = Len(flash) /\ At(msg) = msg.off
              /\ HubAt' = Len(flash') /\ Behind(msg) = msg.off + msg.len
          BY <2>1, <3>3 DEF HubAt, At, Behind
        <4>2. Len(flash) \in Nat /\ msg.off \in Nat /\ msg.len \in Nat
          BY Positions
        <4>3. HubAt' >= Agreed' /\ (HubAt' = Agreed' => HubAt = Agreed)
              /\ (HubAt = Agreed => HubAt' = Agreed')
          BY <1>3, <1>4, <2>1, <2>3, <4>1, <4>2
        <4> QED
          BY <1>3, <1>4, <2>1, <4>1, <4>3
      <3> QED
        BY <2>1, <3>1, <3>2, <3>3
    <2>6. "loss" \notin faults /\ msg.kind = "data" => Len(flash') = msg.off + msg.len
      <3> SUFFICES ASSUME "loss" \notin faults, msg.kind = "data"
                   PROVE  Len(flash') = msg.off + msg.len
        OBVIOUS
      <3>1. HubAt' = Len(flash') /\ Agreed' = msg.off + msg.len
        BY <2>1, <2>3 DEF HubAt, Behind
      <3> QED
        BY <2>5, <3>1
    <2>7. hubStage' # "off"
      BY <2>1
    <2>8. Line'
      BY <1>5, <2>2
    <2>9. Ahead'
      BY <1>1, <1>2, <2>5, <2>6, <2>7 DEF Ahead, Active
    <2> QED
      BY <2>8, <2>9
  <1>7. CASE ~Expected(m)
    <2>1. UNCHANGED hubVars /\ fromHub' \in {<<>>, <<"NAK">>}
      <3>1. UNCHANGED hubVars /\ (fromHub' = Append(fromHub, "NAK") \/ fromHub' = fromHub)
        BY <1>7 DEF HubTakes, Answer
      <3> QED
        BY <1>1, <3>1
    <2>2. fromHub' # <<"ACK">>
      BY <2>1
    <2>3. Agreed' = At(msg) /\ HubAt' = HubAt
      BY <1>1, <2>1, <2>2 DEF Agreed, At, HubAt
    <2>4. Line'
      BY <1>5, <2>1
    <2>5. Ahead'
      BY <1>1, <1>2, <1>3, <1>4, <2>1, <2>3 DEF Ahead, Active, FirstBytes
    <2> QED
      BY <2>4, <2>5
  <1> QED
    BY <1>6, <1>7

LEMMA LineAhead ==
    ASSUME Kept, Line, Ahead, Prompt, HubRejects \/ Lose \/ Tick
    PROVE  Line' /\ Ahead'
  <1>1. CASE HubRejects
    <2>1. toHub # <<>> /\ toHub' = Tail(toHub) /\ fromHub' = Append(fromHub, "NAK")
          /\ UNCHANGED <<constVars, hostVars, hubVars>>
      BY <1>1 DEF HubRejects, Answer
    <2>2. toHub = <<msg>> /\ fromHub = <<>>
      BY <2>1 DEF Line
    <2>3. toHub' = <<>> /\ fromHub' = <<"NAK">>
      BY <2>1, <2>2
    <2>4. fromHub # <<"ACK">> /\ fromHub' # <<"ACK">>
      BY <2>2, <2>3
    <2>5. HubAt' = HubAt /\ Agreed = At(msg) /\ Agreed' = At(msg)
      BY <2>1, <2>4 DEF Agreed, At, HubAt
    <2>6. Line'
      BY <2>1, <2>2, <2>3 DEF Line
    <2>7. Ahead'
      BY <2>1, <2>5 DEF Ahead, Active, FirstBytes, Exact
    <2> QED
      BY <2>6, <2>7
  <1>2. CASE Lose
    <2>1. /\ "loss" \in faults /\ UNCHANGED <<constVars, hostVars, hubVars>>
          /\ \/ toHub # <<>> /\ toHub' = Tail(toHub) /\ UNCHANGED fromHub
             \/ fromHub # <<>> /\ fromHub' = Tail(fromHub) /\ UNCHANGED toHub
      BY <1>2 DEF Lose
    <2>2. toHub' = <<>> /\ fromHub' = <<>>
      <3>1. CASE toHub # <<>> /\ toHub' = Tail(toHub) /\ UNCHANGED fromHub
        <4>1. toHub = <<msg>> /\ fromHub = <<>>
          BY <3>1 DEF Line
        <4> QED
          BY <3>1, <4>1
      <3>2. CASE fromHub # <<>> /\ fromHub' = Tail(fromHub) /\ UNCHANGED toHub
        <4>1. fromHub = <<"ACK">> \/ fromHub = <<"NAK">>
          BY <3>2 DEF Line
        <4>2. fromHub' = <<>>
          BY <3>2, <4>1
        <4> QED
          BY <3>2, <4>2 DEF Line
      <3> QED
        BY <2>1, <3>1, <3>2
    <2>3. Line'
      BY <2>1, <2>2 DEF Line
    <2>4. fromHub' # <<"ACK">>
      BY <2>2
    <2>5. HubAt' = HubAt /\ Agreed' = At(msg)
      BY <2>1, <2>4 DEF Agreed, At, HubAt
    <2>6. ASSUME Active
          PROVE  HubAt >= At(msg) /\ (HubAt = At(msg) => HubAt = Agreed)
      <3>1. HubAt >= Agreed
        BY <2>6 DEF Ahead
      <3>2. CASE Agreed = At(msg)
        BY <3>1, <3>2
      <3>3. CASE Agreed = Behind(msg)
        BY <2>6, <3>1, <3>3, Positions
      <3> QED
        BY <3>2, <3>3 DEF Agreed
    <2>7. Ahead'
      BY <2>1, <2>5, <2>6 DEF Ahead, Active, FirstBytes, Exact
    <2> QED
      BY <2>3, <2>7
  <1>3. CASE Tick
    <2>1. UNCHANGED <<constVars, pc, status, msg, retries, toHub, fromHub, hubVars>>
      BY <1>3 DEF Tick
    <2>2. \/ pc = "blocked"
          \/ pc = "read" /\ platform # "linux" /\ toHub \o fromHub = <<>>
      <3>1. "slow" \notin faults /\ "badread" \notin faults
        BY DEF Prompt
      <3>2. Waiting /\ (faults \cap {"late", "badread"} # {} \/ toHub \o fromHub = <<>>)
        BY <1>3, <3>1 DEF Tick
      <3>3. platform # "linux" => "late" \notin faults
        BY DEF Prompt
      <3>4. pc = "blocked" \/ (pc = "read" /\ platform = "windows")
        BY <3>1, <3>2 DEF Waiting
      <3> QED
        BY <3>1, <3>2, <3>3, <3>4
    <2>3. toHub \o fromHub = <<>> => toHub = <<>> /\ fromHub = <<>>
      <3>1. toHub \in Seq(Messages \cup Acks) /\ fromHub \in Seq(Messages \cup Acks)
        BY SeqMonotonic DEF Kept, TypeOK
      <3> QED
        BY <3>1
    <2>4. Line'
      BY <2>1, <2>2, <2>3 DEF Line
    <2>5. HubAt' = HubAt /\ Agreed' = Agreed
      BY <2>1 DEF HubAt, Agreed, At, Behind
    <2>6. Ahead'
      BY <2>1, <2>5 DEF Ahead, Active, FirstBytes, Exact
    <2> QED
      BY <2>4, <2>6
  <1> QED
    BY <1>1, <1>2, <1>3

\* What is kept, and with acknowledgements in time the order of the line.
Inv == Kept /\ (Prompt => Line /\ Ahead)

LEMMA InitInv == Init => Inv
  <1> SUFFICES ASSUME Init PROVE Inv
    OBVIOUS
  <1>1. Kept
    BY InitKept
  <1>2. Line
    BY DEF Init, Line
  <1>3. Ahead
    BY DEF Init, Ahead, Active, AppSize
  <1> QED
    BY <1>1, <1>2, <1>3 DEF Inv

LEMMA NextInv == Inv /\ [Next]_vars => Inv'
  <1> SUFFICES ASSUME Inv, [Next]_vars PROVE Inv'
    OBVIOUS
  <1>1. Kept /\ Kept'
    BY NextKept DEF Inv
  <1>2. Prompt' => Prompt
    BY DEF Next, Host, Hub, Validate, Open, OpenFails, Close, Write, WritePart, WriteTimesOut, ReadBlocks,
       ReadAck, ReadFails, ReadTimesOut, Polling, HubTakes, HubRejects, Lose, Tick, Finished, vars, Prompt
  <1>3. ASSUME Prompt PROVE Line' /\ Ahead'
    <2>1. Line /\ Ahead
      BY <1>3 DEF Inv
    <2>2. CASE UNCHANGED vars
      BY <2>1, <2>2 DEF vars, Line, Ahead, Active, Exact, HubAt, Agreed, At, Behind, FirstBytes
    <2>3. CASE Polling \/ Finished
      BY <2>2, <2>3 DEF Polling, Finished
    <2>4. CASE ReadFails
      BY <1>3, <2>4 DEF ReadFails, Prompt
    <2> QED
      BY <1>1, <1>3, <2>1, <2>2, <2>3, <2>4, RunAhead, SendAhead, HubAhead, LineAhead
      DEF Next, Host, Hub
  <1> QED
    BY <1>1, <1>2, <1>3 DEF Inv

LEMMA InvariantHolds == Spec => []Inv
  BY InitInv, NextInv, PTL DEF Spec

-----------------------------------------------------------------------------
(* The theorems.                                                           *)

\* However many attempts are damaged or lost, run() returns true only over the whole
\* application, as long as every acknowledgement comes in its attempt's time.
THEOREM SuccessIsTrue == Spec => []PromptSuccess
  <1>1. Inv => PromptSuccess
    BY DEF Inv, Ahead, PromptSuccess, SuccessMeansInstalled
  <1> QED
    BY <1>1, InvariantHolds, PTL

\* Without losses host and hub are never more than a packet apart; a message is never
\* longer than dfuBuff, and no packet is empty.
THEOREM PacketsStayInStep == Spec => []PacketsInStep
  <1>1. Inv => PacketsInStep
    <2> SUFFICES ASSUME Inv PROVE PacketsInStep
      OBVIOUS
    <2>1. InStep
      BY DEF Inv, Ahead, InStep
    <2>2. PacketsFit
      <3>1. toHub \in Seq(Messages) /\ MaxPacketLen \in Nat
        BY SizeAssumption DEF Inv, Kept, TypeOK
      <3>2. ASSUME NEW i \in 1 .. Len(toHub), toHub[i].kind = "data"
            PROVE  toHub[i].len \in 1 .. MaxPacketLen
        <4>1. toHub[i] \in Messages /\ Sendable(toHub[i])
          BY <3>1 DEF Inv, Kept, Sending
        <4>2. toHub[i].len \in Nat /\ toHub[i].len >= 1 /\ toHub[i].len <= MaxPacketLen
          BY <3>2, <4>1 DEF Messages, Sendable
        <4> QED
          BY <3>1, <4>2
      <3> QED
        BY <3>1, <3>2 DEF PacketsFit
    <2> QED
      BY <2>1, <2>2 DEF PacketsInStep
  <1> QED
    BY <1>1, InvariantHolds, PTL

-----------------------------------------------------------------------------
(* Refinement.                                                             *)

\* A step of the host, seen as one of FirmwareUpdate.
LEMMA HostRefines ==
    ASSUME Inv, Inv', Prompt, Host
    PROVE  [Abstract!Next]_<<phase, image>>
  <1> USE DEF Abstract!Next
  <1>1. Kept /\ Line /\ Ahead
    BY DEF Inv
  <1>2. CASE Validate
    <2>1. image' = image /\ phase = "idle"
      BY <1>2 DEF Validate, image, phase, Exact
    <2>2. phase' = "idle" \/ phase' = "failed"
      BY <1>2 DEF Validate, phase, FirmwareStatus
    <2> QED
      BY <2>1, <2>2 DEF Abstract!Refuse
  <1>3. CASE Open
    <2>1. image' = image /\ phase = "idle" /\ phase' = "updating"
      BY <1>3 DEF Open, image, phase, Exact
    <2> QED
      BY <2>1 DEF Abstract!Begin
  <1>4. CASE OpenFails
    <2>1. image' = image /\ phase = "idle" /\ phase' = "failed"
      BY <1>4 DEF OpenFails, image, phase, Exact
    <2> QED
      BY <2>1 DEF Abstract!Refuse
  <1>5. CASE Close
    <2>1. image' = image /\ phase' = phase
      BY <1>5 DEF Close, image, phase, Exact
    <2> QED
      BY <2>1
  <1>6. CASE Write \/ WritePart \/ WriteTimesOut \/ ReadBlocks \/ ReadAck \/ ReadTimesOut
    <2>1. image' = image /\ phase = "updating"
      BY <1>6 DEF Write, WritePart, WriteTimesOut, ReadBlocks, ReadAck, ReadTimesOut, image, phase, Exact
    <2>2. pc' \in {"write", "read", "blocked", "close"}
      BY <1>6 DEF Write, WritePart, WriteTimesOut, ReadBlocks, ReadAck, ReadTimesOut, AttemptFails,
         AttemptSucceeds
    <2>3. pc' = "close" /\ status' = "SH2_OK" => image' = "new"
      <3>1. Prompt'
        BY <1>6 DEF Prompt, Write, WritePart, WriteTimesOut, ReadBlocks, ReadAck, ReadTimesOut
      <3>2. Ahead'
        BY <3>1 DEF Inv
      <3> QED
        BY <3>2 DEF Ahead, image
    <2>4. \/ phase' = "updating" \/ phase' = "failed"
          \/ phase' = "succeeded" /\ image' = "new"
      BY <2>2, <2>3 DEF phase
    <2> QED
      BY <2>1, <2>4 DEF Abstract!Succeed, Abstract!Fail
  <1> QED
    BY <1>2, <1>3, <1>4, <1>5, <1>6 DEF Host

\* A step of the hub.
LEMMA HubRefines ==
    ASSUME Inv, Prompt, HubTakes
    PROVE  [Abstract!Next]_<<phase, image>>
  <1>1. Kept /\ Line /\ toHub # <<>> /\ hubStage # "off" /\ UNCHANGED <<constVars, hostVars>>
    BY DEF Inv, HubTakes
  <1>2. phase = "updating" /\ phase' = "updating"
    BY <1>1 DEF Line, phase
  <1>3. image' = image \/ image' = "mixed" \/ (image = "mixed" /\ image' = "new")
    <2>1. CASE UNCHANGED hubVars
      BY <1>1, <2>1 DEF image, Exact
    <2>2. CASE ~UNCHANGED hubVars
      <3>1. Expected(Head(toHub))
        BY <2>2 DEF HubTakes
      <3>2. hubStage \in {"appSize", "pktSize", "data"} /\ erased' = TRUE
            /\ (hubStage = "appSize" => flash' = flash)
        BY <1>1, <3>1, HubProgrammed
      <3>3. image' = IF Exact' THEN "new" ELSE "mixed"
        BY <3>2 DEF image
      <3>4. ~Exact
        <4>1. firmware.appLen \in Nat /\ firmware.appLen >= 1 /\ flash \in Seq(Nat)
          BY <1>1, Positions DEF Kept, Flashed
        <4>2. Len(flash) # firmware.appLen
          BY <1>1, <3>2, <4>1 DEF Kept, Flashed
        <4>3. Exact => Len(flash) = firmware.appLen
          <5>1. [i \in 1 .. firmware.appLen |-> i - 1] \in [1 .. firmware.appLen -> Nat]
            BY <4>1
          <5> QED
            BY <4>1, <5>1, LenProperties DEF Exact
        <4> QED
          BY <4>2, <4>3
      <3>5. ~erased => ~Exact'
        <4>1. ~erased => hubStage = "appSize" /\ flash' = flash
          BY <1>1, <3>2 DEF Kept, Flashed
        <4> QED
          BY <1>1, <3>4, <4>1 DEF Exact
      <3> QED
        BY <3>3, <3>4, <3>5 DEF image
    <2> QED
      BY <2>1, <2>2
  <1> HIDE DEF phase, image
  <1> QED
    BY <1>2, <1>3 DEF Abstract!Next, Abstract!Erase, Abstract!Complete

\* As long as every acknowledgement comes in its attempt's time, an update of a BNO08x
\* is an update as FirmwareUpdate promises it.
THEOREM Refinement == Spec => Implements
  <1>1. Init => (Prompt => Abstract!Init)
    BY DEF Init, Abstract!Init, phase, image
  <1>2. Inv /\ Inv' /\ [Next]_vars => [Prompt => Abstract!Next]_<<phase, image>>
    <2> SUFFICES ASSUME Inv, Inv', [Next]_vars, Prompt
                 PROVE  [Abstract!Next]_<<phase, image>>
      BY Zenon
    <2>1. CASE Host
      BY <2>1, HostRefines
    <2>2. CASE HubTakes
      BY <2>2, HubRefines
    <2>4. CASE ReadFails
      BY <2>4 DEF ReadFails, Prompt
    <2>3. CASE Polling \/ HubRejects \/ Lose \/ Tick \/ Finished \/ UNCHANGED vars
      <3>1. UNCHANGED <<pc, status, erased, flash, firmware>>
        BY <2>3 DEF Polling, HubRejects, Lose, Tick, Finished, vars
      <3> QED
        BY <3>1 DEF phase, image, Exact
    <2> QED
      BY <2>1, <2>2, <2>3, <2>4 DEF Next, Hub
  <1> QED
    BY <1>1, <1>2, InvariantHolds, PTL DEF Spec, Implements
=============================================================================
