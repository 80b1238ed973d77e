---------------------------- MODULE DsfLogProofs ----------------------------
(***************************************************************************)
(* Proofs about the log file, for every set of sensors, every width of the *)
(* sequence number, any number of samples, records and resets, and any     *)
(* faults.                                                                 *)
(*                                                                         *)
(* The argument: the extender of a sensor and the flag posix know what is  *)
(* in the file, and the extender's id runs ahead of the ids in the file by *)
(* as many samples as the newest one is ahead of the numbers in it.  What  *)
(* is written is appended record by record, so that each property is       *)
(* preserved if one record more does not break it.                         *)
(***************************************************************************)
EXTENDS DsfLog, TLAPS

-----------------------------------------------------------------------------
(* Files.                                                                  *)

SamplesIn(f, s) == {i \in DOMAIN f : f[i].kind = "sample" /\ f[i].sensor = s}
Has(f, r)       == \E i \in DOMAIN f : f[i] = r

\* Channel and offset of every sample are known, and given once.
Described(f) ==
    /\ \A s \in Sensors :
          /\ \A i, j \in DOMAIN f : f[i] = Definition(s) /\ f[j] = Definition(s) => i = j
          /\ \A i \in DOMAIN f :
                f[i].kind \in {"sample", "period"} /\ f[i].sensor = s
                    => \E j \in DOMAIN f : f[j] = Definition(s) /\ j < i
    /\ \A i, j \in DOMAIN f : f[i] = PosixOffset /\ f[j] = PosixOffset => i = j
    /\ \A i \in DOMAIN f :
          f[i].kind = "sample" => \E j \in DOMAIN f : f[j] = PosixOffset /\ j < i

\* What may be written next.
MayFollow(f, r) ==
    /\ r.kind = "definition" => ~Has(f, r)
    /\ r.kind = "posix" => ~Has(f, r)
    /\ r.kind \in {"sample", "period"} => Has(f, Definition(r.sensor))
    /\ r.kind = "sample" => Has(f, PosixOffset)

\* The ids in a file never go back, and count.
Ordered(f) ==
    \A s \in Sensors : \A i, j \in SamplesIn(f, s) :
        /\ i < j => f[i].id <= f[j].id
        /\ "burst" \notin faults /\ f[i].epoch = f[j].epoch
              => f[j].id - f[i].id = f[j].number - f[i].number

\* A sample of this number and epoch may have this id, for all that the file has.
Counted(f, s, id, number, ep) ==
    \A i \in SamplesIn(f, s) :
        /\ f[i].id <= id
        /\ f[i].epoch <= ep
        /\ "burst" \notin faults /\ f[i].epoch = ep => id - f[i].id = number - f[i].number

HasSample(f, s, ep) == \E i \in SamplesIn(f, s) : f[i].epoch = ep

-----------------------------------------------------------------------------
(* Appending to a file.                                                    *)

LEMMA Appended ==
    ASSUME NEW S, NEW f \in Seq(S), NEW r \in S
    PROVE  /\ Append(f, r) \in Seq(S)
           /\ DOMAIN Append(f, r) = DOMAIN f \cup {Len(f) + 1}
           /\ \A i \in DOMAIN f : Append(f, r)[i] = f[i] /\ i < Len(f) + 1 /\ i \in Nat
           /\ Append(f, r)[Len(f) + 1] = r
           /\ Len(f) + 1 \notin DOMAIN f
  OBVIOUS

LEMMA HasAppended ==
    ASSUME NEW f \in Seq(Records), NEW r \in Records, NEW x
    PROVE  Has(Append(f, r), x) <=> (Has(f, x) \/ x = r)
  BY Appended DEF Has

LEMMA RecordTypes ==
    ASSUME NEW s \in Sensors
    PROVE  /\ Definition(s) \in Records /\ Period(s) \in Records
           /\ PosixOffset \in Records /\ ResetMark \in Records
  BY DEF Records, Definition, Period, PosixOffset, ResetMark

LEMMA DescribedAppended ==
    ASSUME NEW f \in Seq(Records), NEW r \in Records, Described(f), MayFollow(f, r)
    PROVE  Described(Append(f, r))
  <1> DEFINE g == Append(f, r)
             n == Len(f) + 1
  <1>1. /\ DOMAIN g = DOMAIN f \cup {n} /\ n \notin DOMAIN f /\ g[n] = r
        /\ \A i \in DOMAIN f : g[i] = f[i] /\ i < n
    BY Appended
  <1> HIDE DEF g, n
  <1>2. ASSUME NEW s \in Sensors, NEW i \in DOMAIN g, NEW j \in DOMAIN g,
               g[i] = Definition(s), g[j] = Definition(s)
        PROVE  i = j
    <2>1. CASE i \in DOMAIN f /\ j \in DOMAIN f
      BY <1>1, <1>2, <2>1 DEF Described
    <2>2. CASE i = n /\ j = n
      BY <2>2
    <2>3. CASE i = n /\ j \in DOMAIN f
      BY <1>1, <1>2, <2>3 DEF MayFollow, Has, Definition
    <2>4. CASE j = n /\ i \in DOMAIN f
      BY <1>1, <1>2, <2>4 DEF MayFollow, Has, Definition
    <2> QED
      BY <1>1, <2>1, <2>2, <2>3, <2>4
  <1>3. ASSUME NEW s \in Sensors, NEW i \in DOMAIN g,
               g[i].kind \in {"sample", "period"}, g[i].sensor = s
        PROVE  \E j \in DOMAIN g : g[j] = Definition(s) /\ j < i
    <2>1. CASE i \in DOMAIN f
      BY <1>1, <1>3, <2>1 DEF Described
    <2>2. CASE i = n
      BY <1>1, <1>3, <2>2 DEF MayFollow, Has
    <2> QED
      BY <1>1, <2>1, <2>2
  <1>4. ASSUME NEW i \in DOMAIN g, NEW j \in DOMAIN g, g[i] = PosixOffset, g[j] = PosixOffset
        PROVE  i = j
    <2>1. CASE i \in DOMAIN f /\ j \in DOMAIN f
      BY <1>1, <1>4, <2>1 DEF Described
    <2>2. CASE i = n /\ j = n
      BY <2>2
    <2>3. CASE i = n /\ j \in DOMAIN f
      BY <1>1, <1>4, <2>3 DEF MayFollow, Has, PosixOffset
    <2>4. CASE j = n /\ i \in DOMAIN f
      BY <1>1, <1>4, <2>4 DEF MayFollow, Has, PosixOffset
    <2> QED
      BY <1>1, <2>1, <2>2, <2>3, <2>4
  <1>5. ASSUME NEW i \in DOMAIN g, g[i].kind = "sample"
        PROVE  \E j \in DOMAIN g : g[j] = PosixOffset /\ j < i
    <2>1. CASE i \in DOMAIN f
      BY <1>1, <1>5, <2>1 DEF Described
    <2>2. CASE i = n
      BY <1>1, <1>5, <2>2 DEF MayFollow, Has
    <2> QED
      BY <1>1, <2>1, <2>2
  <1>6. Described(g)
    BY <1>2, <1>3, <1>4, <1>5 DEF Described
  <1> QED
    BY <1>6 DEF g

\* A record that is no sample changes nothing about the ids.
LEMMA IdsUnchanged ==
    ASSUME NEW f \in Seq(Records), NEW r \in Records, r.kind # "sample"
    PROVE  /\ Ordered(f) => Ordered(Append(f, r))
           /\ \A s \in Sensors, id \in Int, number \in Int, ep \in Int :
                 /\ Counted(f, s, id, number, ep) => Counted(Append(f, r), s, id, number, ep)
                 /\ HasSample(Append(f, r), s, ep) => HasSample(f, s, ep)
  <1>1. ASSUME NEW s \in Sensors
        PROVE  /\ SamplesIn(Append(f, r), s) = SamplesIn(f, s)
               /\ \A i \in SamplesIn(f, s) : Append(f, r)[i] = f[i]
    BY Appended DEF SamplesIn
  <1> DEFINE g == Append(f, r)
  <1> HIDE DEF g
  <1>2. \A s \in Sensors : SamplesIn(g, s) = SamplesIn(f, s)
                           /\ \A i \in SamplesIn(f, s) : g[i] = f[i]
    BY <1>1 DEF g
  <1>3. Ordered(f) => Ordered(g)
    BY <1>2, Zenon DEF Ordered
  <1>4. ASSUME NEW s \in Sensors, NEW id \in Int, NEW number \in Int, NEW ep \in Int
        PROVE  /\ Counted(f, s, id, number, ep) => Counted(g, s, id, number, ep)
               /\ HasSample(g, s, ep) => HasSample(f, s, ep)
    BY <1>2, Zenon DEF Counted, HasSample
  <1> QED
    BY <1>3, <1>4 DEF g

\* A sample with an id that may be.
LEMMA IdsExtended ==
    ASSUME NEW f \in Seq(Records), NEW s \in Sensors, NEW id \in Nat, NEW n \in Nat,
           epoch \in Nat, Ordered(f), Counted(f, s, id, n, epoch)
    PROVE  /\ Sample(s, id, n) \in Records
           /\ Ordered(Append(f, Sample(s, id, n)))
           /\ Counted(Append(f, Sample(s, id, n)), s, id, n, epoch)
           /\ \A t \in Sensors \ {s}, i2 \in Int, n2 \in Int, ep \in Int :
                 /\ Counted(f, t, i2, n2, ep)
                       => Counted(Append(f, Sample(s, id, n)), t, i2, n2, ep)
                 /\ HasSample(Append(f, Sample(s, id, n)), t, ep) => HasSample(f, t, ep)
  <1> DEFINE r == Sample(s, id, n)
             g == Append(f, r)
             m == Len(f) + 1
  <1>1. /\ r \in Records /\ r.kind = "sample" /\ r.sensor = s
        /\ r.id = id /\ r.number = n /\ r.epoch = epoch
    BY DEF Records, Sample
  <1>2. /\ DOMAIN g = DOMAIN f \cup {m} /\ m \notin DOMAIN f /\ g[m] = r
        /\ \A i \in DOMAIN f : g[i] = f[i] /\ i < m /\ i \in Nat
    BY <1>1, Appended
  <1>3. \A i \in DOMAIN f : f[i].kind = "sample" =>
            f[i].id \in Nat /\ f[i].number \in Nat /\ f[i].epoch \in Nat
    BY DEF Records
  <1>4. m \in Nat
    OBVIOUS
  <1> HIDE DEF r, g, m
  <1>5. /\ SamplesIn(g, s) = SamplesIn(f, s) \cup {m}
        /\ \A t \in Sensors : t # s => SamplesIn(g, t) = SamplesIn(f, t)
        /\ \A t \in Sensors : \A i \in SamplesIn(f, t) : g[i] = f[i] /\ i < m /\ i \in Nat
    BY <1>1, <1>2 DEF SamplesIn
  <1>6. \A i \in SamplesIn(f, s) :
            f[i].id \in Nat /\ f[i].number \in Nat /\ f[i].epoch \in Nat
    BY <1>3 DEF SamplesIn
  <1>7. Counted(g, s, id, n, epoch)
    BY <1>1, <1>2, <1>5, <1>6 DEF Counted
  <1>8. ASSUME NEW t \in Sensors, NEW i \in SamplesIn(g, t), NEW j \in SamplesIn(g, t)
        PROVE  /\ i < j => g[i].id <= g[j].id
               /\ "burst" \notin faults /\ g[i].epoch = g[j].epoch
                     => g[j].id - g[i].id = g[j].number - g[i].number
    <2>1. CASE i \in SamplesIn(f, t) /\ j \in SamplesIn(f, t)
      BY <1>5, <2>1 DEF Ordered
    <2>2. CASE t = s /\ i = m /\ j = m
      BY <1>1, <1>2, <1>4, <2>2
    <2>3. CASE t = s /\ i \in SamplesIn(f, s) /\ j = m
      BY <1>1, <1>2, <1>5, <1>6, <2>3 DEF Counted
    <2>4. CASE t = s /\ j \in SamplesIn(f, s) /\ i = m
      <3>1. g[j] = f[j] /\ ~(i < j)
        BY <1>4, <1>5, <2>4
      <3>2. g[i].id = id /\ g[i].number = n /\ g[i].epoch = epoch
        BY <1>1, <1>2, <2>4
      <3>3. "burst" \notin faults /\ f[j].epoch = epoch => id - f[j].id = n - f[j].number
        BY <2>4 DEF Counted
      <3>4. f[j].id \in Nat /\ f[j].number \in Nat
        BY <1>6, <2>4
      <3>5. ASSUME "burst" \notin faults, g[i].epoch = g[j].epoch
            PROVE  g[j].id - g[i].id = g[j].number - g[i].number
        <4>1. id - f[j].id = n - f[j].number
          BY <3>1, <3>2, <3>3, <3>5
        <4>2. ASSUME NEW a \in Nat, NEW b \in Nat, id - a = n - b
              PROVE  a - id = b - n
          BY <4>2
        <4>3. f[j].id - id = f[j].number - n
          BY <3>4, <4>1, <4>2
        <4> QED
          BY <3>1, <3>2, <4>3
      <3> QED
        BY <3>1, <3>5
    <2> QED
      BY <1>5, <1>8, <2>1, <2>2, <2>3, <2>4
  <1>9. Ordered(g)
    BY <1>8 DEF Ordered
  <1>10. ASSUME NEW t \in Sensors \ {s}, NEW i2 \in Int, NEW n2 \in Int, NEW ep \in Int
         PROVE  /\ Counted(f, t, i2, n2, ep) => Counted(g, t, i2, n2, ep)
                /\ HasSample(g, t, ep) => HasSample(f, t, ep)
    BY <1>5 DEF Counted, HasSample
  <1> QED
    BY <1>1, <1>7, <1>9, <1>10 DEF g, r

-----------------------------------------------------------------------------
(* The extender.                                                           *)

\* The remainder is the one number below the divisor that is left.
LEMMA Remainder ==
    ASSUME NEW a \in Nat, NEW m \in Nat \ {0}, NEW q \in Nat, NEW r \in 0 .. m - 1,
           a = m * q + r
    PROVE  a % m = r
  <1> DEFINE p == a \div m
             t == a % m
  <1>1. p \in Nat /\ t \in 0 .. m - 1 /\ a = m * p + t
    OBVIOUS
  <1> HIDE DEF p, t
  <1>2. CASE p = q
    <2>1. m * p = m * q /\ m * q \in Nat
      BY <1>2
    <2>2. t = r
      BY <1>1, <2>1
    <2> QED
      BY <2>2 DEF t
  <1>3. CASE p >= q + 1
    <2>1. PICK d \in Nat : p = q + 1 + d
      BY <1>1, <1>3
    <2>2. m * p = m * q + m + m * d /\ m * d \in Nat
      BY <1>1, <2>1
    <2> QED
      BY <1>1, <2>2
  <1>4. CASE q >= p + 1
    <2>1. PICK d \in Nat : q = p + 1 + d
      BY <1>1, <1>4
    <2>2. m * q = m * p + m + m * d /\ m * d \in Nat
      BY <1>1, <2>1
    <2> QED
      BY <1>1, <2>2
  <1> QED
    BY <1>1, <1>2, <1>3, <1>4 DEF t

\* The 8 bits of a number that is `d' further on: turned over or not.
LEMMA TurnsOver ==
    ASSUME NEW k \in Nat, NEW d \in 1 .. SeqMod - 1
    PROVE  /\ (k % SeqMod) + d < SeqMod => (k + d) % SeqMod = (k % SeqMod) + d
           /\ (k % SeqMod) + d >= SeqMod => (k + d) % SeqMod = (k % SeqMod) + d - SeqMod
  <1> DEFINE m == SeqMod
             p == k \div m
             t == k % m
  <1>1. m \in Nat \ {0} /\ d \in Nat
    BY SizeAssumption
  <1>2. p \in Nat /\ t \in 0 .. m - 1 /\ k = m * p + t
    BY <1>1
  <1> HIDE DEF m, p, t
  <1>3. ASSUME t + d < m
        PROVE  (k + d) % m = t + d
    <2>1. k + d = m * p + (t + d) /\ t + d \in 0 .. m - 1
      BY <1>1, <1>2, <1>3
    <2> QED
      BY <1>1, <1>2, <2>1, Remainder
  <1>4. ASSUME t + d >= m
        PROVE  (k + d) % m = t + d - m
    <2>1. m * (p + 1) = m * p + m
      BY <1>1, <1>2
    <2>2. k + d = m * (p + 1) + (t + d - m) /\ t + d - m \in 0 .. m - 1
      BY <1>1, <1>2, <1>4, <2>1 DEF m
    <2>3. p + 1 \in Nat /\ k + d \in Nat
      BY <1>1, <1>2
    <2> QED
      BY <1>1, <2>2, <2>3, Remainder
  <1> QED
    BY <1>1, <1>2, <1>3, <1>4 DEF m, t

\* An extender's id goes on, by what the number does if that is less than a
\* turn.
LEMMA Extends ==
    ASSUME NEW e \in Extenders, NEW n \in Nat
    PROVE  /\ Extend(e, n % SeqMod) \in Extenders
           /\ ~Extend(e, n % SeqMod).empty
           /\ Extend(e, n % SeqMod).seqLsb = n % SeqMod
           /\ Id(e) \in Nat /\ Id(Extend(e, n % SeqMod)) \in Nat
           /\ Id(e) <= Id(Extend(e, n % SeqMod))
           /\ \A k \in Nat : e.seqLsb = k % SeqMod /\ n \in k + 1 .. k + SeqMod - 1
                 => Id(Extend(e, n % SeqMod)) - Id(e) = n - k
  <1> DEFINE l  == n % SeqMod
             e2 == Extend(e, l)
             b  == e.seqMsb
             a  == e.seqLsb
             w  == b * SeqMod
  <1>1. SeqMod \in Nat /\ SeqMod > 1 /\ b \in Nat /\ a \in 0 .. SeqMod - 1
    BY SizeAssumption DEF Extenders
  <1>2. l \in 0 .. SeqMod - 1 /\ w \in Nat /\ (b + 1) * SeqMod = w + SeqMod
    BY <1>1
  <1>3. /\ e2.empty = FALSE /\ e2.seqLsb = l
        /\ e2.seqMsb = IF l < a THEN b + 1 ELSE b
        /\ e2 = [empty |-> FALSE, seqMsb |-> IF l < a THEN b + 1 ELSE b, seqLsb |-> l]
    BY DEF Extend
  <1>4. e2 \in Extenders
    <2> HIDE DEF l, a, b, e2
    <2>1. (IF l < a THEN b + 1 ELSE b) \in Nat
      BY <1>1
    <2> QED
      BY <1>2, <1>3, <2>1 DEF Extenders
  <1>5. Id(e) = w + a
    BY DEF Id
  <1>6. Id(e2) = IF l < a THEN w + SeqMod + l ELSE w + l
    BY <1>2, <1>3 DEF Id
  <1>7. ASSUME NEW k \in Nat, a = k % SeqMod, n \in k + 1 .. k + SeqMod - 1
        PROVE  Id(e2) - Id(e) = n - k
    <2>1. PICK d \in 1 .. SeqMod - 1 : n = k + d
      <3>1. n - k \in 1 .. SeqMod - 1 /\ n = k + (n - k)
        BY <1>1, <1>7
      <3> QED
        BY <3>1
    <2>2. l = IF a + d < SeqMod THEN a + d ELSE a + d - SeqMod
      <3>1. l = (k + d) % SeqMod
        BY <2>1
      <3>2. /\ a + d < SeqMod => (k + d) % SeqMod = a + d
            /\ a + d >= SeqMod => (k + d) % SeqMod = a + d - SeqMod
        BY <1>7, TurnsOver
      <3> HIDE DEF l, a
      <3> QED
        BY <1>1, <3>1, <3>2
    <2> HIDE DEF l, a, w, e2
    <2> QED
      BY <1>1, <1>2, <1>5, <1>6, <2>1, <2>2
  <1> HIDE DEF l, a, w, e2
  <1>8. Id(e) \in Nat /\ Id(e2) \in Nat /\ Id(e) <= Id(e2)
    BY <1>1, <1>2, <1>5, <1>6
  <1> QED
    BY <1>3, <1>4, <1>7, <1>8 DEF l, a, e2

-----------------------------------------------------------------------------
(* The invariant.                                                          *)

\* What is in the file is known to the extenders and to posix.
Known ==
    /\ Described(file)
    /\ \A s \in Sensors : extenders[s].empty <=> ~Has(file, Definition(s))
    /\ posix <=> Has(file, PosixOffset)

\* An extender that has had no sample is at 0; one that has had a sample since
\* the hub restarted has had the newest one.
InStep(s) ==
    /\ extenders[s].empty => extenders[s].seqMsb = 0 /\ extenders[s].seqLsb = 0
    /\ HasSample(file, s, epoch) =>
          ready /\ newest[s] \in Nat /\ extenders[s].seqLsb = newest[s] % SeqMod

Numbered ==
    /\ ready => late
    /\ Ordered(file)
    /\ \A s \in Sensors : InStep(s) /\ Counted(file, s, Id(extenders[s]), newest[s], epoch)

Inv == TypeOK /\ Known /\ Numbered

LEMMA InitInv == Init => Inv
  <1> SUFFICES ASSUME Init PROVE Inv
    OBVIOUS
  <1>1. file = <<>> /\ DOMAIN file = {} /\ file \in Seq(Records)
    BY DEF Init
  <1>2. TypeOK
    <2>1. 0 \in 0 .. SeqMod - 1 /\ 0 \in 0 .. MaxResets
      BY SizeAssumption
    <2>2. extenders \in [Sensors -> Extenders]
      BY <2>1 DEF Init, Extenders
    <2>3. newest \in [Sensors -> Nat \cup {-1}]
      BY DEF Init
    <2> QED
      BY <1>1, <2>1, <2>2, <2>3 DEF Init, TypeOK
  <1>3. Known
    BY <1>1 DEF Init, Known, Described, Has
  <1>4. Numbered
    BY <1>1 DEF Init, Numbered, InStep, Ordered, Counted, HasSample, SamplesIn
  <1> QED
    BY <1>2, <1>3, <1>4 DEF Inv

\* An extender that is empty has no sample.
LEMMA EmptyHasNone ==
    ASSUME Known, NEW s \in Sensors, extenders[s].empty
    PROVE  SamplesIn(file, s) = {}
  BY DEF Known, Described, Has, SamplesIn

\* A definition or an offset that is written if it is new.
LEMMA OneMore ==
    ASSUME NEW f \in Seq(Records), NEW r \in Records
    PROVE  f \o <<>> = f /\ f \o <<r>> = Append(f, r)
  OBVIOUS

\* The definition of a channel is there once DefinitionIfNew was written, and
\* the ids are what they were.
LEMMA DefinitionWritten ==
    ASSUME Inv, NEW s \in Sensors
    PROVE  LET f == file \o DefinitionIfNew(s)
           IN  /\ f \in Seq(Records) /\ Described(f) /\ Ordered(f)
               /\ Has(f, Definition(s))
               /\ Has(f, PosixOffset) <=> posix
               /\ \A t \in Sensors \ {s} : Has(f, Definition(t)) <=> ~extenders[t].empty
               /\ \A t \in Sensors, id \in Int, number \in Int, ep \in Int :
                     /\ Counted(file, t, id, number, ep) => Counted(f, t, id, number, ep)
                     /\ HasSample(f, t, ep) => HasSample(file, t, ep)
  <1> DEFINE f == file \o DefinitionIfNew(s)
             r == Definition(s)
  <1>1. file \in Seq(Records) /\ r \in Records
    BY RecordTypes DEF Inv, TypeOK
  <1>2. /\ Described(file) /\ Ordered(file)
        /\ \A t \in Sensors : extenders[t].empty <=> ~Has(file, Definition(t))
        /\ posix <=> Has(file, PosixOffset)
    BY DEF Inv, Known, Numbered
  <1>3. CASE ~extenders[s].empty
    <2>1. f = file
      BY <1>1, <1>3, OneMore DEF DefinitionIfNew
    <2> QED
      BY <1>1, <1>2, <1>3, <2>1
  <1>4. CASE extenders[s].empty
    <2>1. f = Append(file, r)
      BY <1>1, <1>4, OneMore DEF DefinitionIfNew
    <2>2. r.kind = "definition" /\ r # PosixOffset
          /\ \A t \in Sensors \ {s} : r # Definition(t)
      BY DEF Definition, PosixOffset
    <2>3. MayFollow(file, r)
      BY <1>2, <1>4, <2>2 DEF MayFollow
    <2>4. f \in Seq(Records) /\ Described(f)
      BY <1>1, <1>2, <2>1, <2>3, DescribedAppended
    <2>5. \A x : Has(f, x) <=> (Has(file, x) \/ x = r)
      BY <1>1, <2>1, HasAppended
    <2> HIDE DEF f, r
    <2>6. /\ Ordered(f)
          /\ \A t \in Sensors, id \in Int, number \in Int, ep \in Int :
                /\ Counted(file, t, id, number, ep) => Counted(f, t, id, number, ep)
                /\ HasSample(f, t, ep) => HasSample(file, t, ep)
      BY <1>1, <1>2, <2>1, <2>2, IdsUnchanged
    <2> QED
      BY <1>2, <2>2, <2>4, <2>5, <2>6 DEF f, r
  <1> QED
    BY <1>3, <1>4

\* A whole sample is logged, with a definition and an offset if they are new.
LEMMA SampleLogged ==
    ASSUME Inv, NEW s \in Sensors, NEW n \in Nat, LogSample(s, n),
           Counted(file, s, Id(Extend(extenders[s], n % SeqMod)), n, epoch)
    PROVE  /\ file' \in Seq(Records) /\ Described(file') /\ Ordered(file')
           /\ extenders' = [extenders EXCEPT ![s] = Extend(@, n % SeqMod)]
           /\ posix' = TRUE
           /\ Has(file', PosixOffset) /\ Has(file', Definition(s))
           /\ \A t \in Sensors \ {s} : Has(file', Definition(t)) <=> ~extenders[t].empty
           /\ Counted(file', s, Id(Extend(extenders[s], n % SeqMod)), n, epoch)
           /\ \A t \in Sensors \ {s}, id \in Int, number \in Int, ep \in Int :
                 /\ Counted(file, t, id, number, ep) => Counted(file', t, id, number, ep)
                 /\ HasSample(file', t, ep) => HasSample(file, t, ep)
  <1> DEFINE e  == Extend(extenders[s], n % SeqMod)
             f1 == file \o DefinitionIfNew(s)
             f2 == f1 \o OffsetIfNew
             r  == Sample(s, Id(e), n)
  <1>1. /\ file' = f2 \o <<r>>
        /\ extenders' = [extenders EXCEPT ![s] = Extend(@, n % SeqMod)]
        /\ posix' = TRUE
    BY DEF LogSample
  <1>2. extenders[s] \in Extenders /\ epoch \in Nat
    BY DEF Inv, TypeOK
  <1>3. Id(e) \in Nat
    BY <1>2, Extends
  <1>4. /\ f1 \in Seq(Records) /\ Described(f1) /\ Ordered(f1)
        /\ Has(f1, Definition(s))
        /\ Has(f1, PosixOffset) <=> posix
        /\ \A t \in Sensors \ {s} : Has(f1, Definition(t)) <=> ~extenders[t].empty
        /\ \A t \in Sensors, id \in Int, number \in Int, ep \in Int :
              /\ Counted(file, t, id, number, ep) => Counted(f1, t, id, number, ep)
              /\ HasSample(f1, t, ep) => HasSample(file, t, ep)
    BY DefinitionWritten
  <1> HIDE DEF e, f1
  <1>5. /\ f2 \in Seq(Records) /\ Described(f2) /\ Ordered(f2)
        /\ Has(f2, PosixOffset)
        /\ \A t \in Sensors : Has(f2, Definition(t)) <=> Has(f1, Definition(t))
        /\ \A t \in Sensors, id \in Int, number \in Int, ep \in Int :
              /\ Counted(f1, t, id, number, ep) => Counted(f2, t, id, number, ep)
              /\ HasSample(f2, t, ep) => HasSample(f1, t, ep)
    <2>1. PosixOffset \in Records /\ PosixOffset.kind = "posix"
          /\ \A t \in Sensors : PosixOffset # Definition(t)
      BY RecordTypes DEF PosixOffset, Definition
    <2>2. CASE posix
      <3>1. f2 = f1
        BY <1>4, <2>1, <2>2, OneMore DEF OffsetIfNew
      <3> QED
        BY <1>4, <2>2, <3>1
    <2>3. CASE ~posix
      <3>1. f2 = Append(f1, PosixOffset)
        BY <1>4, <2>1, <2>3, OneMore DEF OffsetIfNew
      <3>2. MayFollow(f1, PosixOffset)
        BY <1>4, <2>1, <2>3 DEF MayFollow
      <3>3. f2 \in Seq(Records) /\ Described(f2)
        BY <1>4, <2>1, <3>1, <3>2, DescribedAppended
      <3>4. \A x : Has(f2, x) <=> (Has(f1, x) \/ x = PosixOffset)
        BY <1>4, <2>1, <3>1, HasAppended
      <3> HIDE DEF f2
      <3>5. /\ Ordered(f2)
            /\ \A t \in Sensors, id \in Int, number \in Int, ep \in Int :
                  /\ Counted(f1, t, id, number, ep) => Counted(f2, t, id, number, ep)
                  /\ HasSample(f2, t, ep) => HasSample(f1, t, ep)
        BY <1>4, <2>1, <3>1, IdsUnchanged
      <3> QED
        BY <2>1, <3>3, <3>4, <3>5
    <2> QED
      BY <2>2, <2>3
  <1> HIDE DEF f2
  <1>6. Counted(f2, s, Id(e), n, epoch)
    BY <1>2, <1>3, <1>4, <1>5 DEF e
  <1>7. /\ r \in Records
        /\ Ordered(Append(f2, r))
        /\ Counted(Append(f2, r), s, Id(e), n, epoch)
        /\ \A t \in Sensors \ {s}, id \in Int, number \in Int, ep \in Int :
              /\ Counted(f2, t, id, number, ep) => Counted(Append(f2, r), t, id, number, ep)
              /\ HasSample(Append(f2, r), t, ep) => HasSample(f2, t, ep)
    BY <1>2, <1>3, <1>5, <1>6, IdsExtended
  <1>8. r.kind = "sample" /\ r.sensor = s /\ r # PosixOffset
        /\ \A t \in Sensors : r # Definition(t)
    BY DEF Sample, PosixOffset, Definition
  <1> HIDE DEF r
  <1>9. file' = Append(f2, r)
    BY <1>1, <1>5, <1>7, OneMore
  <1>10. Described(file') /\ file' \in Seq(Records)
    <2>1. MayFollow(f2, r)
      BY <1>4, <1>5, <1>8 DEF MayFollow
    <2> QED
      BY <1>5, <1>7, <1>9, <2>1, DescribedAppended
  <1>11. \A x : Has(file', x) <=> (Has(f2, x) \/ x = r)
    BY <1>5, <1>7, <1>9, HasAppended
  <1>12. \A t \in Sensors \ {s}, id \in Int, number \in Int, ep \in Int :
              /\ Counted(file, t, id, number, ep) => Counted(file', t, id, number, ep)
              /\ HasSample(file', t, ep) => HasSample(file, t, ep)
    BY <1>4, <1>5, <1>7, <1>9
  <1> QED
    BY <1>1, <1>4, <1>5, <1>7, <1>8, <1>9, <1>10, <1>11, <1>12 DEF e

-----------------------------------------------------------------------------
(* Every step keeps the invariant.                                         *)

\* The number that arrives is the newest one, and less than a turn ahead,
\* unless a burst is lost, once samples are logged.
LEMMA Ahead ==
    ASSUME TypeOK, late, NEW s \in Sensors, NEW n \in Nat, Arrives(s, n)
    PROVE  /\ n > newest[s]
           /\ "burst" \notin faults => n \in newest[s] + 1 .. newest[s] + SeqMod - 1
  BY SizeAssumption DEF TypeOK, Arrives

LEMMA SensorCallbackInv ==
    ASSUME Inv, NEW s \in Sensors, SensorCallback(s)
    PROVE  Inv'
  <1>1. PICK n \in 0 .. MaxCount :
            /\ Arrives(s, n)
            /\ newest' = [newest EXCEPT ![s] = IF n > @ THEN n ELSE @]
            /\ started' = TRUE
            /\ ready' = (ready \/ late)
            /\ IF ready' THEN LogSample(s, n) ELSE UNCHANGED <<file, extenders, posix>>
            /\ UNCHANGED <<faults, epoch, late>>
    BY DEF SensorCallback
  <1>2. n \in Nat /\ TypeOK /\ Known /\ Numbered
    BY SizeAssumption DEF Inv
  <1>3. newest' \in [Sensors -> Nat \cup {-1}] /\ ready' \in BOOLEAN
    BY <1>1, <1>2 DEF TypeOK
  <1>4. CASE ~ready'
    <2>1. UNCHANGED <<file, extenders, posix, faults, epoch, late>> /\ ~ready
      BY <1>1, <1>2, <1>4 DEF TypeOK
    <2>2. TypeOK'
      BY <1>1, <1>2, <1>3, <2>1 DEF TypeOK
    <2>3. Known'
      BY <1>2, <2>1 DEF Known, Described, Has
    <2>4. \A t \in Sensors : ~HasSample(file, t, epoch)
      BY <1>2, <2>1 DEF Numbered, InStep
    <2>5. ASSUME NEW t \in Sensors
          PROVE  InStep(t)' /\ Counted(file, t, Id(extenders[t]), newest[t], epoch)'
      <3>1. InStep(t)'
        BY <1>2, <2>1, <2>4 DEF Numbered, InStep, HasSample, SamplesIn
      <3>2. Counted(file, t, Id(extenders[t]), newest[t], epoch)
        BY <1>2 DEF Numbered
      <3> QED
        BY <2>1, <2>4, <3>1, <3>2 DEF Counted, HasSample, SamplesIn, Id
    <2>6. Ordered(file)'
      BY <1>2, <2>1 DEF Numbered, Ordered, SamplesIn
    <2> QED
      BY <1>4, <2>2, <2>3, <2>5, <2>6 DEF Inv, Numbered
  <1>5. CASE ready'
    <2> DEFINE e  == extenders[s]
               e2 == Extend(e, n % SeqMod)
    <2>1. LogSample(s, n) /\ late /\ UNCHANGED <<faults, epoch, late>>
      BY <1>1, <1>2, <1>5 DEF Numbered
    <2>2. n > newest[s] /\ newest[s] \in Int
          /\ ("burst" \notin faults => n \in newest[s] + 1 .. newest[s] + SeqMod - 1)
      BY <1>1, <1>2, <2>1, Ahead DEF TypeOK
    <2>3. newest' = [newest EXCEPT ![s] = n]
      BY <1>1, <2>2
    <2>4. e \in Extenders /\ epoch \in Nat /\ file \in Seq(Records)
      BY <1>2 DEF TypeOK
    <2>5. /\ e2 \in Extenders /\ ~e2.empty /\ e2.seqLsb = n % SeqMod
          /\ Id(e) \in Nat /\ Id(e2) \in Nat /\ Id(e) <= Id(e2)
          /\ \A k \in Nat : e.seqLsb = k % SeqMod /\ n \in k + 1 .. k + SeqMod - 1
                => Id(e2) - Id(e) = n - k
      BY <1>2, <2>4, Extends
    <2>6. InStep(s) /\ Counted(file, s, Id(e), newest[s], epoch)
      BY <1>2 DEF Numbered
    <2>7. \/ e.seqLsb = newest[s] % SeqMod /\ newest[s] \in Nat
          \/ ~HasSample(file, s, epoch)
      BY <2>6 DEF InStep
    <2> HIDE DEF e, e2
    <2>8. \A i \in SamplesIn(file, s) :
              file[i].id \in Nat /\ file[i].number \in Nat /\ file[i].epoch \in Nat
      BY <2>4 DEF SamplesIn, Records
    <2>9. Counted(file, s, Id(e2), n, epoch)
      <3> SUFFICES ASSUME NEW i \in SamplesIn(file, s)
                   PROVE  /\ file[i].id <= Id(e2) /\ file[i].epoch <= epoch
                          /\ "burst" \notin faults /\ file[i].epoch = epoch
                                => Id(e2) - file[i].id = n - file[i].number
        BY DEF Counted
      <3>1. /\ file[i].id <= Id(e) /\ file[i].epoch <= epoch
            /\ "burst" \notin faults /\ file[i].epoch = epoch
                  => Id(e) - file[i].id = newest[s] - file[i].number
        BY <2>6 DEF Counted
      <3>2. file[i].id <= Id(e2)
        BY <2>5, <2>8, <3>1
      <3>3. ASSUME "burst" \notin faults, file[i].epoch = epoch
            PROVE  Id(e2) - file[i].id = n - file[i].number
        <4>1. e.seqLsb = newest[s] % SeqMod /\ newest[s] \in Nat
          BY <2>7, <3>3 DEF HasSample
        <4>2. Id(e2) - Id(e) = n - newest[s]
          BY <2>2, <2>5, <3>3, <4>1
        <4> QED
          BY <1>2, <2>2, <2>5, <2>8, <3>1, <3>3, <4>2
      <3> QED
        BY <3>1, <3>2, <3>3
    <2>10. /\ file' \in Seq(Records) /\ Described(file') /\ Ordered(file')
           /\ extenders' = [extenders EXCEPT ![s] = e2]
           /\ posix' = TRUE
           /\ Has(file', PosixOffset) /\ Has(file', Definition(s))
           /\ \A t \in Sensors \ {s} : Has(file', Definition(t)) <=> ~extenders[t].empty
           /\ Counted(file', s, Id(e2), n, epoch)
           /\ \A t \in Sensors \ {s}, id \in Int, number \in Int, ep \in Int :
                 /\ Counted(file, t, id, number, ep) => Counted(file', t, id, number, ep)
                 /\ HasSample(file', t, ep) => HasSample(file, t, ep)
      BY <1>2, <2>1, <2>9, SampleLogged DEF e, e2, Inv
    <2>11. extenders' \in [Sensors -> Extenders]
      BY <1>2, <2>5, <2>10 DEF TypeOK
    <2>12. TypeOK'
      BY <1>1, <1>2, <1>3, <2>10, <2>11 DEF TypeOK
    <2>13. extenders'[s] = e2 /\ \A t \in Sensors \ {s} : extenders'[t] = extenders[t]
      BY <1>2, <2>10 DEF TypeOK
    <2>14. Known'
      BY <2>5, <2>10, <2>13 DEF Known, Described, Has, Definition, PosixOffset
    <2>15. newest'[s] = n /\ \A t \in Sensors \ {s} : newest'[t] = newest[t]
      BY <1>2, <2>3 DEF TypeOK
    <2>16. InStep(s)' /\ Counted(file', s, Id(extenders'[s]), newest'[s], epoch)
      BY <1>2, <1>5, <2>5, <2>10, <2>13, <2>15 DEF InStep
    <2>17. ASSUME NEW t \in Sensors \ {s}
           PROVE  InStep(t)' /\ Counted(file', t, Id(extenders'[t]), newest'[t], epoch)
      <3>1. InStep(t) /\ Counted(file, t, Id(extenders[t]), newest[t], epoch)
        BY <1>2 DEF Numbered
      <3>2. Id(extenders[t]) \in Int /\ newest[t] \in Int /\ epoch \in Int
        BY <1>2, Extends DEF TypeOK
      <3>3. Counted(file', t, Id(extenders[t]), newest[t], epoch)
        BY <2>10, <3>1, <3>2
      <3>4. HasSample(file', t, epoch) => HasSample(file, t, epoch)
        BY <2>10, <3>2
      <3>5. HasSample(file, t, epoch)' <=> HasSample(file', t, epoch)
        BY <2>1 DEF HasSample, SamplesIn
      <3>6. InStep(t)'
        BY <1>5, <2>13, <2>15, <3>1, <3>4, <3>5 DEF InStep
      <3> QED
        BY <2>13, <2>15, <3>3, <3>6
    <2>18. Ordered(file)'
      BY <2>1, <2>10 DEF Ordered, SamplesIn
    <2>19. ASSUME NEW t \in Sensors
           PROVE  InStep(t)' /\ Counted(file, t, Id(extenders[t]), newest[t], epoch)'
      BY <2>1, <2>16, <2>17 DEF Counted, SamplesIn, Id
    <2> QED
      BY <2>1, <2>12, <2>14, <2>18, <2>19 DEF Inv, Numbered
  <1> QED
    BY <1>4, <1>5

\* What HubResets and FeatureResponse do to the ids is nothing: no sample is
\* written.
LEMMA FeatureResponseInv ==
    ASSUME Inv, NEW s \in Sensors, FeatureResponse(s)
    PROVE  Inv'
  <1> DEFINE f == file \o DefinitionIfNew(s)
             r == Period(s)
             e == extenders[s]
  <1>1. /\ file' = f \o <<r>>
        /\ extenders' = [extenders EXCEPT ![s] = IF @.empty THEN Extend(@, 0) ELSE @]
        /\ UNCHANGED <<faults, newest, epoch, started, late, ready, posix>>
    BY DEF FeatureResponse, hubVars, appVars
  <1>2. TypeOK /\ Known /\ Numbered
    BY DEF Inv
  <1>3. /\ f \in Seq(Records) /\ Described(f) /\ Ordered(f)
        /\ Has(f, Definition(s))
        /\ Has(f, PosixOffset) <=> posix
        /\ \A t \in Sensors \ {s} : Has(f, Definition(t)) <=> ~extenders[t].empty
        /\ \A t \in Sensors, id \in Int, number \in Int, ep \in Int :
              /\ Counted(file, t, id, number, ep) => Counted(f, t, id, number, ep)
              /\ HasSample(f, t, ep) => HasSample(file, t, ep)
    BY DefinitionWritten
  <1>4. r \in Records /\ r.kind = "period" /\ r.sensor = s /\ r # PosixOffset
        /\ \A t \in Sensors : r # Definition(t)
    BY RecordTypes DEF Period, PosixOffset, Definition
  <1> HIDE DEF f, r
  <1>5. file' = Append(f, r)
    BY <1>1, <1>3, <1>4, OneMore
  <1>6. file' \in Seq(Records) /\ Described(file')
    <2>1. MayFollow(f, r)
      BY <1>3, <1>4 DEF MayFollow
    <2> QED
      BY <1>3, <1>4, <1>5, <2>1, DescribedAppended
  <1>7. \A x : Has(file', x) <=> (Has(f, x) \/ x = r)
    BY <1>3, <1>4, <1>5, HasAppended
  <1>8. /\ Ordered(file')
        /\ \A t \in Sensors, id \in Int, number \in Int, ep \in Int :
              /\ Counted(f, t, id, number, ep) => Counted(file', t, id, number, ep)
              /\ HasSample(file', t, ep) => HasSample(f, t, ep)
    BY <1>3, <1>4, <1>5, IdsUnchanged
  <1>9. e \in Extenders /\ (e.empty => e.seqMsb = 0 /\ e.seqLsb = 0)
    BY <1>2 DEF TypeOK, Numbered, InStep
  <1>10. /\ extenders' \in [Sensors -> Extenders]
         /\ ~extenders'[s].empty
         /\ \A t \in Sensors \ {s} : extenders'[t] = extenders[t]
         /\ \A t \in Sensors : /\ extenders'[t].seqMsb = extenders[t].seqMsb
                              /\ extenders'[t].seqLsb = extenders[t].seqLsb
    <2>1. Extend(e, 0) = [empty |-> FALSE, seqMsb |-> IF 0 < e.seqLsb THEN e.seqMsb + 1 ELSE e.seqMsb,
                          seqLsb |-> 0]
      BY DEF Extend
    <2>2. 0 \in 0 .. SeqMod - 1
      BY SizeAssumption
    <2>3. (IF e.empty THEN Extend(e, 0) ELSE e) \in Extenders
          /\ ~(IF e.empty THEN Extend(e, 0) ELSE e).empty
          /\ (IF e.empty THEN Extend(e, 0) ELSE e).seqMsb = e.seqMsb
          /\ (IF e.empty THEN Extend(e, 0) ELSE e).seqLsb = e.seqLsb
      <3> HIDE DEF e
      <3>1. CASE e.empty
        <4>1. Extend(e, 0) = [empty |-> FALSE, seqMsb |-> 0, seqLsb |-> 0]
              /\ e.seqMsb = 0 /\ e.seqLsb = 0
          BY <1>9, <2>1, <3>1
        <4>2. Extend(e, 0) \in Extenders
          <5>1. [empty |-> FALSE, seqMsb |-> 0, seqLsb |-> 0] \in Extenders
            BY <2>2 DEF Extenders
          <5> QED
            BY <4>1, <5>1, Zenon
        <4> QED
          BY <3>1, <4>1, <4>2
      <3>2. CASE ~e.empty
        BY <1>9, <3>2
      <3> QED
        BY <3>1, <3>2
    <2>4. extenders \in [Sensors -> Extenders]
      BY <1>2 DEF TypeOK
    <2>5. /\ extenders' \in [Sensors -> Extenders]
          /\ extenders'[s] = IF e.empty THEN Extend(e, 0) ELSE e
          /\ \A t \in Sensors \ {s} : extenders'[t] = extenders[t]
      BY <1>1, <2>3, <2>4
    <2> HIDE DEF e
    <2> QED
      BY <2>3, <2>5 DEF e
  <1>11. TypeOK'
    BY <1>1, <1>2, <1>6, <1>10 DEF TypeOK
  <1>12. Known'
    <2>1. \A t \in Sensors : extenders'[t].empty <=> ~Has(file', Definition(t))
      BY <1>3, <1>4, <1>7, <1>10
    <2>2. posix' <=> Has(file', PosixOffset)
      BY <1>1, <1>3, <1>4, <1>7
    <2> QED
      BY <1>6, <2>1, <2>2 DEF Known, Described, Has, Definition, PosixOffset
  <1>13. ASSUME NEW t \in Sensors
         PROVE  InStep(t)' /\ Counted(file, t, Id(extenders[t]), newest[t], epoch)'
    <2>1. InStep(t) /\ Counted(file, t, Id(extenders[t]), newest[t], epoch)
      BY <1>2 DEF Numbered
    <2>2. Id(extenders[t]) \in Int /\ newest[t] \in Int /\ epoch \in Int
      BY <1>2, Extends DEF TypeOK
    <2>3. Counted(file', t, Id(extenders[t]), newest[t], epoch)
      BY <1>3, <1>8, <2>1, <2>2
    <2>4. HasSample(file', t, epoch) => HasSample(file, t, epoch)
      BY <1>3, <1>8, <2>2
    <2>5. HasSample(file, t, epoch)' <=> HasSample(file', t, epoch)
      BY <1>1 DEF HasSample, SamplesIn
    <2>6. InStep(t)'
      <3>1. extenders'[t].empty => extenders[t].empty
        BY <1>10
      <3> QED
        BY <1>1, <1>10, <2>1, <2>4, <2>5, <3>1 DEF InStep
    <2>7. Id(extenders'[t]) = Id(extenders[t])
      BY <1>10 DEF Id
    <2> QED
      BY <1>1, <2>3, <2>6, <2>7 DEF Counted, SamplesIn, Id
  <1>14. Ordered(file)'
    BY <1>1, <1>8 DEF Ordered, SamplesIn
  <1> QED
    BY <1>1, <1>2, <1>11, <1>12, <1>13, <1>14 DEF Inv, Numbered

LEMMA HubResetsInv == Inv /\ HubResets => Inv'
  <1> SUFFICES ASSUME Inv, HubResets PROVE Inv'
    OBVIOUS
  <1>1. /\ epoch < MaxResets /\ epoch' = epoch + 1
        /\ newest' = [s \in Sensors |-> -1]
        /\ file' = Append(file, ResetMark)
        /\ UNCHANGED <<faults, started, late, ready, extenders, posix>>
    BY DEF HubResets, appVars
  <1>2. TypeOK /\ Known /\ Numbered /\ file \in Seq(Records)
    BY DEF Inv, TypeOK
  <1>3. ResetMark \in Records /\ ResetMark.kind = "reset" /\ ResetMark # PosixOffset
        /\ \A t \in Sensors : ResetMark # Definition(t)
    <2>1. ResetMark.kind = "reset" /\ PosixOffset.kind = "posix"
          /\ \A t \in Sensors : Definition(t).kind = "definition"
      BY DEF ResetMark, PosixOffset, Definition
    <2>2. ResetMark \in Records
      BY DEF Records, ResetMark
    <2> QED
      BY <2>1, <2>2
  <1>4. file' \in Seq(Records) /\ Described(file')
    <2>1. MayFollow(file, ResetMark)
      BY <1>3 DEF MayFollow
    <2> QED
      BY <1>1, <1>2, <1>3, <2>1, DescribedAppended DEF Known
  <1>5. \A x : Has(file', x) <=> (Has(file, x) \/ x = ResetMark)
    BY <1>1, <1>2, <1>3, HasAppended
  <1>6. /\ Ordered(file')
        /\ \A t \in Sensors, id \in Int, number \in Int, ep \in Int :
              /\ Counted(file, t, id, number, ep) => Counted(file', t, id, number, ep)
              /\ HasSample(file', t, ep) => HasSample(file, t, ep)
    BY <1>1, <1>2, <1>3, IdsUnchanged DEF Numbered
  <1>7. TypeOK'
    <2>1. epoch' \in 0 .. MaxResets
      BY <1>1, <1>2, SizeAssumption DEF TypeOK
    <2>2. newest' \in [Sensors -> Nat \cup {-1}]
      BY <1>1
    <2> QED
      BY <1>1, <1>2, <1>4, <2>1, <2>2 DEF TypeOK
  <1>8. Known'
    <2>1. \A t \in Sensors : extenders'[t].empty <=> ~Has(file', Definition(t))
      BY <1>1, <1>2, <1>3, <1>5 DEF Known
    <2>2. posix' <=> Has(file', PosixOffset)
      BY <1>1, <1>2, <1>3, <1>5 DEF Known
    <2> QED
      BY <1>4, <2>1, <2>2 DEF Known, Described, Has, Definition, PosixOffset
  <1>9. ASSUME NEW t \in Sensors
        PROVE  InStep(t)' /\ Counted(file, t, Id(extenders[t]), newest[t], epoch)'
    <2>1. InStep(t) /\ Counted(file, t, Id(extenders[t]), newest[t], epoch)
      BY <1>2 DEF Numbered
    <2>2. Id(extenders[t]) \in Int /\ newest[t] \in Int /\ epoch \in Nat /\ epoch' = epoch + 1
      BY <1>1, <1>2, Extends DEF TypeOK
    <2>3. Counted(file', t, Id(extenders[t]), newest[t], epoch)
      BY <1>6, <2>1, <2>2
    <2>4. ~HasSample(file', t, epoch + 1)
      <3>1. \A i \in SamplesIn(file', t) : file'[i].epoch <= epoch /\ file'[i].epoch \in Nat
        BY <1>4, <2>3 DEF Counted, SamplesIn, Records
      <3> QED
        BY <2>2, <3>1 DEF HasSample
    <2>5. HasSample(file, t, epoch)' <=> HasSample(file', t, epoch')
      BY DEF HasSample, SamplesIn
    <2>6. InStep(t)'
      BY <1>1, <2>1, <2>2, <2>4, <2>5 DEF InStep
    <2>7. Counted(file', t, Id(extenders[t]), -1, epoch + 1)
      <3>1. \A i \in SamplesIn(file', t) : file'[i].epoch \in Nat
        BY <1>4 DEF SamplesIn, Records
      <3> QED
        BY <2>2, <2>3, <2>4, <3>1 DEF Counted, HasSample
    <2> QED
      BY <1>1, <2>2, <2>6, <2>7 DEF Counted, SamplesIn, Id
  <1>10. Ordered(file)'
    BY <1>1, <1>6 DEF Ordered, SamplesIn
  <1> QED
    BY <1>1, <1>2, <1>7, <1>8, <1>9, <1>10 DEF Inv, Numbered

LEMMA FileKept ==
    ASSUME Inv, UNCHANGED <<faults, hubVars, extenders, posix, file>>,
           late' \in BOOLEAN, ready' \in BOOLEAN, started' \in BOOLEAN,
           late => late', ready => ready', ready' => late'
    PROVE  Inv'
  <1>1. UNCHANGED <<faults, newest, epoch, extenders, posix, file>>
    BY DEF hubVars
  <1>2. TypeOK'
    BY <1>1 DEF Inv, TypeOK
  <1>3. Known'
    BY <1>1 DEF Inv, Known, Described, Has
  <1>4. ASSUME NEW t \in Sensors
        PROVE  InStep(t)' /\ Counted(file, t, Id(extenders[t]), newest[t], epoch)'
    <2>1. InStep(t) /\ Counted(file, t, Id(extenders[t]), newest[t], epoch)
      BY DEF Inv, Numbered
    <2> QED
      BY <1>1, <2>1 DEF InStep, Counted, HasSample, SamplesIn, Id
  <1>5. Ordered(file)'
    BY <1>1 DEF Inv, Numbered, Ordered, SamplesIn
  <1> QED
    BY <1>2, <1>3, <1>4, <1>5 DEF Inv, Numbered

LEMMA NextInv == Inv /\ [Next]_vars => Inv'
  <1> SUFFICES ASSUME Inv, [Next]_vars PROVE Inv'
    OBVIOUS
  <1>1. ready \in BOOLEAN /\ late \in BOOLEAN /\ started \in BOOLEAN /\ (ready => late)
    BY DEF Inv, TypeOK, Numbered
  <1>2. ASSUME NEW s \in Sensors, SensorCallback(s) PROVE Inv'
    BY <1>2, SensorCallbackInv
  <1>3. ASSUME NEW s \in Sensors, FeatureResponse(s) PROVE Inv'
    BY <1>3, FeatureResponseInv
  <1>4. CASE UnloggedCallback
    BY <1>1, <1>4, FileKept DEF UnloggedCallback
  <1>5. CASE HubResets
    BY <1>5, HubResetsInv
  <1>6. CASE FlushTimeout
    BY <1>1, <1>6, FileKept DEF FlushTimeout
  <1>7. CASE UNCHANGED vars
    BY <1>1, <1>7, FileKept DEF vars, hubVars, appVars
  <1> QED
    BY <1>2, <1>3, <1>4, <1>5, <1>6, <1>7 DEF Next

-----------------------------------------------------------------------------
(* The theorems.                                                           *)

THEOREM InvariantHolds == Spec => []Inv
  BY InitInv, NextInv, PTL DEF Spec

\* Every state of the log is well typed.
THEOREM TypeCorrect == Spec => []TypeOK
  <1>1. Inv => TypeOK
    BY DEF Inv
  <1> QED
    BY <1>1, InvariantHolds, PTL

\* A definition in the file and the record `Definition' are the same.
LEMMA DefinitionIs ==
    ASSUME TypeOK, NEW s \in Sensors, NEW i \in DOMAIN file
    PROVE  file[i].kind = "definition" /\ file[i].sensor = s <=> file[i] = Definition(s)
  <1>1. file[i] \in Records
    BY DEF TypeOK
  <1> QED
    BY <1>1 DEF Records, Definition

\* Whatever comes first of a sensor, lost, late or after a reset: a reader of
\* the file knows channel and offset of every sample it meets
\* (WriteChannelDefinition, WriteSensorReportHeader).
THEOREM SamplesAreDescribed == Spec => []DescribedBefore
  <1>1. ASSUME Inv PROVE DescribedBefore
    <2>1. TypeOK /\ Described(file)
      BY <1>1 DEF Inv, Known
    <2>2. \A s \in Sensors : \A i \in DOMAIN file :
              i \in Definitions(s) <=> file[i] = Definition(s)
      BY <2>1, DefinitionIs DEF Definitions
    <2>3. \A i \in DOMAIN file : file[i].kind = "posix" <=> file[i] = PosixOffset
      <3>1. \A i \in DOMAIN file : file[i] \in Records
        BY <2>1 DEF TypeOK
      <3> QED
        BY <3>1 DEF Records, PosixOffset
    <2>4. \A s \in Sensors : Definitions(s) \subseteq DOMAIN file
      BY DEF Definitions
    <2>5. DefinedOnceBefore
      BY <2>1, <2>2, <2>4 DEF Described, DefinedOnceBefore
    <2>6. OffsetOnceBefore
      BY <2>1, <2>3 DEF Described, OffsetOnceBefore
    <2> QED
      BY <2>5, <2>6 DEF DescribedBefore
  <1> QED
    BY <1>1, InvariantHolds, PTL

\* For every width of the sequence number the ids never go back, and count the
\* samples as long as less than a turn is lost in a row (SampleIdExtender).
THEOREM IdsCountSamples == Spec => []IdsCount
  <1>1. Inv => IdsCount
    BY DEF Inv, Numbered, Ordered, IdsCount, IdsNeverGoBack, IdsExact, Samples, SamplesIn
  <1> QED
    BY <1>1, InvariantHolds, PTL
=============================================================================
