-------------------------- MODULE HcBinFileProofs ---------------------------
(***************************************************************************)
(* Proofs about the reader of firmware files, for every set of files, keys *)
(* and reads.                                                              *)
(*                                                                         *)
(* The argument: a length that wrapped would end beyond any file (Unwraps),*)
(* so that the bytes a file has are enough to know that its numbers are    *)
(* sound; and as long as the numbers are, so is the test of a range.       *)
(* The text is followed line by line: where one ends, the parser is between*)
(* lines and has the entries of those before (InKey), and it goes through  *)
(* the key, the separator and the value to the next end (LineIsRead).      *)
(***************************************************************************)
EXTENDS HcBinFile, SequenceTheorems, WellFoundedInduction, TLAPS

\* What close() may be called with.
Deletable == opened => m_appData.to \in {"null", "buffer"}

\* The pointer is to a buffer exactly while the file is open.
PointerIsOpen == m_open <=> m_appData.to = "buffer"

Inv == TypeOK /\ OpenIsWhole /\ ReadsAreData /\ OneBuffer /\ Deletable /\ PointerIsOpen

-----------------------------------------------------------------------------
(* Arithmetic of 32 bits.                                                  *)

LEMMA SmallModulus == \A n \in Nat \ {0} : \A a \in 0 .. n - 1 : a % n = a
  OBVIOUS

LEMMA ModulusRange == \A n \in Nat \ {0} : \A a \in Int : a % n \in 0 .. n - 1
  OBVIOUS

LEMMA NegativeModulus ==
    \A n \in Nat \ {0} : \A a \in Int : /\ -n <= a /\ a < 0 => a % n = a + n
                                        /\ -n - n <= a /\ a < -n => a % n = a + n + n
  OBVIOUS

-----------------------------------------------------------------------------
(* Files.                                                                  *)

LEMMA FileFacts ==
    ASSUME NEW f \in Files
    PROVE  /\ Word \in Nat \ {0}
           /\ f.sz \in 0 .. Word - 1 /\ f.offset \in 0 .. Word - 1
           /\ f.crcAt \in Int
           /\ f.body \in Seq(Chars)
           /\ FileLen(f) = HeaderLen + Len(f.body)
           /\ FileLen(f) \in 0 .. Word - 1
  <1>1. f \in FileType
    BY FileAssumption
  <1>2. f.body \in Seq(Chars) /\ Len(f.body) \in Nat
    BY <1>1 DEF FileType
  <1> QED
    BY <1>1, <1>2, FileAssumption DEF FileType, FileLen, HeaderLen

\* The numbers of a file that open() has no objection to are sound.
LEMMA Unwraps ==
    ASSUME NEW f \in Files, Exit(f) = "none"
    PROVE  /\ HeaderLen <= f.offset
           /\ AppDataLen(f) = f.sz - f.offset - CrcLen
           /\ AppDataLen(f) \in Nat
           /\ f.sz <= FileLen(f)
           /\ f.crcAt = f.sz - CrcLen
  <1> DEFINE a == f.sz - f.offset - CrcLen
  <1>1. /\ Word \in Nat \ {0}
        /\ f.sz \in 0 .. Word - 1 /\ f.offset \in 0 .. Word - 1
        /\ FileLen(f) \in 0 .. Word - 1
        /\ f.crcAt \in Int
    BY FileFacts
  <1>2. /\ HeaderLen <= f.offset
        /\ f.offset + AppDataLen(f) + CrcLen <= FileLen(f)
        /\ f.crcAt = f.offset + AppDataLen(f)
    <2>1. AppDataLen(f) \in 0 .. Word - 1
      <3>1. a \in Int
        BY <1>1 DEF CrcLen
      <3>2. AppDataLen(f) = a % Word
        BY DEF AppDataLen
      <3> HIDE DEF a
      <3> QED
        BY <3>1, <3>2, <1>1, ModulusRange
    <2> QED
      BY <1>1, <2>1 DEF Exit, HeaderLen, CrcLen
  <1>3. a \in Int /\ -Word - Word <= a /\ a < Word
    BY <1>1, <1>2 DEF CrcLen, HeaderLen
  <1>4. AppDataLen(f) = a % Word
    BY DEF AppDataLen
  <1>5. 0 <= a
    <2>1. CASE -Word <= a /\ a < 0
      <3>1. AppDataLen(f) = a + Word
        BY <2>1, <1>1, <1>3, <1>4, NegativeModulus
      <3> QED
        BY <3>1, <1>1, <1>2 DEF CrcLen
    <2>2. CASE a < -Word
      <3>1. AppDataLen(f) = a + Word + Word
        BY <2>2, <1>1, <1>3, <1>4, NegativeModulus
      <3> QED
        BY <3>1, <1>1, <1>2 DEF CrcLen
    <2> QED
      BY <2>1, <2>2, <1>1, <1>3
  <1>6. AppDataLen(f) = a
    BY <1>1, <1>3, <1>4, <1>5, SmallModulus
  <1> QED
    BY <1>1, <1>2, <1>5, <1>6 DEF CrcLen

LEMMA BytesOf ==
    ASSUME NEW f \in Files, NEW first \in Int, NEW end \in Int,
           HeaderLen <= first, first <= end, end <= FileLen(f)
    PROVE  /\ Bytes(f, first, end) \in Seq(Chars)
           /\ Len(Bytes(f, first, end)) = end - first
           /\ Bytes(f, first, end)
                 = [i \in 1 .. end - first |-> f.body[first - HeaderLen + i]]
  <1> DEFINE m == first - HeaderLen + 1
             n == end - HeaderLen
  <1>1. f.body \in Seq(Chars) /\ n <= Len(f.body) /\ 1 <= m /\ m \in Int /\ n \in Int
    BY FileFacts DEF HeaderLen
  <1>2. \A i \in m .. n : f.body[i] \in Chars
    BY <1>1
  <1>3. /\ SubSeq(f.body, m, n) \in Seq(Chars)
        /\ Len(SubSeq(f.body, m, n)) = IF m <= n THEN n - m + 1 ELSE 0
        /\ \A i \in 1 .. n - m + 1 : SubSeq(f.body, m, n)[i] = f.body[m + i - 1]
    BY <1>1, <1>2, SubSeqProperties
  <1>4. n - m + 1 = end - first
    BY DEF HeaderLen
  <1>5. \A i \in 1 .. end - first : m + i - 1 = first - HeaderLen + i
    BY DEF HeaderLen
  <1>6. Len(SubSeq(f.body, m, n)) = end - first
    BY <1>1, <1>3, <1>4
  <1>7. SubSeq(f.body, m, n) = [i \in 1 .. end - first |-> f.body[first - HeaderLen + i]]
    <2> DEFINE t == SubSeq(f.body, m, n)
    <2>1. t = [i \in 1 .. end - first |-> t[i]]
      <3> HIDE DEF t
      <3>1. t \in Seq(Chars) /\ Len(t) = end - first
        BY <1>3, <1>6 DEF t
      <3> QED
        BY <3>1
    <2>2. \A i \in 1 .. end - first : t[i] = f.body[first - HeaderLen + i]
      BY <1>3, <1>4, <1>5
    <2> HIDE DEF t
    <2>3. t = [i \in 1 .. end - first |-> f.body[first - HeaderLen + i]]
      BY <2>1, <2>2
    <2> QED
      BY <2>3 DEF t
  <1> QED
    BY <1>3, <1>6, <1>7 DEF Bytes

-----------------------------------------------------------------------------
(* Induction, up to a number.                                              *)

LEMMA LeastNumber ==
    ASSUME NEW T \in SUBSET Nat, T # {}
    PROVE  \E n \in T : \A m \in T : n <= m
  <1>1. PICK n \in T : \A m \in T : ~(<<m, n>> \in OpToRel(<, Nat))
    BY NatLessThanWellFounded, WFMin, Zenon
  <1>2. ASSUME NEW m \in T
        PROVE  n <= m
    <2>1. m \in Nat /\ n \in Nat
      OBVIOUS
    <2>2. m < n => <<m, n>> \in OpToRel(<, Nat)
      BY <2>1 DEF OpToRel
    <2>3. ~(m < n)
      BY <1>1, <2>2, Zenon
    <2> QED
      BY <2>1, <2>3
  <1> QED
    BY <1>2

LEMMA UpTo ==
    ASSUME NEW S, NEW N \in Nat, 0 \in S, \A n \in 0 .. N - 1 : n \in S => n + 1 \in S
    PROVE  \A n \in 0 .. N : n \in S
  <1> SUFFICES ASSUME (0 .. N) \ S # {} PROVE FALSE
    OBVIOUS
  <1>1. PICK n \in (0 .. N) \ S : \A m \in (0 .. N) \ S : n <= m
    <2>1. (0 .. N) \ S \in SUBSET Nat
      OBVIOUS
    <2> QED
      BY <2>1, LeastNumber
  <1>2. n # 0 /\ n - 1 \in 0 .. N - 1
    OBVIOUS
  <1>3. n - 1 \in S
    BY <1>1, <1>2
  <1>4. (n - 1) + 1 = n
    OBVIOUS
  <1> QED
    BY <1>2, <1>3, <1>4

-----------------------------------------------------------------------------
(* The parser.                                                             *)

Parser(state, key, value, entries) ==
    [state |-> state, key |-> key, value |-> value, entries |-> entries]

\* In a key, of which this much is read; after the end of a line nothing is.
InKey(p, key, entries) ==
    \/ p = Parser("KEY", key, <<>>, entries)
    \/ key = <<>> /\ p = Parser("EOL", <<>>, <<>>, entries)

\* The recursion of Parsed, for the first m bytes.
IsParsed(g, text, m) ==
    g = [n \in 0 .. m |-> IF n = 0 THEN Parser("KEY", <<>>, <<>>, NoEntries)
                                   ELSE ParseChar(g[n - 1], text[n])]

\* The recursive function Parsed exists: it is built from its start.
LEMMA ParsedIs ==
    ASSUME NEW text \in Seq(Chars)
    PROVE  /\ Parsed(text)[0] = Parser("KEY", <<>>, <<>>, NoEntries)
           /\ \A n \in 1 .. Len(text) :
                 Parsed(text)[n] = ParseChar(Parsed(text)[n - 1], text[n])
  <1> DEFINE L == Len(text)
             S == {n \in Nat : \E g : IsParsed(g, text, n)}
             start == Parser("KEY", <<>>, <<>>, NoEntries)
  <1>1. L \in Nat
    OBVIOUS
  <1>2. 0 \in S
    <2> DEFINE g == [n \in 0 .. 0 |-> start]
    <2>1. \A n \in 0 .. 0 : n = 0
      OBVIOUS
    <2>2. g = [n \in 0 .. 0 |-> IF n = 0 THEN start ELSE ParseChar(g[n - 1], text[n])]
      BY <2>1, Zenon
    <2>3. IsParsed(g, text, 0)
      BY <2>2 DEF IsParsed
    <2> HIDE DEF g
    <2> QED
      BY <2>3
  <1>3. ASSUME NEW m \in 0 .. L - 1, m \in S
        PROVE  m + 1 \in S
    <2>1. PICK g : IsParsed(g, text, m)
      BY <1>3
    <2> DEFINE h == [n \in 0 .. m + 1 |-> IF n = m + 1 THEN ParseChar(g[m], text[n]) ELSE g[n]]
    <2>2. ASSUME NEW n \in 0 .. m + 1
          PROVE  h[n] = IF n = 0 THEN start ELSE ParseChar(h[n - 1], text[n])
      <3>1. CASE n = m + 1
        <4>1. n # 0 /\ n - 1 = m /\ m \in 0 .. m + 1 /\ m # m + 1
          BY <3>1
        <4>2. h[n] = ParseChar(g[m], text[n]) /\ h[m] = g[m]
          BY <3>1, <4>1
        <4> HIDE DEF h
        <4> QED
          BY <4>1, <4>2
      <3>2. CASE n # m + 1
        <4>1. n \in 0 .. m /\ h[n] = g[n]
          BY <3>2
        <4>2. n # 0 => n - 1 \in 0 .. m + 1 /\ n - 1 # m + 1
          BY <4>1
        <4>3. n # 0 => h[n - 1] = g[n - 1]
          BY <4>2
        <4>4. g[n] = IF n = 0 THEN start ELSE ParseChar(g[n - 1], text[n])
          BY <2>1, <4>1 DEF IsParsed
        <4> HIDE DEF h, start
        <4> QED
          BY <4>1, <4>3, <4>4
      <3> QED
        BY <3>1, <3>2
    <2>3. h = [n \in 0 .. m + 1 |-> IF n = 0 THEN start ELSE ParseChar(h[n - 1], text[n])]
      BY <2>2
    <2>4. IsParsed(h, text, m + 1)
      BY <2>3 DEF IsParsed
    <2> HIDE DEF h
    <2> QED
      BY <2>4
  <1>4. \E g : IsParsed(g, text, L)
    <2>1. L \in S
      <3>1. L \in 0 .. L
        BY <1>1
      <3> HIDE DEF S, L
      <3> QED
        BY <1>1, <1>2, <1>3, <3>1, UpTo
    <2> QED
      BY <2>1
  <1>5. Parsed(text) = CHOOSE g : IsParsed(g, text, L)
    BY DEF Parsed, IsParsed, Parser
  <1>6. IsParsed(Parsed(text), text, L)
    BY <1>4, <1>5
  <1> DEFINE P == Parsed(text)
  <1>7. P = [n \in 0 .. L |-> IF n = 0 THEN start ELSE ParseChar(P[n - 1], text[n])]
    BY <1>6 DEF IsParsed
  <1>8. /\ 0 \in 0 .. L
        /\ \A n \in 1 .. L : n \in 0 .. L /\ n # 0
    BY <1>1
  <1> HIDE DEF P, L, start
  <1>9. \A n \in 0 .. L : P[n] = IF n = 0 THEN start ELSE ParseChar(P[n - 1], text[n])
    BY <1>7, Zenon
  <1>10. P[0] = start /\ \A n \in 1 .. L : P[n] = ParseChar(P[n - 1], text[n])
    BY <1>8, <1>9, Zenon
  <1> QED
    BY <1>10 DEF P, L, start

\* What a byte does in a key, and after it.
LEMMA KeyByte ==
    ASSUME NEW p, NEW key, NEW entries, InKey(p, key, entries),
           NEW c, c # Colon, key = <<>> => c \notin Eol
    PROVE  ParseChar(p, c) = Parser("KEY", Append(key, c), <<>>, entries)
  <1>1. CASE p = Parser("KEY", key, <<>>, entries)
    BY <1>1 DEF ParseChar, KeyState, Parser
  <1>2. CASE key = <<>> /\ p = Parser("EOL", <<>>, <<>>, entries)
    <2>1. ParseChar(p, c) = KeyState(Parser("KEY", <<>>, <<>>, entries), c)
      BY <1>2 DEF ParseChar, Parser
    <2> QED
      BY <1>2, <2>1 DEF KeyState, Parser
  <1> QED
    BY <1>1, <1>2 DEF InKey

LEMMA KeyEnds ==
    ASSUME NEW p, NEW key, NEW entries, InKey(p, key, entries)
    PROVE  ParseChar(p, Colon) = Parser("SEP", key, <<>>, entries)
  <1>1. CASE p = Parser("KEY", key, <<>>, entries)
    BY <1>1 DEF ParseChar, KeyState, Parser
  <1>2. CASE key = <<>> /\ p = Parser("EOL", <<>>, <<>>, entries)
    <2>1. Colon \notin Eol
      BY DEF Colon, Eol
    <2>2. ParseChar(p, Colon) = KeyState(Parser("KEY", <<>>, <<>>, entries), Colon)
      BY <1>2, <2>1 DEF ParseChar, Parser
    <2> QED
      BY <1>2, <2>2 DEF KeyState, Parser
  <1> QED
    BY <1>1, <1>2 DEF InKey

LEMMA Separator ==
    ASSUME NEW key, NEW entries
    PROVE  ParseChar(Parser("SEP", key, <<>>, entries), Space)
              = Parser("VALUE", key, <<>>, entries)
  BY DEF ParseChar, Parser

LEMMA ValueByte ==
    ASSUME NEW key, NEW value, NEW entries, NEW c, c \notin Eol
    PROVE  ParseChar(Parser("VALUE", key, value, entries), c)
              = Parser("VALUE", key, Append(value, c), entries)
  BY DEF ParseChar, Parser

LEMMA LineEnds ==
    ASSUME NEW key, NEW value, NEW entries, NEW c, c \in Eol
    PROVE  /\ ParseChar(Parser("VALUE", key, value, entries), c)
                 = Parser("EOL", <<>>, <<>>, Append(entries, [key |-> key, value |-> value]))
           /\ ParseChar(Parser("EOL", <<>>, <<>>, entries), c)
                 = Parser("EOL", <<>>, <<>>, entries)
  BY DEF ParseChar, Parser

\* The starts of a sequence, one longer than the other.
LEMMA Starts ==
    ASSUME NEW S, NEW s \in Seq(S)
    PROVE  /\ SubSeq(s, 1, 0) = <<>> /\ SubSeq(s, 1, Len(s)) = s
           /\ \A i \in 0 .. Len(s) - 1 :
                 /\ SubSeq(s, 1, i + 1) = Append(SubSeq(s, 1, i), s[i + 1])
                 /\ SubSeq(s, 1, i) = <<>> => i = 0
  OBVIOUS

\* A line is read as it was written, whatever is in front of it.
LEMMA LineIsRead ==
    ASSUME NEW text \in Seq(Chars), NEW start \in Nat, NEW end \in Nat, NEW entry \in Entry,
           NEW entries, IsLine(text, start, end, entry),
           InKey(Parsed(text)[start], <<>>, entries)
    PROVE  InKey(Parsed(text)[end], <<>>, Append(entries, entry))
  <1> DEFINE P == Parsed(text)
             L == Len(text)
             key == entry.key
             value == entry.value
             lk == Len(key)
             lv == Len(value)
             colon == start + lk + 1
             eol == colon + lv + 2
             more == Append(entries, entry)
  <1>1. /\ key \in Seq(Chars) /\ value \in Seq(Chars)
        /\ entry = [key |-> key, value |-> value]
    BY DEF Entry
  <1>2. L \in Nat /\ lk \in Nat /\ lv \in Nat
    BY <1>1
  <1>3. \A n \in 1 .. L : P[n] = ParseChar(P[n - 1], text[n])
    BY ParsedIs
  <1>4. /\ eol <= end /\ end <= L
        /\ \A i \in 1 .. lk : key[i] = text[start + i] /\ text[start + i] # Colon
        /\ key # <<>> => key[1] \notin Eol
        /\ text[colon] = Colon /\ text[colon + 1] = Space
        /\ \A i \in 1 .. lv : value[i] = text[colon + 1 + i] /\ text[colon + 1 + i] \notin Eol
        /\ \A i \in eol .. end : text[i] \in Eol
    <2>1. DOMAIN key = 1 .. lk /\ DOMAIN value = 1 .. lv
      BY <1>1
    <2>2. IsLine(text, start, end, entry)
      OBVIOUS
    <2> QED
      BY <2>1, <2>2, Zenon DEF IsLine
  <1>5. InKey(P[start], <<>>, entries)
    OBVIOUS
  <1> HIDE DEF P, L, key, value, lk, lv
  <1>6. start \in Nat /\ end \in Nat /\ start + lk + 1 + lv + 2 <= end /\ end <= L
    BY <1>4
  <1>7. InKey(P[start + lk], key, entries)
    <2> DEFINE S == {i \in 0 .. lk : InKey(P[start + i], SubSeq(key, 1, i), entries)}
    <2>0. /\ SubSeq(key, 1, 0) = <<>> /\ SubSeq(key, 1, lk) = key
          /\ \A i \in 0 .. lk - 1 :
                 /\ SubSeq(key, 1, i + 1) = Append(SubSeq(key, 1, i), key[i + 1])
                 /\ SubSeq(key, 1, i) = <<>> => i = 0
      BY <1>1, Starts DEF lk
    <2>1. 0 \in S
      <3>1. start + 0 = start /\ 0 \in 0 .. lk
        BY <1>2
      <3> QED
        BY <1>5, <2>0, <3>1
    <2>2. ASSUME NEW i \in 0 .. lk - 1, i \in S
          PROVE  i + 1 \in S
      <3>1. /\ start + (i + 1) \in 1 .. L /\ (start + (i + 1)) - 1 = start + i
            /\ i + 1 \in 1 .. lk /\ i + 1 \in 0 .. lk
        BY <1>2, <1>6
      <3>2. P[start + (i + 1)] = ParseChar(P[start + i], text[start + (i + 1)])
        BY <1>3, <3>1
      <3>3. key[i + 1] = text[start + (i + 1)] /\ key[i + 1] # Colon
        BY <1>4, <3>1
      <3>4. SubSeq(key, 1, i) = <<>> => key[i + 1] \notin Eol
        <4>1. i = 0 => i + 1 = 1 /\ key # <<>>
          BY <1>1, <3>1 DEF lk
        <4> QED
          BY <1>4, <2>0, <4>1
      <3>5. InKey(P[start + i], SubSeq(key, 1, i), entries)
        BY <2>2
      <3>6. P[start + (i + 1)] = ParseChar(P[start + i], key[i + 1])
        BY <3>2, <3>3
      <3>7. ParseChar(P[start + i], key[i + 1])
               = Parser("KEY", Append(SubSeq(key, 1, i), key[i + 1]), <<>>, entries)
        <4> DEFINE c == key[i + 1]
                   k == SubSeq(key, 1, i)
        <4>1. c # Colon /\ (k = <<>> => c \notin Eol) /\ InKey(P[start + i], k, entries)
          BY <3>3, <3>4, <3>5
        <4> HIDE DEF c, k
        <4>2. ParseChar(P[start + i], c) = Parser("KEY", Append(k, c), <<>>, entries)
          BY <4>1, KeyByte
        <4> QED
          BY <4>2 DEF c, k
      <3>8. InKey(P[start + (i + 1)], SubSeq(key, 1, i + 1), entries)
        BY <2>0, <3>6, <3>7 DEF InKey
      <3> QED
        BY <3>1, <3>8
    <2>3. lk \in S
      <3>1. lk \in 0 .. lk
        BY <1>2
      <3> HIDE DEF S
      <3> QED
        BY <1>2, <2>1, <2>2, <3>1, UpTo
    <2> QED
      BY <2>0, <2>3
  <1>8. /\ colon \in 1 .. L /\ colon - 1 = start + lk
        /\ colon + 1 \in 1 .. L /\ (colon + 1) - 1 = colon
        /\ eol \in 1 .. L /\ eol - 1 = colon + 1 + lv
    BY <1>2, <1>6
  <1>9. P[colon] = Parser("SEP", key, <<>>, entries)
    <2>1. P[colon] = ParseChar(P[start + lk], text[colon])
      BY <1>3, <1>8
    <2>2. text[colon] = Colon
      BY <1>4
    <2>3. ParseChar(P[start + lk], Colon) = Parser("SEP", key, <<>>, entries)
      BY <1>7, KeyEnds
    <2> HIDE DEF colon
    <2> QED
      BY <2>1, <2>2, <2>3
  <1>10. P[colon + 1] = Parser("VALUE", key, <<>>, entries)
    <2>1. P[colon + 1] = ParseChar(P[colon], text[colon + 1])
      BY <1>3, <1>8
    <2>2. text[colon + 1] = Space
      BY <1>4
    <2> HIDE DEF colon
    <2> QED
      BY <1>9, <2>1, <2>2, Separator
  <1>11. P[colon + 1 + lv] = Parser("VALUE", key, value, entries)
    <2> DEFINE S == {i \in 0 .. lv :
                        P[colon + 1 + i] = Parser("VALUE", key, SubSeq(value, 1, i), entries)}
    <2>0. /\ SubSeq(value, 1, 0) = <<>> /\ SubSeq(value, 1, lv) = value
          /\ \A i \in 0 .. lv - 1 :
                 SubSeq(value, 1, i + 1) = Append(SubSeq(value, 1, i), value[i + 1])
      BY <1>1, Starts DEF lv
    <2>1. 0 \in S
      <3>1. colon + 1 + 0 = colon + 1 /\ 0 \in 0 .. lv
        BY <1>2
      <3> QED
        BY <1>10, <2>0, <3>1
    <2>2. ASSUME NEW i \in 0 .. lv - 1, i \in S
          PROVE  i + 1 \in S
      <3>1. /\ colon + 1 + (i + 1) \in 1 .. L /\ (colon + 1 + (i + 1)) - 1 = colon + 1 + i
            /\ i + 1 \in 1 .. lv /\ i + 1 \in 0 .. lv
        BY <1>2, <1>6
      <3> HIDE DEF colon
      <3>2. P[colon + 1 + (i + 1)] = ParseChar(P[colon + 1 + i], text[colon + 1 + (i + 1)])
        BY <1>3, <3>1
      <3>3. value[i + 1] = text[colon + 1 + (i + 1)] /\ value[i + 1] \notin Eol
        BY <1>4, <3>1
      <3>4. P[colon + 1 + i] = Parser("VALUE", key, SubSeq(value, 1, i), entries)
        BY <2>2
      <3>5. ParseChar(Parser("VALUE", key, SubSeq(value, 1, i), entries), value[i + 1])
               = Parser("VALUE", key, Append(SubSeq(value, 1, i), value[i + 1]), entries)
        BY <3>3, ValueByte
      <3> QED
        BY <2>0, <3>1, <3>2, <3>3, <3>4, <3>5
    <2>3. lv \in S
      <3>1. lv \in 0 .. lv
        BY <1>2
      <3> HIDE DEF S
      <3> QED
        BY <1>2, <2>1, <2>2, <3>1, UpTo
    <2> QED
      BY <2>0, <2>3
  <1>12. P[eol] = Parser("EOL", <<>>, <<>>, more)
    <2>1. P[eol] = ParseChar(P[colon + 1 + lv], text[eol])
      BY <1>3, <1>8
    <2>2. text[eol] \in Eol
      BY <1>2, <1>4, <1>8
    <2>3. ParseChar(Parser("VALUE", key, value, entries), text[eol])
             = Parser("EOL", <<>>, <<>>, Append(entries, [key |-> key, value |-> value]))
      BY <2>2, LineEnds
    <2> HIDE DEF colon, eol
    <2> QED
      BY <1>1, <1>11, <2>1, <2>3
  <1>13. P[end] = Parser("EOL", <<>>, <<>>, more)
    <2> DEFINE S == {i \in Nat : P[eol + i] = Parser("EOL", <<>>, <<>>, more)}
    <2>0. eol \in Nat /\ end - eol \in Nat /\ eol + (end - eol) = end
      BY <1>2, <1>6
    <2>1. 0 \in S
      <3>1. eol + 0 = eol
        BY <2>0
      <3> QED
        BY <1>12, <3>1
    <2>2. ASSUME NEW i \in 0 .. (end - eol) - 1, i \in S
          PROVE  i + 1 \in S
      <3>1. /\ eol + (i + 1) \in 1 .. L /\ (eol + (i + 1)) - 1 = eol + i
            /\ eol + (i + 1) \in eol .. end /\ i + 1 \in Nat
        BY <1>2, <1>6, <2>0
      <3> HIDE DEF eol
      <3>2. P[eol + (i + 1)] = ParseChar(P[eol + i], text[eol + (i + 1)])
        BY <1>3, <3>1
      <3>3. text[eol + (i + 1)] \in Eol
        BY <1>4, <3>1
      <3>4. P[eol + i] = Parser("EOL", <<>>, <<>>, more)
        BY <2>2
      <3>5. ParseChar(Parser("EOL", <<>>, <<>>, more), text[eol + (i + 1)])
               = Parser("EOL", <<>>, <<>>, more)
        BY <3>3, LineEnds
      <3> QED
        BY <3>1, <3>2, <3>4, <3>5
    <2>3. end - eol \in S
      <3>1. end - eol \in 0 .. end - eol
        BY <2>0
      <3> HIDE DEF S, eol
      <3> QED
        BY <2>0, <2>1, <2>2, <3>1, UpTo
    <2> QED
      BY <2>0, <2>3
  <1> QED
    BY <1>13 DEF InKey, P

\* The text of a file, all of it, gives the entries it was made from.
LEMMA TextIsRead ==
    ASSUME NEW f \in Files, NEW text \in Seq(Chars),
           Len(text) = LinesEnd(f, Len(f.meta)),
           \A i \in 1 .. Len(text) : text[i] = f.body[i]
    PROVE  Metadata(text) = f.meta
  <1> DEFINE N == Len(f.meta)
             L == Len(text)
             P == Parsed(text)
  <1>1. /\ f.meta \in Seq(Entry) /\ f.ends \in Seq(Nat) /\ Len(f.ends) = N
        /\ N \in Nat /\ L \in Nat
    BY FileAssumption DEF FileType
  <1>2. \A n \in 0 .. N : LinesEnd(f, n) \in Nat
    BY <1>1 DEF LinesEnd
  <1>3. \A n \in 1 .. N :
           /\ f.meta[n] \in Entry
           /\ IsLine(f.body, LinesEnd(f, n - 1), LinesEnd(f, n), f.meta[n])
    BY <1>1, FileAssumption
  <1>4. \A n \in 1 .. N : LinesEnd(f, n - 1) <= LinesEnd(f, n)
    <2> SUFFICES ASSUME NEW n \in 1 .. N PROVE LinesEnd(f, n - 1) <= LinesEnd(f, n)
      OBVIOUS
    <2>1. LinesEnd(f, n - 1) \in Nat /\ LinesEnd(f, n) \in Nat
      BY <1>1, <1>2
    <2>2. Len(f.meta[n].key) \in Nat /\ Len(f.meta[n].value) \in Nat
      BY <1>3 DEF Entry
    <2>3. IsLine(f.body, LinesEnd(f, n - 1), LinesEnd(f, n), f.meta[n])
      BY <1>3
    <2>4. LinesEnd(f, n - 1) + Len(f.meta[n].key) + 1 + Len(f.meta[n].value) + 2 <= LinesEnd(f, n)
      BY <2>3, Zenon DEF IsLine
    <2>5. \A a, b, c, d \in Nat : a + c + 1 + d + 2 <= b => a <= b
      OBVIOUS
    <2> QED
      BY <2>1, <2>2, <2>4, <2>5
  <1>5. \A n \in 0 .. N : LinesEnd(f, n) <= L
    <2> DEFINE S == {n \in 0 .. N : LinesEnd(f, N - n) <= L}
    <2>1. 0 \in S
      <3>1. N - 0 = N /\ 0 \in 0 .. N /\ N \in 0 .. N
        BY <1>1
      <3> QED
        BY <1>1, <1>2, <3>1
    <2>2. ASSUME NEW n \in 0 .. N - 1, n \in S
          PROVE  n + 1 \in S
      <3>1. /\ N - n \in 1 .. N /\ N - (n + 1) = (N - n) - 1 /\ n + 1 \in 0 .. N
            /\ N - n \in 0 .. N /\ N - (n + 1) \in 0 .. N
        BY <1>1
      <3>2. LinesEnd(f, N - (n + 1)) <= LinesEnd(f, N - n)
        BY <1>4, <3>1
      <3>3. LinesEnd(f, N - (n + 1)) \in Nat /\ LinesEnd(f, N - n) \in Nat
        BY <1>2, <3>1
      <3> HIDE DEF N, L
      <3> QED
        BY <1>1, <2>2, <3>1, <3>2, <3>3
    <2>3. \A n \in 0 .. N : n \in S
      <3> HIDE DEF S, N
      <3> QED
        BY <1>1, <2>1, <2>2, UpTo
    <2>4. \A n \in 0 .. N : N - n \in 0 .. N /\ N - (N - n) = n
      BY <1>1
    <2> HIDE DEF N
    <2> QED
      BY <2>3, <2>4
  <1>6. ASSUME NEW n \in 1 .. N
        PROVE  IsLine(text, LinesEnd(f, n - 1), LinesEnd(f, n), f.meta[n])
    <2> DEFINE start == LinesEnd(f, n - 1)
               end == LinesEnd(f, n)
               entry == f.meta[n]
    <2>1. start \in Nat /\ end \in Nat /\ end <= L
      BY <1>1, <1>2, <1>5
    <2>2. /\ entry.key \in Seq(Chars) /\ entry.value \in Seq(Chars)
          /\ Len(entry.key) \in Nat /\ Len(entry.value) \in Nat
          /\ DOMAIN entry.key = 1 .. Len(entry.key) /\ DOMAIN entry.value = 1 .. Len(entry.value)
      BY <1>3 DEF Entry
    <2>3. IsLine(f.body, start, end, entry)
      BY <1>3
    <2>4. \A i \in start + 1 .. end : text[i] = f.body[i]
      BY <2>1
    <2> HIDE DEF start, end, entry, L
    <2>5. start + Len(entry.key) + 1 + Len(entry.value) + 2 <= end
      BY <2>3 DEF IsLine
    <2> DEFINE colon == start + Len(entry.key) + 1
               lk == Len(entry.key)
               lv == Len(entry.value)
    <2>6. /\ \A i \in 1 .. lk : start + i \in start + 1 .. end
          /\ \A i \in 1 .. lv : colon + 1 + i \in start + 1 .. end
          /\ colon \in start + 1 .. end /\ colon + 1 \in start + 1 .. end
          /\ \A i \in colon + lv + 2 .. end : i \in start + 1 .. end
      <3>1. lk \in Nat /\ lv \in Nat /\ start + lk + 1 + lv + 2 <= end
        BY <2>2, <2>5
      <3>2. colon = start + lk + 1
        OBVIOUS
      <3> HIDE DEF colon, lk, lv
      <3> QED
        BY <2>1, <3>1, <3>2
    <2>7. /\ \A i \in DOMAIN entry.key : text[start + i] = f.body[start + i]
          /\ \A i \in DOMAIN entry.value : text[colon + 1 + i] = f.body[colon + 1 + i]
          /\ text[colon] = f.body[colon] /\ text[colon + 1] = f.body[colon + 1]
          /\ \A i \in colon + Len(entry.value) + 2 .. end : text[i] = f.body[i]
      BY <2>2, <2>4, <2>6
    <2>8. IsLine(text, start, end, entry)
      BY <2>1, <2>3, <2>7 DEF IsLine, L
    <2> QED
      BY <2>8 DEF start, end, entry
  <1>7. \A n \in 0 .. N : InKey(P[LinesEnd(f, n)], <<>>, SubSeq(f.meta, 1, n))
    <2> DEFINE S == {n \in 0 .. N : InKey(P[LinesEnd(f, n)], <<>>, SubSeq(f.meta, 1, n))}
    <2>0. /\ SubSeq(f.meta, 1, 0) = <<>>
          /\ \A n \in 0 .. N - 1 :
                SubSeq(f.meta, 1, n + 1) = Append(SubSeq(f.meta, 1, n), f.meta[n + 1])
      BY <1>1, Starts
    <2>1. 0 \in S
      <3>1. P[0] = Parser("KEY", <<>>, <<>>, <<>>)
        BY ParsedIs DEF NoEntries
      <3>2. LinesEnd(f, 0) = 0 /\ 0 \in 0 .. N
        BY <1>1 DEF LinesEnd
      <3> HIDE DEF P, N
      <3> QED
        BY <2>0, <3>1, <3>2 DEF InKey
    <2>2. ASSUME NEW n \in 0 .. N - 1, n \in S
          PROVE  n + 1 \in S
      <3>1. n + 1 \in 1 .. N /\ n + 1 \in 0 .. N /\ n \in 0 .. N /\ (n + 1) - 1 = n
        BY <1>1
      <3>2. IsLine(text, LinesEnd(f, n), LinesEnd(f, n + 1), f.meta[n + 1])
        BY <1>6, <3>1
      <3>3. LinesEnd(f, n) \in Nat /\ LinesEnd(f, n + 1) \in Nat /\ f.meta[n + 1] \in Entry
        BY <1>2, <1>3, <3>1
      <3>4. InKey(P[LinesEnd(f, n)], <<>>, SubSeq(f.meta, 1, n))
        BY <2>2
      <3>5. InKey(P[LinesEnd(f, n + 1)], <<>>, Append(SubSeq(f.meta, 1, n), f.meta[n + 1]))
        BY <3>2, <3>3, <3>4, LineIsRead
      <3> HIDE DEF P, N
      <3> QED
        BY <2>0, <3>1, <3>5
    <2> HIDE DEF S, N
    <2>3. \A n \in 0 .. N : n \in S
      BY <1>1, <2>1, <2>2, UpTo
    <2> QED
      BY <2>3 DEF S
  <1>8. InKey(P[L], <<>>, f.meta)
    <2>1. SubSeq(f.meta, 1, N) = f.meta /\ N \in 0 .. N
      BY <1>1, Starts
    <2> HIDE DEF P
    <2> QED
      BY <1>7, <2>1
  <1> HIDE DEF P
  <1>9. P[L].entries = f.meta
    BY <1>8 DEF InKey, Parser
  <1> QED
    BY <1>9 DEF P, Metadata

-----------------------------------------------------------------------------
(* The steps.                                                              *)

LEMMA InitInv == Init => Inv
  <1> SUFFICES ASSUME Init PROVE Inv
    OBVIOUS
  <1>1. file \in Files /\ Word \in Nat \ {0}
    BY FileAssumption DEF Init
  <1>2. m_appData \in [to: Pointers, data: Seq(Chars)]
    BY DEF Init, Pointers
  <1>3. TypeOK
    <2>1. m_appDataLen \in 0 .. Word - 1 /\ buffers \in Nat
      BY <1>1 DEF Init
    <2>2. /\ m_open \in BOOLEAN /\ opened \in BOOLEAN
          /\ badDelete \in BOOLEAN /\ aborted \in BOOLEAN
      BY DEF Init
    <2> QED
      BY <1>1, <1>2, <2>1, <2>2 DEF TypeOK
  <1>4. OpenIsWhole /\ ReadsAreData /\ OneBuffer /\ Deletable /\ PointerIsOpen
    BY DEF Init, OpenIsWhole, ReadsAreData, OneBuffer, Deletable, PointerIsOpen
  <1> QED
    BY <1>3, <1>4 DEF Inv

LEMMA OpenInv == Inv /\ Open => Inv'
  <1> SUFFICES ASSUME Inv, Open PROVE Inv'
    OBVIOUS
  <1> USE DEF Inv
  <1>1. file \in Files /\ file' = file /\ ~m_open /\ buffers = 0 /\ ~badDelete
    BY DEF Open, TypeOK, OneBuffer
  <1>2. AppDataLen(file) \in 0 .. Word - 1
    <2> DEFINE a == file.sz - file.offset - CrcLen
    <2>1. a \in Int /\ Word \in Nat \ {0}
      BY <1>1, FileFacts DEF CrcLen
    <2>2. AppDataLen(file) = a % Word
      BY DEF AppDataLen
    <2> HIDE DEF a
    <2> QED
      BY <2>1, <2>2, ModulusRange
  <1>3. CASE Exit(file) = "none"
    <2> DEFINE data == Bytes(file, file.offset, file.offset + AppDataLen(file))
    <2>1. /\ HeaderLen <= file.offset
          /\ AppDataLen(file) = file.sz - file.offset - CrcLen
          /\ AppDataLen(file) \in Nat
          /\ file.sz <= FileLen(file)
          /\ file.crcAt = file.sz - CrcLen
      BY <1>1, <1>3, Unwraps
    <2>2. file.sz \in Int /\ file.offset \in Int /\ FileLen(file) \in Int
      BY <1>1, FileFacts
    <2>3. file.offset + AppDataLen(file) = file.sz - CrcLen
      BY <2>1, <2>2 DEF CrcLen
    <2>4. data \in Seq(Chars)
      BY <1>1, <2>1, <2>2, BytesOf DEF CrcLen
    <2>5. /\ m_open'
          /\ m_appDataLen' = AppDataLen(file)
          /\ m_appData' = [to |-> "buffer", data |-> data]
          /\ buffers' = 1 /\ ~badDelete' /\ badDelete' \in BOOLEAN
          /\ opened' \in BOOLEAN /\ m_open' \in BOOLEAN /\ aborted' \in BOOLEAN
          /\ result'.call = "open"
      <3>1. m_open' /\ m_open' \in BOOLEAN /\ opened' \in BOOLEAN
        BY <1>3 DEF Open
      <3>2. badDelete' = badDelete /\ aborted' = aborted
        BY DEF Open
      <3>3. result'.call = "open"
        BY DEF Open, Answers
      <3>4. m_appDataLen' = AppDataLen(file)
        BY <1>3 DEF Open, Allocates
      <3>5. m_appData' = [to |-> "buffer", data |-> data] /\ buffers' = 1
        BY <1>1, <1>3 DEF Open
      <3> QED
        BY <1>1, <3>1, <3>2, <3>3, <3>4, <3>5 DEF TypeOK
    <2>6. OpenIsWhole'
      <3>1. file.offset + CrcLen <= file.sz /\ m_appDataLen' = file.sz - CrcLen - file.offset
        BY <2>1, <2>2, <2>5 DEF CrcLen
      <3>2. m_appData' = [to |-> "buffer",
                          data |-> Bytes(file, file.offset, file.sz - CrcLen)]
        BY <2>3, <2>5
      <3> QED
        BY <1>1, <2>1, <3>1, <3>2 DEF OpenIsWhole, FileLen, Bytes
    <2> QED
      BY <1>1, <1>2, <2>4, <2>5, <2>6
      DEF TypeOK, Pointers, ReadsAreData, OneBuffer, Deletable, PointerIsOpen
  <1>4. CASE Exit(file) # "none"
    <2>1. ~m_open' /\ m_open' \in BOOLEAN /\ opened' \in BOOLEAN
      <3>1. m_open' = (Exit(file) = "none")
        BY DEF Open
      <3>2. opened' = (Exit(file) \in {"none", "offset"})
        BY DEF Open
      <3>3. ~m_open' /\ m_open' \in BOOLEAN
        BY <1>4, <3>1
      <3>4. opened' \in BOOLEAN
        BY <3>2
      <3> QED
        BY <3>3, <3>4
    <2>2. m_appDataLen' \in 0 .. Word - 1
      BY <1>1, <1>2, FileFacts DEF Open
    <2>3. m_appData' = [to |-> IF Allocates(file) THEN "deleted" ELSE "null", data |-> <<>>]
      BY <1>4 DEF Open
    <2>4. buffers' = 0 /\ badDelete' = badDelete /\ aborted' = aborted
      BY <1>1, <1>4 DEF Open
    <2>5. result'.call = "open"
      BY DEF Open, Answers
    <2>6. opened' => ~Allocates(file)
      BY <1>4 DEF Open, Allocates
    <2>7. m_appData' \in [to: {"deleted", "null"}, data: Seq(Chars)]
      BY <2>3
    <2>8. TypeOK'
      BY <1>1, <2>1, <2>2, <2>4, <2>7 DEF TypeOK, Pointers
    <2>9. Deletable' /\ PointerIsOpen'
      BY <2>1, <2>3, <2>6 DEF Deletable, PointerIsOpen
    <2> QED
      BY <1>1, <2>1, <2>4, <2>5, <2>8, <2>9 DEF OpenIsWhole, ReadsAreData, OneBuffer
  <1> QED
    BY <1>3, <1>4

LEMMA CloseInv == Inv /\ Close => Inv'
  <1> SUFFICES ASSUME Inv, Close PROVE Inv'
    OBVIOUS
  <1>1. m_appData.to \in {"null", "buffer"} /\ (m_open <=> m_appData.to = "buffer")
    BY DEF Inv, Close, MayClose, Deletable, PointerIsOpen
  <1>2. /\ file' = file /\ m_open' = FALSE /\ opened' = FALSE
        /\ m_appDataLen' = m_appDataLen /\ aborted' = aborted
        /\ result'.call = "close"
    BY DEF Close, Answers
  <1>3. ~badDelete' /\ badDelete' \in BOOLEAN
    BY <1>1 DEF Close, Inv, OneBuffer
  <1>4. buffers' = 0
    BY <1>1 DEF Close, Inv, OneBuffer
  <1>5. m_appData' \in [to: {"null", "deleted"}, data: Seq(Chars)]
    BY <1>1 DEF Close, Inv, TypeOK
  <1> QED
    BY <1>2, <1>3, <1>4, <1>5 DEF Inv, TypeOK, Pointers, OpenIsWhole, ReadsAreData, OneBuffer,
                      Deletable, PointerIsOpen

\* Calls that leave the object as it is disturb at most what was answered.
LEMMA AnswerInv ==
    ASSUME Inv, UNCHANGED <<file, objVars, opened, heapVars>>, ReadsAreData'
    PROVE  Inv'
  BY DEF Inv, TypeOK, OpenIsWhole, OneBuffer, Deletable, PointerIsOpen, objVars, heapVars,
         Bytes, FileLen

LEMMA GetAppDataInv ==
    ASSUME NEW r \in Reads, Inv, GetAppData(r[1], r[2])
    PROVE  Inv'
  <1> DEFINE offset == r[1]
             len == r[2]
             first == file.offset + offset
             end == first + len
  <1>1. offset \in Nat /\ len \in Nat /\ offset + len < Word
    BY ReadAssumption
  <1>2. /\ UNCHANGED <<file, objVars, opened, heapVars>>
        /\ result'.args = <<offset, len>>
    BY DEF GetAppData, Getter, Answers
  <1>3. file' = file /\ file \in Files
    BY <1>2 DEF Inv, TypeOK
  <1>4. /\ file.sz \in Int /\ file.offset \in Int /\ FileLen(file) \in Int
        /\ Word \in Nat \ {0}
    BY <1>3, FileFacts
  <1>5. CASE ~m_open
    BY <1>2, <1>5, AnswerInv DEF GetAppData, Getter, Answers, ReadsAreData
  <1>6. CASE m_open
    <2>1. /\ HeaderLen <= file.offset /\ file.offset + CrcLen <= file.sz
          /\ file.sz <= FileLen(file)
          /\ m_appDataLen = file.sz - CrcLen - file.offset
          /\ m_appData.data = Bytes(file, file.offset, file.sz - CrcLen)
      BY <1>6 DEF Inv, OpenIsWhole
    <2>2. InData(offset, len) <=> end <= file.sz - CrcLen
      <3>1. offset + len \in 0 .. Word - 1
        BY <1>1, <1>4
      <3>2. (offset + len) % Word = offset + len
        BY <3>1, <1>4, SmallModulus
      <3> QED
        BY <1>1, <1>4, <2>1, <3>2 DEF InData, CrcLen
    <2>3. CASE ~InData(offset, len)
      <3>1. result'.status = "SH2_ERR_BAD_PARAM"
        BY <1>6, <2>3 DEF GetAppData, Getter, Answers
      <3>2. end > file.sz - CrcLen
        BY <1>1, <1>4, <2>2, <2>3 DEF CrcLen
      <3> QED
        BY <1>2, <1>3, <3>1, <3>2, AnswerInv DEF ReadsAreData
    <2>4. CASE InData(offset, len)
      <3>1. result'.status = "SH2_OK" /\ result'.data = Copy(offset, len)
        BY <1>6, <2>4 DEF GetAppData, Getter, Answers
      <3>2. end <= file.sz - CrcLen
        BY <2>2, <2>4
      <3>3. Copy(offset, len) = Bytes(file, first, end)
        <4> DEFINE last == file.sz - CrcLen
        <4>0. /\ last \in Int /\ first \in Int /\ end \in Int
              /\ HeaderLen <= first /\ first <= end /\ end <= FileLen(file)
              /\ file.offset <= last /\ last <= FileLen(file)
          BY <1>1, <1>4, <2>1, <3>2 DEF CrcLen, HeaderLen
        <4>1. /\ Len(m_appData.data) = last - file.offset
              /\ m_appData.data = [i \in 1 .. last - file.offset |->
                                      file.body[file.offset - HeaderLen + i]]
          <5> HIDE DEF last
          <5>1. m_appData.data = Bytes(file, file.offset, last)
            BY <2>1 DEF last
          <5>2. /\ Len(Bytes(file, file.offset, last)) = last - file.offset
                /\ Bytes(file, file.offset, last) = [i \in 1 .. last - file.offset |->
                      file.body[file.offset - HeaderLen + i]]
            <6>1. /\ file.offset \in Int /\ HeaderLen <= file.offset
                  /\ file.offset <= last /\ last <= FileLen(file) /\ last \in Int
              BY <1>4, <2>1, <4>0
            <6> QED
              BY <1>3, <6>1, BytesOf
          <5> QED
            BY <5>1, <5>2
        <4>2. Bytes(file, first, end) = [i \in 1 .. end - first |->
                                           file.body[first - HeaderLen + i]]
          <5> HIDE DEF first, end
          <5> QED
            BY <1>3, <4>0, BytesOf
        <4>3. \A i \in 1 .. len :
                 /\ offset + i \in 1 .. last - file.offset
                 /\ offset + i <= last - file.offset
                 /\ file.offset - HeaderLen + (offset + i) = first - HeaderLen + i
          BY <1>1, <1>4, <3>2, <4>0 DEF HeaderLen
        <4>4. end - first = len
          BY <1>1, <1>4
        <4>5. \A i \in 1 .. len : m_appData.data[offset + i] = file.body[first - HeaderLen + i]
          BY <4>1, <4>3
        <4>6. Copy(offset, len) = [i \in 1 .. len |-> file.body[first - HeaderLen + i]]
          BY <4>1, <4>3, <4>5 DEF Copy
        <4> QED
          BY <4>2, <4>4, <4>6
      <3>4. Bytes(file, first, end)' = Bytes(file, first, end)
        BY <1>3 DEF Bytes
      <3> QED
        BY <1>2, <1>3, <3>1, <3>2, <3>3, <3>4, AnswerInv DEF ReadsAreData
    <2> QED
      BY <2>3, <2>4
  <1> QED
    BY <1>5, <1>6

LEMMA NextInv == Inv /\ [Next]_vars => Inv'
  <1> SUFFICES ASSUME Inv, [Next]_vars PROVE Inv'
    OBVIOUS
  <1>1. CASE Open
    BY <1>1, OpenInv
  <1>2. CASE OpenRefused
    BY <1>2, AnswerInv DEF OpenRefused, Answers, ReadsAreData
  <1>3. CASE OpenAborts
    BY <1>3 DEF OpenAborts, Inv, TypeOK, OpenIsWhole, ReadsAreData, OneBuffer, Deletable,
                PointerIsOpen, objVars, clientVars, Bytes, FileLen
  <1>4. CASE Close
    BY <1>4, CloseInv
  <1>5. ASSUME NEW key \in Keys, GetMeta(key) PROVE Inv'
    BY <1>5, AnswerInv DEF GetMeta, Getter, Answers, ReadsAreData
  <1>6. CASE GetAppLen \/ GetPacketLen
    BY <1>6, AnswerInv DEF GetAppLen, GetPacketLen, Getter, Answers, ReadsAreData
  <1>7. ASSUME NEW r \in Reads, GetAppData(r[1], r[2]) PROVE Inv'
    BY <1>7, GetAppDataInv
  <1>8. CASE UNCHANGED vars
    BY <1>8 DEF vars, Inv, TypeOK, OpenIsWhole, ReadsAreData, OneBuffer, Deletable,
                PointerIsOpen, objVars, clientVars, heapVars, Bytes, FileLen
  <1> QED
    BY <1>1, <1>2, <1>3, <1>4, <1>5, <1>6, <1>7, <1>8 DEF Next, Aborted

-----------------------------------------------------------------------------
(* The entries.                                                            *)

LEMMA OpenMeta == Inv /\ Open => MetaExact'
  <1> SUFFICES ASSUME Inv, Open, m_open',
                      file.offset = HeaderLen + LinesEnd(file, Len(file.meta))
               PROVE  MetaExact'
    BY DEF MetaExact, Open, LinesEnd
  <1>1. file' = file /\ file \in Files /\ result'.call = "open"
    BY DEF Open, Answers, Inv, TypeOK
  <1>2. Exit(file) = "none"
    BY DEF Open
  <1> DEFINE text == Bytes(file, HeaderLen, file.offset)
  <1>3. m_metadata' = Metadata(text)
    BY <1>2 DEF Open
  <1>4. /\ HeaderLen <= file.offset /\ file.offset <= FileLen(file)
        /\ HeaderLen \in Int /\ file.offset \in Int
    <2>1. /\ file.sz \in Int /\ file.offset \in Int /\ FileLen(file) \in Int
      BY <1>1, FileFacts
    <2> QED
      BY <1>1, <1>2, <2>1, Unwraps DEF CrcLen, HeaderLen
  <1>5. /\ text \in Seq(Chars)
        /\ Len(text) = file.offset - HeaderLen
        /\ text = [i \in 1 .. file.offset - HeaderLen |-> file.body[HeaderLen - HeaderLen + i]]
    BY <1>1, <1>4, BytesOf
  <1>6. Len(text) = LinesEnd(file, Len(file.meta))
    <2>1. LinesEnd(file, Len(file.meta)) \in Nat
      BY <1>1, FileAssumption DEF FileType, LinesEnd
    <2> QED
      BY <1>5, <2>1 DEF HeaderLen
  <1>7. \A i \in 1 .. Len(text) : text[i] = file.body[i]
    <2>1. \A i \in 1 .. Len(text) : HeaderLen - HeaderLen + i = i
      BY DEF HeaderLen
    <2> HIDE DEF text
    <2> QED
      BY <1>5, <2>1
  <1>8. m_metadata' = file.meta
    <2> HIDE DEF text
    <2> QED
      BY <1>1, <1>3, <1>5, <1>6, <1>7, TextIsRead
  <1> QED
    BY <1>1, <1>8 DEF MetaExact

LEMMA GetMetaMeta ==
    ASSUME MetaExact, NEW key \in Keys, GetMeta(key)
    PROVE  MetaExact'
  <1>1. /\ UNCHANGED <<file, m_open, m_metadata>>
        /\ result'.args = key
    BY DEF GetMeta, Getter, Answers, objVars
  <1> SUFFICES ASSUME m_open, file.offset = HeaderLen + LinesEnd(file, Len(file.meta))
               PROVE  MetaExact'
    BY <1>1 DEF MetaExact, LinesEnd
  <1>2. m_metadata = file.meta
    BY DEF MetaExact
  <1> DEFINE of == {i \in DOMAIN file.meta : file.meta[i].key = key}
  <1>3. Entries(key) = of
    BY <1>2 DEF Entries
  <1>4. CASE of = {}
    <2>1. result'.status = "NULL"
      BY <1>3, <1>4 DEF GetMeta, Getter, Answers
    <2> QED
      BY <1>1, <1>2, <1>4, <2>1 DEF MetaExact
  <1>5. CASE of # {}
    <2>1. \E i \in of : (\A j \in of : i <= j) /\ result'.data = file.meta[i].value
      BY <1>2, <1>3, <1>5 DEF GetMeta, Getter, Answers
    <2> QED
      BY <1>1, <1>2, <1>5, <2>1 DEF MetaExact
  <1> QED
    BY <1>4, <1>5

\* Calls that keep the entries and ask for none.
LEMMA OtherMeta ==
    ASSUME MetaExact, UNCHANGED <<file, m_open, m_metadata>>,
           result' = result \/ result'.call # "getMeta"
    PROVE  MetaExact'
  BY DEF MetaExact, LinesEnd

LEMMA NextMeta == Inv /\ MetaExact /\ [Next]_vars => MetaExact'
  <1> SUFFICES ASSUME Inv, MetaExact, [Next]_vars PROVE MetaExact'
    OBVIOUS
  <1>1. CASE Open
    BY <1>1, OpenMeta
  <1>2. CASE OpenRefused
    BY <1>2, OtherMeta DEF OpenRefused, Answers, objVars
  <1>3. CASE OpenAborts
    BY <1>3, OtherMeta DEF OpenAborts, objVars, clientVars
  <1>4. CASE Close
    BY <1>4 DEF Close, MetaExact
  <1>5. ASSUME NEW key \in Keys, GetMeta(key) PROVE MetaExact'
    BY <1>5, GetMetaMeta
  <1>6. CASE GetAppLen \/ GetPacketLen
    BY <1>6, OtherMeta DEF GetAppLen, GetPacketLen, Getter, Answers, objVars
  <1>7. ASSUME NEW r \in Reads, GetAppData(r[1], r[2]) PROVE MetaExact'
    BY <1>7, OtherMeta DEF GetAppData, Getter, Answers, objVars
  <1>8. CASE UNCHANGED vars
    BY <1>8, OtherMeta DEF vars, objVars, clientVars
  <1> QED
    BY <1>1, <1>2, <1>3, <1>4, <1>5, <1>6, <1>7, <1>8 DEF Next, Aborted

-----------------------------------------------------------------------------
(* The theorems.                                                           *)

\* The invariant of the reader, whatever is called in whatever order.
THEOREM InvariantHolds == Spec => []Inv
  <1> QED
    BY InitInv, NextInv, PTL DEF Spec

\* Every state of the reader is well typed (class HcBinFile).
THEOREM TypeCorrect == Spec => []TypeOK
  <1>1. Inv => TypeOK
    BY DEF Inv
  <1> QED
    BY <1>1, InvariantHolds, PTL

\* No file makes open() take wrapped numbers or a wrong CRC for good (HcBinFile.cpp:152).
THEOREM OpenFilesAreWhole == Spec => []OpenIsWhole
  <1>1. Inv => OpenIsWhole
    BY DEF Inv
  <1> QED
    BY <1>1, InvariantHolds, PTL

\* getAppData answers with the application's bytes, and refuses no others
\* (HcBinFile.cpp:249), as long as the sum of its arguments does not wrap.
THEOREM ReadsAreExact == Spec => []ReadsAreData
  <1>1. Inv => ReadsAreData
    BY DEF Inv
  <1> QED
    BY <1>1, InvariantHolds, PTL

\* With clients that close what open() said is open, and once, buffers are deleted
\* exactly once, although close() keeps the pointer (HcBinFile.cpp:197).
THEOREM BuffersAreDeletedOnce == Spec => []OneBuffer
  <1>1. Inv => OneBuffer
    BY DEF Inv
  <1> QED
    BY <1>1, InvariantHolds, PTL

\* While the reader is open it holds one buffer, with the application of a whole
\* file, and none else (HcBinFile::open, close).
THEOREM OpenReadersHoldTheirFile == Spec => []OpenHoldsFile
  <1>1. OpenIsWhole /\ OneBuffer => OpenHoldsFile
    BY DEF OpenHoldsFile
  <1> QED
    BY <1>1, OpenFilesAreWhole, BuffersAreDeletedOnce, PTL

\* The text lines of a file that is open are the entries they were made from, however
\* many there are and whatever colons and blanks their values hold, and getMeta answers
\* with the first of a key (HcBinFile.cpp:212, 282).
THEOREM TextIsExact == Spec => []MetaExact
  <1>1. Init => MetaExact
    BY DEF Init, MetaExact
  <1> QED
    BY <1>1, NextMeta, InvariantHolds, PTL DEF Spec
=============================================================================
